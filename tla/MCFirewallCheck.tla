--------------------------- MODULE MCFirewallCheck ---------------------------
(* An instance of FirewallCheck for model checking.                         *)
EXTENDS FirewallCheck

CONSTANTS n1, n2, l1
=============================================================================
