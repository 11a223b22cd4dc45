----------------------------- MODULE MCThrottle -----------------------------
(* An instance of Throttle for model checking.                              *)
EXTENDS Throttle, TLC

CONSTANTS c1, c2

Symmetry == Permutations(Sockets)
=============================================================================
