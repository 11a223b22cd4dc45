--------------------------- MODULE MCFloodControl ---------------------------
(* Instances of FloodControl for model checking.                            *)
EXTENDS FloodControl

CONSTANTS t1, t2, ip1, ip2

Symmetry == Permutations(Threads) \cup Permutations(IPs)
=============================================================================
