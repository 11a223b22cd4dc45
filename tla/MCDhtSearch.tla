----------------------------- MODULE MCDhtSearch -----------------------------
(* Instances of DhtSearch for model checking: identifiers are small numbers *)
(* and their distance is their XOR, as Utils::getDistance computes it.      *)
EXTENDS DhtSearch, Bitwise, TLC

CONSTANTS u1, k1, k2, k3

TokenSymmetry == Permutations({k1, k2, k3})

XorDistance == [c \in Nodes |-> [term \in Terms |-> c ^^ term]]
=============================================================================
