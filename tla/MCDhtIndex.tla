----------------------------- MODULE MCDhtIndex -----------------------------
(* Instances of DhtIndex for model checking.                                *)
EXTENDS DhtIndex

CONSTANTS n1, n2, n3, f1, f2

Symmetry == Permutations(CIDs) \cup Permutations(TTHs)
=============================================================================
