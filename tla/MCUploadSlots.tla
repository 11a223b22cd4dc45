--------------------------- MODULE MCUploadSlots ---------------------------
(* An instance of UploadSlots for model checking.                             *)
EXTENDS UploadSlots

CONSTANTS u1, u2, c1, c2, c3

\* The first user has two connections.
TwoOfOne == c1 :> u1 @@ c2 :> u2 @@ c3 :> u1

\* All users are behind one address.
OneAddress == [c \in Conns |-> "10.0.0.1"]
=============================================================================
