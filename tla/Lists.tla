-------------------------------- MODULE Lists --------------------------------
(***************************************************************************)
(* What the loops of the program that erase from a std::list while they    *)
(* walk it leave of it.  The provers know no definition of SelectSeq, so   *)
(* this one counts positions, and says without recursion which are left.   *)
(***************************************************************************)
EXTENDS Integers, FiniteSets, SequencesExt

\* The position in I that has n positions of I up to it.
Nth(I, n) == CHOOSE i \in I : Cardinality({j \in I : j <= i}) = n

\* The list s without the members of S; the others keep their order.
Without(s, S) ==
    LET kept == {i \in DOMAIN s : s[i] \notin S}
    IN  [n \in 1..Cardinality(kept) |-> s[Nth(kept, n)]]

===============================================================================
