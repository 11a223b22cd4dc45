----------------------------- MODULE ListsProofs -----------------------------
(***************************************************************************)
(* Lemmas about lists that the proofs of several modules need: what        *)
(* Without leaves of a list (the members not in S, in their order), the    *)
(* least of a set of positions, and a list without one of its positions.   *)
(***************************************************************************)
EXTENDS Lists, FiniteSetTheorems, FunctionTheorems, SequenceTheorems, WellFoundedInduction, TLAPS

-----------------------------------------------------------------------------
\* A finite set of positions has exactly one n-th, and they are in order.
LEMMA NthIsIn ==
    ASSUME NEW m \in Nat, NEW I \in SUBSET (1..m)
    PROVE  /\ IsFiniteSet(I) /\ Cardinality(I) \in 0..m
           /\ \A n \in 1..Cardinality(I) : Nth(I, n) \in I
           /\ \A i \in I : \E n \in 1..Cardinality(I) : Nth(I, n) = i
           /\ \A n, k \in 1..Cardinality(I) : n < k => Nth(I, n) < Nth(I, k)
<1> DEFINE upTo(i) == {j \in I : j <= i}
           rank == [i \in I |-> Cardinality(upTo(i))]
<1>1. IsFiniteSet(I) /\ Cardinality(I) \in 0..m
  <2>1. IsFiniteSet(1..m) /\ Cardinality(1..m) = m
    BY FS_Interval
  <2>2. IsFiniteSet(I) /\ Cardinality(I) <= m
    BY <2>1, FS_Subset
  <2>3. Cardinality(I) \in Nat
    BY <2>2, FS_CardinalityType
  <2> QED
    BY <2>2, <2>3
<1>2. \A i \in I : IsFiniteSet(upTo(i)) /\ Cardinality(upTo(i)) \in 1..Cardinality(I)
  <2> SUFFICES ASSUME NEW i \in I
               PROVE  IsFiniteSet(upTo(i)) /\ Cardinality(upTo(i)) \in 1..Cardinality(I)
    OBVIOUS
  <2>1. upTo(i) \in SUBSET I /\ i \in upTo(i)
    OBVIOUS
  <2> HIDE DEF upTo
  <2>2. /\ IsFiniteSet(upTo(i)) /\ Cardinality(upTo(i)) \in Nat
        /\ Cardinality(upTo(i)) <= Cardinality(I) /\ Cardinality(upTo(i)) # 0
    BY <1>1, <2>1, FS_Subset, FS_CardinalityType, FS_EmptySet
  <2> QED
    BY <1>1, <2>2
<1>3. \A i, k \in I : i < k => Cardinality(upTo(i)) < Cardinality(upTo(k))
  <2> SUFFICES ASSUME NEW i \in I, NEW k \in I, i < k
               PROVE  Cardinality(upTo(i)) < Cardinality(upTo(k))
    OBVIOUS
  <2>1. upTo(i) \in SUBSET upTo(k) /\ upTo(i) # upTo(k)
    <3>1. k \in upTo(k) /\ k \notin upTo(i)
      OBVIOUS
    <3>2. \A j \in upTo(i) : j \in upTo(k)
      OBVIOUS
    <3> HIDE DEF upTo
    <3> QED
      BY <3>1, <3>2
  <2> HIDE DEF upTo
  <2>2. Cardinality(upTo(i)) <= Cardinality(upTo(k)) /\ Cardinality(upTo(i)) # Cardinality(upTo(k))
    BY <1>2, <2>1, FS_Subset
  <2> QED
    BY <1>2, <2>2
<1> HIDE DEF upTo
<1>4. rank \in [I -> 1..Cardinality(I)] /\ \A i, k \in I : i < k => rank[i] < rank[k]
  BY <1>2, <1>3
<1>5. rank \in Injection(I, 1..Cardinality(I))
  <2>1. \A i, k \in I : rank[i] = rank[k] => i = k
    <3> SUFFICES ASSUME NEW i \in I, NEW k \in I, rank[i] = rank[k] PROVE i = k
      OBVIOUS
    <3>1. i \in Nat /\ k \in Nat /\ rank[i] \in Nat
      BY <1>1, <1>4
    <3>2. ~(i < k) /\ ~(k < i)
      BY <1>4, <3>1
    <3> QED
      BY <3>1, <3>2
  <2> HIDE DEF rank
  <2> QED
    BY <1>4, <2>1, Fun_IsInj
<1>6. rank \in Surjection(I, 1..Cardinality(I))
  <2>1. IsFiniteSet(1..Cardinality(I)) /\ Cardinality(1..Cardinality(I)) = Cardinality(I)
    BY <1>1, FS_Interval
  <2> HIDE DEF rank
  <2> QED
    BY <1>5, <2>1, FS_Injection
<1>7. \A n \in 1..Cardinality(I) : \E i \in I : rank[i] = n
  BY <1>6, Fun_IsSurj DEF Surjection
<1>8. \A n \in 1..Cardinality(I) : Nth(I, n) \in I /\ rank[Nth(I, n)] = n
  BY <1>7 DEF Nth, upTo
<1> HIDE DEF rank
<1>9. ASSUME NEW i \in I
      PROVE  Nth(I, rank[i]) = i /\ rank[i] \in 1..Cardinality(I)
  <2>1. rank[i] \in 1..Cardinality(I)
    BY <1>4
  <2>2. \A a, b \in I : rank[a] = rank[b] => a = b
    BY <1>5, Fun_InjectionProperties
  <2> QED
    BY <1>8, <2>1, <2>2
<1>10. ASSUME NEW n \in 1..Cardinality(I), NEW k \in 1..Cardinality(I), n < k
       PROVE  Nth(I, n) < Nth(I, k)
  <2>1. /\ Nth(I, n) \in I /\ Nth(I, k) \in I
        /\ rank[Nth(I, n)] = n /\ rank[Nth(I, k)] = k
    BY <1>8
  <2>2. \A a, b \in I : a \in Nat /\ b \in Nat /\ rank[a] < rank[b] => a < b
    <3> SUFFICES ASSUME NEW a \in I, NEW b \in I, a \in Nat, b \in Nat, rank[a] < rank[b]
                 PROVE  a < b
      OBVIOUS
    <3>1. rank[a] \in Nat /\ rank[b] \in Nat
      BY <1>1, <1>4
    <3>2. a # b /\ ~(b < a)
      BY <1>4, <3>1
    <3> QED
      BY <3>2
  <2>3. \A i \in I : i \in Nat
    OBVIOUS
  <2> QED
    BY <1>10, <2>1, <2>2, <2>3
<1> QED
  BY <1>1, <1>8, <1>9, <1>10

\* What is left of a list: its members, their number, and that none is doubled.
LEMMA WithoutProps ==
    ASSUME NEW U, NEW s \in Seq(U), NEW S
    PROVE  /\ Without(s, S) \in Seq(U)
           /\ Len(Without(s, S)) <= Len(s)
           /\ ToSet(Without(s, S)) = ToSet(s) \ S
           /\ IsInjective(s) => IsInjective(Without(s, S))
           /\ \E f \in [1..Len(Without(s, S)) -> 1..Len(s)] :
                 /\ \A n \in 1..Len(Without(s, S)) : Without(s, S)[n] = s[f[n]]
                 /\ \A n, k \in 1..Len(Without(s, S)) : n < k => f[n] < f[k]
<1> DEFINE kept == {i \in DOMAIN s : s[i] \notin S}
           w == Without(s, S)
           at == [n \in 1..Cardinality(kept) |-> Nth(kept, n)]
<1>1. DOMAIN s = 1..Len(s) /\ Len(s) \in Nat /\ kept \in SUBSET (1..Len(s))
  OBVIOUS
<1>2. w = [n \in 1..Cardinality(kept) |-> s[Nth(kept, n)]]
  BY DEF Without
<1> HIDE DEF kept, w
<1>3. /\ Cardinality(kept) \in 0..Len(s)
      /\ \A n \in 1..Cardinality(kept) : Nth(kept, n) \in kept
      /\ \A i \in kept : \E n \in 1..Cardinality(kept) : Nth(kept, n) = i
      /\ \A n, k \in 1..Cardinality(kept) : n < k => Nth(kept, n) < Nth(kept, k)
  BY <1>1, NthIsIn
<1>4. \A i \in kept : i \in 1..Len(s) /\ s[i] \notin S /\ s[i] \in U
  BY <1>1 DEF kept
<1>5. w \in Seq(U) /\ Len(w) = Cardinality(kept) /\ DOMAIN w = 1..Cardinality(kept)
  BY <1>2, <1>3, <1>4
<1>6. \A n \in 1..Cardinality(kept) : at[n] \in kept /\ w[n] = s[at[n]]
  BY <1>2, <1>3
<1>7. at \in [1..Len(w) -> 1..Len(s)] /\ \A n, k \in 1..Len(w) : n < k => at[n] < at[k]
  BY <1>3, <1>4, <1>5
<1>8. \A i \in kept : \E n \in 1..Len(w) : at[n] = i
  BY <1>3, <1>5
<1> HIDE DEF at
<1>9. ToSet(w) = ToSet(s) \ S
  <2>1. ASSUME NEW x \in ToSet(w) PROVE x \in ToSet(s) /\ x \notin S
    BY ZenonT(60), <1>1, <1>4, <1>5, <1>6 DEF ToSet
  <2>2. ASSUME NEW x \in ToSet(s), x \notin S PROVE x \in ToSet(w)
    <3>1. PICK i \in kept : s[i] = x
      BY <2>2 DEF ToSet, kept
    <3>2. PICK n \in 1..Len(w) : at[n] = i
      BY <1>8
    <3> QED
      BY <1>5, <1>6, <3>1, <3>2 DEF ToSet
  <2> QED
    BY <2>1, <2>2
<1>10. ASSUME IsInjective(s) PROVE IsInjective(w)
  <2> SUFFICES ASSUME NEW n \in 1..Len(w), NEW k \in 1..Len(w), w[n] = w[k] PROVE n = k
    BY <1>5 DEF IsInjective
  <2>1. at[n] = at[k]
    <3>1. n \in 1..Cardinality(kept) /\ k \in 1..Cardinality(kept)
      BY <1>5
    <3>2. at[n] \in DOMAIN s /\ at[k] \in DOMAIN s /\ s[at[n]] = s[at[k]]
      BY <1>1, <1>6, <3>1
    <3> QED
      BY <1>10, <3>2 DEF IsInjective
  <2>2. at[n] \in Nat /\ n \in Nat /\ k \in Nat /\ ~(n < k) /\ ~(k < n)
    BY <1>1, <1>5, <1>7, <2>1
  <2> QED
    BY <2>2
<1>11. Len(w) <= Len(s) /\ \A n \in 1..Len(w) : w[n] = s[at[n]]
  BY <1>1, <1>3, <1>5, <1>6
<1>12. \E f \in [1..Len(w) -> 1..Len(s)] :
          /\ \A n \in 1..Len(w) : w[n] = s[f[n]]
          /\ \A n, k \in 1..Len(w) : n < k => f[n] < f[k]
  BY <1>7, <1>11
<1> QED
  BY <1>5, <1>9, <1>10, <1>11, <1>12 DEF w

-----------------------------------------------------------------------------
\* A set of natural numbers that is not empty has a least member.
LEMMA MinIsLeast ==
  ASSUME NEW S \in SUBSET Nat, S # {}
  PROVE  Min(S) \in S /\ \A y \in S : Min(S) <= y
<1> DEFINE less == OpToRel(<, Nat)
<1>1. \A x, y \in Nat : y < x => <<y, x>> \in less
  BY Zenon DEF OpToRel
<1>2. IsWellFoundedOn(less, Nat)
  BY NatLessThanWellFounded
<1> HIDE DEF less
<1>3. PICK x \in S : \A y \in S : <<y, x>> \notin less
  BY <1>2, WFMin
<1>4. ASSUME NEW y \in S PROVE x <= y
  <2>1. x \in Nat /\ y \in Nat
    OBVIOUS
  <2>2. ~(y < x)
    BY <1>1, <1>3, <2>1
  <2> QED BY <2>1, <2>2
<1> QED BY <1>4 DEF Min

\* A list without one of its members.
LEMMA RemoveAtProps ==
  ASSUME NEW U, NEW s \in Seq(U), NEW i \in 1..Len(s)
  PROVE  /\ RemoveAt(s, i) \in Seq(U)
         /\ Len(RemoveAt(s, i)) = Len(s) - 1
         /\ \A j \in 1..(Len(s) - 1) : RemoveAt(s, i)[j] = IF j < i THEN s[j] ELSE s[j + 1]
<1>1. /\ SubSeq(s, 1, i - 1) \in Seq(U)
      /\ Len(SubSeq(s, 1, i - 1)) = i - 1
      /\ \A j \in 1..(i - 1) : SubSeq(s, 1, i - 1)[j] = s[j]
  OBVIOUS
<1>2. /\ SubSeq(s, i + 1, Len(s)) \in Seq(U)
      /\ Len(SubSeq(s, i + 1, Len(s))) = Len(s) - i
      /\ \A j \in 1..(Len(s) - i) : SubSeq(s, i + 1, Len(s))[j] = s[i + j]
  OBVIOUS
<1>3. RemoveAt(s, i) = SubSeq(s, 1, i - 1) \o SubSeq(s, i + 1, Len(s))
  BY DEF RemoveAt
<1> DEFINE front == SubSeq(s, 1, i - 1)
           back == SubSeq(s, i + 1, Len(s))
<1>4. /\ front \in Seq(U) /\ Len(front) = i - 1
      /\ \A j \in 1..(i - 1) : front[j] = s[j]
      /\ back \in Seq(U) /\ Len(back) = Len(s) - i
      /\ \A j \in 1..(Len(s) - i) : back[j] = s[i + j]
  BY <1>1, <1>2
<1>5. RemoveAt(s, i) = front \o back
  BY <1>3
<1> HIDE DEF front, back
<1>6. /\ front \o back \in Seq(U)
      /\ Len(front \o back) = Len(s) - 1
      /\ \A j \in 1..(Len(s) - 1) :
            (front \o back)[j] = IF j <= i - 1 THEN front[j] ELSE back[j - (i - 1)]
  <2>1. /\ front \o back \in Seq(U)
        /\ Len(front \o back) = Len(front) + Len(back)
        /\ \A j \in 1..(Len(front) + Len(back)) :
              (front \o back)[j] = IF j <= Len(front) THEN front[j] ELSE back[j - Len(front)]
    BY <1>4, ConcatProperties
  <2>2. Len(front) = i - 1 /\ Len(front) + Len(back) = Len(s) - 1
    BY <1>4
  <2> QED BY <2>1, <2>2
<1>7. ASSUME NEW j \in 1..(Len(s) - 1)
      PROVE  (front \o back)[j] = IF j < i THEN s[j] ELSE s[j + 1]
  <2>1. CASE j <= i - 1
    BY <1>4, <1>6, <2>1
  <2>2. CASE ~(j <= i - 1)
    <3>1. j - (i - 1) \in 1..(Len(s) - i) /\ i + (j - (i - 1)) = j + 1
      BY <2>2
    <3>2. back[j - (i - 1)] = s[j + 1]
      BY <1>4, <3>1
    <3> QED BY SMTT(30), <1>6, <2>2, <3>2
  <2> QED BY <2>1, <2>2
<1> QED BY <1>5, <1>6, <1>7

===============================================================================
