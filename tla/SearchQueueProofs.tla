-------------------------- MODULE SearchQueueProofs --------------------------
(***************************************************************************)
(* Proofs about SearchQueue, for any windows, queries and interval: the    *)
(* types, that what is wanted is queued once, that a window has one search *)
(* and is told the wait for it, and that no search of a user moves back.   *)
(***************************************************************************)
EXTENDS SearchQueue, FiniteSetTheorems, SequenceTheorems, WellFoundedInduction, TLAPS

\* Two entries of a queue never search for the same thing.
Distinct(q) == \A i, j \in 1..Len(q) : q[i].query = q[j].query => i = j

\* Nobody but the download queue waits for an automatic search.
AutoIsNull(q) == \A i \in 1..Len(q) : q[i].auto => q[i].owners = {NULL}

\* Automatic searches come last.
AutoLast(q) == \A i, j \in 1..Len(q) : i < j /\ q[i].auto => q[j].auto

QueueOK(q) == q \in Seq(Search) /\ Distinct(q) /\ AutoIsNull(q) /\ AutoLast(q)

\* A search of o for a thing is in a queue.
Has(q, o, query) == \E i \in 1..Len(q) : q[i].query = query /\ o \in q[i].owners

\* What is wanted is what is in the queue.
WantedIsThere == \A o \in Owners, query \in Queries : <<o, query>> \in wanted <=> Has(searchQueue, o, query)

\* A window wants one thing, and nothing once it has cancelled.
OneWish == \A o \in Frames, x, y \in Queries : <<o, x>> \in wanted /\ <<o, y>> \in wanted => x = y /\ o \notin cancelled

\* One owner at a time waits for an answer.
OneAsks == \A s, t \in asking : s = t

\* The strengthening.
IInv == TypeOK /\ QueueOK(searchQueue) /\ WantedIsThere /\ OneWish /\ OneAsks

-----------------------------------------------------------------------------
(***************************************************************************)
(* Lemmas about the first entry that fits                                  *)
(***************************************************************************)

LEMMA LeastMember ==
    ASSUME NEW S \in SUBSET Nat, S # {}
    PROVE  Min(S) \in S /\ \A y \in S : Min(S) <= y
<1> DEFINE below == OpToRel(<, Nat)
<1>1. \A x, y \in Nat : y < x => <<y, x>> \in below
  BY Zenon DEF OpToRel
<1>2. IsWellFoundedOn(below, Nat)
  BY NatLessThanWellFounded
<1> HIDE DEF below
<1>3. PICK x \in S : \A y \in S : <<y, x>> \notin below
  BY <1>2, WFMin
<1>4. \A y \in S : ~(y < x)
  BY <1>1, <1>3
<1>5. \A y \in S : x <= y
  BY <1>4
<1> QED
  BY <1>5 DEF Min

\* The first search of an owner.
LEMMA FirstIsFirst ==
    ASSUME NEW o, searchQueue \in Seq(Search)
    PROVE  /\ First(o) \in 0..Len(searchQueue)
           /\ First(o) = 0 => \A i \in 1..Len(searchQueue) : o \notin searchQueue[i].owners
           /\ First(o) # 0 => o \in searchQueue[First(o)].owners
<1> DEFINE I == {i \in 1..Len(searchQueue) : o \in searchQueue[i].owners}
<1>1. First(o) = IF I # {} THEN Min(I) ELSE 0
  BY DEF First, SelectInSeq
<1>2. I \in SUBSET Nat /\ I \subseteq 1..Len(searchQueue) /\ Len(searchQueue) \in Nat
  OBVIOUS
<1>3. I # {} => Min(I) \in I
  BY <1>2, LeastMember
<1> QED
  BY <1>1, <1>2, <1>3

\* The entry that searches for the same thing.
Same(query) == SelectInSeq(searchQueue, LAMBDA e : e.query = query)

LEMMA SameIsSame ==
    ASSUME NEW query, searchQueue \in Seq(Search)
    PROVE  /\ Same(query) \in 0..Len(searchQueue)
           /\ Same(query) = 0 => \A i \in 1..Len(searchQueue) : searchQueue[i].query # query
           /\ Same(query) # 0 => searchQueue[Same(query)].query = query
<1> DEFINE I == {i \in 1..Len(searchQueue) : searchQueue[i].query = query}
<1>1. Same(query) = IF I # {} THEN Min(I) ELSE 0
  BY DEF Same, SelectInSeq
<1>2. I \in SUBSET Nat /\ I \subseteq 1..Len(searchQueue) /\ Len(searchQueue) \in Nat
  OBVIOUS
<1>3. I # {} => Min(I) \in I
  BY <1>2, LeastMember
<1> QED
  BY <1>1, <1>2, <1>3

\* What an entry is made of.
LEMMA EntryParts ==
    ASSUME NEW e \in Search
    PROVE  e.query \in Queries /\ e.auto \in BOOLEAN /\ e.owners \subseteq Owners \cup {NULL} /\ e.owners # {}
<1> DEFINE T == (SUBSET (Owners \cup {NULL})) \ {{}}
<1>1. \A O \in T : O \subseteq Owners \cup {NULL} /\ O # {}
  OBVIOUS
<1>2. Search = [query : Queries, auto : BOOLEAN, owners : T]
  BY DEF Search
<1> HIDE DEF T
<1> QED
  BY <1>1, <1>2

LEMMA EntryMade ==
    ASSUME NEW query \in Queries, NEW auto \in BOOLEAN, NEW O, O \subseteq Owners \cup {NULL}, O # {}
    PROVE  [query |-> query, auto |-> auto, owners |-> O] \in Search
<1> DEFINE T == (SUBSET (Owners \cup {NULL})) \ {{}}
<1>1. O \in T
  OBVIOUS
<1>2. Search = [query : Queries, auto : BOOLEAN, owners : T]
  BY DEF Search
<1> HIDE DEF T
<1> QED
  BY <1>1, <1>2

LEMMA EntryShared ==
    ASSUME NEW e \in Search, NEW O, O \subseteq Owners \cup {NULL}, O # {}
    PROVE  LET f == [e EXCEPT !.owners = O]
           IN  f \in Search /\ f.query = e.query /\ f.auto = e.auto /\ f.owners = O
<1> DEFINE T == (SUBSET (Owners \cup {NULL})) \ {{}}
<1>1. O \in T
  OBVIOUS
<1>2. Search = [query : Queries, auto : BOOLEAN, owners : T]
  BY DEF Search
<1> HIDE DEF T
<1> QED
  BY <1>1, <1>2

\* The first automatic search.
LEMMA AutoIsFirst ==
    ASSUME NEW q \in Seq(Search)
    PROVE  LET p == SelectInSeq(q, LAMBDA e : e.auto)
           IN  /\ p \in 0..Len(q)
               /\ p = 0 => \A i \in 1..Len(q) : ~q[i].auto
               /\ p # 0 => q[p].auto /\ \A i \in 1..(p - 1) : ~q[i].auto
<1> DEFINE p == SelectInSeq(q, LAMBDA e : e.auto)
           I == {i \in 1..Len(q) : q[i].auto}
<1>1. p = IF I # {} THEN Min(I) ELSE 0
  BY DEF SelectInSeq
<1>2. I \in SUBSET Nat /\ I \subseteq 1..Len(q) /\ Len(q) \in Nat
  OBVIOUS
<1>3. I # {} => Min(I) \in I /\ \A i \in I : Min(I) <= i
  BY <1>2, LeastMember
<1> HIDE DEF p
<1>4. p # 0 => q[p].auto /\ \A i \in 1..(p - 1) : ~q[i].auto
  <2> SUFFICES ASSUME p # 0 PROVE q[p].auto /\ \A i \in 1..(p - 1) : ~q[i].auto
    OBVIOUS
  <2>1. p \in I /\ p \in 1..Len(q) /\ \A i \in I : p <= i
    BY <1>1, <1>2, <1>3
  <2>2. \A i \in 1..(p - 1) : i \notin I /\ i \in 1..Len(q)
    BY <1>2, <2>1
  <2> QED
    BY <2>1, <2>2
<1>5. p \in 0..Len(q) /\ (p = 0 => \A i \in 1..Len(q) : ~q[i].auto)
  BY <1>1, <1>2, <1>3
<1> QED
  BY <1>4, <1>5 DEF p

-----------------------------------------------------------------------------
(***************************************************************************)
(* Lemmas about queues that lose, gain or change one entry                 *)
(***************************************************************************)

\* r is q without its entry i.
Lost(q, r, i) ==
    /\ r \in Seq(Search) /\ Len(r) = Len(q) - 1
    /\ \A j \in 1..Len(r) : r[j] = q[IF j < i THEN j ELSE j + 1]

\* r is q with e as entry p.
Gained(q, r, p, e) ==
    /\ r \in Seq(Search) /\ Len(r) = Len(q) + 1
    /\ \A j \in 1..Len(r) : r[j] = IF j < p THEN q[j] ELSE IF j = p THEN e ELSE q[j - 1]

LEMMA RemoveAtLoses ==
    ASSUME NEW q \in Seq(Search), NEW i \in 1..Len(q)
    PROVE  Lost(q, RemoveAt(q, i), i)
<1> DEFINE a == SubSeq(q, 1, i - 1)
           b == SubSeq(q, i + 1, Len(q))
<1>1. a \in Seq(Search) /\ Len(a) = i - 1 /\ \A j \in 1..Len(a) : a[j] = q[j]
  OBVIOUS
<1>2. b \in Seq(Search) /\ Len(b) = Len(q) - i /\ \A j \in 1..Len(b) : b[j] = q[j + i]
  OBVIOUS
<1>3. RemoveAt(q, i) = a \o b
  BY DEF RemoveAt
<1> HIDE DEF a, b
<1>4. a \o b \in Seq(Search) /\ Len(a \o b) = Len(q) - 1
  <2>1. Len(a \o b) = Len(a) + Len(b) /\ a \o b \in Seq(Search)
    BY <1>1, <1>2, ConcatProperties
  <2> QED
    BY <1>1, <1>2, <2>1
<1>5. ASSUME NEW j \in 1..Len(a \o b) PROVE (a \o b)[j] = q[IF j < i THEN j ELSE j + 1]
  <2>1. CASE j < i
    BY <1>1, <1>2, <1>4, <2>1
  <2>2. CASE j >= i
    <3>1. (a \o b)[j] = b[j - (i - 1)] /\ j - (i - 1) \in 1..Len(b)
      BY <1>1, <1>2, <1>4, <2>2
    <3>2. (j - (i - 1)) + i = j + 1
      BY <1>4
    <3> QED
      BY <1>2, <2>2, <3>1, <3>2
  <2> QED
    BY <1>4, <2>1, <2>2
<1> QED
  BY <1>3, <1>4, <1>5 DEF Lost

LEMMA TailLoses ==
    ASSUME NEW q \in Seq(Search), q # <<>>
    PROVE  Lost(q, Tail(q), 1) /\ 1 \in 1..Len(q)
  BY DEF Lost

LEMMA InsertAtGains ==
    ASSUME NEW q \in Seq(Search), NEW p \in 1..Len(q), NEW e \in Search
    PROVE  Gained(q, InsertAt(q, p, e), p, e)
  BY DEF Gained, InsertAt

LEMMA AppendGains ==
    ASSUME NEW q \in Seq(Search), NEW e \in Search
    PROVE  Gained(q, Append(q, e), Len(q) + 1, e)
  BY DEF Gained

\* Every entry of r is one of q, not nearer to the front.
Moved(q, r) == \A k \in 1..Len(r) : \E m \in 1..Len(q) : k <= m /\ r[k] = q[m]

LEMMA LosingKeeps ==
    ASSUME NEW q, QueueOK(q), NEW r, NEW i \in 1..Len(q), Lost(q, r, i)
    PROVE  /\ QueueOK(r)
           /\ Moved(q, r)
           /\ \A o, x : Has(r, o, x) <=> Has(q, o, x) /\ x # q[i].query
           /\ \A j \in 1..Len(r) : r[j].query # q[i].query
<1> DEFINE old(j) == IF j < i THEN j ELSE j + 1
<1>1. q \in Seq(Search) /\ Len(q) \in Nat /\ r \in Seq(Search) /\ Len(r) = Len(q) - 1
  BY DEF QueueOK, Lost
<1>2. \A j \in 1..Len(r) : r[j] = q[old(j)]
  BY DEF Lost
<1>3. \A j \in 1..Len(r) : old(j) \in 1..Len(q) /\ old(j) # i /\ j <= old(j)
  BY <1>1
<1>4. \A j, k \in 1..Len(r) : (old(j) = old(k) => j = k) /\ (j < k => old(j) < old(k))
  BY <1>1
<1>5. \A m \in 1..Len(q) : m # i => \E j \in 1..Len(r) : old(j) = m
  <2> TAKE m \in 1..Len(q)
  <2>1. CASE m < i
    BY <1>1, <2>1
  <2>2. CASE m > i
    <3>1. m - 1 \in 1..Len(r) /\ old(m - 1) = m
      BY <1>1, <2>2
    <3> QED
      BY <3>1
  <2> QED
    BY <1>1, <2>1, <2>2
<1> HIDE DEF old
<1>6. Distinct(r)
  BY <1>2, <1>3, <1>4 DEF QueueOK, Distinct
<1>7. AutoIsNull(r)
  BY <1>2, <1>3 DEF QueueOK, AutoIsNull
<1>8. AutoLast(r)
  BY <1>2, <1>3, <1>4 DEF QueueOK, AutoLast
<1>9. \A j \in 1..Len(r) : r[j].query # q[i].query
  BY <1>2, <1>3 DEF QueueOK, Distinct
<1>10. Moved(q, r)
  BY <1>2, <1>3 DEF Moved
<1>11. ASSUME NEW o, NEW x PROVE Has(r, o, x) <=> Has(q, o, x) /\ x # q[i].query
  <2>1. Has(r, o, x) => Has(q, o, x) /\ x # q[i].query
    BY <1>2, <1>3, <1>9 DEF Has
  <2>2. Has(q, o, x) /\ x # q[i].query => Has(r, o, x)
    BY <1>2, <1>5 DEF Has
  <2> QED
    BY <2>1, <2>2
<1> QED
  BY <1>1, <1>6, <1>7, <1>8, <1>9, <1>10, <1>11 DEF QueueOK

\* An entry goes between searches of users and automatic ones.
Fits(q, p, e) ==
    /\ p \in 1..(Len(q) + 1)
    /\ \A j \in 1..Len(q) : /\ q[j].query # e.query
                            /\ j < p /\ q[j].auto => e.auto
                            /\ p <= j => q[j].auto
    /\ e \in Search /\ (e.auto => e.owners = {NULL})

LEMMA GainingKeeps ==
    ASSUME NEW q, QueueOK(q), NEW r, NEW p, NEW e, Fits(q, p, e), Gained(q, r, p, e)
    PROVE  /\ QueueOK(r)
           /\ \A o, x : Has(r, o, x) <=> Has(q, o, x) \/ (x = e.query /\ o \in e.owners)
<1> DEFINE new(j) == IF j < p THEN j ELSE j + 1
<1>1. q \in Seq(Search) /\ Len(q) \in Nat /\ r \in Seq(Search) /\ Len(r) = Len(q) + 1 /\ p \in 1..Len(r)
  BY DEF QueueOK, Gained, Fits
<1>2. r[p] = e /\ \A j \in 1..Len(q) : new(j) \in 1..Len(r) /\ r[new(j)] = q[j] /\ new(j) # p
  BY <1>1 DEF Gained
<1>3. \A k \in 1..Len(r) : k # p => \E j \in 1..Len(q) : k = new(j)
  <2> TAKE k \in 1..Len(r)
  <2>1. CASE k < p
    BY <1>1, <2>1
  <2>2. CASE k > p
    <3>1. k - 1 \in 1..Len(q) /\ new(k - 1) = k
      BY <1>1, <2>2
    <3> QED
      BY <3>1
  <2> QED
    BY <1>1, <2>1, <2>2
<1>4. \A j, k \in 1..Len(q) : new(j) < new(k) => j < k
  BY <1>1
<1>5. \A j \in 1..Len(q) : (new(j) < p => j < p) /\ (p < new(j) => p <= j)
  BY <1>1
<1> HIDE DEF new
<1>6. Distinct(r)
  <2> SUFFICES ASSUME NEW k \in 1..Len(r), NEW l \in 1..Len(r), r[k].query = r[l].query PROVE k = l
    BY DEF Distinct
  <2>1. CASE k = p /\ l # p
    BY <1>2, <1>3, <2>1 DEF Fits
  <2>2. CASE k # p /\ l = p
    BY <1>2, <1>3, <2>2 DEF Fits
  <2>3. CASE k # p /\ l # p
    BY SMTT(30), <1>2, <1>3, <2>3 DEF QueueOK, Distinct
  <2> QED
    BY <2>1, <2>2, <2>3
<1>7. AutoIsNull(r)
  <2> SUFFICES ASSUME NEW k \in 1..Len(r), r[k].auto PROVE r[k].owners = {NULL}
    BY DEF AutoIsNull
  <2>1. CASE k = p
    BY <1>2, <2>1 DEF Fits
  <2>2. CASE k # p
    BY <1>2, <1>3, <2>2 DEF QueueOK, AutoIsNull
  <2> QED
    BY <2>1, <2>2
<1>8. AutoLast(r)
  <2> SUFFICES ASSUME NEW k \in 1..Len(r), NEW l \in 1..Len(r), k < l, r[k].auto PROVE r[l].auto
    BY DEF AutoLast
  <2>1. CASE k = p
    <3>1. PICK j \in 1..Len(q) : l = new(j)
      BY <1>1, <1>3, <2>1
    <3>2. p <= j
      BY <1>5, <2>1, <3>1
    <3> QED
      BY <1>2, <3>1, <3>2 DEF Fits
  <2>2. CASE l = p
    <3>1. PICK j \in 1..Len(q) : k = new(j)
      BY <1>1, <1>3, <2>2
    <3>2. j < p
      BY <1>5, <2>2, <3>1
    <3> QED
      BY <1>2, <2>2, <3>1, <3>2 DEF Fits
  <2>3. CASE k # p /\ l # p
    BY SMTT(30), <1>2, <1>3, <1>4, <2>3 DEF QueueOK, AutoLast
  <2> QED
    BY <2>1, <2>2, <2>3
<1>9. ASSUME NEW o, NEW x PROVE Has(r, o, x) <=> Has(q, o, x) \/ (x = e.query /\ o \in e.owners)
  <2>1. Has(r, o, x) => Has(q, o, x) \/ (x = e.query /\ o \in e.owners)
    BY <1>2, <1>3 DEF Has
  <2>2. Has(q, o, x) => Has(r, o, x)
    BY <1>2 DEF Has
  <2>3. x = e.query /\ o \in e.owners => Has(r, o, x)
    BY <1>1, <1>2 DEF Has
  <2> QED
    BY <2>1, <2>2, <2>3
<1> QED
  BY <1>1, <1>6, <1>7, <1>8, <1>9 DEF QueueOK

\* No search of an owner moves back from q to r.
NotDelayed(q, r) ==
    \A i \in 1..Len(q), j \in 1..Len(r) :
        q[i].owners \cap r[j].owners \cap Owners # {} /\ q[i].query = r[j].query => j <= i

LEMMA MovingDelaysNothing ==
    ASSUME NEW q, QueueOK(q), NEW r, Len(r) \in Nat, Moved(q, r)
    PROVE  NotDelayed(q, r)
<1> SUFFICES ASSUME NEW i \in 1..Len(q), NEW j \in 1..Len(r), q[i].query = r[j].query PROVE j <= i
  BY DEF NotDelayed
<1>1. PICK m \in 1..Len(q) : j <= m /\ r[j] = q[m]
  BY DEF Moved
<1>2. m = i
  BY <1>1 DEF QueueOK, Distinct
<1> QED
  BY <1>1, <1>2

\* An entry that is put in after an automatic one was perhaps taken out.
LEMMA GainingDelaysNothing ==
    ASSUME NEW q0, QueueOK(q0), NEW q, QueueOK(q), Moved(q0, q),
           NEW r, NEW p, NEW e, Fits(q, p, e), Gained(q, r, p, e),
           \A i \in 1..Len(q0) : q0[i].query = e.query => q0[i].auto
    PROVE  NotDelayed(q0, r)
<1>1. q \in Seq(Search) /\ Len(q) \in Nat /\ Len(r) = Len(q) + 1 /\ p \in 1..Len(r)
  BY DEF QueueOK, Gained, Fits
<1>2. \A n : n = NULL => n \notin Owners
  BY QueueAssumption
<1> SUFFICES ASSUME NEW i \in 1..Len(q0), NEW j \in 1..Len(r),
                    q0[i].owners \cap r[j].owners \cap Owners # {}, q0[i].query = r[j].query
             PROVE  j <= i
  BY DEF NotDelayed
<1>3. ~q0[i].auto
  BY <1>2 DEF QueueOK, AutoIsNull
<1>4. CASE j < p
  <2>1. r[j] = q[j] /\ j \in 1..Len(q)
    BY <1>1, <1>4 DEF Gained
  <2>2. PICK m \in 1..Len(q0) : j <= m /\ q[j] = q0[m]
    BY <2>1 DEF Moved
  <2>3. m = i
    BY <2>1, <2>2 DEF QueueOK, Distinct
  <2> QED
    BY <2>2, <2>3
<1>5. CASE j = p
  <2>1. r[j] = e
    BY <1>1, <1>5 DEF Gained
  <2> QED
    BY <1>3, <2>1
<1>6. CASE j > p
  <2>1. r[j] = q[j - 1] /\ j - 1 \in 1..Len(q) /\ p <= j - 1
    BY <1>1, <1>6 DEF Gained
  <2>2. q[j - 1].auto
    BY <2>1 DEF Fits
  <2>3. r[j].owners = {NULL}
    BY <2>1, <2>2 DEF QueueOK, AutoIsNull
  <2> QED
    BY <1>2, <2>3
<1> QED
  BY <1>1, <1>4, <1>5, <1>6

\* The owners of one entry change.
LEMMA SharingKeeps ==
    ASSUME NEW q, QueueOK(q), NEW i \in 1..Len(q),
           NEW O, O \subseteq Owners \cup {NULL}, O # {}, q[i].auto => O = {NULL},
           NEW r, r = [q EXCEPT ![i].owners = O]
    PROVE  /\ QueueOK(r)
           /\ NotDelayed(q, r)
           /\ \A o, x : Has(r, o, x) <=> IF x = q[i].query THEN o \in O ELSE Has(q, o, x)
<1> DEFINE e == [q[i] EXCEPT !.owners = O]
<1>1. q \in Seq(Search) /\ Len(q) \in Nat /\ \A j \in 1..Len(q) : q[j] \in Search
  BY DEF QueueOK
<1>2. e \in Search /\ e.query = q[i].query /\ e.auto = q[i].auto /\ e.owners = O
  BY <1>1, EntryShared
<1>3. r = [q EXCEPT ![i] = e]
  OBVIOUS
<1> HIDE DEF e
<1>4. r \in Seq(Search) /\ Len(r) = Len(q) /\ r[i] = e /\ \A j \in 1..Len(q) : j # i => r[j] = q[j]
  BY <1>1, <1>2, <1>3
<1>5. \A j \in 1..Len(q) : r[j].query = q[j].query /\ r[j].auto = q[j].auto
  BY <1>2, <1>4
<1>6. Distinct(r)
  BY <1>4, <1>5 DEF QueueOK, Distinct
<1>7. AutoIsNull(r)
  BY <1>2, <1>4, <1>5 DEF QueueOK, AutoIsNull
<1>8. AutoLast(r)
  BY <1>4, <1>5 DEF QueueOK, AutoLast
<1>9. NotDelayed(q, r)
  BY <1>1, <1>4, <1>5 DEF QueueOK, Distinct, NotDelayed
<1>10. ASSUME NEW o, NEW x PROVE Has(r, o, x) <=> IF x = q[i].query THEN o \in O ELSE Has(q, o, x)
  <2>1. CASE x = q[i].query
    <3>1. o \in O => Has(r, o, x)
      BY <1>2, <1>4, <2>1 DEF Has
    <3>2. Has(r, o, x) => o \in O
      BY <1>2, <1>4, <1>5, <2>1 DEF Has, QueueOK, Distinct
    <3> QED
      BY <2>1, <3>1, <3>2
  <2>2. CASE x # q[i].query
    <3>1. Has(r, o, x) <=> Has(q, o, x)
      BY <1>4, <1>5, <2>2 DEF Has
    <3> QED
      BY <2>2, <3>1
  <2> QED
    BY <2>1, <2>2
<1> QED
  BY <1>4, <1>6, <1>7, <1>8, <1>9, <1>10 DEF QueueOK

-----------------------------------------------------------------------------
(***************************************************************************)
(* The operations of the queue                                             *)
(***************************************************************************)

LEMMA InsertedFits ==
    ASSUME NEW q, QueueOK(q), NEW s \in Search, s.auto => s.owners = {NULL},
           \A j \in 1..Len(q) : q[j].query # s.query
    PROVE  \E p : Fits(q, p, s) /\ Gained(q, Inserted(q, s), p, s)
<1> DEFINE p == SelectInSeq(q, LAMBDA e : e.auto)
<1>1. q \in Seq(Search) /\ Len(q) \in Nat
  BY DEF QueueOK
<1>2. /\ p \in 0..Len(q)
      /\ p = 0 => \A i \in 1..Len(q) : ~q[i].auto
      /\ p # 0 => q[p].auto /\ \A i \in 1..(p - 1) : ~q[i].auto
  BY <1>1, AutoIsFirst
<1>3. Inserted(q, s) = IF s.auto \/ p = 0 THEN Append(q, s) ELSE InsertAt(q, p, s)
  BY DEF Inserted
<1> HIDE DEF p
<1>4. CASE s.auto \/ p = 0
  <2>1. Gained(q, Inserted(q, s), Len(q) + 1, s)
    BY <1>1, <1>3, <1>4, AppendGains
  <2>2. Fits(q, Len(q) + 1, s)
    BY <1>1, <1>2, <1>4 DEF Fits
  <2> QED
    BY <2>1, <2>2
<1>5. CASE ~(s.auto \/ p = 0)
  <2>1. p \in 1..Len(q)
    BY <1>1, <1>2, <1>5
  <2>2. Gained(q, Inserted(q, s), p, s)
    BY <1>1, <1>3, <1>5, <2>1, InsertAtGains
  <2>3. \A j \in 1..Len(q) : p <= j => q[j].auto
    BY <1>1, <1>2, <1>5, <2>1 DEF QueueOK, AutoLast
  <2>4. \A j \in 1..Len(q) : j < p => ~q[j].auto
    BY <1>1, <1>2, <1>5, <2>1
  <2>5. Fits(q, p, s)
    BY <1>1, <2>1, <2>3, <2>4, <1>5 DEF Fits
  <2> QED
    BY <2>2, <2>5
<1> QED
  BY <1>4, <1>5

\* SearchQueue::add.
LEMMA AddedKeeps ==
    ASSUME IInv, NEW s \in Search,
           s.auto => s.owners = {NULL}, ~s.auto => s.owners \subseteq Owners
    PROVE  /\ QueueOK(Added(s))
           /\ NotDelayed(searchQueue, Added(s))
           /\ \A o \in Owners : \A x : Has(Added(s), o, x) <=> Has(searchQueue, o, x) \/ (x = s.query /\ o \in s.owners)
<1> DEFINE q == searchQueue
           i == Same(s.query)
<1>1. QueueOK(q) /\ q \in Seq(Search) /\ Len(q) \in Nat
  BY DEF IInv, QueueOK
<1>2. /\ i \in 0..Len(q)
      /\ i = 0 => \A j \in 1..Len(q) : q[j].query # s.query
      /\ i # 0 => q[i].query = s.query
  BY <1>1, SameIsSame
<1>3. Added(s) = IF i = 0 THEN Inserted(q, s)
                 ELSE IF q[i].auto /\ ~s.auto THEN Inserted(RemoveAt(q, i), s)
                 ELSE [q EXCEPT ![i].owners = q[i].owners \cup s.owners]
  BY DEF Added, Same
<1>4. \A o \in Owners : o # NULL
  BY QueueAssumption
<1> HIDE DEF i
<1>5. CASE i = 0
  <2>1. PICK p : Fits(q, p, s) /\ Gained(q, Inserted(q, s), p, s)
    BY <1>1, <1>2, <1>5, InsertedFits
  <2>2. Moved(q, q)
    BY <1>1 DEF Moved
  <2>3. NotDelayed(q, Inserted(q, s))
    BY <1>1, <1>2, <1>5, <2>1, <2>2, GainingDelaysNothing
  <2>4. /\ QueueOK(Inserted(q, s))
        /\ \A o, x : Has(Inserted(q, s), o, x) <=> Has(q, o, x) \/ (x = s.query /\ o \in s.owners)
    BY <1>1, <2>1, GainingKeeps
  <2> QED
    BY <1>3, <1>5, <2>3, <2>4
<1>6. CASE i # 0 /\ q[i].auto /\ ~s.auto
  <2> DEFINE r == RemoveAt(q, i)
  <2>1. i \in 1..Len(q) /\ Lost(q, r, i)
    BY <1>1, <1>2, <1>6, RemoveAtLoses
  <2> HIDE DEF r
  <2>2. /\ QueueOK(r) /\ Moved(q, r)
        /\ \A o, x : Has(r, o, x) <=> Has(q, o, x) /\ x # s.query
        /\ \A j \in 1..Len(r) : r[j].query # s.query
    BY <1>1, <1>2, <1>6, <2>1, LosingKeeps
  <2>3. PICK p : Fits(r, p, s) /\ Gained(r, Inserted(r, s), p, s)
    BY <1>6, <2>2, InsertedFits
  <2>4. \A j \in 1..Len(q) : q[j].query = s.query => j = i
    BY <1>1, <1>2, <1>6, <2>1 DEF QueueOK, Distinct
  <2>5. NotDelayed(q, Inserted(r, s))
    BY <1>1, <1>6, <2>2, <2>3, <2>4, GainingDelaysNothing
  <2>6. /\ QueueOK(Inserted(r, s))
        /\ \A o, x : Has(Inserted(r, s), o, x) <=> Has(r, o, x) \/ (x = s.query /\ o \in s.owners)
    BY <2>2, <2>3, GainingKeeps
  <2>7. q[i].owners = {NULL}
    BY <1>1, <1>6, <2>1 DEF QueueOK, AutoIsNull
  <2>8. \A o \in Owners : ~Has(q, o, s.query)
    BY <1>4, <2>4, <2>7 DEF Has
  <2>9. Added(s) = Inserted(r, s)
    BY <1>3, <1>6 DEF r
  <2>10. \A o \in Owners : \A x : Has(Added(s), o, x) <=> Has(q, o, x) \/ (x = s.query /\ o \in s.owners)
    BY <2>2, <2>6, <2>8, <2>9
  <2> QED
    BY <2>5, <2>6, <2>9, <2>10
<1>7. CASE i # 0 /\ ~(q[i].auto /\ ~s.auto)
  <2> DEFINE O == q[i].owners \cup s.owners
  <2>1. i \in 1..Len(q) /\ q[i] \in Search
    BY <1>1, <1>2, <1>7
  <2>2. O \subseteq Owners \cup {NULL} /\ O # {}
    BY <2>1, EntryParts
  <2>3. q[i].auto => O = {NULL}
    BY <1>1, <1>7, <2>1 DEF QueueOK, AutoIsNull
  <2>4. \A j \in 1..Len(q) : q[j].query = s.query => j = i
    BY <1>1, <1>2, <1>7, <2>1 DEF QueueOK, Distinct
  <2>5. \A o : Has(q, o, s.query) <=> o \in q[i].owners
    BY <1>2, <1>7, <2>1, <2>4 DEF Has
  <2>6. Added(s) = [q EXCEPT ![i].owners = O]
    BY <1>3, <1>7
  <2>7. \A o : o \in O <=> o \in q[i].owners \/ o \in s.owners
    OBVIOUS
  <2> HIDE DEF O
  <2>8. /\ QueueOK(Added(s)) /\ NotDelayed(q, Added(s))
        /\ \A o, x : Has(Added(s), o, x) <=> IF x = q[i].query THEN o \in O ELSE Has(q, o, x)
    BY ZenonT(60), <1>1, <2>1, <2>2, <2>3, <2>6, SharingKeeps
  <2>9. \A o, x : Has(Added(s), o, x) <=> Has(q, o, x) \/ (x = s.query /\ o \in s.owners)
    BY <1>2, <1>7, <2>5, <2>7, <2>8
  <2> QED
    BY <2>8, <2>9
<1> QED
  BY <1>5, <1>6, <1>7

\* SearchQueue::cancelSearch of a window.
LEMMA WithoutKeeps ==
    ASSUME IInv, NEW o \in Frames
    PROVE  /\ QueueOK(Without(o))
           /\ NotDelayed(searchQueue, Without(o))
           /\ \A n \in Owners, x \in Queries : Has(Without(o), n, x) <=> Has(searchQueue, n, x) /\ n # o
<1> DEFINE q == searchQueue
           i == First(o)
<1>1. QueueOK(q) /\ q \in Seq(Search) /\ Len(q) \in Nat /\ o \in Owners
  BY DEF IInv, QueueOK, Owners
<1>2. /\ i \in 0..Len(q)
      /\ i = 0 => \A j \in 1..Len(q) : o \notin q[j].owners
      /\ i # 0 => o \in q[i].owners
  BY <1>1, FirstIsFirst
<1>3. Without(o) = IF i = 0 THEN q
                   ELSE IF q[i].owners = {o} THEN RemoveAt(q, i)
                   ELSE [q EXCEPT ![i].owners = q[i].owners \ {o}]
  BY DEF Without
<1> HIDE DEF i
<1>4. \A j \in 1..Len(q) : q[j] \in Search /\ q[j].query \in Queries
  BY <1>1, EntryParts
<1>5. \A j \in 1..Len(q) : o \in q[j].owners => <<o, q[j].query>> \in wanted
  BY <1>1, <1>4 DEF IInv, WantedIsThere, Has
<1>6. \A j, k \in 1..Len(q) : o \in q[j].owners /\ o \in q[k].owners => j = k
  BY <1>1, <1>4, <1>5 DEF IInv, OneWish, QueueOK, Distinct
<1>7. CASE i = 0
  <2>1. \A x : ~Has(q, o, x)
    BY <1>2, <1>7 DEF Has
  <2>2. Moved(q, q)
    BY <1>1 DEF Moved
  <2> QED
    BY <1>1, <1>3, <1>7, <2>1, <2>2, MovingDelaysNothing
<1>8. CASE i # 0 /\ q[i].owners = {o}
  <2> DEFINE r == RemoveAt(q, i)
  <2>1. i \in 1..Len(q) /\ Lost(q, r, i)
    BY <1>1, <1>2, <1>8, RemoveAtLoses
  <2>2. Len(r) \in Nat
    BY <1>1, <2>1 DEF Lost
  <2>3. Without(o) = r
    BY <1>3, <1>8
  <2> HIDE DEF r
  <2>4. /\ QueueOK(r) /\ Moved(q, r)
        /\ \A n, x : Has(r, n, x) <=> Has(q, n, x) /\ x # q[i].query
    BY <1>1, <2>1, LosingKeeps
  <2>5. NotDelayed(q, r)
    BY <1>1, <2>2, <2>4, MovingDelaysNothing
  <2>6. \A n : Has(q, n, q[i].query) <=> n = o
    BY <1>1, <1>8, <2>1 DEF Has, QueueOK, Distinct
  <2>7. \A x : Has(q, o, x) => x = q[i].query
    BY <1>2, <1>6, <1>8, <2>1 DEF Has
  <2> QED
    BY <2>3, <2>4, <2>5, <2>6, <2>7
<1>9. CASE i # 0 /\ q[i].owners # {o}
  <2> DEFINE O == q[i].owners \ {o}
  <2>1. i \in 1..Len(q)
    BY <1>1, <1>2, <1>9
  <2>2. O \subseteq Owners \cup {NULL} /\ O # {}
    BY <1>2, <1>4, <1>9, <2>1, EntryParts
  <2>3. ~q[i].auto
    BY <1>1, <1>2, <1>9, <2>1, QueueAssumption DEF QueueOK, AutoIsNull
  <2>4. Without(o) = [q EXCEPT ![i].owners = O]
    BY <1>3, <1>9
  <2>5. \A n : n \in O <=> n \in q[i].owners /\ n # o
    OBVIOUS
  <2> HIDE DEF O
  <2>6. /\ QueueOK(Without(o)) /\ NotDelayed(q, Without(o))
        /\ \A n, x : Has(Without(o), n, x) <=> IF x = q[i].query THEN n \in O ELSE Has(q, n, x)
    BY <1>1, <2>1, <2>2, <2>3, <2>4, SharingKeeps
  <2>7. \A n : Has(q, n, q[i].query) <=> n \in q[i].owners
    BY <1>1, <2>1 DEF Has, QueueOK, Distinct
  <2>8. \A x : Has(q, o, x) => x = q[i].query
    BY <1>2, <1>6, <1>9, <2>1 DEF Has
  <2> QED
    BY <2>5, <2>6, <2>7, <2>8
<1> QED
  BY <1>7, <1>8, <1>9

-----------------------------------------------------------------------------
(***************************************************************************)
(* Steps                                                                   *)
(***************************************************************************)

\* What a step leaves for the invariant and for the order of the queue.
Kept == IInv' /\ NotDelayed(searchQueue, searchQueue')

LEMMA NothingMoves == ASSUME IInv, searchQueue' = searchQueue PROVE NotDelayed(searchQueue, searchQueue')
<1>1. Moved(searchQueue, searchQueue) /\ Len(searchQueue) \in Nat
  BY DEF IInv, QueueOK, Moved
<1> QED
  BY <1>1, MovingDelaysNothing DEF IInv

LEMMA KeepsCancelSearch == ASSUME IInv, NEW o \in Frames, CancelSearch(o) PROVE Kept
<1>1. /\ searchQueue' = Without(o)
      /\ cancelled' = cancelled \cup {o}
      /\ wanted' = {w \in wanted : w[1] # o}
      /\ UNCHANGED <<sinceLast, connected, asking, span>>
  BY DEF CancelSearch
<1>2. /\ QueueOK(searchQueue') /\ NotDelayed(searchQueue, searchQueue')
      /\ \A n \in Owners, x \in Queries : Has(searchQueue', n, x) <=> Has(searchQueue, n, x) /\ n # o
  BY <1>1, WithoutKeeps
<1>3. TypeOK'
  BY <1>1, <1>2 DEF IInv, TypeOK, QueueOK
<1>4. WantedIsThere'
  BY <1>1, <1>2 DEF IInv, WantedIsThere
<1>5. OneWish' /\ OneAsks'
  BY <1>1 DEF IInv, OneWish, OneAsks
<1> QED
  BY <1>2, <1>3, <1>4, <1>5 DEF Kept, IInv

LEMMA KeepsAddSearch == ASSUME IInv, NEW o \in Owners, NEW query \in Queries, AddSearch(o, query) PROVE Kept
<1> DEFINE s == [query |-> query, auto |-> FALSE, owners |-> {o}]
<1>1. /\ searchQueue' = Added(s)
      /\ o \in Frames => o \in cancelled
      /\ cancelled' = cancelled \ {o}
      /\ asking' = {[owner |-> o, query |-> query]}
      /\ wanted' = wanted \cup {<<o, query>>}
      /\ UNCHANGED <<sinceLast, connected, span>>
  BY DEF AddSearch
<1>2. s \in Search /\ s.query = query /\ ~s.auto /\ s.owners = {o}
  BY EntryMade
<1> HIDE DEF s
<1>3. /\ QueueOK(searchQueue') /\ NotDelayed(searchQueue, searchQueue')
      /\ \A n \in Owners : \A x : Has(searchQueue', n, x) <=> Has(searchQueue, n, x) \/ (x = query /\ n \in {o})
  BY <1>1, <1>2, AddedKeeps
<1>4. TypeOK'
  BY <1>1, <1>3 DEF IInv, TypeOK, QueueOK
<1>5. WantedIsThere'
  BY <1>1, <1>3 DEF IInv, WantedIsThere
<1>6. OneWish' /\ OneAsks'
  BY <1>1 DEF IInv, OneWish, OneAsks
<1> QED
  BY <1>3, <1>4, <1>5, <1>6 DEF Kept, IInv

LEMMA KeepsAutoSearch == ASSUME IInv, NEW query \in Queries, AutoSearch(query) PROVE Kept
<1> DEFINE s == [query |-> query, auto |-> TRUE, owners |-> {NULL}]
<1>1. searchQueue' = Added(s) /\ UNCHANGED <<sinceLast, connected, cancelled, asking, span, wanted>>
  BY DEF AutoSearch
<1>2. s \in Search /\ s.query = query /\ s.auto /\ s.owners = {NULL} /\ NULL \notin Owners
  BY QueueAssumption, EntryMade
<1> HIDE DEF s
<1>3. /\ QueueOK(searchQueue') /\ NotDelayed(searchQueue, searchQueue')
      /\ \A n \in Owners : \A x : Has(searchQueue', n, x) <=> Has(searchQueue, n, x) \/ (x = query /\ n \in {NULL})
  BY <1>1, <1>2, AddedKeeps
<1>4. TypeOK'
  BY <1>1, <1>3 DEF IInv, TypeOK, QueueOK
<1>5. WantedIsThere'
  BY <1>1, <1>2, <1>3 DEF IInv, WantedIsThere
<1>6. OneWish' /\ OneAsks'
  BY <1>1 DEF IInv, OneWish, OneAsks
<1> QED
  BY <1>3, <1>4, <1>5, <1>6 DEF Kept, IInv

LEMMA KeepsPop == ASSUME IInv, Pop PROVE Kept
<1>1. /\ searchQueue # <<>>
      /\ searchQueue' = Tail(searchQueue)
      /\ sinceLast' = 0
      /\ wanted' = {w \in wanted : w[2] # Head(searchQueue).query}
      /\ UNCHANGED <<connected, cancelled, asking, span>>
  BY DEF Pop
<1>2. QueueOK(searchQueue) /\ searchQueue \in Seq(Search) /\ Head(searchQueue) = searchQueue[1]
  BY DEF IInv, QueueOK
<1>3. 1 \in 1..Len(searchQueue) /\ Lost(searchQueue, searchQueue', 1)
  BY <1>1, <1>2, TailLoses
<1>4. /\ QueueOK(searchQueue') /\ Moved(searchQueue, searchQueue')
      /\ \A n, x : Has(searchQueue', n, x) <=> Has(searchQueue, n, x) /\ x # searchQueue[1].query
  BY <1>2, <1>3, LosingKeeps
<1>5. Len(searchQueue') \in Nat
  BY <1>4 DEF QueueOK
<1>6. NotDelayed(searchQueue, searchQueue')
  BY <1>2, <1>4, <1>5, MovingDelaysNothing
<1>7. TypeOK'
  BY <1>1, <1>4, QueueAssumption DEF IInv, TypeOK, QueueOK
<1>8. WantedIsThere'
  BY <1>1, <1>2, <1>4 DEF IInv, WantedIsThere
<1>9. OneWish' /\ OneAsks'
  BY <1>1 DEF IInv, OneWish, OneAsks
<1> QED
  BY <1>4, <1>6, <1>7, <1>8, <1>9 DEF Kept, IInv

\* The wait for a search in the queue is a time, never the wrapped one.
LEMMA WaitIsTime ==
    ASSUME IInv, NEW i \in Nat \ {0}
    PROVE  Wait(i) \in Int /\ Wait(i) >= 0
<1>1. interval \in Nat /\ sinceLast \in Nat
  BY QueueAssumption DEF IInv, TypeOK
<1>2. i * interval >= interval /\ i * interval \in Nat
  BY <1>1
<1> DEFINE all == i * interval
<1> HIDE DEF all
<1>3. all >= interval /\ all \in Nat /\ Wait(i) = all - (IF sinceLast > interval THEN interval ELSE sinceLast)
  BY <1>2 DEF all, Wait
<1> QED
  BY <1>1, <1>3

LEMMA KeepsGetSearchTime == ASSUME IInv, GetSearchTime PROVE Kept
<1>1. PICK s \in asking :
         /\ span' = [span EXCEPT ![s.owner] = IF First(s.owner) = 0 THEN Wrapped ELSE Wait(First(s.owner))]
         /\ asking' = {}
         /\ UNCHANGED <<searchQueue, sinceLast, connected, cancelled, wanted>>
  BY DEF GetSearchTime
<1> DEFINE i == First(s.owner)
           time == IF i = 0 THEN Wrapped ELSE Wait(i)
<1>2. i \in Nat
  BY FirstIsFirst DEF IInv, QueueOK
<1> HIDE DEF i
<1>3. time \in Int
  BY <1>2, WaitIsTime DEF Wrapped
<1>4. span' = [span EXCEPT ![s.owner] = time]
  BY <1>1 DEF i
<1> HIDE DEF time
<1>5. span' \in [Owners -> Int]
  BY <1>3, <1>4 DEF IInv, TypeOK
<1>6. TypeOK'
  BY <1>1, <1>5 DEF IInv, TypeOK
<1>7. QueueOK(searchQueue)' /\ WantedIsThere' /\ OneWish' /\ OneAsks'
  BY <1>1 DEF IInv, WantedIsThere, OneWish, OneAsks
<1> QED
  BY <1>1, <1>6, <1>7, NothingMoves DEF Kept, IInv

LEMMA KeepsOthers == ASSUME IInv, Connect \/ Disconnect \/ Tick \/ UNCHANGED vars PROVE Kept
<1>1. UNCHANGED <<searchQueue, cancelled, asking, span, wanted>>
  BY DEF Connect, Disconnect, Tick, vars
<1>2. sinceLast' \in 0..(interval + 1)
  BY QueueAssumption DEF Connect, Disconnect, Tick, vars, IInv, TypeOK
<1>3. connected' \in BOOLEAN
  BY DEF Connect, Disconnect, Tick, vars, IInv, TypeOK
<1>4. TypeOK'
  BY <1>1, <1>2, <1>3 DEF IInv, TypeOK
<1>5. QueueOK(searchQueue)' /\ WantedIsThere' /\ OneWish' /\ OneAsks'
  BY <1>1 DEF IInv, WantedIsThere, OneWish, OneAsks
<1> QED
  BY <1>1, <1>4, <1>5, NothingMoves DEF Kept, IInv

LEMMA InitIInv == Init => IInv
<1> SUFFICES ASSUME Init PROVE IInv
  OBVIOUS
<1>1. searchQueue = <<>> /\ wanted = {} /\ asking = {}
  BY DEF Init
<1>2. QueueOK(searchQueue)
  BY <1>1 DEF QueueOK, Distinct, AutoIsNull, AutoLast
<1>3. TypeOK
  <2>1. searchQueue \in Seq(Search) /\ span \in [Owners -> Int]
    BY DEF Init
  <2> QED
    BY <2>1, QueueAssumption DEF Init, TypeOK
<1> QED
  BY <1>1, <1>2, <1>3 DEF IInv, WantedIsThere, Has, OneWish, OneAsks

LEMMA NextKept == IInv /\ [Next]_vars => Kept
<1> SUFFICES ASSUME IInv, [Next]_vars PROVE Kept
  OBVIOUS
<1>1. ASSUME NEW o \in Frames, CancelSearch(o) PROVE Kept
  BY <1>1, KeepsCancelSearch
<1>2. ASSUME NEW o \in Owners, NEW query \in Queries, AddSearch(o, query) PROVE Kept
  BY <1>2, KeepsAddSearch
<1>3. CASE GetSearchTime
  BY <1>3, KeepsGetSearchTime
<1>4. ASSUME NEW query \in Queries, AutoSearch(query) PROVE Kept
  BY <1>4, KeepsAutoSearch
<1>5. CASE Pop
  BY <1>5, KeepsPop
<1>6. CASE Connect \/ Disconnect \/ Tick \/ UNCHANGED vars
  BY <1>6, KeepsOthers
<1> QED
  BY <1>1, <1>2, <1>3, <1>4, <1>5, <1>6 DEF Next

-----------------------------------------------------------------------------
(***************************************************************************)
(* What the invariant says of the properties                               *)
(***************************************************************************)

LEMMA SoWantedIsQueued == IInv => WantedIsQueued
<1> SUFFICES ASSUME IInv, NEW o \in Owners, NEW query \in Queries
             PROVE  Cardinality(Waiting(o, query)) = IF <<o, query>> \in wanted THEN 1 ELSE 0
  BY DEF WantedIsQueued
<1>1. \A i, j \in Waiting(o, query) : i = j
  BY DEF IInv, QueueOK, Distinct, Waiting
<1>2. Waiting(o, query) # {} <=> <<o, query>> \in wanted
  BY DEF IInv, WantedIsThere, Has, Waiting
<1>3. CASE <<o, query>> \in wanted
  <2>1. PICK i : Waiting(o, query) = {i}
    BY <1>1, <1>2, <1>3
  <2> QED
    BY <1>3, <2>1, FS_Singleton
<1>4. CASE <<o, query>> \notin wanted
  BY <1>2, <1>4, FS_EmptySet
<1> QED
  BY <1>3, <1>4

\* The searches of a window are one at most, and none once it has cancelled.
LEMMA WindowWaitsOnce ==
    ASSUME IInv, NEW o \in Frames, NEW x \in Queries, NEW y \in Queries,
           NEW i \in Waiting(o, x), NEW j \in Waiting(o, y)
    PROVE  i = j /\ o \notin cancelled
<1>1. o \in Owners
  BY DEF Owners
<1>2. <<o, x>> \in wanted /\ <<o, y>> \in wanted
  BY <1>1 DEF IInv, WantedIsThere, Has, Waiting
<1>3. x = y /\ o \notin cancelled
  BY <1>2 DEF IInv, OneWish
<1> QED
  BY <1>3 DEF IInv, QueueOK, Distinct, Waiting

LEMMA SoOneSearchPerWindow == IInv => OneSearchPerWindow
<1> SUFFICES ASSUME IInv, NEW o \in Frames
             PROVE  Cardinality(UNION {Waiting(o, x) : x \in Queries}) <= IF o \in cancelled THEN 0 ELSE 1
  BY DEF OneSearchPerWindow
<1> DEFINE W == UNION {Waiting(o, x) : x \in Queries}
<1>1. \A i, j \in W : i = j /\ o \notin cancelled
  BY WindowWaitsOnce
<1> HIDE DEF W
<1>2. CASE W = {}
  BY <1>2, FS_EmptySet DEF W
<1>3. CASE W # {}
  <2>1. PICK i : W = {i}
    BY <1>1, <1>3
  <2>2. Cardinality(W) = 1 /\ o \notin cancelled
    BY <1>1, <2>1, FS_Singleton
  <2> QED
    BY <2>2 DEF W
<1> QED
  BY <1>2, <1>3

\* An owner who asks is told the wait for a search that it wants.
LEMMA SoToldItsWait ==
    ASSUME IInv, [Next]_vars, NEW s \in asking \ asking', <<s.owner, s.query>> \in wanted
    PROVE  /\ span'[s.owner] # Wrapped
           /\ s.owner \in Frames => \A i \in Waiting(s.owner, s.query) : span'[s.owner] = Wait(i)
<1>1. GetSearchTime
  BY DEF Next, CancelSearch, AddSearch, AutoSearch, Pop, Connect, Disconnect, Tick, vars
<1>2. span' = [span EXCEPT ![s.owner] = IF First(s.owner) = 0 THEN Wrapped ELSE Wait(First(s.owner))]
  BY <1>1 DEF GetSearchTime, IInv, OneAsks
<1>3. s.owner \in Owners /\ s.query \in Queries /\ span \in [Owners -> Int]
  BY DEF IInv, TypeOK
<1>4. Has(searchQueue, s.owner, s.query)
  BY <1>3 DEF IInv, WantedIsThere
<1>5. First(s.owner) \in 1..Len(searchQueue) /\ s.owner \in searchQueue[First(s.owner)].owners
  BY <1>4, FirstIsFirst DEF Has, IInv, QueueOK
<1> DEFINE i == First(s.owner)
<1>6. i \in Nat \ {0}
  BY <1>5 DEF IInv, QueueOK
<1> HIDE DEF i
<1>7. span'[s.owner] = Wait(i)
  BY <1>2, <1>3, <1>6 DEF i
<1>8. Wait(i) # Wrapped
  BY <1>6, WaitIsTime DEF Wrapped
<1>9. ASSUME s.owner \in Frames, NEW j \in Waiting(s.owner, s.query) PROVE j = i
  <2>1. searchQueue[i] \in Search /\ searchQueue[i].query \in Queries
    BY <1>5, EntryParts DEF IInv, QueueOK, i
  <2>2. i \in Waiting(s.owner, searchQueue[i].query)
    BY <1>5 DEF Waiting, i
  <2> QED
    BY <1>3, <1>9, <2>1, <2>2, WindowWaitsOnce
<1> QED
  BY <1>7, <1>8, <1>9

-----------------------------------------------------------------------------
(***************************************************************************)
(* Theorems                                                                *)
(***************************************************************************)

\* The strengthening holds of everything that SearchQueue and its callers do.
THEOREM Invariance == Spec => []IInv
<1>1. IInv /\ [Next]_vars => IInv'
  BY NextKept DEF Kept
<1> QED
  BY <1>1, InitIInv, PTL DEF Spec

\* The queue and what its callers hold keep their types.
THEOREM TypeCorrect == Spec => []TypeOK
<1>1. IInv => TypeOK
  BY DEF IInv
<1> QED
  BY <1>1, Invariance, PTL

\* Whatever windows and the download queue add, share and cancel, and whatever
\* the timer sends, SearchQueue holds each search that is wanted, once.
THEOREM WantedIsThereOnce == Spec => []WantedIsQueued
  BY SoWantedIsQueued, Invariance, PTL

\* A window has one search in the queue at most, so that it is enough that
\* cancelSearch leaves the first.
THEOREM WindowsHaveOneSearch == Spec => []OneSearchPerWindow
  BY SoOneSearchPerWindow, Invariance, PTL

\* No call of SearchQueue moves a search of a user back.
THEOREM UsersAreNotDelayed == Spec => UserSearchNotDelayed
<1>1. IInv /\ [Next]_vars =>
         [\A i \in 1..Len(searchQueue), j \in 1..Len(searchQueue') :
             /\ searchQueue[i].owners \cap searchQueue'[j].owners \cap Owners # {}
             /\ searchQueue[i].query = searchQueue'[j].query
             => j <= i]_searchQueue
  BY NextKept DEF Kept, NotDelayed
<1> QED
  BY <1>1, Invariance, PTL DEF Spec, UserSearchNotDelayed

\* Client::search tells a window the wait for its own search, and an owner a
\* wrapped time only if the timer has sent the search in between.
THEOREM WaitsAreTold == Spec => ToldItsWait
<1>1. IInv /\ [Next]_vars =>
         [\A s \in asking \ asking' :
             <<s.owner, s.query>> \in wanted =>
                 /\ span'[s.owner] # Wrapped
                 /\ s.owner \in Frames => \A i \in Waiting(s.owner, s.query) : span'[s.owner] = Wait(i)]_vars
  BY SoToldItsWait
<1> QED
  BY <1>1, Invariance, PTL DEF Spec, ToldItsWait

=============================================================================
