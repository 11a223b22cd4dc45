--------------------------- MODULE DhtIndexProofs ---------------------------
(***************************************************************************)
(* Proofs about DhtIndex, for any nodes, files, lifetimes and numbers of   *)
(* failures: the types, what every list of sources keeps to, and what the  *)
(* next process reads.                                                     *)
(***************************************************************************)
EXTENDS DhtIndex, ListsProofs

-----------------------------------------------------------------------------
(***************************************************************************)
(* What the lists keep to                                                  *)
(***************************************************************************)

\* How long a source is kept that was published just now.
Life(partial) == IF partial THEN PFS_REPUBLISH_TIME ELSE REPUBLISH_TIME

\* A partial source behind a complete one may expire before it.
Behind(x, y) == y.partial /\ ~x.partial

IsOld(tth, x, old) == <<tth, x.cid>> \in old

\* In memory and in the files: few sources, of as many nodes.
ListOK(s) ==
    /\ s \in Seq(Source)
    /\ Len(s) <= MAX_SEARCH_RESULTS
    /\ \A i, j \in 1..Len(s) : i < j => s[i].cid # s[j].cid

\* In memory: what was published to this process expires in time, and expires in
\* the order of the list, the partial sources behind complete ones excepted; all
\* of it is behind what was loaded.
AgesOK(tth, s, now, old) ==
    /\ \A i \in 1..Len(s) : IsOld(tth, s[i], old) \/ s[i].expires <= now + Life(s[i].partial)
    /\ \A i, j \in 1..Len(s) : i < j =>
          \/ IsOld(tth, s[i], old)
          \/ ~IsOld(tth, s[j], old) /\ (s[i].expires <= s[j].expires \/ Behind(s[i], s[j]))

Complete(f) == f \notin {NoFile, Torn}

\* The steps of a save: there is a new file from the first to the last.
CopiesOK ==
    /\ saving # "no" => Complete(tmp)
    /\ saved # Torn
    /\ SavedIsRead

\* The lists in memory, and those in the files.
ListedOK == \A tth \in DOMAIN tthList : ListOK(tthList[tth]) /\ AgesOK(tth, tthList[tth], tick, loaded)

SavedOK(f) == \A tth \in DOMAIN f : ListOK(f[tth])

\* The strengthening.
IInv ==
    /\ TypeOK
    /\ ListedOK
    /\ Complete(file) => SavedOK(file)
    /\ Complete(tmp) => SavedOK(tmp)
    /\ Complete(saved) => SavedOK(saved)
    /\ CopiesOK

-----------------------------------------------------------------------------
(***************************************************************************)
(* Lists that lose members                                                 *)
(***************************************************************************)

\* r is s without some of its members.
Thinned(r, s) ==
    /\ r \in Seq(Source) /\ Len(r) <= Len(s)
    /\ \E f \in [1..Len(r) -> 1..Len(s)] :
          /\ \A n \in 1..Len(r) : r[n] = s[f[n]]
          /\ \A n, k \in 1..Len(r) : n < k => f[n] < f[k]

\* Nothing that a list keeps to is lost with a member.
LEMMA ThinnedOK ==
  ASSUME NEW r, NEW s, Thinned(r, s), ListOK(s)
  PROVE  ListOK(r)
<1>1. PICK f \in [1..Len(r) -> 1..Len(s)] :
          /\ \A n \in 1..Len(r) : r[n] = s[f[n]]
          /\ \A n, k \in 1..Len(r) : n < k => f[n] < f[k]
  BY DEF Thinned
<1>2. r \in Seq(Source) /\ Len(r) <= MAX_SEARCH_RESULTS
  BY IndexAssumption DEF Thinned, ListOK
<1>3. ASSUME NEW n \in 1..Len(r), NEW k \in 1..Len(r), n < k PROVE r[n].cid # r[k].cid
  <2>1. f[n] \in 1..Len(s) /\ f[k] \in 1..Len(s) /\ f[n] < f[k] /\ r[n] = s[f[n]] /\ r[k] = s[f[k]]
    BY <1>1, <1>3
  <2> QED BY <2>1 DEF ListOK
<1> QED BY <1>2, <1>3 DEF ListOK

LEMMA ThinnedAges ==
  ASSUME NEW r, NEW s, Thinned(r, s), NEW tth, NEW now, NEW old, AgesOK(tth, s, now, old)
  PROVE  AgesOK(tth, r, now, old)
<1>1. PICK f \in [1..Len(r) -> 1..Len(s)] :
          /\ \A n \in 1..Len(r) : r[n] = s[f[n]]
          /\ \A n, k \in 1..Len(r) : n < k => f[n] < f[k]
  BY DEF Thinned
<1>2. ASSUME NEW n \in 1..Len(r)
      PROVE  IsOld(tth, r[n], old) \/ r[n].expires <= now + Life(r[n].partial)
  <2>1. f[n] \in 1..Len(s) /\ r[n] = s[f[n]]
    BY <1>1
  <2> QED BY <2>1 DEF AgesOK
<1>3. ASSUME NEW n \in 1..Len(r), NEW k \in 1..Len(r), n < k
      PROVE  \/ IsOld(tth, r[n], old)
             \/ ~IsOld(tth, r[k], old) /\ (r[n].expires <= r[k].expires \/ Behind(r[n], r[k]))
  <2>1. f[n] \in 1..Len(s) /\ f[k] \in 1..Len(s) /\ f[n] < f[k] /\ r[n] = s[f[n]] /\ r[k] = s[f[k]]
    BY <1>1, <1>3
  <2> QED BY <2>1 DEF AgesOK
<1> QED BY <1>2, <1>3 DEF AgesOK

\* The end of a list.
LEMMA SuffixThins ==
  ASSUME NEW s \in Seq(Source), NEW n \in 1..(Len(s) + 1)
  PROVE  Thinned(SubSeq(s, n, Len(s)), s)
<1> DEFINE r == SubSeq(s, n, Len(s))
           f == [k \in 1..Len(r) |-> k + n - 1]
<1>1. r \in Seq(Source) /\ Len(r) = Len(s) - n + 1 /\ \A k \in 1..Len(r) : r[k] = s[k + n - 1]
  OBVIOUS
<1> HIDE DEF r
<1>2. f \in [1..Len(r) -> 1..Len(s)] /\ \A k \in 1..Len(r) : r[k] = s[f[k]]
  BY <1>1
<1>3. \A k, l \in 1..Len(r) : k < l => f[k] < f[l]
  BY <1>1
<1> HIDE DEF f
<1>4. Len(r) <= Len(s) /\ \A k \in 1..Len(r) : r[k] = s[f[k]]
  BY <1>1, <1>2
<1>5. Thinned(r, s)
  BY <1>1, <1>2, <1>3, <1>4 DEF Thinned
<1> QED BY <1>5 DEF r

LEMMA NothingThins ==
  ASSUME NEW s \in Seq(Source)
  PROVE  Thinned(s, s)
<1>1. SubSeq(s, 1, Len(s)) = s
  OBVIOUS
<1>2. 1 \in 1..(Len(s) + 1)
  OBVIOUS
<1>3. Thinned(SubSeq(s, 1, Len(s)), s)
  BY <1>2, SuffixThins
<1> QED BY <1>1, <1>3

\* Capped drops one source at most, the first.
LEMMA CappedThins ==
  ASSUME NEW s \in Seq(Source), Len(s) <= MAX_SEARCH_RESULTS + 1
  PROVE  Thinned(Capped(s), s) /\ Len(Capped(s)) <= MAX_SEARCH_RESULTS
<1>1. CASE Len(s) > MAX_SEARCH_RESULTS
  <2>1. Len(s) > 0 /\ 2 \in 1..(Len(s) + 1)
    BY <1>1, IndexAssumption
  <2>2. Tail(s) = SubSeq(s, 2, Len(s)) /\ Len(Tail(s)) = Len(s) - 1
    BY <2>1
  <2>3. Thinned(SubSeq(s, 2, Len(s)), s)
    BY <2>1, SuffixThins
  <2>4. Capped(s) = Tail(s)
    BY <1>1 DEF Capped
  <2>5. Len(Tail(s)) <= MAX_SEARCH_RESULTS
    BY <2>1, <2>2, IndexAssumption
  <2> QED BY <2>2, <2>3, <2>4, <2>5
<1>2. CASE ~(Len(s) > MAX_SEARCH_RESULTS)
  BY <1>2, NothingThins, IndexAssumption DEF Capped
<1> QED BY <1>1, <1>2

\* WithoutUser leaves no source of the node.
LEMMA WithoutUserThins ==
  ASSUME NEW s, ListOK(s), NEW cid
  PROVE  /\ Thinned(WithoutUser(s, cid), s)
         /\ \A i \in 1..Len(WithoutUser(s, cid)) : WithoutUser(s, cid)[i].cid # cid
<1> DEFINE its == {i \in 1..Len(s) : s[i].cid = cid}
           at == SelectInSeq(s, LAMBDA x : x.cid = cid)
<1>0. s \in Seq(Source)
  BY DEF ListOK
<1>1. at = IF its # {} THEN Min(its) ELSE 0
  BY DEF SelectInSeq
<1>2. WithoutUser(s, cid) = IF \E i \in 1..Len(s) : s[i].cid = cid THEN RemoveAt(s, at) ELSE s
  BY DEF WithoutUser, RemoveFirstMatch
<1> HIDE DEF at
<1>3. CASE its = {}
  BY <1>0, <1>2, <1>3, NothingThins
<1>4. CASE its # {}
  <2>1. at \in its
    <3> HIDE DEF its
    <3>1. its \in SUBSET Nat
      BY DEF its
    <3> QED BY <1>1, <1>4, <3>1, MinIsLeast
  <2>2. at \in 1..Len(s) /\ s[at].cid = cid
    BY <2>1
  <2> DEFINE r == RemoveAt(s, at)
             f == [j \in 1..Len(r) |-> IF j < at THEN j ELSE j + 1]
  <2>3. WithoutUser(s, cid) = r
    BY <1>2, <2>2
  <2>4. /\ r \in Seq(Source) /\ Len(r) = Len(s) - 1
        /\ \A j \in 1..(Len(s) - 1) : r[j] = IF j < at THEN s[j] ELSE s[j + 1]
    BY <1>0, <2>2, RemoveAtProps
  <2> HIDE DEF r
  <2>5. f \in [1..Len(r) -> 1..Len(s)] /\ \A j \in 1..Len(r) : r[j] = s[f[j]] /\ f[j] # at
    BY <1>0, <2>2, <2>4
  <2>6. \A j, k \in 1..Len(r) : j < k => f[j] < f[k]
    BY <2>2, <2>4
  <2>7. Thinned(r, s)
    <3> HIDE DEF f
    <3>1. Len(r) <= Len(s) /\ \A j \in 1..Len(r) : r[j] = s[f[j]]
      BY <1>0, <2>4, <2>5
    <3> QED BY <2>4, <2>5, <2>6, <3>1 DEF Thinned
  <2>8. \A j \in 1..Len(r) : r[j].cid # cid
    <3> HIDE DEF f
    <3> TAKE j \in 1..Len(r)
    <3>1. f[j] \in 1..Len(s) /\ f[j] # at /\ r[j] = s[f[j]] /\ (f[j] < at \/ at < f[j])
      BY <2>2, <2>5
    <3> QED BY <2>2, <3>1 DEF ListOK
  <2> QED BY <2>3, <2>7, <2>8
<1> QED BY <1>3, <1>4

\* checkExpiration leaves the end of a list, from a source that has not expired.
LEMMA UnexpiredThins ==
  ASSUME NEW s \in Seq(Source)
  PROVE  /\ Thinned(Unexpired(s), s)
         /\ Unexpired(s) # <<>> => Unexpired(s)[1].expires > tick
<1> DEFINE kept == {i \in 1..Len(s) : s[i].expires > tick}
           first == SelectInSeq(s, LAMBDA x : x.expires > tick)
<1>1. first = IF kept # {} THEN Min(kept) ELSE 0
  BY DEF SelectInSeq
<1>2. Unexpired(s) = IF first = 0 THEN <<>> ELSE SubSeq(s, first, Len(s))
  BY DEF Unexpired
<1> HIDE DEF first
<1>3. CASE kept = {}
  <2>1. SubSeq(s, Len(s) + 1, Len(s)) = <<>>
    OBVIOUS
  <2>2. Len(s) + 1 \in 1..(Len(s) + 1)
    OBVIOUS
  <2>3. Thinned(SubSeq(s, Len(s) + 1, Len(s)), s)
    BY <2>2, SuffixThins
  <2>4. Thinned(<<>>, s)
    BY <2>1, <2>3
  <2> QED BY <1>1, <1>2, <1>3, <2>4
<1>4. CASE kept # {}
  <2>1. first \in kept
    <3>1. kept \in SUBSET Nat
      OBVIOUS
    <3> HIDE DEF kept
    <3> QED BY <1>1, <1>4, <3>1, MinIsLeast
  <2>2. first \in 1..Len(s) /\ s[first].expires > tick
    BY <2>1
  <2>3. Unexpired(s) = SubSeq(s, first, Len(s)) /\ SubSeq(s, first, Len(s))[1] = s[first]
    BY <1>2, <2>2
  <2> QED BY <2>2, <2>3, SuffixThins
<1> QED BY <1>3, <1>4

\* What is saved of a list.
LEMMA WithoutThins ==
  ASSUME NEW s \in Seq(Source), NEW S
  PROVE  Thinned(Without(s, S), s)
  BY WithoutProps DEF Thinned
-----------------------------------------------------------------------------
(***************************************************************************)
(* Indexes                                                                 *)
(***************************************************************************)

\* What an index is, by its files and lists.
LEMMA IndexType ==
  ASSUME NEW D \in SUBSET TTHs, NEW f, f = [x \in D |-> f[x]], \A x \in D : f[x] \in Seq(Source)
  PROVE  IsIndex(f)
<1>1. f \in [D -> Seq(Source)]
  OBVIOUS
<1> QED BY <1>1 DEF IsIndex

LEMMA IndexIs ==
  ASSUME NEW f, IsIndex(f)
  PROVE  DOMAIN f \subseteq TTHs /\ \A x \in DOMAIN f : f[x] \in Seq(Source)
<1>1. PICK files \in SUBSET TTHs : f \in [files -> Seq(Source)]
  BY DEF IsIndex
<1> QED BY <1>1

\* The index of a DHT that has nothing to load, and what it finds in its file.
LEMMA EmptyIs == IsIndex(Empty) /\ DOMAIN Empty = {}
<1>1. Empty \in [{} -> Seq(Source)] /\ {} \in SUBSET TTHs
  BY DEF Empty
<1> QED BY <1>1 DEF IsIndex

LEMMA ContentIs ==
  ASSUME IInv
  PROVE  /\ DOMAIN Content \subseteq TTHs
         /\ \A tth \in DOMAIN Content : ListOK(Content[tth]) /\ Content[tth] \in Seq(Source)
<1>1. CASE ~Complete(file)
  BY <1>1, EmptyIs DEF Content, Complete
<1>2. CASE Complete(file)
  <2>1. Complete(file)
    BY <1>2
  <2>2. IsIndex(file) /\ SavedOK(file) /\ Content = file
    BY <1>2, <2>1 DEF IInv, TypeOK, Complete, Content
  <2> QED BY <2>2, IndexIs DEF SavedOK
<1> QED BY <1>1, <1>2

\* Loading: the lists in memory stay, those of the file are old.
LEMMA LoadedOK ==
  ASSUME IInv, NEW index, IsIndex(index), NEW old \in SUBSET (TTHs \X CIDs), NEW now \in Nat,
         \A tth \in DOMAIN index : ListOK(index[tth]) /\ AgesOK(tth, index[tth], now, old)
  PROVE  /\ IsIndex(Loaded(index)) /\ old \cup FromFile(index) \in SUBSET (TTHs \X CIDs)
         /\ \A tth \in DOMAIN Loaded(index) :
               /\ ListOK(Loaded(index)[tth])
               /\ AgesOK(tth, Loaded(index)[tth], now, old \cup FromFile(index))
<1> DEFINE new == old \cup FromFile(index)
           D == DOMAIN index \cup DOMAIN Content
           F(tth) == IF tth \in DOMAIN index THEN index[tth] ELSE Content[tth]
<1>1. Loaded(index) = [tth \in D |-> F(tth)]
  BY DEF Loaded
<1>2. DOMAIN Content \subseteq TTHs /\ \A tth \in DOMAIN Content : ListOK(Content[tth]) /\ Content[tth] \in Seq(Source)
  BY ContentIs
<1>3. DOMAIN index \subseteq TTHs /\ \A tth \in DOMAIN index : index[tth] \in Seq(Source)
  BY IndexIs
<1>4. IsIndex(Loaded(index))
  <2>1. D \subseteq TTHs /\ \A tth \in D : F(tth) \in Seq(Source)
    BY <1>2, <1>3
  <2> HIDE DEF D, F
  <2>2. \A tth \in D : Loaded(index)[tth] = F(tth)
    BY <1>1
  <2>3. Loaded(index) = [tth \in D |-> Loaded(index)[tth]]
    BY <1>1
  <2>4. \A tth \in D : Loaded(index)[tth] \in Seq(Source)
    BY <2>1, <2>2
  <2> DEFINE g == Loaded(index)
  <2> HIDE DEF g
  <2>5. D \in SUBSET TTHs /\ g = [tth \in D |-> g[tth]] /\ \A tth \in D : g[tth] \in Seq(Source)
    BY <2>1, <2>3, <2>4 DEF g
  <2>6. IsIndex(g)
    BY <2>5, IndexType
  <2> QED BY <2>6 DEF g
<1>5. new \in SUBSET (TTHs \X CIDs)
  <2>1. ASSUME NEW tth \in DOMAIN Content, NEW i \in 1..Len(Content[tth])
        PROVE  <<tth, Content[tth][i].cid>> \in TTHs \X CIDs
    <3>1. Content[tth][i] \in Source
      BY <1>2
    <3> QED BY <1>2, <3>1 DEF Source
  <2>2. FromFile(index) \subseteq TTHs \X CIDs
    BY <2>1 DEF FromFile
  <2> QED BY <2>2
<1>6. ASSUME NEW tth \in DOMAIN index PROVE AgesOK(tth, index[tth], now, new)
  <2>1. \A x : IsOld(tth, x, new) <=> IsOld(tth, x, old)
    BY DEF IsOld, FromFile
  <2>2. AgesOK(tth, index[tth], now, old)
    OBVIOUS
  <2> HIDE DEF new
  <2> QED BY <2>1, <2>2 DEF AgesOK
<1>7. ASSUME NEW tth \in DOMAIN Content \ DOMAIN index PROVE AgesOK(tth, Content[tth], now, new)
  <2>1. \A i \in 1..Len(Content[tth]) : IsOld(tth, Content[tth][i], new)
    BY DEF IsOld, FromFile
  <2> HIDE DEF new
  <2> QED BY <2>1 DEF AgesOK
<1> HIDE DEF new
<1>8. ASSUME NEW tth \in D PROVE ListOK(F(tth)) /\ AgesOK(tth, F(tth), now, new)
  BY <1>2, <1>6, <1>7, <1>8
<1> HIDE DEF D, F
<1>9. \A tth \in DOMAIN Loaded(index) : ListOK(Loaded(index)[tth]) /\ AgesOK(tth, Loaded(index)[tth], now, new)
  BY <1>1, <1>8
<1> QED BY <1>4, <1>5, <1>9 DEF new

\* A list is no older at a later tick.
LEMMA AgesLater ==
  ASSUME NEW tth, NEW s \in Seq(Source), NEW now \in Nat, NEW later \in Nat, now <= later,
         NEW old, AgesOK(tth, s, now, old)
  PROVE  AgesOK(tth, s, later, old)
<1>1. ASSUME NEW i \in 1..Len(s)
      PROVE  IsOld(tth, s[i], old) \/ s[i].expires <= later + Life(s[i].partial)
  <2>1. s[i].expires \in Nat /\ Life(s[i].partial) \in Nat
    <3>1. s[i] \in Source
      OBVIOUS
    <3> QED BY <3>1, IndexAssumption DEF Source, Life
  <2>2. IsOld(tth, s[i], old) \/ s[i].expires <= now + Life(s[i].partial)
    BY DEF AgesOK
  <2> QED BY <2>1, <2>2
<1> QED BY <1>1 DEF AgesOK

\* A source published now goes behind all others of its file.
LEMMA PublishedOK ==
  ASSUME NEW tth, NEW s, ListOK(s), NEW now \in 0..MaxTick, NEW old, AgesOK(tth, s, now, old),
         NEW x \in Source, x.expires = now + Life(x.partial),
         \A i \in 1..Len(s) : s[i].cid # x.cid
  PROVE  /\ Append(s, x) \in Seq(Source) /\ Len(Append(s, x)) = Len(s) + 1
         /\ \A i, j \in 1..(Len(s) + 1) : i < j => Append(s, x)[i].cid # Append(s, x)[j].cid
         /\ AgesOK(tth, Append(s, x), now, old \ {<<tth, x.cid>>})
<1> DEFINE n == Append(s, x)
           new == old \ {<<tth, x.cid>>}
<1>1. s \in Seq(Source) /\ Len(s) \in Nat
  BY DEF ListOK
<1>2. /\ n \in Seq(Source) /\ Len(n) = Len(s) + 1 /\ n[Len(s) + 1] = x
      /\ \A i \in 1..Len(s) : n[i] = s[i]
  BY <1>1
<1> HIDE DEF n
<1>3. \A i, j \in 1..(Len(s) + 1) : i < j => n[i].cid # n[j].cid
  <2> SUFFICES ASSUME NEW i \in 1..(Len(s) + 1), NEW j \in 1..(Len(s) + 1), i < j
               PROVE  n[i].cid # n[j].cid
    OBVIOUS
  <2>1. i \in 1..Len(s) /\ n[i] = s[i]
    BY <1>1, <1>2
  <2>2. CASE j = Len(s) + 1
    BY <1>2, <2>1, <2>2
  <2>3. CASE j # Len(s) + 1
    <3>1. j \in 1..Len(s) /\ n[j] = s[j]
      BY <1>1, <1>2, <2>3
    <3> QED BY <2>1, <3>1 DEF ListOK
  <2> QED BY <2>2, <2>3
<1>4. ~IsOld(tth, x, new) /\ \A i \in 1..Len(s) : IsOld(tth, s[i], new) <=> IsOld(tth, s[i], old)
  BY DEF IsOld
<1> HIDE DEF new
<1>5. x.partial \in BOOLEAN /\ \A p \in BOOLEAN : Life(p) \in Nat
  BY IndexAssumption DEF Life, Source
<1>6. ASSUME NEW i \in 1..Len(s), ~IsOld(tth, s[i], old)
      PROVE  s[i].expires <= x.expires \/ Behind(s[i], x)
  <2>1. s[i] \in Source
    BY <1>1
  <2>2. s[i].expires \in Nat /\ s[i].partial \in BOOLEAN
    BY <2>1, IndexAssumption DEF Source
  <2>3. s[i].expires <= now + Life(s[i].partial)
    BY <1>6 DEF AgesOK
  <2>4. CASE x.partial = TRUE /\ s[i].partial = FALSE
    BY <2>4 DEF Behind
  <2>5. CASE ~(x.partial = TRUE /\ s[i].partial = FALSE)
    <3>1. Life(s[i].partial) <= Life(x.partial)
      BY <1>5, <2>2, <2>5, IndexAssumption DEF Life
    <3>2. Life(s[i].partial) \in Nat /\ Life(x.partial) \in Nat
      BY <1>5, <2>2
    <3> QED BY <2>2, <2>3, <3>1, <3>2
  <2> QED BY <2>4, <2>5
<1>7. ASSUME NEW i \in 1..Len(n) PROVE IsOld(tth, n[i], new) \/ n[i].expires <= now + Life(n[i].partial)
  <2>1. CASE i = Len(s) + 1
    BY <1>2, <1>5, <2>1
  <2>2. CASE i # Len(s) + 1
    <3>1. i \in 1..Len(s) /\ n[i] = s[i]
      BY <1>1, <1>2, <2>2
    <3> QED BY <1>4, <3>1 DEF AgesOK
  <2> QED BY <2>1, <2>2
<1>8. ASSUME NEW i \in 1..Len(n), NEW j \in 1..Len(n), i < j
      PROVE  \/ IsOld(tth, n[i], new)
             \/ ~IsOld(tth, n[j], new) /\ (n[i].expires <= n[j].expires \/ Behind(n[i], n[j]))
  <2>1. i \in 1..Len(s) /\ n[i] = s[i]
    BY <1>1, <1>2, <1>8
  <2>2. CASE j = Len(s) + 1
    BY <1>2, <1>4, <1>6, <2>1, <2>2
  <2>3. CASE j # Len(s) + 1
    <3>1. j \in 1..Len(s) /\ n[j] = s[j]
      BY <1>1, <1>2, <2>3
    <3> QED BY <1>4, <1>8, <2>1, <3>1 DEF AgesOK
  <2> QED BY <2>2, <2>3
<1>9. AgesOK(tth, n, now, new)
  BY <1>7, <1>8 DEF AgesOK
<1> QED BY <1>2, <1>3, <1>9 DEF n, new
-----------------------------------------------------------------------------
(***************************************************************************)
(* The steps                                                               *)
(***************************************************************************)

\* What is saved are lists that are kept to.
LEMMA SavedIs ==
  ASSUME IInv
  PROVE  IsIndex(Saved(tthList)) /\ SavedOK(Saved(tthList)) /\ Complete(Saved(tthList))
<1> DEFINE S == {x \in Source : x.partial}
           f == Saved(tthList)
<1>1. f = [tth \in DOMAIN tthList |-> Without(tthList[tth], S)]
  BY DEF Saved
<1> HIDE DEF f, S
<1>2. /\ DOMAIN tthList \subseteq TTHs
      /\ \A tth \in DOMAIN tthList : ListOK(tthList[tth]) /\ tthList[tth] \in Seq(Source)
  BY IndexIs DEF IInv, TypeOK, ListedOK
<1>3. \A tth \in DOMAIN tthList : ListOK(f[tth]) /\ f[tth] \in Seq(Source)
  <2> TAKE tth \in DOMAIN tthList
  <2>1. f[tth] = Without(tthList[tth], S)
    BY <1>1
  <2>2. Thinned(f[tth], tthList[tth])
    BY <1>2, <2>1, WithoutThins
  <2> QED BY <1>2, <2>2, ThinnedOK DEF ListOK
<1>4. DOMAIN f = DOMAIN tthList /\ f = [tth \in DOMAIN tthList |-> f[tth]]
  BY <1>1
<1>5. IsIndex(f)
  BY <1>2, <1>3, <1>4, IndexType
<1>6. SavedOK(f)
  BY <1>3, <1>4 DEF SavedOK
<1>7. Complete(f)
  BY <1>5, IndexAssumption DEF Complete
<1> QED BY <1>5, <1>6, <1>7 DEF f

\* The steps that change the lists in memory only, with what they need: the
\* lists keep to what they shall.
LEMMA ListsStep ==
  ASSUME IInv, UNCHANGED <<file, tmp, saved>>, CopiesOK', cut' \in BOOLEAN,
         tick' \in 0..MaxTick, failed' \in 0..MaxFailures, saving' \in {"no", "written", "deleted"},
         dirty' \in BOOLEAN, loaded' \subseteq TTHs \X CIDs, IsIndex(tthList'), ListedOK'
  PROVE  IInv'
  BY DEF IInv, TypeOK, SavedOK, Complete

LEMMA TickStep ==
  ASSUME IInv, Tick
  PROVE  IInv'
<1>1. tick \in 0..MaxTick /\ tick' = tick + 1 /\ tick' \in 0..MaxTick /\ tick' \in Nat /\ tick \in Nat
  BY IndexAssumption DEF Tick, IInv, TypeOK
<1>2. UNCHANGED <<tthList, dirty, loaded, file, tmp, saving, saved, cut, failed>>
  BY DEF Tick, copies
<1>3. \A tth \in DOMAIN tthList : ListOK(tthList[tth]) /\ AgesOK(tth, tthList[tth], tick', loaded)
  <2> TAKE tth \in DOMAIN tthList
  <2>1. ListOK(tthList[tth]) /\ AgesOK(tth, tthList[tth], tick, loaded) /\ tthList[tth] \in Seq(Source)
    BY DEF IInv, ListedOK, ListOK
  <2> QED BY <1>1, <2>1, AgesLater
<1>4. ListedOK'
  BY <1>2, <1>3 DEF ListedOK
<1>5. IsIndex(tthList') /\ CopiesOK'
  BY <1>2 DEF IInv, TypeOK, CopiesOK, SavedIsRead, Complete
<1> QED BY <1>1, <1>2, <1>4, <1>5, ListsStep DEF IInv, TypeOK

LEMMA AddSourceStep ==
  ASSUME IInv, NEW tth \in TTHs, NEW cid \in CIDs, NEW partial \in BOOLEAN, AddSource(tth, cid, partial)
  PROVE  IInv'
<1> DEFINE x == [cid |-> cid, expires |-> Expiry(partial), partial |-> partial]
           others == IF tth \in DOMAIN tthList THEN WithoutUser(tthList[tth], cid) ELSE <<>>
           new == Capped(Published(others, x))
<1>1. /\ tthList' = With(tth, new) /\ loaded' = loaded \ {<<tth, cid>>} /\ dirty' = TRUE
      /\ UNCHANGED <<tick, file, tmp, saving, saved, cut, failed>>
  BY DEF AddSource, copies
<1>2. tick \in 0..MaxTick /\ tick \in Nat /\ IsIndex(tthList) /\ loaded \subseteq TTHs \X CIDs
  BY IndexAssumption DEF IInv, TypeOK
<1>3. x \in Source /\ x.cid = cid /\ x.expires = tick + Life(x.partial)
  <2>1. Expiry(partial) = tick + Life(partial) /\ Expiry(partial) \in 0..(MaxTick + REPUBLISH_TIME)
    BY <1>2, IndexAssumption DEF Expiry, Life
  <2>2. x \in Source /\ x.cid = cid
    BY <2>1 DEF Source
  <2>3. x.expires = tick + Life(x.partial)
    BY <2>1
  <2> QED BY <2>2, <2>3
<1>4. /\ ListOK(others) /\ AgesOK(tth, others, tick, loaded)
      /\ \A i \in 1..Len(others) : others[i].cid # cid
  <2>1. CASE tth \in DOMAIN tthList
    <3>1. ListOK(tthList[tth]) /\ AgesOK(tth, tthList[tth], tick, loaded)
      BY <2>1 DEF IInv, ListedOK
    <3>2. others = WithoutUser(tthList[tth], cid)
      BY <2>1
    <3> HIDE DEF others
    <3>3. Thinned(others, tthList[tth]) /\ \A i \in 1..Len(others) : others[i].cid # cid
      BY <3>1, <3>2, WithoutUserThins
    <3> QED BY <3>1, <3>3, ThinnedOK, ThinnedAges
  <2>2. CASE tth \notin DOMAIN tthList
    <3>1. others = <<>>
      BY <2>2
    <3> HIDE DEF others
    <3>2. others \in Seq(Source) /\ Len(others) = 0
      BY <3>1
    <3> QED BY <3>2, IndexAssumption DEF ListOK, AgesOK
  <2> QED BY <2>1, <2>2
<1> HIDE DEF x, others
<1> DEFINE all == Append(others, x)
<1>5. /\ all \in Seq(Source) /\ Len(all) = Len(others) + 1
      /\ \A i, j \in 1..(Len(others) + 1) : i < j => all[i].cid # all[j].cid
      /\ AgesOK(tth, all, tick, loaded')
  <2>1. /\ all \in Seq(Source) /\ Len(all) = Len(others) + 1
        /\ \A i, j \in 1..(Len(others) + 1) : i < j => all[i].cid # all[j].cid
        /\ AgesOK(tth, all, tick, loaded \ {<<tth, cid>>})
    BY ZenonT(60), <1>2, <1>3, <1>4, PublishedOK
  <2> HIDE DEF all
  <2> QED BY <1>1, <2>1
<1>6. new = Capped(all)
  BY DEF Published
<1> HIDE DEF all, new
<1>7. Len(all) <= MAX_SEARCH_RESULTS + 1
  <2>1. Len(others) \in Nat /\ Len(others) <= MAX_SEARCH_RESULTS
    BY <1>4 DEF ListOK
  <2> QED BY <1>5, <2>1, IndexAssumption
<1>8. Thinned(new, all) /\ Len(new) <= MAX_SEARCH_RESULTS
  BY <1>5, <1>6, <1>7, CappedThins
<1>9. ListOK(new)
  <2>1. PICK f \in [1..Len(new) -> 1..Len(all)] :
            /\ \A n \in 1..Len(new) : new[n] = all[f[n]]
            /\ \A n, k \in 1..Len(new) : n < k => f[n] < f[k]
    BY <1>8 DEF Thinned
  <2>2. ASSUME NEW n \in 1..Len(new), NEW k \in 1..Len(new), n < k PROVE new[n].cid # new[k].cid
    <3>1. /\ f[n] \in 1..Len(all) /\ f[k] \in 1..Len(all) /\ f[n] < f[k]
          /\ new[n] = all[f[n]] /\ new[k] = all[f[k]]
      BY <2>1, <2>2
    <3> QED BY <1>5, <3>1
  <2> QED BY <1>8, <2>2 DEF ListOK, Thinned
<1>10. AgesOK(tth, new, tick, loaded')
  BY <1>5, <1>8, ThinnedAges
<1>11. ASSUME NEW y \in DOMAIN tthList, y # tth
       PROVE  ListOK(tthList[y]) /\ AgesOK(y, tthList[y], tick, loaded')
  <2>1. ListOK(tthList[y]) /\ AgesOK(y, tthList[y], tick, loaded)
    BY DEF IInv, ListedOK
  <2>2. \A z : IsOld(y, z, loaded') <=> IsOld(y, z, loaded)
    BY <1>1, <1>11 DEF IsOld
  <2> QED BY <2>1, <2>2 DEF AgesOK
<1>12. /\ DOMAIN tthList' = DOMAIN tthList \cup {tth}
       /\ \A y \in DOMAIN tthList' : tthList'[y] = IF y = tth THEN new ELSE tthList[y]
       /\ tthList' = [y \in DOMAIN tthList \cup {tth} |-> tthList'[y]]
  BY <1>1 DEF With
<1>13. ListedOK'
  BY <1>1, <1>9, <1>10, <1>11, <1>12 DEF ListedOK
<1>14. IsIndex(tthList')
  <2>1. DOMAIN tthList \subseteq TTHs /\ \A y \in DOMAIN tthList : tthList[y] \in Seq(Source)
    BY <1>2, IndexIs
  <2>2. new \in Seq(Source)
    BY <1>9 DEF ListOK
  <2>3. \A y \in DOMAIN tthList \cup {tth} : tthList'[y] \in Seq(Source)
    BY <1>12, <2>1, <2>2
  <2> QED BY <1>12, <2>1, <2>3, IndexType
<1>15. CopiesOK'
  BY <1>1 DEF IInv, CopiesOK, SavedIsRead, Complete
<1> QED BY <1>1, <1>2, <1>13, <1>14, <1>15, ListsStep DEF IInv, TypeOK

LEMMA CheckExpirationStep ==
  ASSUME IInv, CheckExpiration
  PROVE  IInv'
<1> DEFINE kept == {tth \in DOMAIN tthList : Unexpired(tthList[tth]) # <<>>}
<1>1. /\ tthList' = [tth \in kept |-> Unexpired(tthList[tth])]
      /\ dirty' \in BOOLEAN
      /\ UNCHANGED <<tick, loaded, file, tmp, saving, saved, cut, failed>>
  BY DEF CheckExpiration, copies, IInv, TypeOK
<1>2. kept \subseteq DOMAIN tthList
  OBVIOUS
<1> HIDE DEF kept
<1>3. /\ DOMAIN tthList \subseteq TTHs
      /\ \A tth \in DOMAIN tthList : ListOK(tthList[tth]) /\ AgesOK(tth, tthList[tth], tick, loaded)
  BY IndexIs DEF IInv, TypeOK, ListedOK
<1>4. \A tth \in kept : tthList'[tth] = Unexpired(tthList[tth])
  BY <1>1
<1>5. ASSUME NEW tth \in kept
      PROVE  ListOK(tthList'[tth]) /\ AgesOK(tth, tthList'[tth], tick, loaded)
  <2>1. ListOK(tthList[tth]) /\ AgesOK(tth, tthList[tth], tick, loaded) /\ tthList[tth] \in Seq(Source)
    BY <1>2, <1>3 DEF ListOK
  <2>2. Thinned(tthList'[tth], tthList[tth])
    BY <1>4, <2>1, UnexpiredThins
  <2> QED BY <2>1, <2>2, ThinnedOK, ThinnedAges
<1>6. DOMAIN tthList' = kept /\ tthList' = [tth \in kept |-> tthList'[tth]]
  BY <1>1
<1>7. ListedOK'
  BY <1>1, <1>5, <1>6 DEF ListedOK
<1>8. IsIndex(tthList')
  <2>1. \A tth \in kept : tthList'[tth] \in Seq(Source)
    BY <1>5 DEF ListOK
  <2> QED BY <1>2, <1>3, <1>6, <2>1, IndexType
<1>9. CopiesOK'
  BY <1>1 DEF IInv, CopiesOK, SavedIsRead, Complete
<1> QED BY <1>1, <1>7, <1>8, <1>9, ListsStep DEF IInv, TypeOK

\* The steps of saving leave the lists alone.
LEMMA CopiesStep ==
  ASSUME IInv, UNCHANGED <<tick, tthList, dirty, loaded>>, CopiesOK',
         failed' \in 0..MaxFailures, saving' \in {"no", "written", "deleted"}, cut' \in BOOLEAN,
         \A f \in {file', tmp', saved'} : Complete(f) => IsIndex(f) /\ SavedOK(f)
  PROVE  IInv'
<1>1. ListedOK'
  BY DEF IInv, ListedOK
<1>2. \A f \in {file, tmp, saved}' \ {NoFile, Torn} : IsIndex(f)
  BY DEF Complete
<1>3. TypeOK'
  BY <1>2 DEF IInv, TypeOK
<1>4. (Complete(file) => SavedOK(file))' /\ (Complete(tmp) => SavedOK(tmp))' /\ (Complete(saved) => SavedOK(saved))'
  BY DEF Complete, SavedOK
<1> QED BY <1>1, <1>3, <1>4 DEF IInv

\* What there is of files before a step, and how often a step can fail.
LEMMA FilesAre ==
  ASSUME IInv
  PROVE  /\ \A f \in {file, tmp, saved} : Complete(f) => IsIndex(f) /\ SavedOK(f)
         /\ failed \in 0..MaxFailures /\ cut \in BOOLEAN
         /\ Fails => failed' \in 0..MaxFailures
         /\ ~Complete(NoFile) /\ ~Complete(Torn)
<1>1. failed \in 0..MaxFailures /\ cut \in BOOLEAN
  BY DEF IInv, TypeOK
<1>2. Fails => failed' \in 0..MaxFailures
  BY <1>1, IndexAssumption DEF Fails
<1> QED BY <1>1, <1>2 DEF IInv, TypeOK, Complete

LEMMA WriteFileStep ==
  ASSUME IInv, WriteFile
  PROVE  IInv'
<1>1. /\ saving = "no" /\ file' = file
      /\ UNCHANGED <<tick, tthList, dirty, loaded, saved, cut>>
      /\ \/ tmp' = Saved(tthList) /\ saving' = "written" /\ failed' = failed
         \/ Fails /\ tmp' \in {tmp, Torn} /\ saving' = "no"
  BY DEF WriteFile, Kept
<1>2. IsIndex(Saved(tthList)) /\ SavedOK(Saved(tthList)) /\ Complete(Saved(tthList))
  BY SavedIs
<1>3. \A f \in {file', tmp', saved'} : Complete(f) => IsIndex(f) /\ SavedOK(f)
  BY <1>1, <1>2, FilesAre
<1>4. CopiesOK'
  BY <1>1, <1>2 DEF IInv, CopiesOK, SavedIsRead, Complete
<1>5. failed' \in 0..MaxFailures /\ cut' \in BOOLEAN /\ saving' \in {"no", "written", "deleted"}
  BY <1>1, FilesAre
<1> QED BY <1>1, <1>3, <1>4, <1>5, CopiesStep

LEMMA DeleteFileStep ==
  ASSUME IInv, DeleteFile
  PROVE  IInv'
<1>1. /\ saving = "written" /\ saving' = "deleted" /\ file' \in {file, NoFile}
      /\ UNCHANGED <<tick, tthList, tmp, dirty, loaded, saved, cut>>
      /\ failed' \in 0..MaxFailures /\ cut' \in BOOLEAN
  BY FilesAre DEF DeleteFile
<1>2. \A f \in {file', tmp', saved'} : Complete(f) => IsIndex(f) /\ SavedOK(f)
  BY <1>1, FilesAre
<1>3. CopiesOK'
  BY <1>1 DEF IInv, CopiesOK, SavedIsRead, Complete
<1> QED BY <1>1, <1>2, <1>3, CopiesStep

LEMMA RenameFileStep ==
  ASSUME IInv, RenameFile
  PROVE  IInv'
<1>1. /\ saving = "deleted" /\ saving' = "no" /\ file' = tmp /\ tmp' = NoFile /\ saved' = tmp /\ cut' = FALSE
      /\ UNCHANGED <<tick, tthList, dirty, loaded, failed>>
  BY DEF RenameFile
<1>2. Complete(tmp)
  BY <1>1 DEF IInv, CopiesOK
<1>3. \A f \in {file', tmp', saved'} : Complete(f) => IsIndex(f) /\ SavedOK(f)
  BY <1>1, FilesAre
<1>4. CopiesOK'
  BY <1>1, <1>2 DEF CopiesOK, SavedIsRead, Complete
<1>5. failed' \in 0..MaxFailures
  BY <1>1, FilesAre
<1> QED BY <1>1, <1>3, <1>4, <1>5, CopiesStep

LEMMA RenameFailsStep ==
  ASSUME IInv, RenameFails
  PROVE  IInv'
<1>1. /\ saving' = "no" /\ file' \in {file, Torn} /\ cut' = TRUE
      /\ UNCHANGED <<tick, tthList, tmp, dirty, loaded, saved>>
      /\ failed' \in 0..MaxFailures
  BY FilesAre DEF RenameFails
<1>2. \A f \in {file', tmp', saved'} : Complete(f) => IsIndex(f) /\ SavedOK(f)
  BY <1>1, FilesAre
<1>3. CopiesOK'
  BY <1>1 DEF IInv, CopiesOK, SavedIsRead
<1> QED BY <1>1, <1>2, <1>3, CopiesStep

LEMMA StartStep ==
  ASSUME IInv, Start
  PROVE  IInv'
<1>1. /\ tthList' = Loaded(tthList) /\ loaded' = loaded \cup FromFile(tthList)
      /\ UNCHANGED <<tick, dirty, file, tmp, saving, saved, cut, failed>>
  BY DEF Start, copies
<1>2. /\ IsIndex(tthList) /\ loaded \in SUBSET (TTHs \X CIDs) /\ tick \in Nat
      /\ \A tth \in DOMAIN tthList : ListOK(tthList[tth]) /\ AgesOK(tth, tthList[tth], tick, loaded)
  BY IndexAssumption DEF IInv, TypeOK, ListedOK
<1>3. /\ IsIndex(tthList') /\ loaded' \in SUBSET (TTHs \X CIDs)
      /\ \A tth \in DOMAIN tthList' : ListOK(tthList'[tth]) /\ AgesOK(tth, tthList'[tth], tick, loaded')
  BY <1>1, <1>2, LoadedOK
<1>4. ListedOK' /\ CopiesOK'
  BY <1>1, <1>3 DEF IInv, ListedOK, CopiesOK, SavedIsRead, Complete
<1> QED BY <1>1, <1>3, <1>4, ListsStep DEF IInv, TypeOK

LEMMA NewProcessStep ==
  ASSUME IInv, NewProcess
  PROVE  IInv'
<1>1. /\ failed' = failed \/ Fails
      /\ cut' = (cut \/ saving = "deleted")
      /\ tick' = 0 /\ tthList' = Loaded(Empty) /\ loaded' = FromFile(Empty) /\ dirty' = FALSE /\ saving' = "no"
      /\ UNCHANGED <<file, tmp, saved>>
  BY DEF NewProcess
<1>2. /\ IsIndex(Empty) /\ {} \in SUBSET (TTHs \X CIDs) /\ 0 \in Nat
      /\ \A tth \in DOMAIN Empty : ListOK(Empty[tth]) /\ AgesOK(tth, Empty[tth], 0, {})
  BY EmptyIs
<1>3. {} \cup FromFile(Empty) = loaded'
  BY <1>1
<1>4. /\ IsIndex(tthList') /\ loaded' \in SUBSET (TTHs \X CIDs)
      /\ \A tth \in DOMAIN tthList' : ListOK(tthList'[tth]) /\ AgesOK(tth, tthList'[tth], 0, loaded')
  <2> DEFINE l == Loaded(Empty)
             new == {} \cup FromFile(Empty)
  <2>1. /\ IsIndex(l) /\ new \in SUBSET (TTHs \X CIDs)
        /\ \A tth \in DOMAIN l : ListOK(l[tth]) /\ AgesOK(tth, l[tth], 0, new)
    BY <1>2, LoadedOK
  <2>2. l = tthList' /\ new = loaded'
    BY <1>1, <1>3
  <2> HIDE DEF l, new
  <2> QED BY <2>1, <2>2
<1>5. ListedOK'
  BY <1>1, <1>4 DEF ListedOK
<1>6. failed' \in 0..MaxFailures /\ 0 \in 0..MaxTick /\ cut' \in BOOLEAN
  BY <1>1, FilesAre, IndexAssumption
<1>7. CopiesOK'
  BY <1>1 DEF IInv, CopiesOK, SavedIsRead
<1> QED BY <1>1, <1>4, <1>5, <1>6, <1>7, ListsStep

\* The strengthening is inductive.
LEMMA InitInv == Init => IInv
<1> SUFFICES ASSUME Init PROVE IInv
  OBVIOUS
<1>1. TypeOK
  <2>1. {file, tmp, saved} \ {NoFile, Torn} = {}
    BY DEF Init
  <2>2. \A f \in {file, tmp, saved} \ {NoFile, Torn} : IsIndex(f)
    BY <2>1
  <2>3. tick \in 0..MaxTick /\ failed \in 0..MaxFailures /\ saving \in {"no", "written", "deleted"}
    BY IndexAssumption DEF Init
  <2>4. IsIndex(tthList) /\ dirty \in BOOLEAN /\ loaded \subseteq TTHs \X CIDs /\ cut \in BOOLEAN
    BY EmptyIs DEF Init
  <2> QED BY <2>2, <2>3, <2>4 DEF TypeOK
<1>2. ListedOK
  BY EmptyIs DEF Init, ListedOK
<1>3. ~Complete(file) /\ ~Complete(tmp) /\ ~Complete(saved) /\ CopiesOK
  BY IndexAssumption DEF Init, Complete, CopiesOK, SavedIsRead
<1> QED BY <1>1, <1>2, <1>3 DEF IInv

LEMMA InvStep == IInv /\ [Next]_vars => IInv'
<1> SUFFICES ASSUME IInv, [Next]_vars PROVE IInv'
  OBVIOUS
<1>1. CASE UNCHANGED vars
  BY <1>1 DEF vars, copies, IInv, TypeOK, ListedOK, SavedOK, CopiesOK, SavedIsRead, Complete
<1> QED BY <1>1, TickStep, AddSourceStep, CheckExpirationStep, WriteFileStep, DeleteFileStep,
           RenameFileStep, RenameFailsStep, StartStep, NewProcessStep DEF Next

-----------------------------------------------------------------------------
(***************************************************************************)
(* Theorems                                                                *)
(***************************************************************************)

\* The index and its copies have their types at any time.
THEOREM TypeCorrect == Spec => []TypeOK
<1>1. IInv => TypeOK
  BY DEF IInv
<1> QED BY <1>1, InitInv, InvStep, PTL DEF Spec

\* However a node publishes, and however often the index is saved and loaded, the node is
\* one source of a file, and a file has no more sources than it may.
THEOREM NodesAreOneSource == Spec => []OneSourcePerUser
<1>1. IInv => OneSourcePerUser
  <2> SUFFICES ASSUME IInv, NEW tth \in DOMAIN tthList
               PROVE  /\ IsInjective([i \in 1..Len(tthList[tth]) |-> tthList[tth][i].cid])
                      /\ Len(tthList[tth]) <= MAX_SEARCH_RESULTS
    BY DEF OneSourcePerUser
  <2>1. ListOK(tthList[tth])
    BY DEF IInv, ListedOK
  <2>2. \A i, j \in 1..Len(tthList[tth]) : tthList[tth][i].cid = tthList[tth][j].cid => i = j
    <3> SUFFICES ASSUME NEW i \in 1..Len(tthList[tth]), NEW j \in 1..Len(tthList[tth]),
                        tthList[tth][i].cid = tthList[tth][j].cid
                 PROVE  i = j
      OBVIOUS
    <3>1. ~(i < j) /\ ~(j < i)
      BY <2>1 DEF ListOK
    <3> QED BY <3>1
  <2> QED BY <2>1, <2>2 DEF ListOK, IsInjective
<1> QED BY <1>1, InitInv, InvStep, PTL DEF Spec

\* Only what was loaded, and not published since, is listed longer than
\* REPUBLISH_TIME from now.
THEOREM OnlyLoadedOutlives == Spec => []OutlivesOnlyIfLoaded
<1>1. IInv => OutlivesOnlyIfLoaded
  <2> SUFFICES ASSUME IInv, NEW tth \in DOMAIN tthList, NEW i \in 1..Len(tthList[tth]),
                      tthList[tth][i].expires > tick + REPUBLISH_TIME
               PROVE  <<tth, tthList[tth][i].cid>> \in loaded
    BY DEF OutlivesOnlyIfLoaded
  <2>1. tthList[tth] \in Seq(Source) /\ AgesOK(tth, tthList[tth], tick, loaded)
    BY DEF IInv, ListedOK, ListOK
  <2> DEFINE x == tthList[tth][i]
  <2>2. x \in Source
    BY <2>1
  <2>3. IsOld(tth, x, loaded) \/ x.expires <= tick + Life(x.partial)
    BY <2>1 DEF AgesOK
  <2>4. x.expires \in Nat /\ x.expires > tick + REPUBLISH_TIME /\ tick \in Nat
    BY <2>2, IndexAssumption DEF Source, IInv, TypeOK
  <2> HIDE DEF x
  <2>5. Life(x.partial) \in Nat /\ Life(x.partial) <= REPUBLISH_TIME
    BY IndexAssumption DEF Life
  <2>6. IsOld(tth, x, loaded)
    BY <2>3, <2>4, <2>5, IndexAssumption
  <2> QED BY <2>6 DEF IsOld, x
<1> QED BY <1>1, InitInv, InvStep, PTL DEF Spec

\* Whenever checkExpiration runs it leaves an expired source only behind a loaded one,
\* or a partial one behind a complete one.
THEOREM ExpiredIsBehindLonger == Spec => []ExpiredOnlyBehindLonger
<1>1. IInv => ExpiredOnlyBehindLonger
  <2> SUFFICES ASSUME IInv, NEW tth \in DOMAIN tthList, NEW i \in 1..Len(Unexpired(tthList[tth])),
                      Unexpired(tthList[tth])[i].expires <= tick
               PROVE  LET s == Unexpired(tthList[tth])
                      IN  \E j \in 1..(i - 1) :
                             /\ s[j].expires > tick
                             /\ <<tth, s[j].cid>> \in loaded \/ (s[i].partial /\ ~s[j].partial)
    BY DEF ExpiredOnlyBehindLonger
  <2> DEFINE s == Unexpired(tthList[tth])
  <2>1. ListOK(tthList[tth]) /\ AgesOK(tth, tthList[tth], tick, loaded) /\ tthList[tth] \in Seq(Source)
    BY DEF IInv, ListedOK, ListOK
  <2>2. Thinned(s, tthList[tth]) /\ (s # <<>> => s[1].expires > tick)
    BY <2>1, UnexpiredThins
  <2>3. i \in 1..Len(s) /\ s[i].expires <= tick
    OBVIOUS
  <2> HIDE DEF s
  <2>4. s \in Seq(Source) /\ AgesOK(tth, s, tick, loaded)
    BY <2>1, <2>2, ThinnedAges DEF Thinned
  <2>5. s # <<>> /\ 1 \in 1..Len(s)
    BY <2>3, <2>4
  <2>6. s[1] \in Source /\ s[i] \in Source
    BY <2>3, <2>4, <2>5
  <2>7. s[1].expires \in Nat /\ s[i].expires \in Nat /\ tick \in Nat /\ s[1].expires > tick
    BY <2>2, <2>5, <2>6, IndexAssumption DEF Source, IInv, TypeOK
  <2>8. ~(s[1].expires <= s[i].expires)
    BY <2>3, <2>7
  <2>9. i # 1
    BY <2>3, <2>7
  <2>10. 1 < i /\ 1 \in 1..(i - 1)
    BY <2>3, <2>4, <2>9
  <2>11. IsOld(tth, s[1], loaded) \/ Behind(s[1], s[i])
    BY <2>3, <2>4, <2>5, <2>8, <2>10 DEF AgesOK
  <2>12. <<tth, s[1].cid>> \in loaded \/ (s[i].partial /\ ~s[1].partial)
    BY <2>11 DEF IsOld, Behind
  <2> QED BY <2>7, <2>10, <2>12 DEF s
<1> QED BY <1>1, InitInv, InvStep, PTL DEF Spec

\* Whichever steps of saving fail, and wherever crashes cut saves off: unless the last
\* of them ended between the deletion and the renaming, the next process reads what was
\* saved last.
THEOREM LastSaveIsRead == Spec => []SavedIsRead
<1>1. IInv => SavedIsRead
  BY DEF IInv, CopiesOK
<1> QED BY <1>1, InitInv, InvStep, PTL DEF Spec

=============================================================================
