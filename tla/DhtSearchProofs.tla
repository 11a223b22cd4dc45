--------------------------- MODULE DhtSearchProofs ---------------------------
(***************************************************************************)
(* Proofs about DhtSearch, for every set of nodes, files, threads and      *)
(* tokens and every lifetime: the types, the publishing slots, that no     *)
(* node is asked twice and the closest are asked first, that the timer     *)
(* thread does not search twice, and that no result waits for a user who   *)
(* is online.                                                              *)
(***************************************************************************)
EXTENDS DhtSearch, FiniteSetTheorems, FunctionTheorems, TLAPS

-----------------------------------------------------------------------------
(***************************************************************************)
(* Lemmas about the operators                                              *)
(***************************************************************************)

\* The constants that states are compared with are natural numbers.
LEMMA ConstantTypes ==
  /\ FILE_INTERVAL \in Nat
  /\ RESULT_LIFETIME \in Nat
  /\ MAX_PUBLISHES_AT_TIME \in Nat \ {0}
  BY SearchAssumption

\* The lifetime of every kind of search is a natural number.
LEMMA LifeTimeType == \A type \in Types : LifeTime(type) \in Nat
  BY SearchAssumption DEF LifeTime, Types

\* A deadline stays a deadline when time passes.
LEMMA LaterType == \A d \in Deadline : Later(d) \in Deadline
  BY DEF Later, Deadline

\* process() keeps the type, the term and the responders of a search, and
\* moves nodes from possible to tried.
LEMMA ProcessType ==
  ASSUME NEW s \in Search
  PROVE  /\ Process(s) \in Search
         /\ Process(s).type = s.type
         /\ Process(s).term = s.term
         /\ Process(s).responded = s.responded
         /\ s.tried \subseteq Process(s).tried
         /\ Process(s).possible \cup Process(s).tried = s.possible \cup s.tried
         /\ s.possible \cap s.tried = {} => Process(s).possible \cap Process(s).tried = {}
<1> DEFINE asked == Closest(SEARCH_ALPHA, s.possible, s.term)
<1>1. asked \subseteq s.possible
  BY DEF Closest
<1>2. SEARCH_STOPTIME \in Deadline
  BY SearchAssumption DEF Deadline
<1> HIDE DEF asked
<1>3. CASE s.stopping
  BY <1>3 DEF Process, Search
<1>4. CASE ~s.stopping /\ s.possible = {}
  BY <1>4, <1>2 DEF Process, Search
<1>5. CASE ~s.stopping /\ s.possible # {}
  <2>1. Process(s) = [s EXCEPT !.tried = @ \cup asked, !.possible = @ \ asked]
    BY <1>5 DEF Process, asked
  <2> QED BY <2>1, <1>1 DEF Search
<1> QED BY <1>3, <1>4, <1>5 DEF Search

\* The set of tokens of a kind of search is finite.
LEMMA StoringFinite ==
  ASSUME DOMAIN searches \subseteq Tokens, NEW K \in SUBSET DOMAIN searches
  PROVE  IsFiniteSet(Storing(K)) /\ Cardinality(Storing(K)) \in Nat
<1>1. Storing(K) \in SUBSET Tokens
  BY DEF Storing
<1> QED BY <1>1, SearchAssumption, FS_Subset, FS_CardinalityType

-----------------------------------------------------------------------------
(***************************************************************************)
(* Types                                                                   *)
(***************************************************************************)

\* A new entry for a thread that starts a search has the type of work.
LEMMA StartType ==
  ASSUME TypeOK, NEW t \in Threads, NEW type \in Types, NEW term \in Terms, Start(t, type, term)
  PROVE  /\ work' \in [Threads -> SUBSET Work]
         /\ \A u \in Threads : \A v, w \in work'[u] : v = w
<1> DEFINE new == [stage |-> "search", type |-> type, term |-> term, lifeTime |-> LifeTime(type)]
<1>1. new \in Work
  BY LifeTimeType DEF Work, Deadline
<1>2. work' = [work EXCEPT ![t] = {new}]
  BY DEF Start
<1> HIDE DEF new
<1> QED BY <1>1, <1>2 DEF TypeOK

\* The initial state is well typed.
LEMMA InitType ==
  ASSUME Init
  PROVE  TypeOK
<1>1. DOMAIN searches \subseteq Tokens /\ searches \in [DOMAIN searches -> Search]
  <2>1. DOMAIN <<>> = {} /\ <<>> \in [{} -> Search]
    OBVIOUS
  <2> QED BY <2>1 DEF Init
<1>2. work \in [Threads -> SUBSET Work] /\ \A t \in Threads : work[t] = {}
  BY DEF Init
<1>3. publishQueue \in Seq(Files)
  BY DEF Init
<1>4. publish \in BOOLEAN
  BY DEF Init
<1>5. publishing \in Int /\ cooldown \in 0..FILE_INTERVAL
  BY ConstantTypes DEF Init
<1>6. searchResults \subseteq Result /\ online \subseteq CIDs /\ contacted \subseteq CIDs
  BY DEF Init
<1> QED BY <1>1, <1>2, <1>3, <1>4, <1>5, <1>6 DEF TypeOK

\* Every step keeps the types.
LEMMA TypeStep ==
  ASSUME TypeOK, [Next]_vars
  PROVE  TypeOK'
<1> USE DEF slotVars, resultVars
<1>1. CASE FindNode
  <2>1. Me \in Terms /\ "NODE" \in Types /\ Timer \in Threads
    BY DEF Terms, Types, Threads
  <2> QED BY <1>1, <2>1, StartType DEF FindNode, TypeOK
<1>2. ASSUME NEW t \in UserThreads, NEW tth \in Files, FindFile(t, tth)
      PROVE  TypeOK'
  <2>1. tth \in Terms /\ "FILE" \in Types /\ t \in Threads
    BY DEF Terms, Types, Threads
  <2> QED BY <1>2, <2>1, StartType DEF FindFile, TypeOK
<1>3. ASSUME NEW tth \in Files, PublishFile(tth)
      PROVE  TypeOK'
  <2>1. /\ Append(publishQueue, tth) \in Seq(Files)
        /\ <<tth>> \o publishQueue \in Seq(Files)
    BY DEF TypeOK
  <2>2. publishQueue' \in Seq(Files)
    BY <1>3, <2>1 DEF PublishFile
  <2> QED BY <1>3, <2>2 DEF PublishFile, TypeOK
<1>4. CASE PublishNextFile
  <2>1. Head(publishQueue) \in Files /\ Tail(publishQueue) \in Seq(Files)
    BY <1>4 DEF PublishNextFile, TypeOK
  <2> DEFINE new == [stage |-> "findStore", type |-> "STOREFILE",
                     term |-> Head(publishQueue), lifeTime |-> -1]
  <2>2. new \in Work
    BY <2>1 DEF Work, Deadline, Terms, Types
  <2>3. work' = [work EXCEPT ![Timer] = {new}]
    BY <1>4 DEF PublishNextFile
  <2> HIDE DEF new
  <2>4. publishing' \in Int
    BY <1>4 DEF PublishNextFile, TypeOK
  <2>5. /\ work' \in [Threads -> SUBSET Work]
        /\ \A t \in Threads : \A v, w \in work'[t] : v = w
    BY ZenonT(60), <2>2, <2>3 DEF TypeOK
  <2> QED BY <1>4, <2>1, <2>4, <2>5 DEF PublishNextFile, TypeOK
<1>5. CASE FindStore
  <2>1. PICK w \in work[Timer] : FindStore!(w)
    BY <1>5 DEF FindStore
  <2>2. w.term \in Terms /\ "STOREFILE" \in Types /\ Timer \in Threads
    BY DEF TypeOK, Work, Types, Threads
  <2>3. CASE isAlreadySearchingFor(w.term)
    BY <2>1, <2>2, <2>3 DEF TypeOK
  <2>4. CASE ~isAlreadySearchingFor(w.term)
    BY <2>1, <2>2, <2>4, StartType DEF TypeOK
  <2> QED BY <2>3, <2>4
<1>6. ASSUME NEW t \in Threads, DoSearch(t)
      PROVE  TypeOK'
  <2>1. PICK w \in work[t], possible \in SUBSET CIDs : DoSearch(t)!(w, possible)
    BY <1>6 DEF DoSearch
  <2>2. w \in Work
    BY DEF TypeOK
  <2>3. cooldown' \in 0..FILE_INTERVAL
    BY <2>1, ConstantTypes DEF TypeOK
  <2>4. CASE possible = {}
    BY <2>1, <2>3, <2>4 DEF NobodyToAsk, TypeOK
  <2>5. CASE possible # {}
    <3> DEFINE new == [type |-> w.type, term |-> w.term, lifeTime |-> w.lifeTime,
                       stopping |-> FALSE, possible |-> possible, tried |-> {},
                       responded |-> {}]
    <3>1. new \in Search
      BY <2>2 DEF Search, Work, Nodes
    <3>2. Process(new) \in Search
      BY <3>1, ProcessType
    <3>3. PICK k \in Tokens \ DOMAIN searches :
            searches' = [j \in DOMAIN searches \cup {k} |->
                           IF j = k THEN Process(new) ELSE searches[j]]
      BY <2>1, <2>5 DEF StoreSearch
    <3> HIDE DEF new
    <3>4. DOMAIN searches' \subseteq Tokens /\ searches' \in [DOMAIN searches' -> Search]
      BY <3>2, <3>3 DEF TypeOK
    <3> QED BY <2>1, <2>3, <2>5, <3>4 DEF StoreSearch, TypeOK
  <2> QED BY <2>4, <2>5
<1>7. CASE ProcessSearches
  <2> DEFINE done == [k \in DOMAIN searches |-> Process(searches[k])]
             over == {k \in DOMAIN searches : done[k].lifeTime < 0}
  <2>1. done \in [DOMAIN searches -> Search]
    BY ProcessType DEF TypeOK
  <2>2. /\ searches' = [k \in DOMAIN searches \ over |-> done[k]]
        /\ Delete(over)
        /\ UNCHANGED <<work, publishQueue, cooldown, resultVars>>
    BY <1>7 DEF ProcessSearches
  <2>3. Cardinality(Storing(over)) \in Nat
    BY StoringFinite DEF TypeOK
  <2> HIDE DEF done, over
  <2>4. DOMAIN searches' \subseteq Tokens /\ searches' \in [DOMAIN searches' -> Search]
    BY <2>1, <2>2 DEF TypeOK
  <2>5. publishing' \in Int /\ publish' \in BOOLEAN
    BY <2>2, <2>3 DEF Delete, TypeOK
  <2> QED BY <2>2, <2>4, <2>5 DEF TypeOK
<1>8. ASSUME NEW k \in Tokens, NEW cid \in CIDs, NEW nodes \in SUBSET Nodes,
             NEW full \in SUBSET Sources, NEW partial \in SUBSET Sources,
             ProcessSearchResult(k, cid, nodes, full, partial)
      PROVE  TypeOK'
  <2>1. DOMAIN searches' \subseteq Tokens /\ searches' \in [DOMAIN searches' -> Search]
    <3>1. k \in DOMAIN searches /\ searches[k] \in Search
      BY <1>8 DEF ProcessSearchResult, TypeOK
    <3> DEFINE new == [searches[k] EXCEPT !.responded = @ \cup {cid},
                          !.possible = @ \cup (nodes \ (searches[k].tried \cup {Me}))]
    <3>2. new \in Search
      BY <3>1 DEF Search, Nodes
    <3>3. searches' = [searches EXCEPT ![k] = new]
      BY <1>8, <3>1 DEF ProcessSearchResult, AddNodes, TypeOK
    <3> HIDE DEF new
    <3> QED BY <3>1, <3>2, <3>3 DEF TypeOK
  <2>2. searchResults' \subseteq Result /\ contacted' \subseteq CIDs
    <3>1. RESULT_LIFETIME \in Deadline /\ Sources \subseteq CIDs
      BY SearchAssumption DEF Deadline
    <3> QED BY <1>8, <3>1 DEF ProcessSearchResult, AddSources, TypeOK, Result
  <2> QED BY <1>8, <2>1, <2>2 DEF ProcessSearchResult, TypeOK
<1>9. ASSUME NEW cid \in CIDs, NEW connection \in BOOLEAN, ProcessInf(cid, connection)
      PROVE  TypeOK'
  BY <1>9 DEF ProcessInf, processSearchResults, TypeOK
<1>10. ASSUME NEW cid \in CIDs, GoOffline(cid)
       PROVE  TypeOK'
  BY <1>10 DEF GoOffline, TypeOK
<1>11. CASE Restart
  <2>1. Cardinality(Storing(DOMAIN searches)) \in Nat
    BY StoringFinite DEF TypeOK
  <2>2. publishing' \in Int /\ publish' \in BOOLEAN
    BY <1>11, <2>1 DEF Restart, Delete, TypeOK
  <2>3. cooldown' \in 0..FILE_INTERVAL
    BY <1>11, ConstantTypes DEF Restart
  <2> QED BY <1>11, <2>2, <2>3 DEF Restart, TypeOK
<1>12. CASE Tick
  <2>1. DOMAIN searches' \subseteq Tokens /\ searches' \in [DOMAIN searches' -> Search]
    <3>1. \A s \in Search : [s EXCEPT !.lifeTime = Later(@)] \in Search
      BY LaterType DEF Search
    <3> QED BY <1>12, <3>1 DEF Tick, TypeOK
  <2>2. /\ work' \in [Threads -> SUBSET Work]
        /\ \A t \in Threads : \A v, w \in work'[t] : v = w
    <3>1. \A w \in Work : [w EXCEPT !.lifeTime = Later(@)] \in Work
      BY LaterType DEF Work
    <3> QED BY <1>12, <3>1 DEF Tick, TypeOK
  <2>3. searchResults' \subseteq Result
    <3>1. \A r \in Result : [r EXCEPT !.left = Later(@)] \in Result
      BY LaterType DEF Result
    <3> QED BY <1>12, <3>1 DEF Tick, TypeOK
  <2>4. cooldown' \in 0..FILE_INTERVAL
    BY <1>12, ConstantTypes DEF Tick, TypeOK
  <2> QED BY <1>12, <2>1, <2>2, <2>3, <2>4 DEF Tick, TypeOK
<1>13. CASE UNCHANGED vars
  BY <1>13 DEF vars, TypeOK
<1> QED BY <1>1, <1>2, <1>3, <1>4, <1>5, <1>6, <1>7, <1>8, <1>9, <1>10, <1>11, <1>12, <1>13
        DEF Next

\* Every reachable state of the searches is well typed.
THEOREM TypeCorrect == Spec => []TypeOK
<1>1. Init => TypeOK
  BY InitType
<1>2. TypeOK /\ [Next]_vars => TypeOK'
  BY TypeStep
<1> QED BY <1>1, <1>2, PTL DEF Spec

-----------------------------------------------------------------------------
(***************************************************************************)
(* Publishing slots                                                        *)
(***************************************************************************)

\* Only the timer thread starts searches that are not FILE searches, and what
\* waits for findStore holds a slot.
WorkOK ==
    \A t \in Threads : \A w \in work[t] :
        /\ w.stage = "findStore" => w.type = "STOREFILE"
        /\ w.type = "FILE" <=> t \in UserThreads

\* Every step keeps the owners of the searches that are being started.
LEMMA WorkStep ==
  ASSUME TypeOK, WorkOK, [Next]_vars
  PROVE  WorkOK'
<1> USE DEF slotVars, resultVars
<1>0. Timer \in Threads /\ Timer \notin UserThreads /\ UserThreads \subseteq Threads
  BY SearchAssumption DEF Threads
<1>1. CASE FindNode
  BY <1>0, <1>1 DEF FindNode, Start, WorkOK, TypeOK
<1>2. ASSUME NEW t \in UserThreads, NEW tth \in Files, FindFile(t, tth)
      PROVE  WorkOK'
  BY <1>0, <1>2 DEF FindFile, Start, WorkOK, TypeOK
<1>3. CASE PublishNextFile
  BY <1>0, <1>3 DEF PublishNextFile, WorkOK, TypeOK
<1>4. CASE FindStore
  BY <1>0, <1>4 DEF FindStore, Start, WorkOK, TypeOK
<1>5. ASSUME NEW t \in Threads, DoSearch(t)
      PROVE  WorkOK'
  BY <1>5 DEF DoSearch, WorkOK, TypeOK
<1>6. CASE Tick
  <2>1. \A w \in Work : /\ [w EXCEPT !.lifeTime = Later(@)].type = w.type
                        /\ [w EXCEPT !.lifeTime = Later(@)].stage = w.stage
    BY DEF Work
  <2> SUFFICES ASSUME NEW t \in Threads, NEW w \in work'[t]
               PROVE  /\ w.stage = "findStore" => w.type = "STOREFILE"
                      /\ w.type = "FILE" <=> t \in UserThreads
    BY DEF WorkOK
  <2>2. PICK v \in work[t] : w = [v EXCEPT !.lifeTime = Later(@)]
    BY <1>6 DEF Tick
  <2>3. v \in Work
    BY DEF TypeOK
  <2> QED BY <2>1, <2>2, <2>3 DEF WorkOK
<1>7. ASSUME UNCHANGED work PROVE WorkOK'
  BY <1>7 DEF WorkOK
<1> QED BY <1>1, <1>2, <1>3, <1>4, <1>5, <1>6, <1>7
        DEF Next, PublishFile, ProcessSearches, ProcessSearchResult, ProcessInf, GoOffline,
            Restart, vars

\* The sets whose sizes SlotsAccounted adds are finite.
LEMMA SlotsFinite ==
  ASSUME TypeOK
  PROVE  /\ IsFiniteSet(Storing(DOMAIN searches)) /\ IsFiniteSet(SlotHolders)
         /\ Cardinality(Storing(DOMAIN searches)) \in Nat /\ Cardinality(SlotHolders) \in Nat
<1>1. SlotHolders \in SUBSET Threads
  BY DEF SlotHolders
<1> QED BY <1>1, StoringFinite, SearchAssumption, FS_Subset, FS_CardinalityType DEF TypeOK

\* Deleting the searches of K, and changing no type of the others, gives back
\* the slots of K.
LEMMA DeleteSlots ==
  ASSUME TypeOK, SlotsAccounted, NEW K \in SUBSET DOMAIN searches, Delete(K),
         DOMAIN searches' = DOMAIN searches \ K,
         \A k \in DOMAIN searches' : searches'[k].type = searches[k].type,
         UNCHANGED work
  PROVE  SlotsAccounted'
<1> DEFINE all == Storing(DOMAIN searches)
<1>1. /\ Storing(DOMAIN searches)' = all \ Storing(K)
      /\ all \cap Storing(K) = Storing(K)
  BY DEF Storing
<1>2. SlotHolders' = SlotHolders
  BY DEF SlotHolders
<1>3. IsFiniteSet(all) /\ Cardinality(all) \in Nat /\ Cardinality(SlotHolders) \in Nat
  BY SlotsFinite
<1>4. IsFiniteSet(Storing(K)) /\ Cardinality(Storing(K)) \in Nat
  BY StoringFinite DEF TypeOK
<1> HIDE DEF all
<1>5. Cardinality(all \ Storing(K)) = Cardinality(all) - Cardinality(Storing(K))
  BY <1>1, <1>3, FS_Difference
<1>6. publishing' = publishing - Cardinality(Storing(K))
  BY DEF Delete
<1>7. publishing = Cardinality(all) + Cardinality(SlotHolders) /\ publishing <= MAX_PUBLISHES_AT_TIME
  BY DEF SlotsAccounted, all
<1>8. publishing' = Cardinality(all \ Storing(K)) + Cardinality(SlotHolders)
  BY <1>3, <1>4, <1>5, <1>6, <1>7
<1>9. publishing' <= MAX_PUBLISHES_AT_TIME
  BY <1>3, <1>4, <1>6, <1>7, ConstantTypes
<1> QED BY <1>1, <1>2, <1>8, <1>9 DEF SlotsAccounted

\* A step that changes neither the types of the searches nor the slots of the
\* threads keeps the account.
LEMMA KeepSlots ==
  ASSUME SlotsAccounted, SlotHolders' = SlotHolders, DOMAIN searches' = DOMAIN searches,
         \A k \in DOMAIN searches : searches'[k].type = searches[k].type,
         UNCHANGED publishing
  PROVE  SlotsAccounted'
<1>1. Storing(DOMAIN searches)' = Storing(DOMAIN searches)
  BY DEF Storing
<1> QED BY <1>1 DEF SlotsAccounted

\* A thread that gives its slot back before its search is stored.
LEMMA GiveBack ==
  ASSUME TypeOK, SlotsAccounted, NEW t \in SlotHolders,
         SlotHolders' = SlotHolders \ {t}, UNCHANGED searches, publishing' = publishing - 1
  PROVE  SlotsAccounted'
<1>1. Storing(DOMAIN searches)' = Storing(DOMAIN searches)
  BY DEF Storing
<1>2. Cardinality(SlotHolders \ {t}) = Cardinality(SlotHolders) - 1
  BY SlotsFinite, FS_RemoveElement
<1> QED BY <1>1, <1>2, SlotsFinite, ConstantTypes DEF SlotsAccounted
\* The publishing counter is the number of files being published.
SlotInv == TypeOK /\ WorkOK /\ SlotsAccounted

\* Every step keeps the account of the publishing slots.
LEMMA SlotStep ==
  ASSUME SlotInv, [Next]_vars
  PROVE  SlotsAccounted'
<1> USE DEF slotVars, resultVars
<1>0. TypeOK /\ WorkOK /\ SlotsAccounted
  BY DEF SlotInv
<1>t. Timer \in Threads /\ UserThreads \subseteq Threads
  BY DEF Threads
<1>1. CASE FindNode
  <2>1. SlotHolders' = SlotHolders
    BY <1>0, <1>1, <1>t DEF FindNode, Start, SlotHolders, TypeOK
  <2> QED BY <1>0, <1>1, <2>1, KeepSlots DEF FindNode
<1>2. ASSUME NEW t \in UserThreads, NEW tth \in Files, FindFile(t, tth)
      PROVE  SlotsAccounted'
  <2>1. SlotHolders' = SlotHolders
    BY <1>0, <1>2, <1>t DEF FindFile, Start, SlotHolders, TypeOK
  <2> QED BY <1>0, <1>2, <2>1, KeepSlots DEF FindFile
<1>3. CASE PublishNextFile
  <2>1. Timer \notin SlotHolders /\ SlotHolders' = SlotHolders \cup {Timer}
    BY <1>0, <1>3, <1>t DEF PublishNextFile, SlotHolders, TypeOK
  <2>2. Cardinality(SlotHolders \cup {Timer}) = Cardinality(SlotHolders) + 1
    BY <1>0, <2>1, SlotsFinite, FS_AddElement
  <2>3. Storing(DOMAIN searches)' = Storing(DOMAIN searches)
    BY <1>3 DEF PublishNextFile, Storing
  <2>4. publishing' = publishing + 1 /\ publishing < MAX_PUBLISHES_AT_TIME
    BY <1>3 DEF PublishNextFile
  <2> QED BY <1>0, <2>1, <2>2, <2>3, <2>4, SlotsFinite, ConstantTypes DEF SlotsAccounted
<1>4. CASE FindStore
  <2>1. PICK w \in work[Timer] : FindStore!(w)
    BY <1>4 DEF FindStore
  <2>2. w.type = "STOREFILE" /\ Timer \in SlotHolders
    BY <1>0, <1>t, <2>1 DEF WorkOK, SlotHolders
  <2>3. CASE isAlreadySearchingFor(w.term)
    <3>1. SlotHolders' = SlotHolders \ {Timer}
      BY <1>0, <1>t, <2>1, <2>3 DEF SlotHolders, TypeOK
    <3> QED BY <1>0, <2>1, <2>2, <2>3, <3>1, GiveBack
  <2>4. CASE ~isAlreadySearchingFor(w.term)
    <3>1. SlotHolders' = SlotHolders
      <4> DEFINE new == [stage |-> "search", type |-> "STOREFILE", term |-> w.term,
                         lifeTime |-> LifeTime("STOREFILE")]
      <4>1. work' = [work EXCEPT ![Timer] = {new}]
        BY <2>1, <2>4 DEF Start
      <4>2. new.type = "STOREFILE"
        OBVIOUS
      <4> HIDE DEF new
      <4> QED BY <1>0, <1>t, <2>2, <4>1, <4>2 DEF SlotHolders, TypeOK
    <3> QED BY <1>0, <2>1, <2>4, <3>1, KeepSlots
  <2> QED BY <2>3, <2>4
<1>5. ASSUME NEW t \in Threads, DoSearch(t)
      PROVE  SlotsAccounted'
  <2>1. PICK w \in work[t], possible \in SUBSET CIDs : DoSearch(t)!(w, possible)
    BY <1>5 DEF DoSearch
  <2>2. w \in Work /\ \A v \in work[t] : v = w
    BY <1>0 DEF TypeOK
  <2>3. SlotHolders' = SlotHolders \ {t} /\ (t \in SlotHolders <=> w.type = "STOREFILE")
    BY <1>0, <2>1, <2>2 DEF SlotHolders, TypeOK
  <2>4. CASE possible = {} /\ w.type = "STOREFILE"
    <3>1. publishing' = publishing - 1 /\ UNCHANGED searches
      BY <2>1, <2>4 DEF NobodyToAsk
    <3> QED BY <1>0, <2>3, <2>4, <3>1, GiveBack
  <2>5. CASE possible = {} /\ w.type # "STOREFILE"
    <3>1. publishing' = publishing /\ UNCHANGED searches
      BY <1>0, <2>1, <2>5 DEF NobodyToAsk, TypeOK
    <3> QED BY <1>0, <2>3, <2>5, <3>1, KeepSlots
  <2>6. CASE possible # {}
    <3> DEFINE new == [type |-> w.type, term |-> w.term, lifeTime |-> w.lifeTime,
                       stopping |-> FALSE, possible |-> possible, tried |-> {},
                       responded |-> {}]
    <3>1. new \in Search
      BY <2>2 DEF Search, Work, Nodes
    <3>2. Process(new).type = w.type
      BY <3>1, ProcessType
    <3>3. PICK k \in Tokens \ DOMAIN searches :
            searches' = [j \in DOMAIN searches \cup {k} |->
                           IF j = k THEN Process(new) ELSE searches[j]]
      BY <2>1, <2>6 DEF StoreSearch
    <3>4. publishing' = publishing
      BY <2>1, <2>6 DEF StoreSearch
    <3> HIDE DEF new
    <3>5. Storing(DOMAIN searches)' = IF w.type = "STOREFILE"
                                      THEN Storing(DOMAIN searches) \cup {k}
                                      ELSE Storing(DOMAIN searches)
      BY <3>2, <3>3 DEF Storing
    <3>6. k \notin Storing(DOMAIN searches)
      BY DEF Storing
    <3>7. CASE w.type = "STOREFILE"
      <4>1. Cardinality(Storing(DOMAIN searches) \cup {k}) = Cardinality(Storing(DOMAIN searches)) + 1
        BY <1>0, <3>6, SlotsFinite, FS_AddElement
      <4>2. Cardinality(SlotHolders \ {t}) = Cardinality(SlotHolders) - 1
        BY <1>0, <2>3, <3>7, SlotsFinite, FS_RemoveElement
      <4>3. /\ Cardinality(Storing(DOMAIN searches)') = Cardinality(Storing(DOMAIN searches)) + 1
            /\ Cardinality(SlotHolders') = Cardinality(SlotHolders) - 1
        BY <2>3, <3>5, <3>7, <4>1, <4>2
      <4>4. Cardinality(Storing(DOMAIN searches)') + Cardinality(SlotHolders') = publishing
        BY <1>0, <4>3, SlotsFinite DEF SlotsAccounted
      <4> QED BY <1>0, <3>4, <4>4 DEF SlotsAccounted
    <3>8. CASE w.type # "STOREFILE"
      BY <1>0, <2>3, <3>4, <3>5, <3>8 DEF SlotsAccounted
    <3> QED BY <3>7, <3>8
  <2> QED BY <2>4, <2>5, <2>6
<1>6. CASE ProcessSearches
  <2> DEFINE done == [k \in DOMAIN searches |-> Process(searches[k])]
             over == {k \in DOMAIN searches : done[k].lifeTime < 0}
  <2>1. /\ searches' = [k \in DOMAIN searches \ over |-> done[k]]
        /\ Delete(over)
        /\ UNCHANGED work
    BY <1>6 DEF ProcessSearches
  <2>2. \A k \in DOMAIN searches : done[k].type = searches[k].type
    BY <1>0, ProcessType DEF TypeOK
  <2>3. over \in SUBSET DOMAIN searches
    OBVIOUS
  <2> HIDE DEF done, over
  <2> QED BY <1>0, <2>1, <2>2, <2>3, DeleteSlots
<1>7. ASSUME NEW k \in Tokens, NEW cid \in CIDs, NEW nodes \in SUBSET Nodes,
             NEW full \in SUBSET Sources, NEW partial \in SUBSET Sources,
             ProcessSearchResult(k, cid, nodes, full, partial)
      PROVE  SlotsAccounted'
  <2>1. DOMAIN searches' = DOMAIN searches
    BY <1>7 DEF ProcessSearchResult, AddNodes
  <2>2. \A j \in DOMAIN searches : searches'[j].type = searches[j].type
    BY <1>0, <1>7 DEF ProcessSearchResult, AddNodes, TypeOK, Search
  <2>3. SlotHolders' = SlotHolders /\ UNCHANGED publishing
    BY <1>7 DEF ProcessSearchResult, SlotHolders
  <2> QED BY <1>0, <2>1, <2>2, <2>3, KeepSlots
<1>8. CASE Restart
  <2>1. DOMAIN searches' = {} /\ Delete(DOMAIN searches) /\ UNCHANGED work
    BY <1>8 DEF Restart
  <2> QED BY <1>0, <2>1, DeleteSlots
<1>9. CASE Tick
  <2>1. DOMAIN searches' = DOMAIN searches
    BY <1>9 DEF Tick
  <2>2. \A j \in DOMAIN searches : searches'[j].type = searches[j].type
    BY <1>0, <1>9 DEF Tick, TypeOK, Search
  <2>3. SlotHolders' = SlotHolders
    <3> DEFINE Aged(w) == [w EXCEPT !.lifeTime = Later(@)]
    <3>1. \A w \in Work : Aged(w).type = w.type
      BY DEF Work
    <3>2. \A t \in Threads : work'[t] = {Aged(w) : w \in work[t]}
      BY <1>9 DEF Tick
    <3> HIDE DEF Aged
    <3>3. \A t \in Threads : \A w \in work[t] : w \in Work
      BY <1>0 DEF TypeOK
    <3>4. ASSUME NEW t \in Threads
          PROVE  (\E w \in work'[t] : w.type = "STOREFILE") <=> (\E w \in work[t] : w.type = "STOREFILE")
      BY <3>1, <3>2, <3>3
    <3> QED BY <3>4 DEF SlotHolders
  <2> QED BY <1>0, <1>9, <2>1, <2>2, <2>3, KeepSlots DEF Tick
<1>10. ASSUME UNCHANGED <<searches, work, publishing>> PROVE SlotsAccounted'
  BY <1>0, <1>10 DEF SlotsAccounted, SlotHolders, Storing
<1> QED BY <1>1, <1>2, <1>3, <1>4, <1>5, <1>6, <1>7, <1>8, <1>9, <1>10
        DEF Next, PublishFile, ProcessInf, GoOffline, vars

\* The account is in order initially.
LEMMA SlotInit ==
  ASSUME Init
  PROVE  SlotInv
<1>1. TypeOK
  BY InitType
<1>2. SlotHolders = {} /\ \A t \in Threads : work[t] = {}
  BY DEF Init, SlotHolders
<1>3. Storing(DOMAIN searches) = {}
  <2>1. DOMAIN searches = {}
    BY DEF Init
  <2> QED BY <2>1 DEF Storing
<1>4. publishing = 0
  BY DEF Init
<1> QED BY <1>1, <1>2, <1>3, <1>4, FS_EmptySet, ConstantTypes DEF SlotInv, SlotsAccounted, WorkOK

\* Every invariant of the slots holds always.
LEMMA SlotInvariant == Spec => []SlotInv
<1>1. Init => SlotInv
  BY SlotInit
<1>2. SlotInv /\ [Next]_vars => SlotInv'
  BY TypeStep, WorkStep, SlotStep DEF SlotInv
<1> QED BY <1>1, <1>2, PTL DEF Spec

\* However searches are started, answered, time out and are deleted, the
\* counter of IndexManager is exact and stays within its limit.
THEOREM SlotsCorrect == Spec => []SlotsAccounted
<1>1. SlotInv => SlotsAccounted
  BY DEF SlotInv
<1> QED BY <1>1, SlotInvariant, PTL

-----------------------------------------------------------------------------
(***************************************************************************)
(* Publishing is what Publishing promises                                  *)
(***************************************************************************)

\* How many files are really being published.
InTheWorks == Cardinality(Storing(DOMAIN searches)) + Cardinality(SlotHolders)

\* The counter is the number in the works.
CounterExact == publishing = InTheWorks /\ publishing \in Nat

\* With the account in order, it is.
LEMMA CounterIsExact == SlotInv => CounterExact
<1> SUFFICES ASSUME SlotInv PROVE CounterExact
  OBVIOUS
<1> QED BY SlotsFinite DEF SlotInv, SlotsAccounted, InTheWorks, CounterExact

\* So it is after a step.
LEMMA CounterStaysExact == SlotInv' => publishing' = InTheWorks' /\ publishing' \in Nat
<1>1. SlotInv' => CounterExact'
  BY CounterIsExact, PTL
<1> QED BY <1>1 DEF CounterExact

\* A step that lowers the counter, or keeps it, and leaves the queue alone.
LEMMA LoweringEnds ==
  ASSUME SlotInv, SlotInv', publishing' <= publishing, UNCHANGED publishQueue
  PROVE  [Abstract!Next]_(Abstract!vars)
<1>1. publishing = InTheWorks /\ publishing \in Nat
  BY CounterIsExact DEF CounterExact
<1>2. publishing' = InTheWorks' /\ publishing' \in Nat
  BY CounterStaysExact
<1>3. CASE InTheWorks' = InTheWorks
  BY <1>3 DEF Abstract!vars, InTheWorks
<1>4. CASE InTheWorks' # InTheWorks
  <2>1. InTheWorks' \in 0..(InTheWorks - 1)
    BY <1>1, <1>2, <1>4
  <2> QED BY <2>1 DEF Abstract!Next, Abstract!End, InTheWorks
<1> QED BY <1>3, <1>4

\* Every step is one of Publishing, or changes nothing there.
LEMMA PublishingStep ==
  ASSUME SlotInv, SlotInv', [Next]_vars
  PROVE  [Abstract!Next]_(Abstract!vars)
<1> USE DEF slotVars, resultVars
<1>0. TypeOK /\ publishing \in Nat
  BY CounterIsExact DEF SlotInv, CounterExact
<1>1. ASSUME NEW tth \in Files, PublishFile(tth)
      PROVE  [Abstract!Next]_(Abstract!vars)
  <2>1. InTheWorks' = InTheWorks
    BY <1>1 DEF PublishFile, InTheWorks, Storing, SlotHolders
  <2> QED BY <1>1, <2>1 DEF PublishFile, InTheWorks, Abstract!Next, Abstract!Submit
<1>2. CASE PublishNextFile
  <2>1. InTheWorks' = InTheWorks + 1 /\ InTheWorks < MAX_PUBLISHES_AT_TIME
    BY <1>2, CounterIsExact, CounterStaysExact DEF PublishNextFile, CounterExact
  <2> QED BY <1>2, <2>1 DEF PublishNextFile, InTheWorks, Abstract!Next, Abstract!Begin
<1>3. CASE FindStore
  <2>1. publishing' <= publishing /\ UNCHANGED publishQueue
    BY <1>0, <1>3 DEF FindStore
  <2> QED BY <2>1, LoweringEnds
<1>4. ASSUME NEW t \in Threads, DoSearch(t)
      PROVE  [Abstract!Next]_(Abstract!vars)
  <2>1. publishing' <= publishing /\ UNCHANGED publishQueue
    BY <1>0, <1>4 DEF DoSearch, NobodyToAsk, StoreSearch
  <2> QED BY <2>1, LoweringEnds
<1>5. ASSUME NEW K \in SUBSET DOMAIN searches, Delete(K), UNCHANGED publishQueue
      PROVE  [Abstract!Next]_(Abstract!vars)
  <2>1. Cardinality(Storing(K)) \in Nat
    BY <1>0, StoringFinite DEF TypeOK
  <2>2. publishing' <= publishing
    BY <1>0, <1>5, <2>1 DEF Delete
  <2> QED BY <1>5, <2>2, LoweringEnds
<1>6. CASE ProcessSearches
  BY <1>5, <1>6 DEF ProcessSearches
<1>7. CASE Restart
  BY <1>5, <1>7 DEF Restart
<1>8. CASE UNCHANGED <<publishQueue, publishing>>
  BY <1>0, <1>8, LoweringEnds
<1> QED BY <1>1, <1>2, <1>3, <1>4, <1>6, <1>7, <1>8
        DEF Next, FindNode, FindFile, ProcessSearchResult, ProcessInf, GoOffline, Tick, vars

\* DhtSearch implements Publishing: for any threads, searches, responses and
\* restarts, files are begun in order and within the limit.
THEOREM PublishingImplemented == Spec => PublishesAsPromised
<1>1. Init => Abstract!Init
  <2> SUFFICES ASSUME Init PROVE Abstract!Init
    OBVIOUS
  <2>1. InTheWorks = 0
    BY SlotInit, CounterIsExact DEF Init, CounterExact
  <2> QED BY <2>1 DEF Init, InTheWorks, Abstract!Init
<1>2. SlotInv /\ SlotInv' /\ [Next]_vars => [Abstract!Next]_(Abstract!vars)
  BY PublishingStep
<1> QED BY <1>1, <1>2, SlotInvariant, PTL DEF Spec, PublishesAsPromised, Abstract!Spec

-----------------------------------------------------------------------------
(***************************************************************************)
(* Nobody is asked twice                                                   *)
(***************************************************************************)

\* One search: no node is both asked and waiting to be asked, only asked nodes
\* have responded, and we are neither.
AskedOnceBy(s) ==
    /\ s.possible \cap s.tried = {}
    /\ s.responded \subseteq s.tried
    /\ Me \notin s.possible \cup s.tried

\* process() keeps what is asked apart from what is not.
LEMMA ProcessAsksOnce ==
  ASSUME NEW s \in Search, AskedOnceBy(s)
  PROVE  AskedOnceBy(Process(s))
<1> DEFINE p == Process(s)
<1>1. /\ p.responded = s.responded /\ s.tried \subseteq p.tried
      /\ p.possible \cup p.tried = s.possible \cup s.tried
      /\ p.possible \cap p.tried = {}
  BY ProcessType DEF AskedOnceBy
<1> HIDE DEF p
<1>2. AskedOnceBy(p)
  BY <1>1 DEF AskedOnceBy
<1> QED BY <1>2 DEF p

\* Every step keeps every search from asking a node twice.
LEMMA AskStep ==
  ASSUME TypeOK, AskedOnce, [Next]_vars
  PROVE  AskedOnce'
<1> USE DEF slotVars, resultVars
<1>0. \A k \in DOMAIN searches : searches[k] \in Search /\ AskedOnceBy(searches[k])
  BY DEF AskedOnce, AskedOnceBy, TypeOK
<1>g. ASSUME \A k \in DOMAIN searches' : AskedOnceBy(searches'[k])
      PROVE  AskedOnce'
  BY <1>g DEF AskedOnce, AskedOnceBy
<1>1. ASSUME NEW t \in Threads, DoSearch(t)
      PROVE  AskedOnce'
  <2>1. PICK w \in work[t], possible \in SUBSET CIDs : DoSearch(t)!(w, possible)
    BY <1>1 DEF DoSearch
  <2>2. CASE possible = {}
    <3>1. UNCHANGED searches
      BY <2>1, <2>2 DEF NobodyToAsk
    <3> QED BY <1>0, <1>g, <3>1
  <2>3. CASE possible # {}
    <3> DEFINE new == [type |-> w.type, term |-> w.term, lifeTime |-> w.lifeTime,
                       stopping |-> FALSE, possible |-> possible, tried |-> {},
                       responded |-> {}]
    <3>1. new \in Search
      BY DEF TypeOK, Search, Work, Nodes
    <3>2. AskedOnceBy(new)
      BY SearchAssumption DEF AskedOnceBy
    <3>3. PICK k \in Tokens \ DOMAIN searches :
            searches' = [j \in DOMAIN searches \cup {k} |->
                           IF j = k THEN Process(new) ELSE searches[j]]
      BY <2>1, <2>3 DEF StoreSearch
    <3> HIDE DEF new
    <3>4. AskedOnceBy(Process(new))
      BY <3>1, <3>2, ProcessAsksOnce
    <3> QED BY <1>0, <1>g, <3>3, <3>4
  <2> QED BY <2>2, <2>3
<1>2. CASE ProcessSearches
  <2>1. \A k \in DOMAIN searches' : k \in DOMAIN searches /\ searches'[k] = Process(searches[k])
    BY <1>2 DEF ProcessSearches
  <2> QED BY <1>0, <1>g, <2>1, ProcessAsksOnce
<1>3. ASSUME NEW k \in Tokens, NEW cid \in CIDs, NEW nodes \in SUBSET Nodes,
             NEW full \in SUBSET Sources, NEW partial \in SUBSET Sources,
             ProcessSearchResult(k, cid, nodes, full, partial)
      PROVE  AskedOnce'
  <2> DEFINE new == [searches[k] EXCEPT !.responded = @ \cup {cid},
                        !.possible = @ \cup (nodes \ (searches[k].tried \cup {Me}))]
  <2>1. k \in DOMAIN searches /\ cid \in searches[k].tried
    BY <1>3 DEF ProcessSearchResult
  <2>2. /\ new.tried = searches[k].tried
        /\ new.responded = searches[k].responded \cup {cid}
        /\ new.possible = searches[k].possible \cup (nodes \ (searches[k].tried \cup {Me}))
    BY <1>0, <2>1 DEF Search
  <2>3. searches' = [searches EXCEPT ![k] = new]
    BY <1>3, <2>1 DEF ProcessSearchResult, AddNodes, TypeOK
  <2> HIDE DEF new
  <2>4. AskedOnceBy(new)
    BY <1>0, <2>1, <2>2 DEF AskedOnceBy
  <2> QED BY <1>0, <1>g, <2>3, <2>4
<1>4. CASE Restart
  <2>1. DOMAIN searches' = {}
    BY <1>4 DEF Restart
  <2> QED BY <1>g, <2>1
<1>5. CASE Tick
  <2>1. \A k \in DOMAIN searches' :
           k \in DOMAIN searches /\ searches'[k] = [searches[k] EXCEPT !.lifeTime = Later(@)]
    BY <1>5 DEF Tick
  <2>2. \A s \in Search : AskedOnceBy(s) => AskedOnceBy([s EXCEPT !.lifeTime = Later(@)])
    BY DEF AskedOnceBy, Search
  <2> QED BY <1>0, <1>g, <2>1, <2>2
<1>6. ASSUME UNCHANGED searches PROVE AskedOnce'
  BY <1>0, <1>g, <1>6
<1> QED BY <1>1, <1>2, <1>3, <1>4, <1>5, <1>6
        DEF Next, FindNode, FindFile, PublishFile, PublishNextFile, FindStore, ProcessInf,
            GoOffline, vars

\* Whatever nodes the responses list, in whatever order and however often they
\* arrive, no search asks a node twice or asks ourselves.
THEOREM AsksOnce == Spec => []AskedOnce
<1>1. Init => TypeOK /\ AskedOnce
  <2> SUFFICES ASSUME Init PROVE AskedOnce
    BY InitType
  <2>1. DOMAIN searches = {}
    BY DEF Init
  <2> QED BY <2>1 DEF AskedOnce
<1>2. TypeOK /\ AskedOnce /\ [Next]_vars => TypeOK' /\ AskedOnce'
  BY TypeStep, AskStep
<1> QED BY <1>1, <1>2, PTL DEF Spec

-----------------------------------------------------------------------------
(***************************************************************************)
(* The timer thread does not search twice for a term                       *)
(***************************************************************************)

\* While the timer thread is about to store a search, every search for its
\* term that has been stored since the check is a FILE search.
CheckStillHolds ==
    \A t \in Threads : \A w \in work[t] :
        w.stage = "search" /\ w.type # "FILE" =>
            \A k \in DOMAIN searches : searches[k].term = w.term => searches[k].type = "FILE"

DuplicateInv == TypeOK /\ WorkOK /\ CheckStillHolds /\ DuplicateIsFileSearch

\* Steps that store no search and start none keep both parts.
LEMMA NoNewSearch ==
  ASSUME CheckStillHolds, DuplicateIsFileSearch,
         DOMAIN searches' \subseteq DOMAIN searches,
         \A k \in DOMAIN searches' : /\ searches'[k].type = searches[k].type
                                     /\ searches'[k].term = searches[k].term,
         \A t \in Threads : \A w \in work'[t] : w.stage = "search" =>
            \E v \in work[t] : v.stage = w.stage /\ v.type = w.type /\ v.term = w.term
  PROVE  CheckStillHolds' /\ DuplicateIsFileSearch'
<1>1. CheckStillHolds'
  BY DEF CheckStillHolds
<1>2. DuplicateIsFileSearch'
  BY DEF DuplicateIsFileSearch
<1> QED BY <1>1, <1>2

\* Starting a search after the check keeps both parts.
LEMMA StartAfterCheck ==
  ASSUME TypeOK, CheckStillHolds, DuplicateIsFileSearch, UNCHANGED searches,
         NEW t \in Threads, NEW type, NEW term, Start(t, type, term),
         type # "FILE" => ~isAlreadySearchingFor(term)
  PROVE  CheckStillHolds' /\ DuplicateIsFileSearch'
<1> DEFINE new == [stage |-> "search", type |-> type, term |-> term, lifeTime |-> LifeTime(type)]
<1>1. work' = [work EXCEPT ![t] = {new}]
  BY DEF Start
<1>2. new.type = type /\ new.term = term
  OBVIOUS
<1> HIDE DEF new
<1>3. CheckStillHolds'
  <2> SUFFICES ASSUME NEW u \in Threads, NEW w \in work'[u], w.stage = "search", w.type # "FILE",
                      NEW k \in DOMAIN searches, searches[k].term = w.term
               PROVE  searches[k].type = "FILE"
    BY DEF CheckStillHolds
  <2>1. CASE u = t
    BY <1>1, <1>2, <2>1 DEF isAlreadySearchingFor, TypeOK
  <2>2. CASE u # t
    BY <1>1, <2>2 DEF CheckStillHolds, TypeOK
  <2> QED BY <2>1, <2>2
<1>4. DuplicateIsFileSearch'
  BY DEF DuplicateIsFileSearch
<1> QED BY <1>3, <1>4

\* Every step keeps two searches of the timer thread apart.
LEMMA DuplicateStep ==
  ASSUME DuplicateInv, [Next]_vars
  PROVE  CheckStillHolds' /\ DuplicateIsFileSearch'
<1> USE DEF slotVars, resultVars
<1>0. TypeOK /\ WorkOK /\ CheckStillHolds /\ DuplicateIsFileSearch
  BY DEF DuplicateInv
<1>t. Timer \in Threads /\ Timer \notin UserThreads /\ UserThreads \subseteq Threads
  BY SearchAssumption DEF Threads
<1> DEFINE Goal == CheckStillHolds' /\ DuplicateIsFileSearch'
<1>1. CASE FindNode
  BY <1>0, <1>1, <1>t, StartAfterCheck DEF FindNode
<1>2. ASSUME NEW t \in UserThreads, NEW tth \in Files, FindFile(t, tth)
      PROVE  Goal
  BY <1>0, <1>2, <1>t, StartAfterCheck DEF FindFile
<1>3. CASE PublishNextFile
  <2>1. \A t \in Threads : \A w \in work'[t] : w.stage = "search" => w \in work[t]
    BY <1>0, <1>3 DEF PublishNextFile, TypeOK
  <2> QED BY <1>0, <1>3, <2>1, NoNewSearch DEF PublishNextFile
<1>4. CASE FindStore
  <2>1. PICK w \in work[Timer] : FindStore!(w)
    BY <1>4 DEF FindStore
  <2>2. CASE isAlreadySearchingFor(w.term)
    <3>1. \A t \in Threads : \A v \in work'[t] : v \in work[t]
      BY <1>0, <2>1, <2>2 DEF TypeOK
    <3> QED BY <1>0, <2>1, <3>1, NoNewSearch
  <2>3. CASE ~isAlreadySearchingFor(w.term)
    BY <1>0, <1>t, <2>1, <2>3, StartAfterCheck
  <2> QED BY <2>2, <2>3
<1>5. ASSUME NEW t \in Threads, DoSearch(t)
      PROVE  Goal
  <2>1. PICK w \in work[t], possible \in SUBSET CIDs : DoSearch(t)!(w, possible)
    BY <1>5 DEF DoSearch
  <2>2. w \in Work /\ w.stage = "search" /\ (\A u \in Threads : u # t => work'[u] = work[u])
        /\ work'[t] = {}
    BY <1>0, <2>1 DEF TypeOK
  <2>3. CASE possible = {}
    <3>1. UNCHANGED searches
      BY <2>1, <2>3 DEF NobodyToAsk
    <3>2. \A u \in Threads : \A v \in work'[u] : v \in work[u]
      BY <2>2
    <3> QED BY <1>0, <3>1, <3>2, NoNewSearch
  <2>4. CASE possible # {}
    <3> DEFINE new == [type |-> w.type, term |-> w.term, lifeTime |-> w.lifeTime,
                       stopping |-> FALSE, possible |-> possible, tried |-> {},
                       responded |-> {}]
    <3>1. new \in Search
      BY <2>2 DEF Search, Work, Nodes
    <3>2. Process(new).type = w.type /\ Process(new).term = w.term
      BY <3>1, ProcessType
    <3>3. PICK k \in Tokens \ DOMAIN searches :
            searches' = [j \in DOMAIN searches \cup {k} |->
                           IF j = k THEN Process(new) ELSE searches[j]]
      BY <2>1, <2>4 DEF StoreSearch
    <3> HIDE DEF new
    <3>4. \A j \in DOMAIN searches : searches[j].term = w.term => "FILE" \in {w.type, searches[j].type}
      BY <1>0, <2>1, <2>2 DEF CheckStillHolds
    <3>5. DuplicateIsFileSearch'
      BY <1>0, <3>2, <3>3, <3>4 DEF DuplicateIsFileSearch
    <3>6. CheckStillHolds'
      <4> SUFFICES ASSUME NEW u \in Threads, NEW v \in work'[u], v.stage = "search", v.type # "FILE",
                          NEW j \in DOMAIN searches', searches'[j].term = v.term
                   PROVE  searches'[j].type = "FILE"
        BY DEF CheckStillHolds
      <4>1. u # t /\ v \in work[u]
        BY <2>2
      <4>2. u = Timer /\ t \in UserThreads
        BY <1>0, <1>t, <4>1 DEF WorkOK, Threads
      <4>3. w.type = "FILE"
        BY <1>0, <2>1, <4>2 DEF WorkOK
      <4> QED BY <1>0, <3>2, <3>3, <4>1, <4>3 DEF CheckStillHolds
    <3> QED BY <3>5, <3>6
  <2> QED BY <2>3, <2>4
<1>6. CASE ProcessSearches
  <2>1. \A k \in DOMAIN searches' : k \in DOMAIN searches /\ searches'[k] = Process(searches[k])
    BY <1>6 DEF ProcessSearches
  <2>2. \A k \in DOMAIN searches' : /\ searches'[k].type = searches[k].type
                                    /\ searches'[k].term = searches[k].term
    BY <1>0, <2>1, ProcessType DEF TypeOK
  <2> QED BY <1>0, <1>6, <2>1, <2>2, NoNewSearch DEF ProcessSearches
<1>7. ASSUME NEW k \in Tokens, NEW cid \in CIDs, NEW nodes \in SUBSET Nodes,
             NEW full \in SUBSET Sources, NEW partial \in SUBSET Sources,
             ProcessSearchResult(k, cid, nodes, full, partial)
      PROVE  Goal
  <2>1. DOMAIN searches' = DOMAIN searches
    BY <1>7 DEF ProcessSearchResult, AddNodes
  <2>2. \A j \in DOMAIN searches : /\ searches'[j].type = searches[j].type
                                   /\ searches'[j].term = searches[j].term
    BY <1>0, <1>7 DEF ProcessSearchResult, AddNodes, TypeOK, Search
  <2> QED BY <1>0, <1>7, <2>1, <2>2, NoNewSearch DEF ProcessSearchResult
<1>8. CASE Restart
  <2>1. DOMAIN searches' = {} /\ UNCHANGED work
    BY <1>8 DEF Restart
  <2> QED BY <1>0, <2>1, NoNewSearch
<1>9. CASE Tick
  <2>1. DOMAIN searches' = DOMAIN searches
    BY <1>9 DEF Tick
  <2>2. \A j \in DOMAIN searches : /\ searches'[j].type = searches[j].type
                                   /\ searches'[j].term = searches[j].term
    BY <1>0, <1>9 DEF Tick, TypeOK, Search
  <2>3. \A t \in Threads : \A w \in work'[t] :
           \E v \in work[t] : v.stage = w.stage /\ v.type = w.type /\ v.term = w.term
    <3> DEFINE Aged(w) == [w EXCEPT !.lifeTime = Later(@)]
    <3>1. \A w \in Work : w.stage = Aged(w).stage /\ w.type = Aged(w).type /\ w.term = Aged(w).term
      BY DEF Work
    <3>2. \A t \in Threads : work'[t] = {Aged(w) : w \in work[t]}
      BY <1>9 DEF Tick
    <3> HIDE DEF Aged
    <3>3. \A t \in Threads : \A w \in work[t] : w \in Work
      BY <1>0 DEF TypeOK
    <3> QED BY <3>1, <3>2, <3>3
  <2> QED BY <1>0, <2>1, <2>2, <2>3, NoNewSearch
<1>10. ASSUME UNCHANGED <<searches, work>> PROVE Goal
  BY <1>0, <1>10, NoNewSearch
<1> QED BY <1>1, <1>2, <1>3, <1>4, <1>5, <1>6, <1>7, <1>8, <1>9, <1>10
        DEF Next, PublishFile, ProcessInf, GoOffline, vars

\* isAlreadySearchingFor and search() lock separately, and yet the timer thread
\* never has two searches of its own for one term: a second search is a FILE
\* search of another thread.
THEOREM DuplicatesAreFileSearches == Spec => []DuplicateIsFileSearch
<1>1. Init => DuplicateInv
  <2> SUFFICES ASSUME Init PROVE DuplicateInv
    OBVIOUS
  <2>1. DOMAIN searches = {} /\ \A t \in Threads : work[t] = {}
    BY DEF Init
  <2> QED BY <2>1, InitType DEF DuplicateInv, WorkOK, CheckStillHolds, DuplicateIsFileSearch
<1>2. DuplicateInv /\ [Next]_vars => DuplicateInv'
  BY TypeStep, WorkStep, DuplicateStep DEF DuplicateInv
<1>3. DuplicateInv => DuplicateIsFileSearch
  BY DEF DuplicateInv
<1> QED BY <1>1, <1>2, <1>3, PTL DEF Spec

-----------------------------------------------------------------------------
(***************************************************************************)
(* The closest are asked first                                             *)
(***************************************************************************)

\* Closest takes as many as it shall, and nobody who is farther from the term
\* than one whom it leaves.
LEMMA ClosestIs ==
  ASSUME NEW n \in Nat, NEW S \in SUBSET Nodes, NEW term \in Terms
  PROVE  /\ Closest(n, S, term) \subseteq S
         /\ Cardinality(Closest(n, S, term)) <= n
         /\ \A c \in Closest(n, S, term), d \in S \ Closest(n, S, term) :
               Distance[c][term] < Distance[d][term]
<1> DEFINE nearer(c) == {d \in S : Distance[d][term] < Distance[c][term]}
           rank == [c \in S |-> Cardinality(nearer(c))]
           chosen == {c \in S : rank[c] < n}
<1>1. IsFiniteSet(Nodes)
  <2>1. IsFiniteSet(CIDs \cup {Me})
    BY SearchAssumption, FS_AddElement
  <2> QED BY <2>1 DEF Nodes
<1>2. \A c \in S : Distance[c][term] \in Nat
  BY SearchAssumption
<1>3. \A c, d \in S : Distance[c][term] = Distance[d][term] => c = d
  BY SearchAssumption
<1>4. \A c \in S : IsFiniteSet(nearer(c)) /\ Cardinality(nearer(c)) \in Nat
  <2> TAKE c \in S
  <2>1. nearer(c) \in SUBSET Nodes
    OBVIOUS
  <2> HIDE DEF nearer
  <2> QED BY <1>1, <2>1, FS_Subset, FS_CardinalityType
<1>5. \A c, d \in S : Distance[c][term] < Distance[d][term] => rank[c] < rank[d]
  <2> SUFFICES ASSUME NEW c \in S, NEW d \in S, Distance[c][term] < Distance[d][term]
               PROVE  Cardinality(nearer(c)) < Cardinality(nearer(d))
    OBVIOUS
  <2>1. nearer(c) \in SUBSET nearer(d)
    BY <1>2
  <2>2. c \in nearer(d) /\ c \notin nearer(c)
    BY <1>2
  <2> HIDE DEF nearer
  <2>3. Cardinality(nearer(c)) <= Cardinality(nearer(d)) /\ Cardinality(nearer(c)) # Cardinality(nearer(d))
    BY <1>4, <2>1, <2>2, FS_Subset
  <2> QED BY <1>4, <2>3
<1>6. chosen = Closest(n, S, term)
  BY DEF Closest
<1>7. \A c \in S : rank[c] \in Nat
  BY <1>4
<1> HIDE DEF rank
<1>8. ASSUME NEW c \in chosen, NEW d \in S \ chosen PROVE Distance[c][term] < Distance[d][term]
  <2>1. rank[c] < n /\ ~(rank[d] < n) /\ rank[c] \in Nat /\ rank[d] \in Nat
    BY <1>7
  <2>2. ~(Distance[d][term] < Distance[c][term])
    BY <1>5, <2>1
  <2>3. Distance[c][term] # Distance[d][term]
    BY <1>3
  <2> QED BY <1>2, <2>2, <2>3
<1>9. Cardinality(chosen) <= n
  <2> DEFINE f == [c \in chosen |-> rank[c]]
  <2>1. f \in [chosen -> 0..(n - 1)]
    BY <1>7
  <2>2. \A c, d \in chosen : f[c] = f[d] => c = d
    <3> SUFFICES ASSUME NEW c \in chosen, NEW d \in chosen, rank[c] = rank[d] PROVE c = d
      OBVIOUS
    <3>1. ~(Distance[c][term] < Distance[d][term]) /\ ~(Distance[d][term] < Distance[c][term])
      BY <1>5, <1>7
    <3>2. Distance[c][term] \in Nat /\ Distance[d][term] \in Nat
      BY <1>2
    <3>3. Distance[c][term] = Distance[d][term]
      BY <3>1, <3>2
    <3> QED BY <1>3, <3>3
  <2> HIDE DEF f, chosen
  <2>3. f \in Injection(chosen, 0..(n - 1))
    BY <2>1, <2>2, Fun_IsInj
  <2>4. IsFiniteSet(0..(n - 1)) /\ Cardinality(0..(n - 1)) = n
    BY FS_Interval
  <2> QED BY <2>3, <2>4, FS_Injection
<1> QED BY <1>6, <1>8, <1>9

\* Whom process() asks.
AsksNow(s, p) ==
    LET asked == {c \in p.tried : c \notin s.tried}
    IN  /\ Cardinality(asked) <= SEARCH_ALPHA
        /\ \A c \in asked, d \in p.possible : Distance[c][p.term] < Distance[d][p.term]
        /\ p.stopping => asked = {}

LEMMA AskingNobody ==
  ASSUME NEW s, NEW p, p.tried = s.tried
  PROVE  AsksNow(s, p)
<1> DEFINE asked == {c \in p.tried : c \notin s.tried}
<1>1. asked = {}
  OBVIOUS
<1> HIDE DEF asked
<1>2. Cardinality(asked) = 0
  BY <1>1, FS_EmptySet
<1>3. Cardinality(asked) <= SEARCH_ALPHA
  BY <1>2, SearchAssumption
<1> QED BY <1>1, <1>3 DEF AsksNow, asked

LEMMA ProcessAsksTheClosest ==
  ASSUME NEW s \in Search, AskedOnceBy(s)
  PROVE  AsksNow(s, Process(s))
<1> DEFINE chosen == Closest(SEARCH_ALPHA, s.possible, s.term)
           p == Process(s)
<1>1. CASE s.stopping \/ s.possible = {}
  <2>1. p.tried = s.tried
    BY <1>1 DEF Process, Search
  <2> HIDE DEF p
  <2> QED BY <2>1, AskingNobody DEF p
<1>2. CASE ~s.stopping /\ s.possible # {}
  <2>1. /\ chosen \subseteq s.possible /\ Cardinality(chosen) <= SEARCH_ALPHA
        /\ \A c \in chosen, d \in s.possible \ chosen : Distance[c][s.term] < Distance[d][s.term]
    BY ClosestIs, SearchAssumption DEF Search
  <2>2. p = [s EXCEPT !.tried = @ \cup chosen, !.possible = @ \ chosen]
    BY <1>2 DEF Process
  <2> HIDE DEF chosen, p
  <2>3. /\ p.tried = s.tried \cup chosen /\ p.possible = s.possible \ chosen
        /\ p.term = s.term /\ ~p.stopping
    BY <1>2, <2>2 DEF Search
  <2>4. {c \in p.tried : c \notin s.tried} = chosen
    BY <2>1, <2>3 DEF AskedOnceBy
  <2> QED BY <2>1, <2>3, <2>4 DEF AsksNow, p
<1> QED BY <1>1, <1>2

\* What a step asks for a search.
AsksWell(k) ==
    /\ Cardinality(Asked(k)) <= SEARCH_ALPHA
    /\ \A c \in Asked(k), d \in searches'[k].possible :
          Distance[c][searches'[k].term] < Distance[d][searches'[k].term]
    /\ searches'[k].stopping => Asked(k) = {}

LEMMA AskClosestStep ==
  ASSUME TypeOK, AskedOnce, [Next]_vars, NEW k \in DOMAIN searches'
  PROVE  AsksWell(k)
<1> USE DEF slotVars, resultVars
<1>0. \A j \in DOMAIN searches : searches[j] \in Search /\ AskedOnceBy(searches[j])
  BY DEF AskedOnce, AskedOnceBy, TypeOK
<1>g. ASSUME NEW s, AsksNow(s, searches'[k]),
             \A c : (k \in DOMAIN searches => c \notin searches[k].tried) <=> c \notin s.tried
      PROVE  AsksWell(k)
  <2>1. Asked(k) = {c \in searches'[k].tried : c \notin s.tried}
    BY <1>g DEF Asked
  <2> QED BY <1>g, <2>1 DEF AsksNow, AsksWell
<1>h. ASSUME k \in DOMAIN searches, searches'[k].tried = searches[k].tried PROVE AsksWell(k)
  BY <1>g, <1>h, AskingNobody
<1>1. ASSUME NEW t \in Threads, DoSearch(t)
      PROVE  AsksWell(k)
  <2>1. PICK w \in work[t], possible \in SUBSET CIDs : DoSearch(t)!(w, possible)
    BY <1>1 DEF DoSearch
  <2>2. CASE possible = {}
    <3>1. UNCHANGED searches
      BY <2>1, <2>2 DEF NobodyToAsk
    <3> QED BY <1>h, <3>1
  <2>3. CASE possible # {}
    <3> DEFINE new == [type |-> w.type, term |-> w.term, lifeTime |-> w.lifeTime,
                       stopping |-> FALSE, possible |-> possible, tried |-> {},
                       responded |-> {}]
    <3>1. new \in Search /\ new.tried = {}
      BY DEF TypeOK, Search, Work, Nodes
    <3>2. AskedOnceBy(new)
      BY SearchAssumption DEF AskedOnceBy
    <3>3. PICK j \in Tokens \ DOMAIN searches :
            searches' = [i \in DOMAIN searches \cup {j} |->
                           IF i = j THEN Process(new) ELSE searches[i]]
      BY <2>1, <2>3 DEF StoreSearch
    <3> HIDE DEF new
    <3>4. CASE k = j
      <4>1. AsksNow(new, searches'[k])
        BY <3>1, <3>2, <3>3, <3>4, ProcessAsksTheClosest
      <4> QED BY <1>g, <3>1, <3>3, <3>4, <4>1
    <3>5. CASE k # j
      BY <1>h, <3>3, <3>5
    <3> QED BY <3>4, <3>5
  <2> QED BY <2>2, <2>3
<1>2. CASE ProcessSearches
  <2>1. k \in DOMAIN searches /\ searches'[k] = Process(searches[k])
    BY <1>2 DEF ProcessSearches
  <2>2. AsksNow(searches[k], searches'[k])
    BY <1>0, <2>1, ProcessAsksTheClosest
  <2> QED BY <1>g, <2>1, <2>2
<1>3. ASSUME NEW j \in Tokens, NEW cid \in CIDs, NEW nodes \in SUBSET Nodes,
             NEW full \in SUBSET Sources, NEW partial \in SUBSET Sources,
             ProcessSearchResult(j, cid, nodes, full, partial)
      PROVE  AsksWell(k)
  <2> DEFINE new == [searches[j] EXCEPT !.responded = @ \cup {cid},
                        !.possible = @ \cup (nodes \ (searches[j].tried \cup {Me}))]
  <2>1. j \in DOMAIN searches
    BY <1>3 DEF ProcessSearchResult
  <2>2. new.tried = searches[j].tried
    BY <1>0, <2>1 DEF Search
  <2>3. searches' = [searches EXCEPT ![j] = new]
    BY <1>3, <2>1 DEF ProcessSearchResult, AddNodes, TypeOK
  <2> HIDE DEF new
  <2> QED BY <1>h, <2>1, <2>2, <2>3
<1>4. CASE Restart
  BY <1>4 DEF Restart
<1>5. CASE Tick
  <2>1. k \in DOMAIN searches /\ searches'[k] = [searches[k] EXCEPT !.lifeTime = Later(@)]
    BY <1>5 DEF Tick
  <2> QED BY <1>0, <1>h, <2>1 DEF Search
<1>6. CASE UNCHANGED searches
  BY <1>6, <1>h
<1> QED BY <1>1, <1>2, <1>3, <1>4, <1>5, <1>6
        DEF Next, FindNode, FindFile, PublishFile, PublishNextFile, FindStore, ProcessInf,
            GoOffline, vars

\* Whatever the responses bring and whenever, every step that asks takes no more
\* nodes than it may, prefers the closest, and asks nobody for a search that ends.
THEOREM ClosestAreAsked == Spec => AsksTheClosest
<1>1. Init => TypeOK /\ AskedOnce
  <2> SUFFICES ASSUME Init PROVE AskedOnce
    BY InitType
  <2>1. DOMAIN searches = {}
    BY DEF Init
  <2> QED BY <2>1 DEF AskedOnce
<1>2. TypeOK /\ AskedOnce /\ [Next]_vars => TypeOK' /\ AskedOnce'
  BY TypeStep, AskStep
<1>3. TypeOK /\ AskedOnce /\ [Next]_vars =>
         [\A k \in DOMAIN searches' :
             /\ Cardinality(Asked(k)) <= SEARCH_ALPHA
             /\ \A c \in Asked(k), d \in searches'[k].possible :
                   Distance[c][searches'[k].term] < Distance[d][searches'[k].term]
             /\ searches'[k].stopping => Asked(k) = {}]_searches
  BY AskClosestStep DEF AsksWell
<1> QED BY <1>1, <1>2, <1>3, PTL DEF Spec, AsksTheClosest

-----------------------------------------------------------------------------
(***************************************************************************)
(* Results that wait                                                       *)
(***************************************************************************)

\* Results, users who come online and users who go offline meet in any order.
LEMMA WaitStep ==
  ASSUME TypeOK, WaitingUserIsOffline, [Next]_vars
  PROVE  WaitingUserIsOffline'
<1> USE DEF slotVars, resultVars
<1>1. ASSUME NEW k \in Tokens, NEW cid \in CIDs, NEW nodes \in SUBSET Nodes,
             NEW full \in SUBSET Sources, NEW partial \in SUBSET Sources,
             ProcessSearchResult(k, cid, nodes, full, partial)
      PROVE  WaitingUserIsOffline'
  <2>1. CASE AddSources(full, partial)
    <3>1. \A r \in searchResults' : r \in searchResults \/ r.cid \in full \ online
      BY <2>1 DEF AddSources
    <3> QED BY <1>1, <3>1 DEF ProcessSearchResult, WaitingUserIsOffline
  <2>2. CASE UNCHANGED searchResults
    BY <1>1, <2>2 DEF ProcessSearchResult, WaitingUserIsOffline
  <2> QED BY <1>1, <2>1, <2>2 DEF ProcessSearchResult
<1>2. ASSUME NEW cid \in CIDs, NEW connection \in BOOLEAN, ProcessInf(cid, connection)
      PROVE  WaitingUserIsOffline'
  BY <1>2 DEF ProcessInf, processSearchResults, WaitingUserIsOffline
<1>3. ASSUME NEW cid \in CIDs, GoOffline(cid)
      PROVE  WaitingUserIsOffline'
  BY <1>3 DEF GoOffline, WaitingUserIsOffline
<1>4. CASE Restart
  BY <1>4 DEF Restart, WaitingUserIsOffline
<1>5. CASE Tick
  <2>1. \A r \in searchResults : [r EXCEPT !.left = Later(@)].cid = r.cid
    BY DEF TypeOK, Result
  <2> QED BY <1>5, <2>1 DEF Tick, WaitingUserIsOffline
<1>6. CASE UNCHANGED <<searchResults, online>>
  BY <1>6 DEF WaitingUserIsOffline
<1> QED BY <1>1, <1>2, <1>3, <1>4, <1>5, <1>6
        DEF Next, FindNode, FindFile, PublishFile, PublishNextFile, FindStore, DoSearch,
            ProcessSearches, vars

\* However responses, INF packets and nodes that fall silent follow each other,
\* no result is kept waiting for a user who is online.
THEOREM OnlineUsersDoNotWait == Spec => []WaitingUserIsOffline
<1>1. Init => TypeOK /\ WaitingUserIsOffline
  BY InitType DEF Init, WaitingUserIsOffline
<1>2. TypeOK /\ WaitingUserIsOffline /\ [Next]_vars => TypeOK' /\ WaitingUserIsOffline'
  BY TypeStep, WaitStep
<1> QED BY <1>1, <1>2, PTL DEF Spec

=============================================================================
