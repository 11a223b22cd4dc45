------------------------------ MODULE DhtSearch ------------------------------
(***************************************************************************)
(* Searches in the DHT: dht/SearchManager.cpp, with the publishing queue   *)
(* and the publishing slots of dht/IndexManager.cpp, which it gives back.  *)
(*                                                                         *)
(* Three kinds of search walk the network the same way: NODE looks up our  *)
(* own node, STOREFILE looks for the nodes that shall store a file of ours *)
(* and FILE looks for the sources of a file.  The first two are started by *)
(* the timer thread, the third by any thread that queues a search, and     *)
(* responses are handled by the UDP thread.  isAlreadySearchingFor and     *)
(* search take the lock separately, so starting a search is two steps.     *)
(*                                                                         *)
(* Deadlines are kept relative to GET_TICK: lifeTime counts down to -1,    *)
(* which means that the deadline has passed.  The network is the choice of *)
(* the parameters of ProcessSearchResult: any response to any token from   *)
(* any node, at any time and any number of times, or never.                *)
(***************************************************************************)
EXTENDS Integers, FiniteSets, Sequences

CONSTANTS
    CIDs,                       \* the other nodes of the network
    Me,                         \* our own node
    Sources,                    \* the nodes that have files to offer
    Files,                      \* TTHs of files
    Tokens,                     \* bound: search tokens, one for every search at a time
    Timer, UserThreads,         \* threads that start searches
    Distance,                   \* XOR distance of two identifiers
    SEARCH_ALPHA, DHT_K, MAX_PUBLISHES_AT_TIME,
    SEARCHFILE_LIFETIME, SEARCHNODE_LIFETIME, SEARCHSTOREFILE_LIFETIME, SEARCH_STOPTIME,
    FILE_INTERVAL,              \* least time between two FILE searches
    RESULT_LIFETIME,            \* how long a result waits for its user
    MaxQueue                    \* bound: length of publishQueue

Threads == UserThreads \cup {Timer}
Terms   == Files \cup {Me}
Nodes   == CIDs \cup {Me}
Types   == {"FILE", "NODE", "STOREFILE"}

ASSUME SearchAssumption ==
    /\ IsFiniteSet(CIDs) /\ IsFiniteSet(Tokens) /\ IsFiniteSet(Threads)
    /\ Me \notin CIDs
    /\ Sources \subseteq CIDs
    /\ Timer \notin UserThreads
    /\ Distance \in [Nodes -> [Terms -> Nat]]
    /\ \A term \in Terms : \A c, d \in Nodes :
          Distance[c][term] = Distance[d][term] => c = d
    /\ {SEARCH_ALPHA, DHT_K, MAX_PUBLISHES_AT_TIME} \subseteq Nat \ {0}
    /\ {SEARCHFILE_LIFETIME, SEARCHNODE_LIFETIME, SEARCHSTOREFILE_LIFETIME} \subseteq Nat
    /\ {SEARCH_STOPTIME, FILE_INTERVAL, RESULT_LIFETIME, MaxQueue} \subseteq Nat

LifeTime(type) == CASE type = "FILE" -> SEARCHFILE_LIFETIME
                    [] type = "NODE" -> SEARCHNODE_LIFETIME
                    [] type = "STOREFILE" -> SEARCHSTOREFILE_LIFETIME

VARIABLES
    searches,       \* the running searches by token
    work,           \* per thread: {}, or {w} for the search it is starting
    publishQueue,   \* files waiting to be published
    publishing,     \* how many files are being published
    publish,        \* is publishing allowed?
    cooldown,       \* time until findFile accepts the next search
    searchResults,  \* results whose user is not online
    online,         \* nodes that are online in the DHT
    contacted       \* history: nodes asked to come online that have not answered since

slotVars   == <<publishQueue, publishing, publish>>
resultVars == <<searchResults, online, contacted>>
vars == <<searches, work, slotVars, cooldown, resultVars>>

Deadline == Nat \cup {-1}
Search == [type : Types, term : Terms, lifeTime : Deadline, stopping : BOOLEAN,
           possible : SUBSET Nodes, tried : SUBSET Nodes, responded : SUBSET Nodes]
Work   == [stage : {"findStore", "search"}, type : Types, term : Terms, lifeTime : Deadline]
Result == [cid : CIDs, left : Deadline]

Init ==
    /\ searches = <<>>
    /\ work = [t \in Threads |-> {}]
    /\ publishQueue = <<>>
    /\ publishing = 0
    /\ publish = FALSE
    /\ cooldown = FILE_INTERVAL
    /\ searchResults = {}
    /\ online = {}
    /\ contacted = {}

-----------------------------------------------------------------------------
\* Fault: one node too many is taken.
Closest_OneMore(n, S, term) ==
    {c \in S : Cardinality({d \in S : Distance[d][term] < Distance[c][term]}) <= n}

\* The n nodes of S that are closest to a term.
Closest(n, S, term) ==
    {c \in S : Cardinality({d \in S : Distance[d][term] < Distance[c][term]}) < n}

\* Fault: a search that is stopping goes on asking.
Process_AsksWhenStopping(s) ==
    LET asked == Closest(SEARCH_ALPHA, s.possible, s.term)
    IN  IF s.possible = {} THEN [s EXCEPT !.stopping = TRUE, !.lifeTime = SEARCH_STOPTIME]
        ELSE [s EXCEPT !.tried = @ \cup asked, !.possible = @ \ asked]

\* Search::process: ask the closest nodes not asked yet; with nobody left to
\* ask, wait some more for late results.
Process(s) ==
    LET asked == Closest(SEARCH_ALPHA, s.possible, s.term)
    IN  IF s.stopping THEN s
        ELSE IF s.possible = {} THEN [s EXCEPT !.stopping = TRUE, !.lifeTime = SEARCH_STOPTIME]
        ELSE [s EXCEPT !.tried = @ \cup asked, !.possible = @ \ asked]

isAlreadySearchingFor(term) == \E k \in DOMAIN searches : searches[k].term = term

\* The running searches among K that hold a publishing slot.
Storing(K) == {k \in K : searches[k].type = "STOREFILE"}

\* Search::~Search for the searches of K.
Delete(K) ==
    /\ publishing' = publishing - Cardinality(Storing(K))
    /\ publish' = (publish \/ \E k \in K : searches[k].type = "NODE")

\* Bound: there is a token for every search that is running or starting.
Room == Cardinality(DOMAIN searches) + Cardinality({t \in Threads : work[t] # {}})
            < Cardinality(Tokens)

\* A thread passes the check of isAlreadySearchingFor and enters search(),
\* which reads the tick.
Start(t, type, term) ==
    work' = [work EXCEPT ![t] = {[stage |-> "search", type |-> type, term |-> term,
                                  lifeTime |-> LifeTime(type)]}]

-----------------------------------------------------------------------------
\* findNode from TaskManager's timer, up to the start of search().
FindNode ==
    /\ work[Timer] = {} /\ Room
    /\ ~isAlreadySearchingFor(Me)
    /\ Start(Timer, "NODE", Me)
    /\ UNCHANGED <<searches, slotVars, cooldown, resultVars>>

\* findFile, up to the start of search().
FindFile(t, tth) ==
    /\ work[t] = {} /\ Room
    /\ cooldown = 0
    /\ ~isAlreadySearchingFor(tth)
    /\ Start(t, "FILE", tth)
    /\ UNCHANGED <<searches, slotVars, cooldown, resultVars>>

\* IndexManager::publishFile appends a file; publishPartialFile puts one in front.
PublishFile(tth) ==
    /\ Len(publishQueue) < MaxQueue
    /\ publishQueue' \in {Append(publishQueue, tth), <<tth>> \o publishQueue}
    /\ UNCHANGED <<searches, work, publishing, publish, cooldown, resultVars>>

\* Fault: the limit is compared with the count before this file.
PublishNextFile_OffByOne ==
    /\ work[Timer] = {} /\ Room
    /\ publish
    /\ publishQueue # <<>>
    /\ publishing <= MAX_PUBLISHES_AT_TIME
    /\ publishing' = publishing + 1
    /\ publishQueue' = Tail(publishQueue)
    /\ work' = [work EXCEPT ![Timer] = {[stage |-> "findStore", type |-> "STOREFILE",
                                         term |-> Head(publishQueue), lifeTime |-> -1]}]
    /\ UNCHANGED <<searches, publish, cooldown, resultVars>>

\* IndexManager::publishNextFile, up to its call of findStore.
PublishNextFile ==
    /\ work[Timer] = {} /\ Room
    /\ publish
    /\ publishQueue # <<>>
    /\ publishing < MAX_PUBLISHES_AT_TIME
    /\ publishing' = publishing + 1
    /\ publishQueue' = Tail(publishQueue)
    /\ work' = [work EXCEPT ![Timer] = {[stage |-> "findStore", type |-> "STOREFILE",
                                         term |-> Head(publishQueue), lifeTime |-> -1]}]
    /\ UNCHANGED <<searches, publish, cooldown, resultVars>>

\* Fault: the slot of a term that is already searched for is not given back.
FindStore_KeepsSlot ==
    \E w \in work[Timer] :
        /\ w.stage = "findStore"
        /\ IF isAlreadySearchingFor(w.term)
           THEN work' = [work EXCEPT ![Timer] = {}]
           ELSE Start(Timer, "STOREFILE", w.term)
        /\ UNCHANGED <<searches, slotVars, cooldown, resultVars>>

\* Fault: a file is published although it is searched for.
FindStore_Unchecked ==
    \E w \in work[Timer] :
        /\ w.stage = "findStore"
        /\ Start(Timer, "STOREFILE", w.term)
        /\ UNCHANGED <<searches, slotVars, cooldown, resultVars>>

\* findStore, up to the start of search(): a term that is already searched
\* for gives its slot back and is not published.
FindStore ==
    \E w \in work[Timer] :
        /\ w.stage = "findStore"
        /\ IF isAlreadySearchingFor(w.term)
           THEN /\ work' = [work EXCEPT ![Timer] = {}]
                /\ publishing' = publishing - 1
           ELSE /\ Start(Timer, "STOREFILE", w.term)
                /\ UNCHANGED publishing
        /\ UNCHANGED <<searches, publishQueue, publish, cooldown, resultVars>>

\* Fault: a search without nodes is dropped without its destructor.
NobodyToAsk_Leaks(w) ==
    /\ publish' = (publish \/ w.type = "NODE")
    /\ UNCHANGED <<searches, publishing>>

\* search() when the routing table knows no node: the search is deleted.
NobodyToAsk(w) ==
    /\ publishing' = publishing - (IF w.type = "STOREFILE" THEN 1 ELSE 0)
    /\ publish' = (publish \/ w.type = "NODE")
    /\ UNCHANGED searches

\* search() with the nodes of the routing table closest to the term: the
\* search is stored and processed once.
StoreSearch(w, possible) ==
    /\ \E k \in Tokens \ DOMAIN searches :
          searches' = [j \in DOMAIN searches \cup {k} |->
              IF j = k THEN Process([type |-> w.type, term |-> w.term, lifeTime |-> w.lifeTime,
                                     stopping |-> FALSE, possible |-> possible, tried |-> {},
                                     responded |-> {}])
              ELSE searches[j]]
    /\ UNCHANGED <<publishing, publish>>

\* search(), from getClosestNodes to its end, and the rest of its caller.
DoSearch(t) ==
    \E w \in work[t], possible \in SUBSET CIDs :
        /\ w.stage = "search"
        /\ IF possible = {} THEN NobodyToAsk(w) ELSE StoreSearch(w, possible)
        /\ cooldown' = IF w.type = "FILE" THEN FILE_INTERVAL ELSE cooldown
        /\ work' = [work EXCEPT ![t] = {}]
        /\ UNCHANGED <<publishQueue, resultVars>>

\* processSearches: process every search, then remove those out of time.  The
\* PUB requests of a finished STOREFILE search change no state.
ProcessSearches ==
    LET done == [k \in DOMAIN searches |-> Process(searches[k])]
        over == {k \in DOMAIN searches : done[k].lifeTime < 0}
    IN  /\ work[Timer] = {}
        /\ searches' = [k \in DOMAIN searches \ over |-> done[k]]
        /\ Delete(over)
        /\ UNCHANGED <<work, publishQueue, cooldown, resultVars>>

\* Fault: nodes that were asked already are queued again.
AddNodes_Again(k, cid, nodes) ==
    searches' = [searches EXCEPT
        ![k].responded = @ \cup {cid},
        ![k].possible = @ \cup (nodes \ {Me})]

\* processSearchResult for the nodes of a response.
AddNodes(k, cid, nodes) ==
    searches' = [searches EXCEPT
        ![k].responded = @ \cup {cid},
        ![k].possible = @ \cup (nodes \ (searches[k].tried \cup {Me}))]

\* Fault: a result waits for its user even if the user is online.
AddSources_Online(full, partial) ==
    /\ searchResults' = searchResults \cup {[cid |-> c, left |-> RESULT_LIFETIME] : c \in full}
    /\ contacted' = contacted \cup (partial \ online)
                        \cup {c \in full \ online : \E r \in searchResults : r.cid = c}

\* processSearchResult for the sources of a response: results of users that
\* are offline wait for them.
AddSources(full, partial) ==
    /\ searchResults' = searchResults \cup {[cid |-> c, left |-> RESULT_LIFETIME] : c \in full \ online}
    /\ contacted' = contacted \cup (partial \ online)
                        \cup {c \in full \ online : \E r \in searchResults : r.cid = c}

\* processSearchResult: responses to unknown tokens and from nodes that were
\* not asked are ignored; only a FILE search reads sources.
ProcessSearchResult(k, cid, nodes, full, partial) ==
    /\ k \in DOMAIN searches
    /\ cid \in searches[k].tried
    /\ Cardinality(nodes) <= DHT_K
    /\ AddNodes(k, cid, nodes)
    /\ IF searches[k].type = "FILE" THEN AddSources(full, partial)
       ELSE UNCHANGED <<searchResults, contacted>>
    /\ UNCHANGED <<work, slotVars, cooldown, online>>

\* processSearchResults: the results of the user are reported, and old ones of
\* other users are dropped.
processSearchResults(cid) == {r \in searchResults : r.cid # cid /\ r.left > 0}

\* The INF handler of the DHT: a user who asks for a connection is put online.
ProcessInf(cid, connection) ==
    /\ online' = IF connection THEN online \cup {cid} ELSE online
    /\ searchResults' = processSearchResults(cid)
    /\ contacted' = contacted \ {cid}
    /\ UNCHANGED <<searches, work, slotVars, cooldown>>

\* The routing table drops a node that does not answer.
GoOffline(cid) ==
    /\ online' = online \ {cid}
    /\ UNCHANGED <<searches, work, slotVars, cooldown, searchResults, contacted>>

\* DHT::stop deletes the SearchManager and its searches, and a later
\* DHT::start makes a new one; the IndexManager lives on.  Threads that are
\* inside the SearchManager at that moment are not modelled here.
Restart ==
    /\ \A t \in Threads : work[t] = {}
    /\ Delete(DOMAIN searches)
    /\ searches' = <<>>
    /\ cooldown' = 0
    /\ searchResults' = {}
    /\ online' = {}
    /\ contacted' = {}
    /\ UNCHANGED <<work, publishQueue>>

\* Time passes for every deadline.
Later(d) == IF d < 0 THEN d ELSE d - 1

Tick ==
    /\ searches' = [k \in DOMAIN searches |-> [searches[k] EXCEPT !.lifeTime = Later(@)]]
    /\ work' = [t \in Threads |-> {[w EXCEPT !.lifeTime = Later(@)] : w \in work[t]}]
    /\ cooldown' = IF cooldown = 0 THEN 0 ELSE cooldown - 1
    /\ searchResults' = {[r EXCEPT !.left = Later(@)] : r \in searchResults}
    /\ UNCHANGED <<slotVars, online, contacted>>

Next ==
    \/ FindNode
    \/ \E t \in UserThreads, tth \in Files : FindFile(t, tth)
    \/ \E tth \in Files : PublishFile(tth)
    \/ PublishNextFile
    \/ FindStore
    \/ \E t \in Threads : DoSearch(t)
    \/ ProcessSearches
    \/ \E k \in Tokens, cid \in CIDs, nodes \in SUBSET Nodes, full, partial \in SUBSET Sources :
          ProcessSearchResult(k, cid, nodes, full, partial)
    \/ \E cid \in CIDs, connection \in BOOLEAN : ProcessInf(cid, connection)
    \/ \E cid \in CIDs : GoOffline(cid)
    \/ Restart
    \/ Tick

Spec == Init /\ [][Next]_vars

\* The timer thread calls processSearches every SEARCH_PROCESSTIME, between
\* its other work; a thread that is inside a search goes on; time passes.
Fairness ==
    /\ WF_vars(Tick)
    /\ SF_vars(ProcessSearches)
    /\ WF_vars(FindStore)
    /\ \A t \in Threads : WF_vars(DoSearch(t))

FairSpec == Spec /\ Fairness

-----------------------------------------------------------------------------
(***************************************************************************)
(* Properties                                                              *)
(***************************************************************************)

\* Types of the searches, the threads' work, the queue and the results.
TypeOK ==
    /\ DOMAIN searches \subseteq Tokens
    /\ searches \in [DOMAIN searches -> Search]
    /\ work \in [Threads -> SUBSET Work]
    /\ \A t \in Threads : \A v, w \in work[t] : v = w
    /\ publishQueue \in Seq(Files)
    /\ publishing \in Int
    /\ publish \in BOOLEAN
    /\ cooldown \in 0..FILE_INTERVAL
    /\ searchResults \subseteq Result
    /\ online \subseteq CIDs
    /\ contacted \subseteq CIDs

\* The threads that hold a publishing slot for a search not yet stored.
SlotHolders == {t \in Threads : \E w \in work[t] : w.type = "STOREFILE"}

\* IndexManager::publishing counts exactly the files being published: every
\* path through findStore, search, processSearches and the destructor gives
\* a slot back once, and there are never more than MAX_PUBLISHES_AT_TIME.
SlotsAccounted ==
    /\ publishing = Cardinality(Storing(DOMAIN searches)) + Cardinality(SlotHolders)
    /\ publishing <= MAX_PUBLISHES_AT_TIME

\* DhtSearch publishes files as Publishing says: what is in the works there
\* are the searches and threads that publish here, not the counter.
Abstract == INSTANCE Publishing WITH
    queue <- publishQueue,
    busy  <- Cardinality(Storing(DOMAIN searches)) + Cardinality(SlotHolders),
    Limit <- MAX_PUBLISHES_AT_TIME

\* Through every interleaving, time-out, duplicate and restart, files are begun
\* from the front of the queue, and only while fewer than
\* MAX_PUBLISHES_AT_TIME are really being published.
PublishesAsPromised == Abstract!Spec

\* No search asks a node twice or asks ourselves, whatever the responses
\* list, and only nodes that were asked count as responders.
AskedOnce ==
    \A k \in DOMAIN searches :
        /\ searches[k].possible \cap searches[k].tried = {}
        /\ searches[k].responded \subseteq searches[k].tried
        /\ Me \notin searches[k].possible \cup searches[k].tried

\* The timer thread never runs two searches of its own for one term: when
\* two searches of a term run, one of them is a FILE search that another
\* thread started between the check and the store of the other one.
DuplicateIsFileSearch ==
    \A j, k \in DOMAIN searches :
        searches[j].term = searches[k].term =>
            j = k \/ "FILE" \in {searches[j].type, searches[k].type}

\* The nodes that a step newly asks.
Asked(k) == {c \in searches'[k].tried : k \in DOMAIN searches => c \notin searches[k].tried}

\* A step asks at most SEARCH_ALPHA nodes for a search, none that is farther
\* from the term than one left for later, and none once it is stopping.
AsksTheClosest ==
    [][\A k \in DOMAIN searches' :
          /\ Cardinality(Asked(k)) <= SEARCH_ALPHA
          /\ \A c \in Asked(k), d \in searches'[k].possible :
                Distance[c][searches'[k].term] < Distance[d][searches'[k].term]
          /\ searches'[k].stopping => Asked(k) = {}]_searches

\* Every search ends: processSearches extends the lifetime of a search at
\* most once, so that late responses cannot keep it alive.
SearchEnds == \A k \in Tokens : k \in DOMAIN searches ~> k \notin DOMAIN searches

\* Publishing never stops for good with all slots taken.
SlotsComeBack == (publishing = MAX_PUBLISHES_AT_TIME) ~> (publishing < MAX_PUBLISHES_AT_TIME)

\* No result waits for a user that is online: the INF that puts him online
\* reports what waited for him, and later results are reported at once.
WaitingUserIsOffline == \A r \in searchResults : r.cid \notin online

\* The comment of processSearchResult on a result whose user is offline:
\* "try to contact him if we didn't contact him recently".
WaitingUserIsContacted == \A r \in searchResults : r.cid \in contacted

=============================================================================
