----------------------------- MODULE SearchQueue -----------------------------
(***************************************************************************)
(* The search queue of one hub: client/SearchQueue.cpp as client/Client.cpp *)
(* and client/ClientManager.cpp drive it.                                  *)
(*                                                                         *)
(* A hub takes one search per interval, so searches wait in a queue: those *)
(* of users in order, then the automatic ones of the download queue.  The  *)
(* windows and the web server add searches and ask when they will be sent, *)
(* under the lock of the ClientManager; the timer thread sends the first   *)
(* one under the lock of the queue only.  A search window cancels its old  *)
(* search before it adds a new one, the web server does not.               *)
(*                                                                         *)
(* lastSearchTime is kept relative to GET_TICK, as the time since it, up   *)
(* to the first value that lets a search through.                          *)
(***************************************************************************)
EXTENDS Integers, FiniteSets, SequencesExt

CONSTANTS
    Frames,         \* search windows
    WebServer,      \* the web server
    NULL,           \* the owner of automatic searches
    Queries,        \* what is searched for: query, type and size of a Search
    interval        \* least time between two searches

Owners == Frames \cup {WebServer}

ASSUME QueueAssumption ==
    /\ IsFiniteSet(Owners) /\ IsFiniteSet(Queries)
    /\ WebServer \notin Frames
    /\ NULL \notin Owners
    /\ interval \in Nat \ {0}

VARIABLES
    searchQueue,  \* the waiting searches
    sinceLast,    \* time since lastSearchTime
    connected,    \* Client::isConnected()
    cancelled,    \* windows between cancelSearch and search
    asking,       \* {}, or {s}: s is added, its time is not yet asked for
    span,         \* how long each owner was told to wait
    wanted        \* history: the searches of owners, neither sent nor cancelled

vars == <<searchQueue, sinceLast, connected, cancelled, asking, span, wanted>>

Search == [query : Queries, auto : BOOLEAN, owners : (SUBSET (Owners \cup {NULL})) \ {{}}]

\* What Client::search returns of an owner that getSearchTime does not find:
\* 0 - GET_TICK(), which wraps to almost 2^64.
Wrapped == -1

Init ==
    /\ searchQueue = <<>>
    /\ sinceLast \in 0..(interval + 1)
    /\ connected = FALSE
    /\ cancelled = {}
    /\ asking = {}
    /\ span = [o \in Owners |-> 0]
    /\ wanted = {}

-----------------------------------------------------------------------------
\* Fault: a search of a user goes to the front of the queue.
Inserted_InFront(queue, s) == IF s.auto THEN Append(queue, s) ELSE <<s>> \o queue

\* A queue with one more search: an automatic one comes last, one of a user
\* before the automatic ones.
Inserted(queue, s) ==
    LET auto == SelectInSeq(queue, LAMBDA e : e.auto)
    IN  IF s.auto \/ auto = 0 THEN Append(queue, s) ELSE InsertAt(queue, auto, s)

\* SearchQueue::add: an equal search that waits gets the new owner, but an
\* automatic one makes way for that of a user.
Added(s) ==
    LET i == SelectInSeq(searchQueue, LAMBDA e : e.query = s.query)
    IN  IF i = 0 THEN Inserted(searchQueue, s)
        ELSE IF searchQueue[i].auto /\ ~s.auto THEN Inserted(RemoveAt(searchQueue, i), s)
        ELSE [searchQueue EXCEPT ![i].owners = @ \cup s.owners]

\* Fault: a search shared with others is not found.
First_NotShared(o) == SelectInSeq(searchQueue, LAMBDA e : e.owners = {o})

\* Position of the first search of an owner, or 0.
First(o) == SelectInSeq(searchQueue, LAMBDA e : o \in e.owners)

\* Fault: the search goes even if others want it too.
Without_Shared(o) == IF First(o) = 0 THEN searchQueue ELSE RemoveAt(searchQueue, First(o))

\* SearchQueue::cancelSearch: the owner leaves its first search, which goes
\* with its last owner.
Without(o) ==
    IF First(o) = 0 THEN searchQueue
    ELSE IF searchQueue[First(o)].owners = {o} THEN RemoveAt(searchQueue, First(o))
    ELSE [searchQueue EXCEPT ![First(o)].owners = @ \ {o}]

\* A window cancels its search, to start a new one or to close.
CancelSearch(o) ==
    /\ asking = {}
    /\ searchQueue' = Without(o)
    /\ cancelled' = cancelled \cup {o}
    /\ wanted' = {w \in wanted : w[1] # o}
    /\ UNCHANGED <<sinceLast, connected, asking, span>>

\* Fault: a window does not wait for its cancelSearch.
AddSearch_Uncancelled(o, q) ==
    /\ connected
    /\ asking = {}
    /\ searchQueue' = Added([query |-> q, auto |-> FALSE, owners |-> {o}])
    /\ cancelled' = cancelled \ {o}
    /\ asking' = {[owner |-> o, query |-> q]}
    /\ wanted' = wanted \cup {<<o, q>>}
    /\ UNCHANGED <<sinceLast, connected, span>>

\* Client::search of an owner, up to the return of add.
AddSearch(o, q) ==
    /\ connected
    /\ asking = {}
    /\ o \in Frames => o \in cancelled
    /\ searchQueue' = Added([query |-> q, auto |-> FALSE, owners |-> {o}])
    /\ cancelled' = cancelled \ {o}
    /\ asking' = {[owner |-> o, query |-> q]}
    /\ wanted' = wanted \cup {<<o, q>>}
    /\ UNCHANGED <<sinceLast, connected, span>>

\* The wait for the search at a position of the queue.
Wait(i) == i * interval - (IF sinceLast > interval THEN interval ELSE sinceLast)

\* Client::search of an owner, from getSearchTime to its end.
GetSearchTime ==
    \E s \in asking :
        /\ span' = [span EXCEPT ![s.owner] = IF First(s.owner) = 0 THEN Wrapped
                                             ELSE Wait(First(s.owner))]
        /\ asking' = {}
        /\ UNCHANGED <<searchQueue, sinceLast, connected, cancelled, wanted>>

\* Client::search for the download queue, which asks for no time.
AutoSearch(q) ==
    /\ connected
    /\ asking = {}
    /\ searchQueue' = Added([query |-> q, auto |-> TRUE, owners |-> {NULL}])
    /\ UNCHANGED <<sinceLast, connected, cancelled, asking, span, wanted>>

\* Client::on(Second) with SearchQueue::pop: the first search is sent.
Pop ==
    /\ connected
    /\ sinceLast > interval
    /\ searchQueue # <<>>
    /\ searchQueue' = Tail(searchQueue)
    /\ sinceLast' = 0
    /\ wanted' = {w \in wanted : w[2] # Head(searchQueue).query}
    /\ UNCHANGED <<connected, cancelled, asking, span>>

\* The hub connects and disconnects; the queue is kept.
Connect ==
    /\ ~connected
    /\ connected' = TRUE
    /\ UNCHANGED <<searchQueue, sinceLast, cancelled, asking, span, wanted>>

Disconnect ==
    /\ connected
    /\ connected' = FALSE
    /\ UNCHANGED <<searchQueue, sinceLast, cancelled, asking, span, wanted>>

Tick ==
    /\ sinceLast <= interval
    /\ sinceLast' = sinceLast + 1
    /\ UNCHANGED <<searchQueue, connected, cancelled, asking, span, wanted>>

Next ==
    \/ \E o \in Frames : CancelSearch(o)
    \/ \E o \in Owners, q \in Queries : AddSearch(o, q)
    \/ GetSearchTime
    \/ \E q \in Queries : AutoSearch(q)
    \/ Pop
    \/ Connect
    \/ Disconnect
    \/ Tick

Spec == Init /\ [][Next]_vars

\* Time passes, on(Second) reconnects the hub, and it finds the hub connected
\* again and again.
Fairness == WF_vars(Tick) /\ WF_vars(Connect) /\ SF_vars(Pop)

FairSpec == Spec /\ Fairness

-----------------------------------------------------------------------------
(***************************************************************************)
(* Properties                                                              *)
(***************************************************************************)

\* Types of the queue and of what its callers hold.
TypeOK ==
    /\ searchQueue \in Seq(Search)
    /\ sinceLast \in 0..(interval + 1)
    /\ connected \in BOOLEAN
    /\ cancelled \subseteq Frames
    /\ asking \subseteq [owner : Owners, query : Queries]
    /\ span \in [Owners -> Int]
    /\ wanted \subseteq Owners \X Queries

\* The searches of a query that wait for an owner.
Waiting(o, q) == {i \in 1..Len(searchQueue) : /\ searchQueue[i].query = q
                                              /\ o \in searchQueue[i].owners}

\* Whatever others add, share, cancel or send, a search that its owner has
\* neither cancelled nor seen sent waits in the queue, once, and nothing
\* waits for an owner that it does not want.
WantedIsQueued ==
    \A o \in Owners, q \in Queries :
        Cardinality(Waiting(o, q)) = IF <<o, q>> \in wanted THEN 1 ELSE 0

\* A window has one search in the queue, and none once it has cancelled: to
\* leave the first search of the owner is enough.
OneSearchPerWindow ==
    \A o \in Frames :
        Cardinality(UNION {Waiting(o, q) : q \in Queries}) <= (IF o \in cancelled THEN 0 ELSE 1)

\* A search of a user never moves back in the queue: neither later searches
\* nor automatic ones, not even for the same query, delay it.
UserSearchNotDelayed ==
    [][\A i \in 1..Len(searchQueue), j \in 1..Len(searchQueue') :
          /\ searchQueue[i].owners \cap searchQueue'[j].owners \cap Owners # {}
          /\ searchQueue[i].query = searchQueue'[j].query
          => j <= i]_searchQueue

\* A search of a user is sent or cancelled in the end, however many automatic
\* searches are added.
UserSearchIsSent ==
    \A o \in Owners, q \in Queries : <<o, q>> \in wanted ~> <<o, q>> \notin wanted

\* A window that asks when its search will be sent is told the wait for this
\* search, even if the search is shared or the queue has moved since it was
\* added; an owner is told a time of almost 2^64, 0 ("not in queue", says the
\* comment on getSearchTime) less GET_TICK(), only if the timer has sent the
\* search in between.
ToldItsWait ==
    [][\A s \in asking \ asking' :
          <<s.owner, s.query>> \in wanted =>
              /\ span'[s.owner] # Wrapped
              /\ s.owner \in Frames => \A i \in Waiting(s.owner, s.query) : span'[s.owner] = Wait(i)]_vars

=============================================================================
