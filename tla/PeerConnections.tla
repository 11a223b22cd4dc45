--------------------------- MODULE PeerConnections ---------------------------
(***************************************************************************)
(* Connections to other users: client/ConnectionManager.cpp.               *)
(*                                                                         *)
(* The queue of the users to download from (downloads) and the list of     *)
(* those who download from us (uploads) are kept apart from the            *)
(* connections themselves (userConnections).  The timer asks users to      *)
(* connect; connections come in or go out on threads of their own, tell    *)
(* who they are, and are then tied to an item of one of the lists          *)
(* (FLAG_ASSOCIATED) or dropped.  The manager that a tied connection is    *)
(* given to may refuse it and leave its state as it was, so that the       *)
(* handler can run once more.  Every section under the lock cs is one      *)
(* action; what a handler read in one section may have changed in the      *)
(* next.  Slots and priorities of the download queue are left open.        *)
(***************************************************************************)
EXTENDS Integers, FiniteSets

CONSTANTS
    Users,       \* other users
    Conns,       \* names of UserConnections
    None,        \* the user of a connection that has not told it yet
    MaxErrors    \* bound: errors are counted up to this

ASSUME PeerAssumption == None \notin Users /\ MaxErrors \in Nat \ {0}

VARIABLES
    online,      \* users with isOnline()
    downloads,   \* user |-> ConnectionQueueItem
    uploads,     \* users with a ConnectionQueueItem for an upload, which is ACTIVE
    conns,       \* userConnections
    calling,     \* a hub thread in nmdcConnect or adcConnect, past the test of shuttingDown
    phase,       \* of the main thread: "up", and the steps of shutdown()
    late,        \* history: connections made after shutdown() disconnected all
    repeated     \* history: users of connections handled again once they were tied

vars == <<online, downloads, uploads, conns, calling, phase, late, repeated>>

\* A ConnectionQueueItem for a download.  last is the age of lastAttempt:
\* "never" is 0, "late" is over 50 seconds, "due" over a minute per error.
Item == [state : {"WAITING", "CONNECTING", "NO_DOWNLOAD_SLOTS", "ACTIVE"},
         errors : -1..MaxErrors,
         last : {"never", "recent", "late", "due"}]

\* A UserConnection.  The stages are its states until a manager takes it.  A
\* handler has something left to do after its first lock section.
Conn == [stage : {"CONNECT", "SUPNICK", "INF", "LOCK", "DIRECTION", "KEY", "managed"},
         todo : {"none", "download", "upload", "put"},
         user : Users \cup {None},
         download : BOOLEAN,      \* FLAG_DOWNLOAD; else FLAG_UPLOAD counts
         associated : BOOLEAN,    \* FLAG_ASSOCIATED
         closing : BOOLEAN]       \* shutdown() has told it to close

NewItem == [state |-> "WAITING", errors |-> 0, last |-> "never"]

NewConn(stage) == [stage |-> stage, todo |-> "none", user |-> None, download |-> FALSE,
                   associated |-> FALSE, closing |-> FALSE]

\* A function with one argument more or with other values, and without some arguments.
Put(f, x, v) == [y \in DOMAIN f \cup {x} |-> IF y = x THEN v ELSE f[y]]
Without(f, S) == [y \in DOMAIN f \ S |-> f[y]]

Init ==
    /\ online \in SUBSET Users
    /\ downloads = [u \in {} |-> NewItem]
    /\ uploads = {}
    /\ conns = [c \in {} |-> NewConn("CONNECT")]
    /\ calling = FALSE
    /\ phase = "up"
    /\ late = {}
    /\ repeated = {}

-----------------------------------------------------------------------------
(***************************************************************************)
(* The queue of downloads                                                  *)
(***************************************************************************)

\* getDownloadConnection, for the download queue.
GetDownloadConnection(u) ==
    /\ u \notin DOMAIN downloads
    /\ downloads' = Put(downloads, u, NewItem)
    /\ UNCHANGED <<online, uploads, conns, calling, phase, late, repeated>>

\* The user asks for an attempt now.
ForceAttempt(u) ==
    /\ u \in DOMAIN downloads
    /\ downloads' = [downloads EXCEPT ![u].last = "never"]
    /\ UNCHANGED <<online, uploads, conns, calling, phase, late, repeated>>

\* One error more.
Errors(n) == IF n < MaxErrors THEN n + 1 ELSE n

\* An item after a new attempt; start: the slots allow another download.
Attempted(item, start) ==
    LET next == CASE item.state = "WAITING" -> IF start THEN "CONNECTING" ELSE "NO_DOWNLOAD_SLOTS"
                  [] item.state = "NO_DOWNLOAD_SLOTS" /\ start -> "WAITING"
                  [] OTHER -> item.state
    IN  [item EXCEPT !.last = "recent", !.state = next]

\* Items of users who have left are removed, but for those in use.
Gone(u) == downloads[u].state # "ACTIVE" /\ u \notin online

\* A protocol error keeps an item from new attempts, and from its timeout.
Refused(item) == item.errors = -1 /\ item.last # "never"

Due(u) == /\ downloads[u].state # "ACTIVE"
          /\ ~Refused(downloads[u])
          /\ downloads[u].last \in {"never", "due"}

\* Fault: the item waits for its next attempt and not for its timeout.
TimedOut_Late(u) == downloads[u].state = "CONNECTING" /\ downloads[u].last = "due"

TimedOut(u) == /\ downloads[u].state = "CONNECTING"
               /\ ~Refused(downloads[u])
               /\ downloads[u].last = "late"

\* on(Second): paused are the users of whom nothing is wanted now.  The limit of
\* attempts per second only delays an item, as Age does.
Second ==
    /\ phase = "up"
    /\ \E start, paused \in SUBSET Users :
          LET removed == {u \in DOMAIN downloads : Gone(u) \/ (Due(u) /\ u \in paused)}
              After(u) == CASE Due(u) -> Attempted(downloads[u], u \in start)
                            [] TimedOut(u) -> [downloads[u] EXCEPT !.state = "WAITING", !.errors = Errors(@)]
                            [] OTHER -> downloads[u]
          IN  downloads' = [u \in DOMAIN downloads \ removed |-> After(u)]
    /\ UNCHANGED <<online, uploads, conns, calling, phase, late, repeated>>

\* Time passes for an item.  on(Second) comes between the two ages that it
\* tells apart, as long as it runs.
Age(u) ==
    /\ u \in DOMAIN downloads
    /\ \/ downloads[u].last = "recent" /\ downloads' = [downloads EXCEPT ![u].last = "late"]
       \/ downloads[u].last = "late" /\ ~TimedOut(u) /\ downloads' = [downloads EXCEPT ![u].last = "due"]
    /\ UNCHANGED <<online, uploads, conns, calling, phase, late, repeated>>

-----------------------------------------------------------------------------
(***************************************************************************)
(* Connections                                                             *)
(***************************************************************************)

\* accept: somebody connects, until the servers are deleted.
Accept(c) ==
    /\ phase \in {"up", "closing"}
    /\ c \notin DOMAIN conns
    /\ conns' = Put(conns, c, NewConn("SUPNICK"))
    /\ UNCHANGED <<online, downloads, uploads, calling, phase, late, repeated>>

\* nmdcConnect and adcConnect, to their test of shuttingDown.
Call ==
    /\ phase = "up"
    /\ ~calling
    /\ calling' = TRUE
    /\ UNCHANGED <<online, downloads, uploads, conns, phase, late, repeated>>

\* The rest of them; the flood check may have refused.
Connect ==
    /\ calling
    /\ calling' = FALSE
    /\ \/ UNCHANGED <<conns, late>>
       \/ \E c \in Conns \ DOMAIN conns :
             /\ conns' = Put(conns, c, NewConn("CONNECT"))
             /\ late' = IF phase \in {"up", "closing"} THEN late ELSE late \cup {c}
    /\ UNCHANGED <<online, downloads, uploads, phase, repeated>>

\* A connection at a stage, with no handler of it under way.
At(c, stage) == c \in DOMAIN conns /\ conns[c].stage = stage /\ conns[c].todo = "none"

\* A connection whose handler has something left to do.
ToDo(c, what) == c \in DOMAIN conns /\ conns[c].todo = what

\* The users whose items no longer match if a handler runs for c, and with user
\* u, or puts c, though c is tied to an item already.
Repeat(c, us) == repeated' = IF conns[c].associated THEN repeated \cup us ELSE repeated

Goto(c, stage) == conns' = [conns EXCEPT ![c].stage = stage]

\* on(Connected), on(SUP) and on(CLock) with what is expected.
Greet(c) ==
    /\ \/ At(c, "CONNECT") /\ Goto(c, "SUPNICK")
       \/ At(c, "SUPNICK") /\ Goto(c, "INF")
       \/ At(c, "LOCK") /\ Goto(c, "DIRECTION")
    /\ UNCHANGED <<online, downloads, uploads, calling, phase, late, repeated>>

\* on(INF), up to its lock: whose connection it is, and whether its token is
\* that of the download.
Inf(c, u) ==
    /\ At(c, "INF")
    /\ \E match \in BOOLEAN :
          /\ match => u \in DOMAIN downloads
          /\ conns' = [conns EXCEPT ![c].todo = IF match THEN "download" ELSE "upload",
                                    ![c].user = u, ![c].download = (@ \/ match)]
    /\ downloads' = IF u \in DOMAIN downloads THEN [downloads EXCEPT ![u].errors = 0] ELSE downloads
    /\ Repeat(c, {conns[c].user, u})
    /\ UNCHANGED <<online, uploads, calling, phase, late>>

\* A download that on(MyNick) takes a connection for.
Wanted(u) == u \in DOMAIN downloads /\ downloads[u].state \in {"CONNECTING", "WAITING"}

\* on(MyNick): the items in front of the one looked for, or all if there is
\* none, lose their errors.
MyNick(c, u) ==
    /\ At(c, "SUPNICK")
    /\ Wanted(u) \/ u \in online
    /\ \E seen \in SUBSET DOMAIN downloads :
          /\ IF Wanted(u) THEN u \in seen ELSE seen = DOMAIN downloads
          /\ downloads' = [v \in DOMAIN downloads |->
                              IF v \in seen THEN [downloads[v] EXCEPT !.errors = 0] ELSE downloads[v]]
    /\ conns' = [conns EXCEPT ![c].stage = "LOCK", ![c].user = u, ![c].download = Wanted(u)]
    /\ UNCHANGED <<online, uploads, calling, phase, late, repeated>>

\* on(MyNick) of somebody who is not known or not online: every item loses its
\* errors, and the connection is dropped.
UnknownNick(c) ==
    /\ At(c, "SUPNICK")
    /\ downloads' = [v \in DOMAIN downloads |-> [downloads[v] EXCEPT !.errors = 0]]
    /\ conns' = Without(conns, {c})
    /\ late' = late \ {c}
    /\ UNCHANGED <<online, uploads, calling, phase, repeated>>

\* on(Direction): theirs is what the other side wants; if both want to
\* download, the higher number wins.
Direction(c) ==
    /\ At(c, "DIRECTION")
    /\ \/ \* the sides agree, or we win: we go on as we are
          conns' = [conns EXCEPT ![c].stage = "KEY"]
       \/ \* both want to download, and we lose
          /\ conns[c].download
          /\ conns' = [conns EXCEPT ![c].stage = "KEY", ![c].download = FALSE]
    /\ UNCHANGED <<online, downloads, uploads, calling, phase, late, repeated>>

Key(c) ==
    /\ At(c, "KEY")
    /\ conns' = [conns EXCEPT ![c].todo = IF conns[c].download THEN "download" ELSE "upload"]
    /\ Repeat(c, {conns[c].user})
    /\ UNCHANGED <<online, downloads, uploads, calling, phase, late>>

\* Fault: a download that has a connection takes another.
Waits_Active(u) == u \in DOMAIN downloads /\ downloads[u].state # "NO_DOWNLOAD_SLOTS"

\* A download that still waits for a connection.
Waits(u) == u \in DOMAIN downloads /\ downloads[u].state \in {"WAITING", "CONNECTING"}

\* The connection c, tied to an item, is with a manager that takes it.
Managed(c) == [conns[c] EXCEPT !.todo = "none", !.associated = TRUE, !.stage = "managed"]

\* DownloadManager refuses a client that is too old, an address that is blocked
\* or a download that no slot is left for, and disconnects; UploadManager refuses
\* an address that is blocked, and lets the connection be.
Declined(c) == [conns[c] EXCEPT !.todo = "none", !.associated = TRUE]

\* addDownloadConnection: tie the connection to the item of its user and give
\* it to DownloadManager, or leave it to be dropped.
AddDownloadConnection(c) ==
    /\ ToDo(c, "download")
    /\ IF Waits(conns[c].user)
       THEN /\ downloads' = [downloads EXCEPT ![conns[c].user].state = "ACTIVE"]
            /\ \E conn \in {Managed(c), Declined(c)} : conns' = [conns EXCEPT ![c] = conn]
       ELSE /\ conns' = [conns EXCEPT ![c].todo = "put"]
            /\ UNCHANGED downloads
    /\ UNCHANGED <<online, uploads, calling, phase, late, repeated>>

\* addUploadConnection: one upload per user.
AddUploadConnection(c) ==
    /\ ToDo(c, "upload")
    /\ IF conns[c].user \notin uploads
       THEN /\ uploads' = uploads \cup {conns[c].user}
            /\ \E conn \in {Managed(c), Declined(c)} : conns' = [conns EXCEPT ![c] = conn]
       ELSE /\ conns' = [conns EXCEPT ![c].todo = "put"]
            /\ UNCHANGED uploads
    /\ UNCHANGED <<online, downloads, calling, phase, late, repeated>>

\* putConnection at the end of a handler that has no use for the connection:
\* an unknown or untrusted user, equal numbers, a second upload...
PutConnection(c) ==
    /\ ToDo(c, "put") \/ \E stage \in {"CONNECT", "SUPNICK", "INF", "DIRECTION"} : At(c, stage)
    /\ conns' = Without(conns, {c})
    /\ late' = late \ {c}
    /\ Repeat(c, {conns[c].user})
    /\ UNCHANGED <<online, downloads, uploads, calling, phase>>

\* The uploads when a connection has failed.
Ended(c) == IF conns[c].associated /\ ~conns[c].download THEN uploads \ {conns[c].user} ELSE uploads

\* failed(), when the connection is lost or breaks the protocol; its own thread
\* reports this, between two handlers.  disconnect() - by a manager, the user, or
\* on(Minute) after three minutes of silence - changes nothing of ours but brings
\* this about, which may happen at any time anyway.  After a repeated handler the item may
\* not be there; what the code then does to the others is not modelled.
Failed(c, protocolError) ==
    /\ ToDo(c, "none")
    /\ uploads' = Ended(c)
    /\ downloads' = IF conns[c].associated /\ conns[c].download /\ conns[c].user \in DOMAIN downloads
                    THEN [downloads EXCEPT ![conns[c].user] =
                             [state |-> "WAITING", last |-> "recent",
                              errors |-> IF protocolError THEN -1 ELSE Errors(@.errors)]]
                    ELSE downloads
    /\ conns' = Without(conns, {c})
    /\ late' = late \ {c}
    /\ UNCHANGED <<online, calling, phase, repeated>>

-----------------------------------------------------------------------------
(***************************************************************************)
(* The end of the program                                                  *)
(***************************************************************************)

\* shutdown(): the timer is off and shuttingDown is set.
BeginShutdown ==
    /\ phase = "up"
    /\ phase' = "closing"
    /\ UNCHANGED <<online, downloads, uploads, conns, calling, late, repeated>>

\* Fault: only the connections given to a manager are told to close.
Told_Managed == {c \in DOMAIN conns : conns[c].stage = "managed"}

\* The connections that shutdown() tells to close.
Told == DOMAIN conns

\* The servers are deleted, and every connection is told to close.
DisconnectAll ==
    /\ phase = "closing"
    /\ phase' = "waiting"
    /\ conns' = [c \in DOMAIN conns |-> [conns[c] EXCEPT !.closing = (@ \/ c \in Told)]]
    /\ UNCHANGED <<online, downloads, uploads, calling, late, repeated>>

\* shutdown() has waited until there is no connection.
EndShutdown ==
    /\ phase = "waiting"
    /\ conns = [c \in {} |-> NewConn("CONNECT")]
    /\ phase' = "down"
    /\ UNCHANGED <<online, downloads, uploads, conns, calling, late, repeated>>

\* A user comes or goes.
Change(u) ==
    /\ online' = IF u \in online THEN online \ {u} ELSE online \cup {u}
    /\ UNCHANGED <<downloads, uploads, conns, calling, phase, late, repeated>>

Handle(c) ==
    \/ Greet(c)
    \/ \E u \in Users : Inf(c, u) \/ MyNick(c, u)
    \/ UnknownNick(c)
    \/ Direction(c)
    \/ Key(c)

\* The second lock section of a handler.
Finish(c) ==
    \/ AddDownloadConnection(c)
    \/ AddUploadConnection(c)
    \/ PutConnection(c)

Next ==
    \/ \E u \in Users : GetDownloadConnection(u) \/ ForceAttempt(u) \/ Age(u) \/ Change(u)
    \/ Second
    \/ Call
    \/ Connect
    \/ \E c \in Conns : Accept(c) \/ Handle(c) \/ Finish(c)
    \/ \E c \in Conns, protocolError \in BOOLEAN : Failed(c, protocolError)
    \/ BeginShutdown
    \/ DisconnectAll
    \/ EndShutdown

Spec == Init /\ [][Next]_vars

\* The timer ticks, threads finish what they do, a connection told to close is
\* closed, and shutdown() goes on once it has begun.
Fairness ==
    /\ WF_vars(Second)
    /\ \A u \in Users : WF_vars(Age(u))
    /\ \A c \in Conns :
          /\ WF_vars(AddDownloadConnection(c) \/ AddUploadConnection(c))
          /\ WF_vars(ToDo(c, "put") /\ PutConnection(c))
          /\ WF_vars(c \in DOMAIN conns /\ conns[c].closing /\ Failed(c, FALSE))
    /\ WF_vars(DisconnectAll)
    /\ WF_vars(EndShutdown)

FairSpec == Spec /\ Fairness

-----------------------------------------------------------------------------
(***************************************************************************)
(* Properties                                                              *)
(***************************************************************************)

\* Types of the lists and of the connections.
TypeOK ==
    /\ online \subseteq Users
    /\ DOMAIN downloads \subseteq Users /\ \A u \in DOMAIN downloads : downloads[u] \in Item
    /\ uploads \subseteq Users
    /\ DOMAIN conns \subseteq Conns /\ \A c \in DOMAIN conns : conns[c] \in Conn
    /\ calling \in BOOLEAN
    /\ phase \in {"up", "closing", "waiting", "down"}
    /\ late \subseteq DOMAIN conns
    /\ repeated \subseteq Users

\* The connections tied to the download or to the upload of a user.
Tied(u, download) == {c \in DOMAIN conns : /\ conns[c].associated
                                           /\ conns[c].user = u
                                           /\ conns[c].download = download}

\* Whatever the order in which the timer, the users and the handlers of
\* several connections take the lock, a download is ACTIVE and an upload is
\* listed exactly if one connection is tied to it, so that failed() finds the
\* item of every connection (its dcasserts) and no item is stuck in use.  This
\* leaves out the users of a connection that a manager refused and that was not
\* closed before its handler ran once more.
ItemsMatchConnections ==
    \A u \in Users \ repeated :
        /\ Cardinality(Tied(u, TRUE)) = IF u \in DOMAIN downloads /\ downloads[u].state = "ACTIVE"
                                        THEN 1 ELSE 0
        /\ Cardinality(Tied(u, FALSE)) = IF u \in uploads THEN 1 ELSE 0

\* An attempt to connect ends, with a connection, a timeout or the user's
\* leaving, unless it is forced again, the program shuts down, or it was forced
\* after a protocol error, for then nothing times it out.
AttemptEnds ==
    \A u \in Users :
        (u \in DOMAIN downloads /\ downloads[u].state = "CONNECTING" /\ downloads[u].errors # -1)
            ~> \/ u \notin DOMAIN downloads
               \/ downloads[u].state # "CONNECTING"
               \/ downloads[u].last = "never"
               \/ phase # "up"

\* shutdown() returns, unless a hub thread past the test of shuttingDown has made
\* a connection after all others were told to close.
ShutdownEnds == (phase = "closing") ~> (phase = "down" \/ late # {})

\* The comment of on(Second) ("protocol error, don't reconnect except after a
\* forced attempt"): the mark of a protocol error stays on an item until an
\* attempt is forced, or the user of the item connects by himself.
NoReconnectUnforced ==
    [][\A u \in DOMAIN downloads \cap DOMAIN downloads' :
          downloads[u].errors = -1 /\ downloads[u].last # "never" =>
              \/ downloads'[u].errors = -1
              \/ \E c \in DOMAIN conns' : conns'[c].user = u]_vars

=============================================================================
