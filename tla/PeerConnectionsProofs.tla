------------------------ MODULE PeerConnectionsProofs ------------------------
(***************************************************************************)
(* Proofs about PeerConnections, for any number of users and connections:  *)
(* the types, and that the items of the two lists and the connections tied *)
(* to them match.                                                          *)
(***************************************************************************)
EXTENDS PeerConnections, FiniteSetTheorems, TLAPS

-----------------------------------------------------------------------------
(***************************************************************************)
(* The inductive invariant                                                 *)
(***************************************************************************)

\* A connection is tied to the download or to the upload of a user.
TiedTo(c, u, download) == c \in DOMAIN conns /\ c \in Tied(u, download)

\* The download of a user is in use.
Active(u) == u \in DOMAIN downloads /\ downloads[u].state = "ACTIVE"

\* The fields of a connection agree: it knows its user from on(MyNick) or on(INF)
\* on; it is tied by a handler of INF or KEY, which the flags are set for; and
\* its user is among repeated if such a handler runs for it once more.
Ordered(conn, again) ==
    /\ (conn.stage \in {"LOCK", "DIRECTION", "KEY", "managed"} \/ conn.todo # "none" \/ conn.associated)
           => conn.user \in Users
    /\ conn.todo # "none" => conn.stage \in {"INF", "KEY"}
    /\ conn.associated => conn.stage \in {"INF", "KEY", "managed"}
    /\ conn.associated /\ conn.todo # "none" => conn.user \in again
    /\ conn.todo = "download" => conn.download
    /\ ~conn.associated /\ conn.todo = "upload" => ~conn.download
    /\ ~conn.associated /\ conn.todo = "none" /\ conn.stage \in {"CONNECT", "SUPNICK", "INF"}
           => ~conn.download

Staged == \A c \in DOMAIN conns : Ordered(conns[c], repeated)

\* An item is in use exactly if a connection is tied to it.
Matched == \A u \in Users \ repeated :
              /\ Active(u) <=> \E c \in Conns : TiedTo(c, u, TRUE)
              /\ u \in uploads <=> \E c \in Conns : TiedTo(c, u, FALSE)

\* No more than one connection is tied to an item.
Single == \A u \in Users \ repeated, download \in BOOLEAN, c, d \in Conns :
             TiedTo(c, u, download) /\ TiedTo(d, u, download) => c = d

IInv == TypeOK /\ Staged /\ Matched /\ Single

-----------------------------------------------------------------------------
(***************************************************************************)
(* Types                                                                   *)
(***************************************************************************)

\* What downloads and conns have to be.
DownloadsOK(f) == DOMAIN f \subseteq Users /\ \A u \in DOMAIN f : f[u] \in Item
ConnsOK(f) == DOMAIN f \subseteq Conns /\ \A c \in DOMAIN f : f[c] \in Conn

LEMMA TypeParts == TypeOK <=> /\ online \subseteq Users
                              /\ DownloadsOK(downloads)
                              /\ uploads \subseteq Users
                              /\ ConnsOK(conns)
                              /\ calling \in BOOLEAN
                              /\ phase \in {"up", "closing", "waiting", "down"}
                              /\ late \subseteq DOMAIN conns
                              /\ repeated \subseteq Users
  BY DEF TypeOK, DownloadsOK, ConnsOK

\* Changes of a field of an item, and of the record of a connection.
LEMMA ItemTypes ==
    ASSUME NEW item \in Item
    PROVE  /\ [item EXCEPT !.last = "never"] \in Item
           /\ [item EXCEPT !.last = "late"] \in Item
           /\ [item EXCEPT !.last = "due"] \in Item
           /\ [item EXCEPT !.errors = 0] \in Item
           /\ [item EXCEPT !.state = "ACTIVE"] \in Item
           /\ Errors(item.errors) \in -1..MaxErrors
           /\ [item EXCEPT !.state = "WAITING", !.errors = Errors(@)] \in Item
<1>1. MaxErrors \in Nat \ {0}
  BY PeerAssumption
<1>2. Errors(item.errors) \in -1..MaxErrors
  BY <1>1 DEF Errors, Item
<1> DEFINE e == Errors(item.errors)
<1>3. e \in -1..MaxErrors
  BY <1>2
<1> HIDE DEF e
<1>4. [item EXCEPT !.state = "WAITING", !.errors = e] \in Item
  BY <1>3 DEF Item
<1>5. [item EXCEPT !.state = "WAITING", !.errors = Errors(@)] \in Item
  BY <1>4, Zenon DEF e
<1> QED
  BY <1>1, <1>2, <1>5 DEF Item

LEMMA AttemptedType == ASSUME NEW item \in Item, NEW start \in BOOLEAN
                       PROVE  Attempted(item, start) \in Item
<1> DEFINE next == CASE item.state = "WAITING" -> IF start THEN "CONNECTING" ELSE "NO_DOWNLOAD_SLOTS"
                     [] item.state = "NO_DOWNLOAD_SLOTS" /\ start -> "WAITING"
                     [] OTHER -> item.state
<1>1. next \in {"WAITING", "CONNECTING", "NO_DOWNLOAD_SLOTS", "ACTIVE"}
  BY DEF Item
<1> HIDE DEF next
<1>2. [item EXCEPT !.last = "recent", !.state = next] \in Item
  BY <1>1 DEF Item
<1> QED
  BY <1>2, Zenon DEF Attempted, next

\* An attempt and a timeout leave an item that is not in use so.
LEMMA AttemptedState == ASSUME NEW item \in Item, NEW start \in BOOLEAN, item.state # "ACTIVE"
                        PROVE  Attempted(item, start).state # "ACTIVE"
<1> DEFINE next == CASE item.state = "WAITING" -> IF start THEN "CONNECTING" ELSE "NO_DOWNLOAD_SLOTS"
                     [] item.state = "NO_DOWNLOAD_SLOTS" /\ start -> "WAITING"
                     [] OTHER -> item.state
<1>1. next # "ACTIVE"
  OBVIOUS
<1> HIDE DEF next
<1>2. [item EXCEPT !.last = "recent", !.state = next].state = next
  BY DEF Item
<1>3. Attempted(item, start).state = next
  BY <1>2, Zenon DEF Attempted, next
<1> QED
  BY <1>1, <1>3

LEMMA TimedOutState == ASSUME NEW item \in Item
                       PROVE  [item EXCEPT !.state = "WAITING", !.errors = Errors(@)].state = "WAITING"
<1> DEFINE e == Errors(item.errors)
<1> HIDE DEF e
<1>1. [item EXCEPT !.state = "WAITING", !.errors = e].state = "WAITING"
  BY DEF Item
<1> QED
  BY <1>1, Zenon DEF e

LEMMA NewTypes == /\ NewItem \in Item
                  /\ \A stage \in {"CONNECT", "SUPNICK"} : NewConn(stage) \in Conn
  BY PeerAssumption DEF NewItem, Item, NewConn, Conn

LEMMA PutDownload == ASSUME DownloadsOK(downloads), NEW u \in Users
                     PROVE  DownloadsOK(Put(downloads, u, NewItem))
  BY NewTypes DEF DownloadsOK, Put

LEMMA PutConn == ASSUME ConnsOK(conns), NEW c \in Conns, NEW stage \in {"CONNECT", "SUPNICK"}
                 PROVE  /\ ConnsOK(Put(conns, c, NewConn(stage)))
                        /\ DOMAIN conns \subseteq DOMAIN Put(conns, c, NewConn(stage))
                        /\ c \in DOMAIN Put(conns, c, NewConn(stage))
  BY NewTypes DEF ConnsOK, Put

LEMMA WithoutConn == ASSUME ConnsOK(conns), NEW c
                     PROVE  /\ ConnsOK(Without(conns, {c}))
                            /\ DOMAIN Without(conns, {c}) = DOMAIN conns \ {c}
  BY DEF ConnsOK, Without

\* One connection is replaced by another value.
LEMMA ReplaceConn == ASSUME ConnsOK(conns), NEW c \in DOMAIN conns, NEW conn \in Conn
                     PROVE  /\ ConnsOK([conns EXCEPT ![c] = conn])
                            /\ DOMAIN [conns EXCEPT ![c] = conn] = DOMAIN conns
  BY DEF ConnsOK

LEMMA ReplaceDownload == ASSUME DownloadsOK(downloads), NEW u \in DOMAIN downloads, NEW item \in Item
                         PROVE  DownloadsOK([downloads EXCEPT ![u] = item])
  BY DEF DownloadsOK

-----------------------------------------------------------------------------
(***************************************************************************)
(* What the actions do to the connections and items                        *)
(***************************************************************************)

\* The items of the users who count are as they were.
SameItems == \A u \in Users \ repeated' : /\ Active(u)' <=> Active(u)
                                          /\ u \in uploads' <=> u \in uploads

\* A step that ties no connection to an item that counts, and unties none.
Untied ==
    /\ repeated \subseteq repeated'
    /\ \A c \in DOMAIN conns' : Ordered(conns'[c], repeated')
    /\ \A c \in Conns, u \in Users \ repeated', download \in BOOLEAN :
          TiedTo(c, u, download)' <=> TiedTo(c, u, download)

\* Such a step keeps items and connections matched.
LEMMA UntiedKeeps == ASSUME IInv, TypeOK', Untied, SameItems
                     PROVE  IInv'
<1>1. Staged'
  BY DEF Untied, Staged
<1>2. Matched'
  BY DEF Untied, SameItems, IInv, Matched
<1>3. Single'
  BY DEF Untied, IInv, Single
<1> QED
  BY <1>1, <1>2, <1>3 DEF IInv

\* A user more among repeated changes nothing for the others.
LEMMA MoreRepeated == ASSUME NEW conn, NEW before, NEW after, before \subseteq after,
                             Ordered(conn, before)
                      PROVE  Ordered(conn, after)
  BY DEF Ordered

LEMMA SameActive == ASSUME UNCHANGED downloads PROVE \A u \in Users : Active(u)' <=> Active(u)
  BY DEF Active

\* Steps that leave the connections and the items in use as they are.
LEMMA QuietKeeps == ASSUME IInv, TypeOK', UNCHANGED <<conns, uploads, repeated>>,
                           \A u \in Users : Active(u)' <=> Active(u)
                    PROVE  IInv'
<1>1. Untied
  BY DEF Untied, IInv, Staged, TiedTo, Tied
<1>2. SameItems
  BY DEF SameItems
<1> QED
  BY <1>1, <1>2, UntiedKeeps

\* For the items that count, a connection old and what becomes of it are alike:
\* tied to nothing, or to the same item, or to items that do not count.
Alike(old, new, again) ==
    \/ ~old.associated /\ ~new.associated
    \/ /\ new.associated = old.associated
       /\ new.user = old.user
       /\ new.download = old.download
    \/ /\ old.associated => old.user \in again
       /\ new.associated => new.user \in again

\* One connection changes, and is alike.
LEMMA ChangeKeeps ==
    ASSUME IInv, TypeOK', NEW c \in DOMAIN conns, NEW conn \in Conn,
           conns' = [conns EXCEPT ![c] = conn], repeated \subseteq repeated',
           Ordered(conn, repeated'), Alike(conns[c], conn, repeated'), SameItems
    PROVE  IInv'
<1>1. conns'[c] = conn /\ DOMAIN conns' = DOMAIN conns
  OBVIOUS
<1>2. \A d \in DOMAIN conns \ {c} : conns'[d] = conns[d]
  OBVIOUS
<1>3. \A d \in DOMAIN conns' : Ordered(conns'[d], repeated')
  BY <1>1, <1>2, MoreRepeated DEF IInv, Staged
<1>4. \A u \in Users \ repeated', download \in BOOLEAN : TiedTo(c, u, download)' <=> TiedTo(c, u, download)
  BY <1>1 DEF Alike, TiedTo, Tied
<1>5. \A d \in Conns \ {c}, u \in Users, download \in BOOLEAN : TiedTo(d, u, download)' <=> TiedTo(d, u, download)
  BY <1>1, <1>2 DEF TiedTo, Tied
<1>6. Untied
  BY <1>3, <1>4, <1>5 DEF Untied
<1> QED
  BY <1>6, UntiedKeeps

\* A connection goes, which has no item that counts.
LEMMA DropKeeps ==
    ASSUME IInv, TypeOK', NEW c \in DOMAIN conns, conns' = Without(conns, {c}),
           repeated \subseteq repeated', conns[c].associated => conns[c].user \in repeated', SameItems
    PROVE  IInv'
<1>1. /\ DOMAIN conns' = DOMAIN conns \ {c}
      /\ \A d \in DOMAIN conns' : d \in DOMAIN conns /\ conns'[d] = conns[d]
  BY DEF Without
<1>2. \A d \in DOMAIN conns' : Ordered(conns'[d], repeated')
  BY <1>1, MoreRepeated DEF IInv, Staged
<1>3. \A d \in Conns, u \in Users \ repeated', download \in BOOLEAN : TiedTo(d, u, download)' <=> TiedTo(d, u, download)
  BY <1>1 DEF TiedTo, Tied
<1>4. Untied
  BY <1>2, <1>3 DEF Untied
<1> QED
  BY <1>4, UntiedKeeps

-----------------------------------------------------------------------------
(***************************************************************************)
(* The steps                                                               *)
(***************************************************************************)

LEMMA KeepsGetDownloadConnection ==
    ASSUME IInv, NEW u \in Users, GetDownloadConnection(u) PROVE IInv'
<1>1. TypeOK'
  BY PutDownload, TypeParts DEF IInv, GetDownloadConnection, DownloadsOK, TypeOK
<1>2. \A v \in Users : Active(v)' <=> Active(v)
  BY DEF Active, GetDownloadConnection, Put, NewItem
<1> QED
  BY <1>1, <1>2, QuietKeeps DEF GetDownloadConnection

\* The timer, the age and the forcing of an item change no item in use.
LEMMA KeepsForce == ASSUME IInv, NEW u \in Users, ForceAttempt(u) PROVE IInv'
<1>1. TypeOK'
  BY ItemTypes DEF IInv, ForceAttempt, TypeOK
<1>2. \A v \in Users : Active(v)' <=> Active(v)
  BY ZenonT(60), ItemTypes DEF Active, ForceAttempt, IInv, TypeOK, Item
<1> QED
  BY <1>1, <1>2, QuietKeeps DEF ForceAttempt

LEMMA KeepsAge == ASSUME IInv, NEW u \in Users, Age(u) PROVE IInv'
<1>1. PICK last \in {"late", "due"} : downloads' = [downloads EXCEPT ![u].last = last]
  BY DEF Age
<1>2. u \in DOMAIN downloads /\ UNCHANGED <<online, uploads, conns, calling, phase, late, repeated>>
  BY DEF Age
<1>3. TypeOK'
  BY <1>1, <1>2, ItemTypes DEF IInv, TypeOK
<1>4. \A v \in Users : Active(v)' <=> Active(v)
  BY ZenonT(60), <1>1, <1>2, ItemTypes DEF Active, IInv, TypeOK, Item
<1> QED
  BY <1>2, <1>3, <1>4, QuietKeeps

LEMMA KeepsSecond == ASSUME IInv, Second PROVE IInv'
<1>0. \E start, paused \in SUBSET Users :
        downloads' = [u \in DOMAIN downloads \ {u \in DOMAIN downloads : Gone(u) \/ (Due(u) /\ u \in paused)} |->
                        CASE Due(u) -> Attempted(downloads[u], u \in start)
                          [] TimedOut(u) -> [downloads[u] EXCEPT !.state = "WAITING", !.errors = Errors(@)]
                          [] OTHER -> downloads[u]]
  BY Zenon DEF Second
<1>1. PICK start, paused \in SUBSET Users :
        downloads' = [u \in DOMAIN downloads \ {u \in DOMAIN downloads : Gone(u) \/ (Due(u) /\ u \in paused)} |->
                        CASE Due(u) -> Attempted(downloads[u], u \in start)
                          [] TimedOut(u) -> [downloads[u] EXCEPT !.state = "WAITING", !.errors = Errors(@)]
                          [] OTHER -> downloads[u]]
  BY <1>0, Zenon
<1> DEFINE After(u) == CASE Due(u) -> Attempted(downloads[u], u \in start)
                         [] TimedOut(u) -> [downloads[u] EXCEPT !.state = "WAITING", !.errors = Errors(@)]
                         [] OTHER -> downloads[u]
           Removed == {u \in DOMAIN downloads : Gone(u) \/ (Due(u) /\ u \in paused)}
<1>2. downloads' = [u \in DOMAIN downloads \ Removed |-> After(u)]
  BY <1>1, Zenon
<1>3. \A u \in Removed : u \in DOMAIN downloads /\ downloads[u].state # "ACTIVE"
  BY DEF Gone, Due
<1>4. ASSUME NEW u \in DOMAIN downloads
      PROVE  After(u) \in Item /\ (After(u).state = "ACTIVE" <=> downloads[u].state = "ACTIVE")
  <2>1. downloads[u] \in Item
    BY DEF IInv, TypeOK
  <2>2. CASE Due(u)
    <3> ~TimedOut(u)
      BY <2>2 DEF Due, TimedOut
    <3>1. After(u) = Attempted(downloads[u], u \in start)
      BY <2>2, Zenon
    <3>2. (u \in start) \in BOOLEAN
      OBVIOUS
    <3>3. downloads[u].state # "ACTIVE"
      BY <2>2 DEF Due
    <3> HIDE DEF After
    <3> QED
      BY <2>1, <3>1, <3>2, <3>3, AttemptedType, AttemptedState
  <2>3. CASE ~Due(u) /\ TimedOut(u)
    <3>1. After(u) = [downloads[u] EXCEPT !.state = "WAITING", !.errors = Errors(@)]
      BY <2>3, Zenon
    <3>2. downloads[u].state # "ACTIVE"
      BY <2>3 DEF TimedOut
    <3> HIDE DEF After
    <3> QED
      BY <2>1, <3>1, <3>2, ItemTypes, TimedOutState
  <2>4. CASE ~Due(u) /\ ~TimedOut(u)
    <3>1. After(u) = downloads[u]
      BY <2>4, Zenon
    <3> QED
      BY <2>1, <3>1
  <2> QED
    BY <2>2, <2>3, <2>4
<1> HIDE DEF After, Removed
<1>5. DownloadsOK(downloads')
  BY <1>2, <1>4 DEF DownloadsOK, IInv, TypeOK
<1>6. TypeOK'
  BY <1>5 DEF Second, IInv, TypeOK, DownloadsOK
<1>7. \A v \in Users : Active(v)' <=> Active(v)
  BY <1>2, <1>3, <1>4 DEF Active
<1> QED
  BY <1>6, <1>7, QuietKeeps DEF Second

\* A connection comes in or goes out.
LEMMA PutKeeps ==
    ASSUME IInv, NEW c \in Conns \ DOMAIN conns, NEW stage \in {"CONNECT", "SUPNICK"},
           conns' = Put(conns, c, NewConn(stage)),
           UNCHANGED <<online, downloads, uploads, phase, repeated>>, calling' \in BOOLEAN,
           late' \subseteq late \cup {c}
    PROVE  IInv'
<1>1. TypeOK'
  BY PutConn DEF IInv, TypeOK, ConnsOK
<1>2. Ordered(NewConn(stage), repeated) /\ ~NewConn(stage).associated
  BY DEF Ordered, NewConn
<1>3. /\ DOMAIN conns' = DOMAIN conns \cup {c}
      /\ conns'[c] = NewConn(stage)
      /\ \A d \in DOMAIN conns : conns'[d] = conns[d]
  BY DEF Put
<1>4. \A d \in DOMAIN conns' : Ordered(conns'[d], repeated')
  BY <1>2, <1>3 DEF IInv, Staged
<1>5. \A d \in Conns, u \in Users, download \in BOOLEAN : TiedTo(d, u, download)' <=> TiedTo(d, u, download)
  BY <1>2, <1>3 DEF TiedTo, Tied
<1>6. Untied
  BY <1>4, <1>5 DEF Untied
<1>7. SameItems
  BY DEF SameItems, Active
<1> QED
  BY <1>1, <1>6, <1>7, UntiedKeeps

LEMMA KeepsAccept == ASSUME IInv, NEW c \in Conns, Accept(c) PROVE IInv'
<1>1. calling' \in BOOLEAN /\ late' \subseteq late \cup {c}
  BY DEF Accept, IInv, TypeOK
<1> QED
  BY <1>1, PutKeeps DEF Accept

LEMMA KeepsConnect == ASSUME IInv, Connect PROVE IInv'
<1>1. calling' \in BOOLEAN
  BY DEF Connect
<1>2. CASE UNCHANGED <<conns, late>>
  <2>1. TypeOK'
    BY <1>1, <1>2 DEF Connect, IInv, TypeOK
  <2>2. \A u \in Users : Active(u)' <=> Active(u)
    BY DEF Active, Connect
  <2> QED
    BY <1>2, <2>1, <2>2, QuietKeeps DEF Connect
<1>3. CASE \E c \in Conns \ DOMAIN conns : /\ conns' = Put(conns, c, NewConn("CONNECT"))
                                           /\ late' \subseteq late \cup {c}
  BY <1>1, <1>3, PutKeeps DEF Connect
<1> QED
  BY <1>2, <1>3 DEF Connect

LEMMA KeepsPutConnection == ASSUME IInv, NEW c \in Conns, PutConnection(c) PROVE IInv'
<1>1. /\ c \in DOMAIN conns /\ conns' = Without(conns, {c}) /\ late' = late \ {c}
      /\ UNCHANGED <<online, downloads, uploads, calling, phase>>
  BY DEF PutConnection, ToDo, At
<1>2. /\ repeated \subseteq repeated'
      /\ conns[c].associated => conns[c].user \in repeated'
      /\ repeated' \subseteq Users
  BY <1>1 DEF PutConnection, Repeat, IInv, Staged, Ordered, TypeOK
<1>3. TypeOK'
  BY <1>1, <1>2, WithoutConn DEF IInv, TypeOK, ConnsOK
<1>4. SameItems
  BY <1>1, SameActive DEF SameItems
<1> QED
  BY <1>1, <1>2, <1>3, <1>4, DropKeeps

\* A step of a handler that changes the record of one connection.
LEMMA StageTypes ==
    ASSUME IInv, NEW c \in DOMAIN conns, NEW conn \in Conn, conns' = [conns EXCEPT ![c] = conn],
           DownloadsOK(downloads'), uploads' \subseteq Users, repeated' \subseteq Users,
           UNCHANGED <<online, calling, phase, late>>
    PROVE  TypeOK'
<1>1. ConnsOK(conns') /\ DOMAIN conns' = DOMAIN conns
  BY ReplaceConn, TypeParts DEF IInv
<1> QED
  BY <1>1 DEF IInv, TypeOK, ConnsOK, DownloadsOK

\* A connection that is tied to nothing goes on to a stage before it is with a
\* manager; its user, if it has one, stays.
LEMMA GotoKeeps ==
    ASSUME IInv, NEW c \in DOMAIN conns, NEW stage, conns[c].todo = "none",
           \/ conns[c].stage \in {"CONNECT", "SUPNICK"} /\ stage \in {"SUPNICK", "INF"}
           \/ conns[c].stage \in {"LOCK", "DIRECTION"} /\ stage \in {"DIRECTION", "KEY"},
           Goto(c, stage), UNCHANGED <<online, downloads, uploads, calling, phase, late, repeated>>
    PROVE  IInv'
<1> DEFINE conn == [conns[c] EXCEPT !.stage = stage]
<1>1. conns[c] \in Conn
  BY DEF IInv, TypeOK
<1>2. conn \in Conn
  BY <1>1 DEF Conn
<1>3. conn.stage = stage /\ \A f \in {"todo", "user", "download", "associated"} : conn[f] = conns[c][f]
  BY <1>1 DEF Conn
<1>4. conns' = [conns EXCEPT ![c] = conn]
  BY DEF Goto
<1> HIDE DEF conn
<1>5. Ordered(conn, repeated) /\ ~conns[c].associated /\ ~conn.associated
  BY <1>3 DEF IInv, Staged, Ordered
<1>6. TypeOK'
  BY <1>2, <1>4, StageTypes DEF IInv, TypeOK, DownloadsOK
<1> QED
  BY <1>2, <1>4, <1>5, <1>6, SameActive, ChangeKeeps DEF Alike, SameItems

LEMMA KeepsGreet == ASSUME IInv, NEW c \in Conns, Greet(c) PROVE IInv'
  BY GotoKeeps DEF Greet, At

\* The handler of $Key has something left to do, and runs again if the
\* connection is tied.
LEMMA KeepsKey == ASSUME IInv, NEW c \in Conns, Key(c) PROVE IInv'
<1> DEFINE todo == IF conns[c].download THEN "download" ELSE "upload"
           conn == [conns[c] EXCEPT !.todo = todo]
<1>1. /\ c \in DOMAIN conns /\ conns[c] \in Conn /\ conns[c].stage = "KEY"
      /\ Ordered(conns[c], repeated) /\ UNCHANGED <<online, downloads, uploads, calling, phase, late>>
  BY DEF Key, At, IInv, TypeOK, Staged
<1>2. todo \in {"download", "upload"} /\ (todo = "download" <=> conns[c].download)
  BY <1>1 DEF Conn
<1>3. conns' = [conns EXCEPT ![c] = conn]
  BY DEF Key
<1> HIDE DEF todo
<1>4. conn \in Conn
  BY <1>1, <1>2 DEF Conn
<1>5. conn.todo = todo /\ \A f \in {"stage", "user", "download", "associated"} : conn[f] = conns[c][f]
  BY <1>1 DEF Conn
<1> HIDE DEF conn
<1>6. /\ repeated \subseteq repeated' /\ repeated' \subseteq Users
      /\ conns[c].associated => conns[c].user \in repeated'
  BY <1>1 DEF Key, Repeat, Ordered, IInv, TypeOK
<1>7. Ordered(conn, repeated')
  BY <1>1, <1>2, <1>5, <1>6 DEF Ordered
<1>8. Alike(conns[c], conn, repeated')
  BY <1>5 DEF Alike
<1>9. TypeOK'
  BY <1>1, <1>3, <1>4, <1>6, StageTypes DEF IInv, TypeOK, DownloadsOK
<1>10. SameItems
  BY <1>1, SameActive DEF SameItems
<1> QED
  BY <1>1, <1>3, <1>4, <1>6, <1>7, <1>8, <1>9, <1>10, ChangeKeeps

LEMMA KeepsDirection == ASSUME IInv, NEW c \in Conns, Direction(c) PROVE IInv'
<1>0. /\ c \in DOMAIN conns /\ conns[c] \in Conn /\ conns[c].stage = "DIRECTION" /\ conns[c].todo = "none"
      /\ Ordered(conns[c], repeated) /\ UNCHANGED <<online, downloads, uploads, calling, phase, late, repeated>>
  BY DEF Direction, At, IInv, TypeOK, Staged
<1>1. CASE Goto(c, "KEY")
  BY <1>0, <1>1, GotoKeeps
<1>2. CASE conns' = [conns EXCEPT ![c].stage = "KEY", ![c].download = FALSE]
  <2> DEFINE conn == [conns[c] EXCEPT !.stage = "KEY", !.download = FALSE]
  <2>1. conn \in Conn
    BY <1>0 DEF Conn
  <2>2. conn.stage = "KEY" /\ \A f \in {"todo", "user", "associated"} : conn[f] = conns[c][f]
    BY <1>0 DEF Conn
  <2>3. conns' = [conns EXCEPT ![c] = conn]
    BY <1>2
  <2> HIDE DEF conn
  <2>4. Ordered(conn, repeated) /\ ~conns[c].associated /\ ~conn.associated
    BY <1>0, <2>2 DEF Ordered
  <2>5. TypeOK'
    BY <1>0, <2>1, <2>3, StageTypes DEF IInv, TypeOK, DownloadsOK
  <2>6. SameItems
    BY <1>0, SameActive DEF SameItems
  <2> QED
    BY <1>0, <2>1, <2>3, <2>4, <2>5, <2>6, ChangeKeeps DEF Alike
<1> QED
  BY <1>1, <1>2 DEF Direction, Goto

\* on(INF): whatever the connection was tied to, and whoever it now says it is,
\* is among repeated if it was tied.
LEMMA KeepsInf == ASSUME IInv, NEW c \in Conns, NEW u \in Users, Inf(c, u) PROVE IInv'
<1>1. PICK match \in BOOLEAN :
        conns' = [conns EXCEPT ![c].todo = IF match THEN "download" ELSE "upload",
                               ![c].user = u, ![c].download = (@ \/ match)]
  BY DEF Inf
<1> DEFINE todo == IF match THEN "download" ELSE "upload"
           d == conns[c].download \/ match
           conn == [conns[c] EXCEPT !.todo = todo, !.user = u, !.download = d]
<1>2. /\ c \in DOMAIN conns /\ conns[c] \in Conn /\ conns[c].stage = "INF" /\ conns[c].todo = "none"
      /\ Ordered(conns[c], repeated) /\ UNCHANGED <<online, uploads, calling, phase, late>>
  BY DEF Inf, At, IInv, TypeOK, Staged
<1>3. todo \in {"download", "upload"} /\ (todo = "download" <=> match) /\ d \in BOOLEAN
  OBVIOUS
<1>4. conns' = [conns EXCEPT ![c] = conn]
  BY <1>1
<1>5. d <=> conns[c].download \/ match
  OBVIOUS
<1> HIDE DEF todo, d
<1>6. conn \in Conn
  BY <1>2, <1>3 DEF Conn
<1>7. /\ conn.todo = todo /\ conn.user = u /\ conn.download = d
      /\ conn.stage = "INF" /\ conn.associated = conns[c].associated
  BY <1>2 DEF Conn
<1> HIDE DEF conn
<1>8. /\ repeated \subseteq repeated' /\ repeated' \subseteq Users
      /\ conns[c].associated => conns[c].user \in repeated' /\ u \in repeated'
  BY <1>2 DEF Inf, Repeat, Ordered, IInv, TypeOK
<1>9. Ordered(conn, repeated')
  BY <1>2, <1>3, <1>5, <1>7, <1>8 DEF Ordered
<1>10. Alike(conns[c], conn, repeated')
  BY <1>7, <1>8 DEF Alike
<1>11. DownloadsOK(downloads') /\ \A v \in Users : Active(v)' <=> Active(v)
  <2>1. CASE u \in DOMAIN downloads
    <3>1. downloads' = [downloads EXCEPT ![u].errors = 0]
      BY <2>1 DEF Inf
    <3>2. DownloadsOK(downloads')
      BY <3>1, ItemTypes DEF DownloadsOK, IInv, TypeOK
    <3>3. \A v \in Users : Active(v)' <=> Active(v)
      BY <3>1, <2>1 DEF Active, IInv, TypeOK, Item
    <3> QED
      BY <3>2, <3>3
  <2>2. CASE u \notin DOMAIN downloads
    <3>1. UNCHANGED downloads
      BY <2>2 DEF Inf
    <3> QED
      BY <3>1, SameActive DEF DownloadsOK, IInv, TypeOK
  <2> QED
    BY <2>1, <2>2
<1>12. TypeOK'
  BY <1>2, <1>4, <1>6, <1>8, <1>11, StageTypes DEF IInv, TypeOK
<1>13. SameItems
  BY <1>2, <1>11 DEF SameItems
<1> QED
  BY <1>2, <1>4, <1>6, <1>8, <1>9, <1>10, <1>12, <1>13, ChangeKeeps

LEMMA KeepsMyNick == ASSUME IInv, NEW c \in Conns, NEW u \in Users, MyNick(c, u) PROVE IInv'
<1>1. PICK seen \in SUBSET DOMAIN downloads :
        downloads' = [v \in DOMAIN downloads |->
                         IF v \in seen THEN [downloads[v] EXCEPT !.errors = 0] ELSE downloads[v]]
  BY DEF MyNick
<1>2. DownloadsOK(downloads')
  BY <1>1, ItemTypes DEF DownloadsOK, IInv, TypeOK
<1>3. \A v \in Users : Active(v)' <=> Active(v)
  BY <1>1 DEF Active, IInv, TypeOK, Item
<1> DEFINE d == Wanted(u)
           conn == [conns[c] EXCEPT !.stage = "LOCK", !.user = u, !.download = d]
<1>4. d \in BOOLEAN
  BY DEF Wanted
<1>5. /\ c \in DOMAIN conns /\ conns[c] \in Conn /\ conns[c].stage = "SUPNICK" /\ conns[c].todo = "none"
      /\ Ordered(conns[c], repeated) /\ UNCHANGED <<online, uploads, calling, phase, late, repeated>>
  BY DEF MyNick, At, IInv, TypeOK, Staged
<1>6. conns' = [conns EXCEPT ![c] = conn]
  BY DEF MyNick
<1> HIDE DEF d
<1>7. conn \in Conn
  BY <1>4, <1>5 DEF Conn
<1>8. conn.stage = "LOCK" /\ conn.user = u /\ conn.todo = "none" /\ conn.associated = conns[c].associated
  BY <1>5 DEF Conn
<1> HIDE DEF conn
<1>9. Ordered(conn, repeated) /\ ~conns[c].associated /\ ~conn.associated
  BY <1>5, <1>8 DEF Ordered
<1>10. TypeOK'
  BY <1>2, <1>5, <1>6, <1>7, StageTypes DEF IInv, TypeOK
<1>11. SameItems
  BY <1>3, <1>5 DEF SameItems
<1> QED
  BY <1>5, <1>6, <1>7, <1>9, <1>10, <1>11, ChangeKeeps DEF Alike

LEMMA KeepsUnknownNick == ASSUME IInv, NEW c \in Conns, UnknownNick(c) PROVE IInv'
<1>1. /\ c \in DOMAIN conns /\ ~conns[c].associated
      /\ conns' = Without(conns, {c}) /\ late' = late \ {c}
      /\ downloads' = [v \in DOMAIN downloads |-> [downloads[v] EXCEPT !.errors = 0]]
      /\ UNCHANGED <<online, uploads, calling, phase, repeated>>
  BY DEF UnknownNick, At, IInv, Staged, Ordered
<1>2. DownloadsOK(downloads')
  BY <1>1, ItemTypes DEF DownloadsOK, IInv, TypeOK
<1>3. \A v \in Users : Active(v)' <=> Active(v)
  BY <1>1 DEF Active, IInv, TypeOK, Item
<1>4. TypeOK'
  BY <1>1, <1>2, WithoutConn DEF IInv, TypeOK, ConnsOK, DownloadsOK
<1>5. SameItems
  BY <1>1, <1>3 DEF SameItems
<1> QED
  BY <1>1, <1>4, <1>5, DropKeeps

LEMMA KeepsDisconnectAll == ASSUME IInv, DisconnectAll PROVE IInv'
<1>1. ASSUME NEW c \in DOMAIN conns
      PROVE  /\ conns'[c] \in Conn
             /\ \A f \in {"stage", "todo", "user", "associated", "download"} : conns'[c][f] = conns[c][f]
  <2> DEFINE b == conns[c].closing \/ c \in Told
  <2>1. conns[c] \in Conn /\ b \in BOOLEAN
    BY DEF IInv, TypeOK
  <2>2. conns'[c] = [conns[c] EXCEPT !.closing = b]
    BY DEF DisconnectAll
  <2> HIDE DEF b
  <2> QED
    BY <2>1, <2>2 DEF Conn
<1>2. DOMAIN conns' = DOMAIN conns /\ UNCHANGED <<online, downloads, uploads, calling, late, repeated>>
  BY DEF DisconnectAll
<1>3. TypeOK'
  BY <1>1, <1>2 DEF IInv, TypeOK, DisconnectAll
<1>4. \A c \in DOMAIN conns' : Ordered(conns'[c], repeated')
  BY <1>1, <1>2 DEF IInv, Staged, Ordered
<1>5. \A c \in Conns, u \in Users, download \in BOOLEAN : TiedTo(c, u, download)' <=> TiedTo(c, u, download)
  BY <1>1, <1>2 DEF TiedTo, Tied
<1>6. Untied
  BY <1>2, <1>4, <1>5 DEF Untied
<1>7. SameItems
  BY <1>2, SameActive DEF SameItems
<1> QED
  BY <1>3, <1>6, <1>7, UntiedKeeps

\* Steps that touch neither the connections nor the two lists.
LEMMA KeepsRest ==
    ASSUME IInv, \/ Call \/ BeginShutdown \/ EndShutdown
                 \/ \E u \in Users : Change(u)
    PROVE  IInv'
<1>1. UNCHANGED <<downloads, uploads, conns, repeated>>
  BY DEF Call, BeginShutdown, EndShutdown, Change
<1>2. TypeOK'
  BY <1>1 DEF IInv, TypeOK, Call, BeginShutdown, EndShutdown, Change
<1> QED
  BY <1>1, <1>2, SameActive, QuietKeeps

-----------------------------------------------------------------------------
(***************************************************************************)
(* The steps that tie and untie a connection                               *)
(***************************************************************************)

\* The connection c, tied to nothing, becomes tied to an item that is not in use.
LEMMA TieKeeps ==
    ASSUME IInv, TypeOK', NEW c \in DOMAIN conns, ~conns[c].associated, NEW u \in Users,
           NEW download \in BOOLEAN, u \notin repeated => \A d \in Conns : ~TiedTo(d, u, download),
           NEW conn \in Conn, conns' = [conns EXCEPT ![c] = conn], UNCHANGED repeated,
           Ordered(conn, repeated), conn.associated, conn.user = u, conn.download = download,
           \A v \in Users : Active(v)' <=> Active(v) \/ (download /\ v = u),
           uploads' = IF download THEN uploads ELSE uploads \cup {u}
    PROVE  IInv'
<1>1. \A d \in Conns, v \in Users, b \in BOOLEAN :
         TiedTo(d, v, b)' <=> TiedTo(d, v, b) \/ (d = c /\ v = u /\ b = download)
  BY DEF TiedTo, Tied, IInv, TypeOK
<1>2. c \in Conns
  BY DEF IInv, TypeOK
<1>3. Staged'
  BY DEF Staged, IInv
<1>4. Matched'
  <2>1. ASSUME NEW v \in Users \ repeated
        PROVE  Active(v)' <=> \E d \in Conns : TiedTo(d, v, TRUE)'
    BY <1>1, <1>2 DEF IInv, Matched
  <2>2. ASSUME NEW v \in Users \ repeated
        PROVE  v \in uploads' <=> \E d \in Conns : TiedTo(d, v, FALSE)'
    BY <1>1, <1>2 DEF IInv, Matched
  <2> QED
    BY <2>1, <2>2 DEF Matched
<1>5. Single'
  BY <1>1, <1>2 DEF IInv, Single
<1> QED
  BY <1>3, <1>4, <1>5 DEF IInv

\* What the managers make of a connection that its handler has tied.
LEMMA TiedConn ==
    ASSUME IInv, NEW c \in DOMAIN conns, conns[c].todo # "none",
           NEW conn \in {Managed(c), Declined(c)}
    PROVE  /\ conn \in Conn /\ Ordered(conn, repeated) /\ conn.associated
           /\ conn.user = conns[c].user /\ conn.download = conns[c].download
<1>1. conns[c] \in Conn /\ Ordered(conns[c], repeated)
  BY DEF IInv, TypeOK, Staged
<1>2. conn \in Conn /\ conn.todo = "none" /\ conn.associated
  BY <1>1 DEF Conn, Managed, Declined
<1>3. conn.user = conns[c].user /\ conn.download = conns[c].download
  BY <1>1 DEF Conn, Managed, Declined
<1>4. conn.stage \in {"managed", conns[c].stage}
  BY <1>1 DEF Conn, Managed, Declined
<1>5. Ordered(conn, repeated)
  BY <1>1, <1>2, <1>3, <1>4 DEF Ordered
<1> QED
  BY <1>2, <1>3, <1>5

\* A handler finds no item to tie its connection to, and leaves it to be put.
LEMMA LeaveKeeps ==
    ASSUME IInv, NEW c \in DOMAIN conns, conns[c].todo # "none",
           conns' = [conns EXCEPT ![c].todo = "put"],
           UNCHANGED <<online, downloads, uploads, calling, phase, late, repeated>>
    PROVE  IInv'
<1> DEFINE conn == [conns[c] EXCEPT !.todo = "put"]
<1>1. conns[c] \in Conn /\ Ordered(conns[c], repeated)
  BY DEF IInv, TypeOK, Staged
<1>2. conn \in Conn
  BY <1>1 DEF Conn
<1>3. conn.todo = "put" /\ \A f \in {"stage", "user", "associated", "download"} : conn[f] = conns[c][f]
  BY <1>1 DEF Conn
<1>4. conns' = [conns EXCEPT ![c] = conn]
  OBVIOUS
<1> HIDE DEF conn
<1>5. Ordered(conn, repeated) /\ Alike(conns[c], conn, repeated)
  BY <1>1, <1>3 DEF Ordered, Alike
<1>6. TypeOK'
  BY <1>2, <1>4, StageTypes DEF IInv, TypeOK, DownloadsOK
<1>7. SameItems
  BY SameActive DEF SameItems
<1> QED
  BY <1>2, <1>4, <1>5, <1>6, <1>7, ChangeKeeps

LEMMA KeepsAddDownloadConnection ==
    ASSUME IInv, NEW c \in Conns, AddDownloadConnection(c) PROVE IInv'
<1> DEFINE u == conns[c].user
<1>1. /\ c \in DOMAIN conns /\ conns[c] \in Conn /\ conns[c].todo = "download"
      /\ Ordered(conns[c], repeated) /\ UNCHANGED <<online, uploads, calling, phase, late, repeated>>
  BY DEF AddDownloadConnection, ToDo, IInv, TypeOK, Staged
<1>2. u \in Users /\ conns[c].download = TRUE /\ (conns[c].associated => u \in repeated)
  BY <1>1 DEF Ordered, Conn
<1>3. CASE Waits(u)
  <2>1. PICK conn \in {Managed(c), Declined(c)} : conns' = [conns EXCEPT ![c] = conn]
    BY <1>3 DEF AddDownloadConnection
  <2>2. /\ conn \in Conn /\ Ordered(conn, repeated) /\ conn.associated
        /\ conn.user = u /\ conn.download = TRUE
    BY <1>1, <1>2, <2>1, TiedConn
  <2>3. u \in DOMAIN downloads /\ ~Active(u) /\ downloads' = [downloads EXCEPT ![u].state = "ACTIVE"]
    BY <1>3 DEF Waits, Active, AddDownloadConnection
  <2> HIDE DEF u
  <2>4. DownloadsOK(downloads')
    BY <2>3, ItemTypes DEF DownloadsOK, IInv, TypeOK
  <2>5. TypeOK'
    BY <1>1, <2>1, <2>2, <2>4, StageTypes DEF IInv, TypeOK
  <2>6. \A v \in Users : Active(v)' <=> Active(v) \/ v = u
    BY <2>3 DEF Active, IInv, TypeOK, Item
  <2>7. CASE conns[c].associated
    <3>1. Alike(conns[c], conn, repeated)
      BY <1>2, <2>2, <2>7 DEF Alike, u
    <3>2. SameItems
      BY <1>1, <1>2, <2>6, <2>7 DEF SameItems
    <3> QED
      BY <1>1, <2>1, <2>2, <2>5, <3>1, <3>2, ChangeKeeps
  <2>8. CASE ~conns[c].associated
    <3>1. u \notin repeated => \A d \in Conns : ~TiedTo(d, u, TRUE)
      BY <1>2, <2>3 DEF IInv, Matched
    <3> QED
      BY <1>1, <1>2, <2>1, <2>2, <2>5, <2>6, <2>8, <3>1, TieKeeps
  <2> QED
    BY <2>7, <2>8
<1>4. CASE ~Waits(u)
  <2>1. conns' = [conns EXCEPT ![c].todo = "put"] /\ UNCHANGED downloads
    BY <1>4 DEF AddDownloadConnection
  <2> QED
    BY <1>1, <2>1, LeaveKeeps
<1> QED
  BY <1>3, <1>4

LEMMA KeepsAddUploadConnection ==
    ASSUME IInv, NEW c \in Conns, AddUploadConnection(c) PROVE IInv'
<1> DEFINE u == conns[c].user
<1>1. /\ c \in DOMAIN conns /\ conns[c] \in Conn /\ conns[c].todo = "upload"
      /\ Ordered(conns[c], repeated) /\ UNCHANGED <<online, downloads, calling, phase, late, repeated>>
  BY DEF AddUploadConnection, ToDo, IInv, TypeOK, Staged
<1>2. /\ u \in Users /\ (conns[c].associated => u \in repeated)
      /\ ~conns[c].associated => conns[c].download = FALSE
  BY <1>1 DEF Ordered, Conn
<1>3. CASE u \notin uploads
  <2>1. PICK conn \in {Managed(c), Declined(c)} : conns' = [conns EXCEPT ![c] = conn]
    BY <1>3 DEF AddUploadConnection
  <2>2. /\ conn \in Conn /\ Ordered(conn, repeated) /\ conn.associated
        /\ conn.user = u /\ conn.download = conns[c].download
    BY <1>1, <2>1, TiedConn
  <2>3. uploads' = uploads \cup {u}
    BY <1>3 DEF AddUploadConnection
  <2> HIDE DEF u
  <2>4. DownloadsOK(downloads') /\ uploads' \subseteq Users
    BY <1>1, <1>2, <2>3 DEF DownloadsOK, IInv, TypeOK
  <2>5. TypeOK'
    BY <1>1, <2>1, <2>2, <2>4, StageTypes DEF IInv, TypeOK
  <2>6. \A v \in Users : Active(v)' <=> Active(v)
    BY <1>1, SameActive
  <2>7. CASE conns[c].associated
    <3>1. Alike(conns[c], conn, repeated)
      BY <1>2, <2>2, <2>7 DEF Alike, u
    <3>2. SameItems
      BY <1>1, <1>2, <2>3, <2>6, <2>7 DEF SameItems
    <3> QED
      BY <1>1, <2>1, <2>2, <2>5, <3>1, <3>2, ChangeKeeps
  <2>8. CASE ~conns[c].associated
    <3>1. u \notin repeated => \A d \in Conns : ~TiedTo(d, u, FALSE)
      BY <1>2, <1>3 DEF IInv, Matched, u
    <3>2. conn.download = FALSE
      BY <1>2, <2>2, <2>8
    <3> QED
      BY <1>1, <1>2, <2>1, <2>2, <2>3, <2>5, <2>6, <2>8, <3>1, <3>2, TieKeeps
  <2> QED
    BY <2>7, <2>8
<1>4. CASE u \in uploads
  <2>1. conns' = [conns EXCEPT ![c].todo = "put"] /\ UNCHANGED uploads
    BY <1>4 DEF AddUploadConnection
  <2> QED
    BY <1>1, <2>1, LeaveKeeps
<1> QED
  BY <1>3, <1>4

\* failed() leaves the lists with their types; a download that it finds waits.
LEMMA FailedTypes ==
    ASSUME IInv, NEW c \in Conns, NEW protocolError \in BOOLEAN, Failed(c, protocolError)
    PROVE  /\ TypeOK'
           /\ \A v \in Users : Active(v)' <=> /\ Active(v)
                                              /\ ~(conns[c].associated /\ conns[c].download /\ v = conns[c].user)
<1> DEFINE u == conns[c].user
           found == conns[c].associated /\ conns[c].download /\ u \in DOMAIN downloads
           e == IF protocolError THEN -1 ELSE Errors(downloads[u].errors)
           item == [state |-> "WAITING", last |-> "recent", errors |-> e]
<1>1. /\ c \in DOMAIN conns /\ conns' = Without(conns, {c})
      /\ late' = late \ {c} /\ UNCHANGED <<online, calling, phase, repeated>>
      /\ uploads' \subseteq Users
  BY DEF Failed, ToDo, Ended, IInv, TypeOK
<1>2. downloads' = IF found THEN [downloads EXCEPT ![u] = item] ELSE downloads
  BY DEF Failed
<1>3. found => item \in Item /\ item.state = "WAITING"
  <2> HAVE found
  <2>1. downloads[u] \in Item
    BY DEF IInv, TypeOK
  <2>2. Errors(downloads[u].errors) \in -1..MaxErrors
    BY <2>1, ItemTypes
  <2>3. -1 \in -1..MaxErrors
    BY PeerAssumption
  <2>4. e \in -1..MaxErrors
    BY <2>2, <2>3, Zenon
  <2> HIDE DEF e
  <2> QED
    BY <2>4 DEF Item
<1> HIDE DEF item
<1>4. DownloadsOK(downloads')
  <2>1. CASE found
    <3>1. u \in DOMAIN downloads /\ downloads' = [downloads EXCEPT ![u] = item]
      BY <1>2, <2>1
    <3>2. DownloadsOK(downloads) /\ item \in Item
      BY <1>3, <2>1 DEF DownloadsOK, IInv, TypeOK
    <3> QED
      BY <3>1, <3>2, ReplaceDownload
  <2>2. CASE ~found
    BY <1>2, <2>2 DEF DownloadsOK, IInv, TypeOK
  <2> QED
    BY <2>1, <2>2
<1>5. TypeOK'
  BY <1>1, <1>4, WithoutConn DEF IInv, TypeOK, DownloadsOK, ConnsOK
<1>6. \A v \in Users : Active(v)' <=> Active(v) /\ ~(conns[c].associated /\ conns[c].download /\ v = u)
  <2>1. CASE found
    BY <1>2, <1>3, <2>1 DEF Active
  <2>2. CASE ~found
    BY <1>2, <2>2 DEF Active
  <2> QED
    BY <2>1, <2>2
<1> QED
  BY <1>5, <1>6

LEMMA KeepsFailed ==
    ASSUME IInv, NEW c \in Conns, NEW protocolError \in BOOLEAN, Failed(c, protocolError)
    PROVE  IInv'
<1> DEFINE u == conns[c].user
<1>1. /\ c \in DOMAIN conns /\ conns[c] \in Conn /\ conns' = Without(conns, {c})
      /\ UNCHANGED repeated /\ uploads' = Ended(c) /\ Ordered(conns[c], repeated)
  BY DEF Failed, ToDo, IInv, TypeOK, Staged
<1>2. TypeOK'
  BY FailedTypes
<1>3. \A v \in Users : Active(v)' <=> Active(v) /\ ~(conns[c].associated /\ conns[c].download /\ v = u)
  BY FailedTypes
<1>4. \A v \in Users : v \in uploads' <=> v \in uploads /\ ~(conns[c].associated /\ ~conns[c].download /\ v = u)
  BY <1>1 DEF Ended
<1>5. CASE conns[c].associated => u \in repeated
  <2>1. SameItems
    BY <1>1, <1>3, <1>4, <1>5 DEF SameItems
  <2> QED
    BY <1>1, <1>2, <1>5, <2>1, DropKeeps
<1>6. CASE conns[c].associated /\ u \notin repeated
  <2>1. u \in Users \ repeated
    BY <1>1, <1>6 DEF Ordered
  <2>2. \A d \in Conns, v \in Users, b \in BOOLEAN : TiedTo(d, v, b)' <=> TiedTo(d, v, b) /\ d # c
    BY <1>1 DEF TiedTo, Tied, Without
  <2>3. Staged'
    BY <1>1 DEF Staged, IInv, Without
  <2>4. Single'
    BY <1>1, <2>2 DEF Single, IInv
  <2>5. \A v \in Users, b \in BOOLEAN : TiedTo(c, v, b) <=> v = u /\ b = conns[c].download
    BY <1>1, <1>6 DEF TiedTo, Tied
  <2>6. conns[c].download \in BOOLEAN
    BY <1>1 DEF Conn
  <2>7. \A v \in Users \ repeated, b \in BOOLEAN :
           (\E d \in Conns : TiedTo(d, v, b)') <=> (\E d \in Conns : TiedTo(d, v, b)) /\ ~(v = u /\ b = conns[c].download)
    BY <2>1, <2>2, <2>5 DEF IInv, Single
  <2>8. ASSUME NEW v \in Users \ repeated
        PROVE  /\ Active(v)' <=> \E d \in Conns : TiedTo(d, v, TRUE)'
               /\ v \in uploads' <=> \E d \in Conns : TiedTo(d, v, FALSE)'
    <3>1. Active(v) <=> \E d \in Conns : TiedTo(d, v, TRUE)
      BY DEF IInv, Matched
    <3>2. v \in uploads <=> \E d \in Conns : TiedTo(d, v, FALSE)
      BY DEF IInv, Matched
    <3>3. (\E d \in Conns : TiedTo(d, v, TRUE)') <=> (\E d \in Conns : TiedTo(d, v, TRUE)) /\ ~(v = u /\ TRUE = conns[c].download)
      BY <2>7
    <3>4. (\E d \in Conns : TiedTo(d, v, FALSE)') <=> (\E d \in Conns : TiedTo(d, v, FALSE)) /\ ~(v = u /\ FALSE = conns[c].download)
      BY <2>7
    <3> QED
      BY <1>3, <1>4, <1>6, <2>6, <3>1, <3>2, <3>3, <3>4
  <2>9. Matched'
    BY <1>1, <2>8 DEF Matched
  <2> QED
    BY <1>2, <2>3, <2>4, <2>9 DEF IInv
<1> QED
  BY <1>5, <1>6

-----------------------------------------------------------------------------
(***************************************************************************)
(* Conclusions                                                             *)
(***************************************************************************)

LEMMA InitIInv == ASSUME Init PROVE IInv
<1>1. DOMAIN downloads = {} /\ DOMAIN conns = {}
  BY DEF Init
<1>2. TypeOK
  BY <1>1 DEF Init, TypeOK
<1>3. Staged /\ Matched /\ Single
  BY <1>1 DEF Init, Staged, Matched, Single, Active, TiedTo
<1> QED
  BY <1>2, <1>3 DEF IInv

LEMMA NextIInv == ASSUME IInv, [Next]_vars PROVE IInv'
<1>1. CASE Next
  <2>1. ASSUME NEW u \in Users, GetDownloadConnection(u) \/ ForceAttempt(u) \/ Age(u) \/ Change(u)
        PROVE  IInv'
    BY <2>1, KeepsGetDownloadConnection, KeepsForce, KeepsAge, KeepsRest
  <2>2. CASE Second \/ Call \/ Connect \/ BeginShutdown \/ DisconnectAll \/ EndShutdown
    BY <2>2, KeepsSecond, KeepsConnect, KeepsDisconnectAll, KeepsRest
  <2>3. ASSUME NEW c \in Conns, Handle(c) PROVE IInv'
    BY <2>3, KeepsGreet, KeepsInf, KeepsMyNick, KeepsUnknownNick, KeepsDirection, KeepsKey
       DEF Handle
  <2>4. ASSUME NEW c \in Conns, Accept(c) \/ Finish(c) PROVE IInv'
    BY <2>4, KeepsAccept, KeepsAddDownloadConnection, KeepsAddUploadConnection, KeepsPutConnection
       DEF Finish
  <2>5. ASSUME NEW c \in Conns, NEW protocolError \in BOOLEAN, Failed(c, protocolError) PROVE IInv'
    BY <2>5, KeepsFailed
  <2> QED
    BY <1>1, <2>1, <2>2, <2>3, <2>4, <2>5 DEF Next
<1>2. CASE UNCHANGED vars
  <2>1. UNCHANGED <<online, downloads, uploads, conns, calling, phase, late, repeated>>
    BY <1>2 DEF vars
  <2>2. TypeOK'
    BY <2>1 DEF IInv, TypeOK
  <2> QED
    BY <2>1, <2>2, SameActive, QuietKeeps
<1> QED
  BY <1>1, <1>2

\* The strengthening of both properties is an invariant.
THEOREM Invariance == Spec => []IInv
<1>1. Init => IInv
  BY InitIInv
<1>2. IInv /\ [Next]_vars => IInv'
  BY NextIInv
<1> QED
  BY <1>1, <1>2, PTL DEF Spec

\* The items, the connections and the steps of shutdown() keep their types.
THEOREM TypeCorrect == Spec => []TypeOK
<1>1. IInv => TypeOK
  BY DEF IInv
<1> QED
  BY <1>1, Invariance, PTL

LEMMA MatchedCounts == ASSUME IInv PROVE ItemsMatchConnections
<1> SUFFICES ASSUME NEW u \in Users \ repeated
             PROVE  /\ Cardinality(Tied(u, TRUE)) = IF Active(u) THEN 1 ELSE 0
                    /\ Cardinality(Tied(u, FALSE)) = IF u \in uploads THEN 1 ELSE 0
  BY DEF ItemsMatchConnections, Active
<1>1. ASSUME NEW download \in BOOLEAN, NEW c \in Conns, TiedTo(c, u, download)
      PROVE  Cardinality(Tied(u, download)) = 1
  <2>1. \A d \in Tied(u, download) : d \in Conns /\ TiedTo(d, u, download)
    BY DEF TiedTo, Tied, IInv, TypeOK
  <2>2. Tied(u, download) = {c}
    BY <1>1, <2>1 DEF IInv, Single, TiedTo
  <2> QED
    BY <2>2, FS_Singleton
<1>2. ASSUME NEW download \in BOOLEAN, \A c \in Conns : ~TiedTo(c, u, download)
      PROVE  Cardinality(Tied(u, download)) = 0
  <2>1. Tied(u, download) = {}
    BY <1>2 DEF TiedTo, Tied, IInv, TypeOK
  <2> QED
    BY <2>1, FS_EmptySet
<1> QED
  BY <1>1, <1>2 DEF IInv, Matched

\* An item is in use, and a user is listed as one who downloads from us, exactly
\* if one connection is tied to it, for any number of users and connections, but
\* for the users of a connection that was refused and then handled once more.
THEOREM ItemsMatch == Spec => []ItemsMatchConnections
  BY Invariance, MatchedCounts, PTL

=============================================================================
