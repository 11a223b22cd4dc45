----------------------------- MODULE UploadSlots -----------------------------
(***************************************************************************)
(* Upload slots: client/UploadManager.cpp.                                 *)
(*                                                                         *)
(* A user who asks for a file gets a standard slot if one is free and      *)
(* nobody waits for it, if he was told that it is his turn, or if he is    *)
(* privileged; else perhaps an extra or a partial slot; else he waits in   *)
(* uploadQueue.  The timer tells those in front that it is their turn      *)
(* (notifiedUsers) and forgets it when they do not come.                   *)
(*                                                                         *)
(* Slots are taken under the lock cs, but given back in removeConnection   *)
(* without it, on the thread of the connection.  The counters are plain    *)
(* bytes, so taking and giving back are each a read and a write here, and  *)
(* two threads that change one counter at once may lose a change.          *)
(*                                                                         *)
(* A connection that fails is taken from the ConnectionManager before we   *)
(* are told, so that its user may be back while his last upload is still   *)
(* listed.                                                                 *)
(***************************************************************************)
EXTENDS Integers, FiniteSets, SequencesExt, Lists

CONSTANTS
    Users,
    Conns,         \* names of upload connections
    owner,         \* the user of each
    ip,            \* its address
    Slots,         \* getSlots()
    EXTRA_SLOTS,
    EXTRA_PARTIAL_SLOTS,
    MaxRaces       \* bound: how often two threads change one counter at once

ASSUME SlotAssumption ==
    /\ IsFiniteSet(Users) /\ IsFiniteSet(Conns)
    /\ owner \in [Conns -> Users] /\ DOMAIN ip = Conns
    /\ Slots \in 0..255 /\ EXTRA_SLOTS \in Nat /\ EXTRA_PARTIAL_SLOTS \in Nat
    /\ MaxRaces \in Nat

Kinds == {"STDSLOT", "EXTRASLOT", "PARTIALSLOT"}
NOSLOT == "NOSLOT"

VARIABLES
    count,          \* the counters running, extra and extraPartial, by kind of slot
    stage,          \* of every connection
    slotType,       \* its slot
    next,           \* the slot it is about to have, while its thread changes counters
    read,           \* the counters as that thread has read them
    uploadQueue,    \* users who wait
    notifiedUsers,  \* users who were told to come
    bonus,          \* history: connections that got a standard slot by privilege only
    raced           \* history: the counters that two threads have changed at once

vars == <<count, stage, slotType, next, read, uploadQueue, notifiedUsers, bonus, raced>>

\* "closing": disconnect() was called; "dropped" and "lost": the ConnectionManager
\* has dealt with the failure and we have not, with an upload or without one;
\* "taking" and "leaving": between the read and the write of the counters.
Stages == {"none", "GET", "taking", "RUNNING", "closing", "dropped", "lost", "leaving"}

\* The connections with an entry in the list of uploads.
uploads == {c \in Conns : stage[c] \in {"taking", "RUNNING", "dropped"}}

Zero == [k \in Kinds |-> 0]

Init ==
    /\ count = Zero
    /\ stage = [c \in Conns |-> "none"]
    /\ slotType = [c \in Conns |-> NOSLOT]
    /\ next = [c \in Conns |-> NOSLOT]
    /\ read = [c \in Conns |-> Zero]
    /\ uploadQueue = <<>>
    /\ notifiedUsers = {}
    /\ bonus = {}
    /\ raced = {}

-----------------------------------------------------------------------------
\* prepareFile keeps the lock until it has written the counters.
Unlocked == \A c \in Conns : stage[c] # "taking"

\* getFreeSlots.
getFreeSlots == IF count["STDSLOT"] < Slots THEN Slots - count["STDSLOT"] ELSE 0

\* The counters to change when one slot is given for another.
Counters(from, to) == IF from = to THEN {} ELSE {from, to} \cap Kinds

\* The counters that a thread is changing.
Changing(c) == IF stage[c] \in {"taking", "leaving"} THEN Counters(slotType[c], next[c]) ELSE {}

\* The counters that a change would find another thread at.
Contended(c, slot) == Counters(slotType[c], slot) \cap UNION {Changing(d) : d \in Conns \ {c}}

\* A thread begins to change the counters of the slot that a connection has
\* and of the one that it shall have.
BeginChange(c, slot) ==
    /\ Cardinality(raced) + Cardinality(Contended(c, slot)) <= MaxRaces
    /\ next' = [next EXCEPT ![c] = slot]
    /\ read' = [read EXCEPT ![c] = [k \in Kinds |-> IF k \in Counters(slotType[c], slot) THEN count[k] ELSE 0]]
    /\ raced' = raced \cup Contended(c, slot)

\* Fault: the counters are not bytes.
Changed_Wide(c) == [k \in Kinds |->
    IF k \notin Counters(slotType[c], next[c]) THEN count[k]
    ELSE IF k = next[c] THEN read[c][k] + 1 ELSE read[c][k] - 1]

\* The counters, one byte each, as the thread writes them.
Changed(c) == [k \in Kinds |->
    IF k \notin Counters(slotType[c], next[c]) THEN count[k]
    ELSE IF k = next[c] THEN (read[c][k] + 1) % 256 ELSE (read[c][k] - 1) % 256]

EndChange(c) ==
    /\ count' = Changed(c)
    /\ slotType' = [slotType EXCEPT ![c] = next[c]]
    /\ next' = [next EXCEPT ![c] = NOSLOT]
    /\ read' = [read EXCEPT ![c] = Zero]

Goto(c, s) == stage' = [stage EXCEPT ![c] = s]

-----------------------------------------------------------------------------
\* The ConnectionManager gives us a connection.  It has one for a user, but for
\* those that have failed for it and not yet here.
AddConnection(c) ==
    /\ stage[c] = "none"
    /\ \A d \in Conns : owner[d] = owner[c] => stage[d] \in {"none", "dropped", "lost", "leaving"}
    /\ Goto(c, "GET")
    /\ UNCHANGED <<count, slotType, next, read, uploadQueue, notifiedUsers, bonus, raced>>

\* There is a standard slot for a user, and it is his turn.
HasFreeSlot(u) ==
    /\ getFreeSlots > 0
    /\ (uploadQueue = <<>> /\ notifiedUsers = {}) \/ u \in notifiedUsers

\* There is an upload to the address of the connection, whose user shares as many
\* bytes: he himself, or another one if that one's share is alike.
HasUpload(c, alike) == \E d \in uploads : ip[d] = ip[c] /\ (owner[d] = owner[c] \/ alike)

\* A standard slot for a connection; privileged: its user has a reserved slot or
\* is a favourite with one, or the upload speed is low (getAutoSlot).
Standard(c, privileged, alike) ==
    \/ slotType[c] = "STDSLOT"
    \/ (privileged \/ HasFreeSlot(owner[c])) /\ ~HasUpload(c, alike)

\* A free or partial slot for what is asked for: a small file or list of a client
\* that knows them (mini), which operators always get, or a part of a file.
Lesser(c, mini, op, partial) ==
    IF mini /\ (slotType[c] = "EXTRASLOT" \/ op \/ count["EXTRASLOT"] < EXTRA_SLOTS) THEN "EXTRASLOT"
    ELSE IF partial /\ (slotType[c] = "PARTIALSLOT" \/ count["PARTIALSLOT"] < EXTRA_PARTIAL_SLOTS)
         THEN "PARTIALSLOT" ELSE NOSLOT

Dequeued(u) == Without(uploadQueue, {u})

\* The end of prepareFile with a slot: the user waits no longer.
Take(c, slot, byPrivilege) ==
    /\ Goto(c, "taking")
    /\ BeginChange(c, slot)
    /\ uploadQueue' = Dequeued(owner[c])
    /\ notifiedUsers' = notifiedUsers \ {owner[c]}
    /\ bonus' = IF byPrivilege THEN bonus \cup {c} ELSE bonus
    /\ UNCHANGED <<count, slotType>>

\* The end of prepareFile without one: the user waits.
Refuse(c) ==
    /\ Goto(c, "closing")
    /\ uploadQueue' = IF Contains(uploadQueue, owner[c]) THEN uploadQueue ELSE Append(uploadQueue, owner[c])
    /\ UNCHANGED <<count, slotType, next, read, notifiedUsers, bonus, raced>>

\* prepareFile for a file that is there.
PrepareFile(c, privileged, alike, mini, op, partial) ==
    /\ stage[c] = "GET"
    /\ Unlocked
    /\ IF Standard(c, privileged, alike)
       THEN Take(c, "STDSLOT", slotType[c] # "STDSLOT" /\ ~HasFreeSlot(owner[c]))
       ELSE IF Lesser(c, mini, op, partial) # NOSLOT THEN Take(c, Lesser(c, mini, op, partial), FALSE)
       ELSE Refuse(c)

\* prepareFile writes the counters and returns.
Taken(c) ==
    /\ stage[c] = "taking"
    /\ EndChange(c)
    /\ Goto(c, "RUNNING")
    /\ UNCHANGED <<uploadQueue, notifiedUsers, bonus, raced>>

\* on(TransmitDone): the upload ends, the connection keeps its slot.
TransmitDone(c) ==
    /\ stage[c] = "RUNNING"
    /\ Unlocked
    /\ Goto(c, "GET")
    /\ UNCHANGED <<count, slotType, next, read, uploadQueue, notifiedUsers, bonus, raced>>

\* ConnectionManager::failed: the user may connect again.
ConnectionFailed(c) ==
    /\ stage[c] \in {"GET", "RUNNING", "closing"}
    /\ Goto(c, IF c \in uploads THEN "dropped" ELSE "lost")
    /\ UNCHANGED <<count, slotType, next, read, uploadQueue, notifiedUsers, bonus, raced>>

\* on(Failed) is told next: removeUpload, under the lock if there is an upload...
RemoveUpload(c) ==
    /\ stage[c] = "dropped"
    /\ Unlocked
    /\ Goto(c, "lost")
    /\ UNCHANGED <<count, slotType, next, read, uploadQueue, notifiedUsers, bonus, raced>>

\* ... and removeConnection without it, which reads a counter...
Failed(c) ==
    /\ stage[c] = "lost"
    /\ Goto(c, "leaving")
    /\ BeginChange(c, NOSLOT)
    /\ UNCHANGED <<count, slotType, uploadQueue, notifiedUsers, bonus>>

\* What becomes of a connection until its slot is about to be given back.
Fail(c) == ConnectionFailed(c) \/ RemoveUpload(c) \/ Failed(c)

\* Fault: the connection is gone and its slot is not given back.
Left_KeepsCount(c) ==
    /\ stage[c] = "leaving"
    /\ slotType' = [slotType EXCEPT ![c] = NOSLOT]
    /\ read' = [read EXCEPT ![c] = Zero]
    /\ Goto(c, "none")
    /\ bonus' = bonus \ {c}
    /\ UNCHANGED <<count, next, uploadQueue, notifiedUsers, raced>>

\* ... and writes it.
Left(c) ==
    /\ stage[c] = "leaving"
    /\ EndChange(c)
    /\ Goto(c, "none")
    /\ bonus' = bonus \ {c}
    /\ UNCHANGED <<uploadQueue, notifiedUsers, raced>>

-----------------------------------------------------------------------------
\* Fault: users told to come before are not counted.
Turns_NotNotified == getFreeSlots

\* How many users notifyQueuedUsers tells to come: one per free slot, without
\* those that earlier ones were told to come for.
Turns == getFreeSlots - Cardinality(notifiedUsers)

\* on(Second) with notifyQueuedUsers.
NotifyQueuedUsers ==
    LET n == IF Turns < Len(uploadQueue) THEN Turns ELSE Len(uploadQueue)
    IN  /\ Unlocked
        /\ n > 0
        /\ uploadQueue' = SubSeq(uploadQueue, n + 1, Len(uploadQueue))
        /\ notifiedUsers' = notifiedUsers \cup {uploadQueue[i] : i \in 1..n}
        /\ UNCHANGED <<count, stage, slotType, next, read, bonus, raced>>

\* Fault: users who were told to come are not forgotten.
Forgotten_Never == {{}}

\* The users who were told to come ninety seconds ago, if any.
Forgotten == SUBSET notifiedUsers

\* on(Minute): users told to come are forgotten, also where they wait again.
Minute ==
    /\ Unlocked
    /\ \E old \in Forgotten :
          /\ notifiedUsers' = notifiedUsers \ old
          /\ uploadQueue' = Without(uploadQueue, old)
    /\ UNCHANGED <<count, stage, slotType, next, read, bonus, raced>>

\* A user leaves the hubs.
UserDisconnected(u) ==
    /\ Unlocked
    /\ uploadQueue' = Dequeued(u)
    /\ UNCHANGED <<count, stage, slotType, next, read, notifiedUsers, bonus, raced>>

Next ==
    \/ \E c \in Conns :
          \/ AddConnection(c) \/ Taken(c) \/ TransmitDone(c) \/ Fail(c) \/ Left(c)
          \/ \E privileged, alike, mini, op, partial \in BOOLEAN :
                PrepareFile(c, privileged, alike, mini, op, partial)
    \/ NotifyQueuedUsers
    \/ Minute
    \/ \E u \in Users : UserDisconnected(u)

Spec == Init /\ [][Next]_vars

\* Threads go on, the timer ticks, and users who hold a slot go in the end.
Fairness ==
    /\ WF_vars(\E c \in Conns : Taken(c))
    /\ \A c \in Conns : SF_vars(Fail(c) \/ Left(c))
    /\ SF_vars(NotifyQueuedUsers)
    /\ SF_vars(Minute /\ notifiedUsers' # notifiedUsers)

FairSpec == Spec /\ Fairness

-----------------------------------------------------------------------------
(***************************************************************************)
(* Properties                                                              *)
(***************************************************************************)

\* Types of the counters, the connections and the lists of users.
TypeOK ==
    /\ count \in [Kinds -> 0..255]
    /\ stage \in [Conns -> Stages]
    /\ slotType \in [Conns -> Kinds \cup {NOSLOT}]
    /\ next \in [Conns -> Kinds \cup {NOSLOT}]
    /\ read \in [Conns -> [Kinds -> 0..255]]
    /\ uploadQueue \in Seq(Users)
    /\ notifiedUsers \subseteq Users
    /\ bonus \subseteq Conns
    /\ raced \subseteq Kinds

\* The connections with a kind of slot.
Holders(k) == {c \in Conns : slotType[c] = k}

\* Each counter is the number of connections that hold its kind of slot, on
\* all paths by which slots are taken, changed and given back, unless two
\* threads have changed it at once; then it is wrong for good.
SlotsAreCounted == \A k \in Kinds \ raced : count[k] = Cardinality(Holders(k))

\* Users who hold a standard slot and users who were told to come for one are
\* no more than there are slots, apart from the privileged, while the counter
\* of standard slots is right: nobody is told to come for a slot that another
\* one may take.
SlotsPromisedOnce ==
    "STDSLOT" \notin raced =>
        Cardinality(notifiedUsers) + Cardinality(Holders("STDSLOT") \ bonus) <= Slots

InQueue(u) == Contains(uploadQueue, u)

\* Who waits for a slot is told to come in the end, or given up, unless users
\* hold slots by privilege again and again, or the counter has become wrong.
WaitingIsServed ==
    Slots > 0 => \A u \in Users : InQueue(u) ~> (~InQueue(u) \/ bonus # {} \/ raced # {})

=============================================================================
