-------------------------- MODULE UploadSlotsProofs --------------------------
(***************************************************************************)
(* Proofs about what an upload needs.  UploadSlots, for any users and      *)
(* fewer than 256 connections, any numbers of slots and of races: the      *)
(* types, that the counters are those of the connections that hold slots,  *)
(* unless two threads change one at once, and that no slot is promised     *)
(* twice.  Throttle, for any connections and limits: the types, that no    *)
(* second uses more than its tokens, and when a connection is cut.         *)
(***************************************************************************)
EXTENDS UploadSlots, Throttle, ListsProofs

\* Types of what the counters depend on.
SlotTypes ==
    /\ count \in [Kinds -> 0..255]
    /\ stage \in [Conns -> Stages]
    /\ slotType \in [Conns -> Kinds \cup {NOSLOT}]
    /\ next \in [Conns -> Kinds \cup {NOSLOT}]
    /\ read \in [Conns -> [Kinds -> 0..255]]

\* What a thread has read of a counter that is not raced is still true.
ReadIsCurrent == \A k \in Kinds \ raced, c \in Conns : k \in Changing(c) => read[c][k] = count[k]

\* A counter that is not raced is being changed by one thread at most.
OneChanger == \A k \in Kinds \ raced, c, d \in Conns : k \in Changing(c) /\ k \in Changing(d) => c = d

\* The strengthening.
IInv == SlotTypes /\ SlotsAreCounted /\ ReadIsCurrent /\ OneChanger

-----------------------------------------------------------------------------
(***************************************************************************)
(* Lemmas about counters                                                   *)
(***************************************************************************)

LEMMA NoSlotIsNoKind == NOSLOT \notin Kinds
  BY DEF NOSLOT, Kinds

LEMMA HoldersAreFinite ==
    \A k : /\ IsFiniteSet(Holders(k)) /\ Cardinality(Holders(k)) \in Nat
           /\ Cardinality(Holders(k)) <= Cardinality(Conns)
           /\ Cardinality(Conns) \in Nat
<1> TAKE k
<1>1. Holders(k) \subseteq Conns /\ IsFiniteSet(Conns)
  BY SlotAssumption DEF Holders
<1> QED
  BY <1>1, FS_Subset, FS_CardinalityType

\* A byte goes up and down by one without wrapping between 0 and 255.
LEMMA ByteUp == \A n \in Nat : n < 255 => (n + 1) % 256 = n + 1
  OBVIOUS

LEMMA ByteDown == \A n \in Nat : 1 <= n /\ n < 256 => (n - 1) % 256 = n - 1
  OBVIOUS

LEMMA ByteType == \A n \in Int : n % 256 \in 0..255
  OBVIOUS

LEMMA ByteSteps == \A n \in 0..255 : (n + 1) % 256 \in 0..255 /\ (n - 1) % 256 \in 0..255
<1>1. \A n \in 0..255 : n + 1 \in Int /\ n - 1 \in Int
  OBVIOUS
<1> QED
  BY ZenonT(30), <1>1, ByteType

-----------------------------------------------------------------------------
(***************************************************************************)
(* Steps                                                                   *)
(***************************************************************************)

\* A step that changes no counter, and no stage to or from one of change.
LEMMA Aside ==
    ASSUME IInv, UNCHANGED <<count, slotType, next, read, raced>>,
           stage' \in [Conns -> Stages],
           \A c \in Conns : stage'[c] \in {"taking", "leaving"} <=> stage[c] \in {"taking", "leaving"}
    PROVE  IInv'
<1>1. \A c \in Conns : Changing(c)' = Changing(c)
  BY DEF Changing, Counters
<1>2. \A k : Holders(k)' = Holders(k)
  BY DEF Holders
<1> QED
  BY <1>1, <1>2 DEF IInv, SlotTypes, SlotsAreCounted, ReadIsCurrent, OneChanger

\* A thread reads the counters that it is going to change.
LEMMA Begin ==
    ASSUME IInv, NEW c \in Conns, NEW slot \in Kinds \cup {NOSLOT}, NEW s \in {"taking", "leaving"},
           stage[c] \notin {"taking", "leaving"}, BeginChange(c, slot), Goto(c, s),
           UNCHANGED <<count, slotType>>
    PROVE  IInv'
<1> DEFINE mine == Counters(slotType[c], slot)
           got == [k \in Kinds |-> IF k \in mine THEN count[k] ELSE 0]
<1>1. /\ next' = [next EXCEPT ![c] = slot]
      /\ read' = [read EXCEPT ![c] = got]
      /\ stage' = [stage EXCEPT ![c] = s]
      /\ raced' = raced \cup Contended(c, slot)
  BY DEF BeginChange, Goto
<1>2. got \in [Kinds -> 0..255] /\ \A k \in mine : k \in Kinds => got[k] = count[k]
  BY DEF IInv, SlotTypes
<1>3. s \in Stages
  BY DEF Stages
<1>4. Changing(c)' = mine
  BY <1>1 DEF Changing, IInv, SlotTypes
<1>5. \A d \in Conns \ {c} : Changing(d)' = Changing(d)
  BY <1>1 DEF Changing, IInv, SlotTypes
<1>6. \A d \in Conns \ {c} : \A k \in Changing(d) : k \in mine => k \in raced'
  BY <1>1 DEF Contended
<1>7. \A k : Holders(k)' = Holders(k)
  BY DEF Holders
<1> HIDE DEF mine, got
<1>8. read' \in [Conns -> [Kinds -> 0..255]]
  BY <1>1, <1>2 DEF IInv, SlotTypes
<1>9. SlotTypes'
  BY <1>1, <1>3, <1>8 DEF IInv, SlotTypes
<1>10. SlotsAreCounted'
  BY <1>1, <1>7 DEF IInv, SlotsAreCounted
<1>11. ReadIsCurrent'
  <2> SUFFICES ASSUME NEW k \in Kinds, k \notin raced', NEW d \in Conns, k \in Changing(d)'
               PROVE  read'[d][k] = count'[k]
    BY DEF ReadIsCurrent
  <2>1. CASE d = c
    BY <1>1, <1>2, <1>4, <2>1 DEF IInv, SlotTypes
  <2>2. CASE d # c
    BY <1>1, <1>5, <2>2 DEF IInv, SlotTypes, ReadIsCurrent
  <2> QED
    BY <2>1, <2>2
<1>12. OneChanger'
  <2> SUFFICES ASSUME NEW k \in Kinds, k \notin raced', NEW d \in Conns, NEW e \in Conns,
                      k \in Changing(d)', k \in Changing(e)'
               PROVE  d = e
    BY DEF OneChanger
  <2>1. CASE d # c /\ e # c
    BY <1>1, <1>5, <2>1 DEF IInv, OneChanger
  <2>2. CASE d = c /\ e # c
    BY <1>4, <1>5, <1>6, <2>2
  <2>3. CASE d # c /\ e = c
    BY <1>4, <1>5, <1>6, <2>3
  <2> QED
    BY <2>1, <2>2, <2>3
<1> QED
  BY <1>9, <1>10, <1>11, <1>12 DEF IInv

\* A thread writes the counters as it has read them, plus or minus one.
LEMMA End ==
    ASSUME IInv, Cardinality(Conns) < 256, NEW c \in Conns, NEW s \in Stages \ {"taking", "leaving"},
           stage[c] \in {"taking", "leaving"}, EndChange(c), Goto(c, s), UNCHANGED raced
    PROVE  IInv'
<1> DEFINE to == next[c]
<1>1. /\ count' = Changed(c)
      /\ slotType' = [slotType EXCEPT ![c] = to]
      /\ next' = [next EXCEPT ![c] = NOSLOT]
      /\ read' = [read EXCEPT ![c] = Zero]
      /\ stage' = [stage EXCEPT ![c] = s]
  BY DEF EndChange, Goto
<1>2. Zero \in [Kinds -> 0..255]
  BY DEF Zero
<1>3. Changing(c) = Counters(slotType[c], to) /\ to \in Kinds \cup {NOSLOT}
  BY DEF Changing, IInv, SlotTypes
<1>4. \A k \in Kinds : count'[k] = IF k \notin Changing(c) THEN count[k]
                                   ELSE IF k = to THEN (read[c][k] + 1) % 256 ELSE (read[c][k] - 1) % 256
  BY <1>1, <1>3 DEF Changed
<1>5. \A k \in Kinds : read[c][k] \in 0..255 /\ count[k] \in 0..255
  BY DEF IInv, SlotTypes
<1>6. \A k \in Kinds : count'[k] \in 0..255
  <2> TAKE k \in Kinds
  <2>1. (read[c][k] + 1) % 256 \in 0..255 /\ (read[c][k] - 1) % 256 \in 0..255
    BY ZenonT(30), <1>5, ByteSteps
  <2>2. CASE k \notin Changing(c)
    <3>1. count'[k] = count[k]
      BY ZenonT(30), <1>4, <2>2
    <3> QED
      BY ZenonT(30), <1>5, <3>1
  <2>3. CASE k \in Changing(c)
    <3>1. CASE k = to
      <4>1. count'[k] = (read[c][k] + 1) % 256
        BY ZenonT(30), <1>4, <2>3, <3>1
      <4> QED
        BY ZenonT(30), <2>1, <4>1
    <3>2. CASE k # to
      <4>1. count'[k] = (read[c][k] - 1) % 256
        BY ZenonT(30), <1>4, <2>3, <3>2
      <4> QED
        BY ZenonT(30), <2>1, <4>1
    <3> QED
      BY <3>1, <3>2
  <2> QED
    BY <2>2, <2>3
<1>7. count' \in [Kinds -> 0..255]
  BY <1>1, <1>6 DEF Changed
<1> HIDE DEF to
<1>8. SlotTypes'
  BY <1>1, <1>2, <1>3, <1>7 DEF IInv, SlotTypes
<1>9. Changing(c)' = {}
  BY <1>1 DEF Changing, IInv, SlotTypes
<1>10. \A d \in Conns \ {c} : Changing(d)' = Changing(d) /\ read'[d] = read[d]
  BY <1>1 DEF Changing, IInv, SlotTypes
<1>11. SlotsAreCounted'
  <2> SUFFICES ASSUME NEW k \in Kinds, k \notin raced'
               PROVE  count'[k] = Cardinality(Holders(k)')
    BY DEF SlotsAreCounted
  <2>1. count[k] = Cardinality(Holders(k)) /\ (k \in Changing(c) => read[c][k] = count[k])
    BY DEF IInv, SlotsAreCounted, ReadIsCurrent
  <2>2. k # NOSLOT
    BY NoSlotIsNoKind
  <2>3. CASE k \notin Changing(c)
    <3>1. slotType[c] = k <=> to = k
      BY <1>3, <2>2, <2>3 DEF Counters
    <3>2. Holders(k)' = Holders(k)
      BY <1>1, <3>1 DEF Holders, IInv, SlotTypes
    <3> QED
      BY <1>4, <2>1, <2>3, <3>2
  <2>4. CASE k \in Changing(c) /\ k = to
    <3>1. c \notin Holders(k)
      BY <1>3, <2>4 DEF Counters, Holders
    <3>2. Holders(k)' = Holders(k) \cup {c}
      BY <1>1, <2>4 DEF Holders, IInv, SlotTypes
    <3>3. Cardinality(Holders(k)') = Cardinality(Holders(k)) + 1
      BY <3>1, <3>2, HoldersAreFinite, FS_AddElement
    <3>4. Holders(k)' \subseteq Conns
      BY DEF Holders
    <3>5. Cardinality(Holders(k)') <= Cardinality(Conns)
      BY <3>4, SlotAssumption, FS_Subset
    <3>6. count[k] \in Nat /\ count[k] < 255
      BY <1>5, <2>1, <3>3, <3>5, HoldersAreFinite
    <3>7. (read[c][k] + 1) % 256 = count[k] + 1
      BY <2>1, <2>4, <3>6, ByteUp
    <3> QED
      BY <1>4, <2>1, <2>4, <3>3, <3>7
  <2>5. CASE k \in Changing(c) /\ k # to
    <3>1. slotType[c] = k
      BY <1>3, <2>5 DEF Counters
    <3>2. c \in Holders(k) /\ Holders(k)' = Holders(k) \ {c}
      BY <1>1, <2>5, <3>1 DEF Holders, IInv, SlotTypes
    <3>3. Cardinality(Holders(k)') = Cardinality(Holders(k)) - 1
      BY <3>2, HoldersAreFinite, FS_RemoveElement
    <3>4. Holders(k) # {}
      BY <3>2
    <3>5. Cardinality(Holders(k)) # 0
      BY <3>4, HoldersAreFinite, FS_EmptySet
    <3>6. count[k] \in Nat /\ 1 <= count[k] /\ count[k] < 256
      BY <1>5, <2>1, <3>5, HoldersAreFinite
    <3>7. (read[c][k] - 1) % 256 = count[k] - 1
      BY <2>1, <2>5, <3>6, ByteDown
    <3> QED
      BY <1>4, <2>1, <2>5, <3>3, <3>7
  <2> QED
    BY <2>3, <2>4, <2>5
<1>12. ReadIsCurrent'
  <2> SUFFICES ASSUME NEW k \in Kinds, k \notin raced', NEW d \in Conns, k \in Changing(d)'
               PROVE  read'[d][k] = count'[k]
    BY DEF ReadIsCurrent
  <2>1. d # c /\ k \in Changing(d)
    BY <1>9, <1>10
  <2>2. k \notin Changing(c) /\ read[d][k] = count[k]
    BY <2>1 DEF IInv, OneChanger, ReadIsCurrent
  <2> QED
    BY <1>4, <1>10, <2>1, <2>2
<1>13. OneChanger'
  <2> SUFFICES ASSUME NEW k \in Kinds, k \notin raced', NEW d \in Conns, NEW e \in Conns,
                      k \in Changing(d)', k \in Changing(e)'
               PROVE  d = e
    BY DEF OneChanger
  <2> QED
    BY <1>9, <1>10 DEF IInv, OneChanger
<1> QED
  BY <1>8, <1>11, <1>12, <1>13 DEF IInv

LEMMA KeepsPrepareFile ==
    ASSUME IInv, NEW c \in Conns, NEW privileged, NEW alike, NEW mini, NEW op, NEW partial,
           PrepareFile(c, privileged, alike, mini, op, partial)
    PROVE  IInv'
<1>1. stage[c] = "GET"
  BY DEF PrepareFile
<1>2. ASSUME NEW slot \in Kinds, NEW byPrivilege, Take(c, slot, byPrivilege) PROVE IInv'
  BY <1>1, <1>2, Begin DEF Take
<1>3. CASE Refuse(c)
  <2>1. stage' = [stage EXCEPT ![c] = "closing"] /\ UNCHANGED <<count, slotType, next, read, raced>>
    BY <1>3 DEF Refuse, Goto
  <2>2. stage' \in [Conns -> Stages]
    BY <2>1 DEF IInv, SlotTypes, Stages
  <2>3. \A d \in Conns : stage'[d] \in {"taking", "leaving"} <=> stage[d] \in {"taking", "leaving"}
    BY <1>1, <2>1 DEF IInv, SlotTypes
  <2> QED
    BY <2>1, <2>2, <2>3, Aside
<1>4. "STDSLOT" \in Kinds /\ (Lesser(c, mini, op, partial) # NOSLOT => Lesser(c, mini, op, partial) \in Kinds)
  BY DEF Kinds, Lesser
<1>5. \/ \E byPrivilege : Take(c, "STDSLOT", byPrivilege)
      \/ Lesser(c, mini, op, partial) # NOSLOT /\ Take(c, Lesser(c, mini, op, partial), FALSE)
      \/ Refuse(c)
  BY DEF PrepareFile
<1> QED
  BY <1>2, <1>3, <1>4, <1>5

\* A connection that comes, that has sent what was asked for, or whose failure
\* is being told.
Passes(c) == AddConnection(c) \/ TransmitDone(c) \/ ConnectionFailed(c) \/ RemoveUpload(c)

\* It goes on to another stage, and that is all.
LEMMA PassesOn ==
    ASSUME NEW c \in Conns, Passes(c)
    PROVE  /\ stage[c] \notin {"taking", "leaving"}
           /\ \E s \in Stages \ {"taking", "leaving"} : stage' = [stage EXCEPT ![c] = s]
           /\ UNCHANGED <<count, slotType, next, read, uploadQueue, notifiedUsers, bonus, raced>>
<1>1. {"GET", "dropped", "lost"} \subseteq Stages \ {"taking", "leaving"}
  BY DEF Stages
<1>2. CASE AddConnection(c) \/ TransmitDone(c)
  BY <1>1, <1>2 DEF AddConnection, TransmitDone, Goto
<1>3. CASE ConnectionFailed(c)
  BY <1>1, <1>3 DEF ConnectionFailed, Goto
<1>4. CASE RemoveUpload(c)
  BY <1>1, <1>4 DEF RemoveUpload, Goto
<1> QED
  BY <1>2, <1>3, <1>4 DEF Passes

LEMMA KeepsPasses == ASSUME IInv, NEW c \in Conns, Passes(c) PROVE IInv'
<1>1. PICK s \in Stages \ {"taking", "leaving"} : stage' = [stage EXCEPT ![c] = s]
  BY PassesOn
<1>2. stage[c] \notin {"taking", "leaving"} /\ UNCHANGED <<count, slotType, next, read, raced>>
  BY PassesOn
<1>3. stage' \in [Conns -> Stages]
  BY <1>1 DEF IInv, SlotTypes
<1>4. \A d \in Conns : stage'[d] \in {"taking", "leaving"} <=> stage[d] \in {"taking", "leaving"}
  BY <1>1, <1>2 DEF IInv, SlotTypes
<1> QED
  BY <1>2, <1>3, <1>4, Aside

LEMMA KeepsLists ==
    ASSUME IInv, NotifyQueuedUsers \/ Minute \/ (\E u \in Users : UserDisconnected(u)) \/ UNCHANGED vars
    PROVE  IInv'
<1>1. UNCHANGED <<count, stage, slotType, next, read, raced>>
  BY DEF NotifyQueuedUsers, Minute, UserDisconnected, vars
<1> QED
  BY <1>1, Aside DEF IInv, SlotTypes

LEMMA InitIInv == Init => IInv
<1> SUFFICES ASSUME Init PROVE IInv
  OBVIOUS
<1>1. SlotTypes
  BY DEF Init, Zero, SlotTypes, Stages
<1>2. \A c \in Conns : Changing(c) = {}
  BY DEF Init, Changing
<1>3. \A k \in Kinds : Holders(k) = {}
  BY NoSlotIsNoKind DEF Init, Holders
<1>4. SlotsAreCounted
  BY <1>3, FS_EmptySet DEF Init, SlotsAreCounted, Zero
<1> QED
  BY <1>1, <1>2, <1>4 DEF IInv, ReadIsCurrent, OneChanger

LEMMA NextIInv == Cardinality(Conns) < 256 /\ IInv /\ [Next]_vars => IInv'
<1> SUFFICES ASSUME Cardinality(Conns) < 256, IInv, [Next]_vars PROVE IInv'
  OBVIOUS
<1>1. ASSUME NEW c \in Conns, Passes(c) PROVE IInv'
  BY <1>1, KeepsPasses
<1>2. ASSUME NEW c \in Conns, Taken(c) PROVE IInv'
  <2>1. "RUNNING" \in Stages \ {"taking", "leaving"}
    BY DEF Stages
  <2> QED
    BY <1>2, <2>1, End DEF Taken
<1>3. ASSUME NEW c \in Conns, Left(c) PROVE IInv'
  <2>1. "none" \in Stages \ {"taking", "leaving"}
    BY DEF Stages
  <2> QED
    BY <1>3, <2>1, End DEF Left
<1>4. ASSUME NEW c \in Conns, Failed(c) PROVE IInv'
  BY <1>4, Begin DEF Failed
<1>5. ASSUME NEW c \in Conns, NEW privileged \in BOOLEAN, NEW alike \in BOOLEAN, NEW mini \in BOOLEAN,
             NEW op \in BOOLEAN, NEW partial \in BOOLEAN, PrepareFile(c, privileged, alike, mini, op, partial)
      PROVE  IInv'
  BY <1>5, KeepsPrepareFile
<1>6. CASE NotifyQueuedUsers \/ Minute \/ (\E u \in Users : UserDisconnected(u)) \/ UNCHANGED vars
  BY <1>6, KeepsLists
<1> QED
  BY <1>1, <1>2, <1>3, <1>4, <1>5, <1>6 DEF Next, Fail, Passes

-----------------------------------------------------------------------------
(***************************************************************************)
(* Theorems                                                                *)
(***************************************************************************)

\* The strengthening holds while connections are fewer than a byte can count.
THEOREM Invariance == Cardinality(Conns) < 256 => (Spec => []IInv)
<1> SUFFICES ASSUME Cardinality(Conns) < 256 PROVE Spec => []IInv
  OBVIOUS
<1>1. IInv /\ [Next]_vars => IInv'
  BY NextIInv
<1> QED
  BY <1>1, InitIInv, PTL DEF Spec

\* However the threads of UploadManager take, change and give back slots, a
\* counter is the number of connections that hold its kind of slot, until two
\* threads change it at once.
THEOREM CountersAreRight == Cardinality(Conns) < 256 => (Spec => []SlotsAreCounted)
<1> SUFFICES ASSUME Cardinality(Conns) < 256 PROVE Spec => []SlotsAreCounted
  OBVIOUS
<1>1. IInv => SlotsAreCounted
  BY DEF IInv
<1>2. Spec => []IInv
  BY Invariance
<1> QED
  BY <1>1, <1>2, PTL

-----------------------------------------------------------------------------
(***************************************************************************)
(* Types, with those of the lists                                          *)
(***************************************************************************)

LEMMA EndTypes ==
    ASSUME TypeOK, NEW c \in Conns, EndChange(c)
    PROVE  /\ count' \in [Kinds -> 0..255]
           /\ slotType' \in [Conns -> Kinds \cup {NOSLOT}]
           /\ next' \in [Conns -> Kinds \cup {NOSLOT}]
           /\ read' \in [Conns -> [Kinds -> 0..255]]
<1>1. /\ count' = Changed(c)
      /\ slotType' = [slotType EXCEPT ![c] = next[c]]
      /\ next' = [next EXCEPT ![c] = NOSLOT]
      /\ read' = [read EXCEPT ![c] = Zero]
  BY DEF EndChange
<1>2. Zero \in [Kinds -> 0..255]
  BY DEF Zero
<1>3. ASSUME NEW k \in Kinds
      PROVE  (IF k \notin Counters(slotType[c], next[c]) THEN count[k]
              ELSE IF k = next[c] THEN (read[c][k] + 1) % 256 ELSE (read[c][k] - 1) % 256) \in 0..255
  <2>1. read[c][k] \in 0..255 /\ count[k] \in 0..255
    BY DEF TypeOK
  <2>2. (read[c][k] + 1) % 256 \in 0..255 /\ (read[c][k] - 1) % 256 \in 0..255
    BY ZenonT(30), <2>1, ByteSteps
  <2> QED
    BY <2>1, <2>2
<1>4. Changed(c) \in [Kinds -> 0..255]
  BY <1>3 DEF Changed
<1> QED
  BY <1>1, <1>2, <1>4 DEF TypeOK

LEMMA BeginTypes ==
    ASSUME TypeOK, NEW c \in Conns, NEW slot \in Kinds \cup {NOSLOT}, BeginChange(c, slot)
    PROVE  /\ next' \in [Conns -> Kinds \cup {NOSLOT}]
           /\ read' \in [Conns -> [Kinds -> 0..255]]
           /\ raced' \subseteq Kinds
<1> DEFINE got == [k \in Kinds |-> IF k \in Counters(slotType[c], slot) THEN count[k] ELSE 0]
<1>1. got \in [Kinds -> 0..255]
  BY DEF TypeOK
<1>2. next' = [next EXCEPT ![c] = slot] /\ read' = [read EXCEPT ![c] = got]
  BY DEF BeginChange
<1> HIDE DEF got
<1>3. raced' \subseteq Kinds
  BY DEF BeginChange, Contended, Counters, TypeOK
<1> QED
  BY <1>1, <1>2, <1>3 DEF TypeOK

LEMMA QueueTypes ==
    ASSUME TypeOK, NEW S
    PROVE  Without(uploadQueue, S) \in Seq(Users)
  BY WithoutProps DEF TypeOK

LEMMA TypesTake ==
    ASSUME TypeOK, NEW c \in Conns, NEW slot \in Kinds, NEW byPrivilege, Take(c, slot, byPrivilege)
    PROVE  TypeOK'
<1>1. /\ next' \in [Conns -> Kinds \cup {NOSLOT}] /\ read' \in [Conns -> [Kinds -> 0..255]]
      /\ raced' \subseteq Kinds
  BY BeginTypes DEF Take
<1>2. stage' \in [Conns -> Stages]
  BY DEF Take, Goto, TypeOK, Stages
<1>3. uploadQueue' \in Seq(Users)
  BY QueueTypes DEF Take, Dequeued
<1>4. bonus' \subseteq Conns /\ notifiedUsers' \subseteq Users /\ UNCHANGED <<count, slotType>>
  BY DEF Take, TypeOK
<1> QED
  BY <1>1, <1>2, <1>3, <1>4 DEF TypeOK

LEMMA TypesRefuse == ASSUME TypeOK, NEW c \in Conns, Refuse(c) PROVE TypeOK'
<1>1. stage' \in [Conns -> Stages]
  BY DEF Refuse, Goto, TypeOK, Stages
<1>2. uploadQueue' \in Seq(Users)
  BY SlotAssumption DEF Refuse, TypeOK
<1> QED
  BY <1>1, <1>2 DEF Refuse, TypeOK

\* What a user who asks gets.
LEMMA PrepareFileCases ==
    ASSUME NEW c \in Conns, NEW privileged, NEW alike, NEW mini, NEW op, NEW partial,
           PrepareFile(c, privileged, alike, mini, op, partial)
    PROVE  \/ /\ Standard(c, privileged, alike)
              /\ Take(c, "STDSLOT", slotType[c] # "STDSLOT" /\ ~HasFreeSlot(owner[c]))
           \/ \E slot \in {"EXTRASLOT", "PARTIALSLOT"} : Take(c, slot, FALSE)
           \/ Refuse(c)
  BY DEF PrepareFile, Lesser

LEMMA TypesNotify == ASSUME TypeOK, NotifyQueuedUsers PROVE TypeOK'
<1> DEFINE n == IF Turns < Len(uploadQueue) THEN Turns ELSE Len(uploadQueue)
<1>1. /\ n > 0
      /\ uploadQueue' = SubSeq(uploadQueue, n + 1, Len(uploadQueue))
      /\ notifiedUsers' = notifiedUsers \cup {uploadQueue[i] : i \in 1..n}
      /\ UNCHANGED <<count, stage, slotType, next, read, bonus, raced>>
  BY DEF NotifyQueuedUsers
<1>2. Turns \in Int /\ uploadQueue \in Seq(Users) /\ Len(uploadQueue) \in Nat
  <2>1. notifiedUsers \subseteq Users /\ IsFiniteSet(Users)
    BY SlotAssumption DEF TypeOK
  <2>2. Cardinality(notifiedUsers) \in Nat
    BY <2>1, FS_Subset, FS_CardinalityType
  <2>3. count["STDSLOT"] \in Int /\ Slots \in Int
    <3>1. "STDSLOT" \in Kinds
      BY DEF Kinds
    <3>2. count["STDSLOT"] \in 0..255 /\ Slots \in 0..255
      BY <3>1, SlotAssumption DEF TypeOK
    <3> QED
      BY <3>2
  <2> QED
    BY <2>2, <2>3 DEF Turns, getFreeSlots, TypeOK
<1>3. n \in Int /\ n <= Len(uploadQueue)
  BY <1>2
<1> HIDE DEF n
<1>4. \A i \in 1..n : uploadQueue[i] \in Users
  BY <1>2, <1>3
<1>5. uploadQueue' \in Seq(Users)
  BY <1>1, <1>2, <1>3
<1> QED
  BY <1>1, <1>4, <1>5 DEF TypeOK

LEMMA TypesNext == TypeOK /\ [Next]_vars => TypeOK'
<1> SUFFICES ASSUME TypeOK, [Next]_vars PROVE TypeOK'
  OBVIOUS
<1>1. ASSUME NEW c \in Conns, Passes(c) PROVE TypeOK'
  <2>1. PICK s \in Stages : stage' = [stage EXCEPT ![c] = s]
    BY <1>1, PassesOn
  <2>2. stage' \in [Conns -> Stages]
    BY <2>1 DEF TypeOK
  <2>3. UNCHANGED <<count, slotType, next, read, uploadQueue, notifiedUsers, bonus, raced>>
    BY <1>1, PassesOn, Zenon
  <2> QED
    BY <2>2, <2>3 DEF TypeOK
<1>2. ASSUME NEW c \in Conns, Taken(c) \/ Left(c) PROVE TypeOK'
  <2>1. EndChange(c)
    BY <1>2 DEF Taken, Left
  <2>2. /\ count' \in [Kinds -> 0..255] /\ slotType' \in [Conns -> Kinds \cup {NOSLOT}]
        /\ next' \in [Conns -> Kinds \cup {NOSLOT}] /\ read' \in [Conns -> [Kinds -> 0..255]]
    BY <2>1, EndTypes
  <2>3. stage' \in [Conns -> Stages]
    <3>1. PICK s \in Stages : stage' = [stage EXCEPT ![c] = s]
      BY <1>2 DEF Taken, Left, Goto, Stages
    <3> QED
      BY <3>1 DEF TypeOK
  <2>4. bonus' \subseteq Conns /\ UNCHANGED <<uploadQueue, notifiedUsers, raced>>
    BY <1>2 DEF Taken, Left, TypeOK
  <2> QED
    BY <2>2, <2>3, <2>4 DEF TypeOK
<1>3. ASSUME NEW c \in Conns, Failed(c) PROVE TypeOK'
  <2>1. /\ next' \in [Conns -> Kinds \cup {NOSLOT}] /\ read' \in [Conns -> [Kinds -> 0..255]]
        /\ raced' \subseteq Kinds
    BY <1>3, BeginTypes DEF Failed
  <2>2. stage' \in [Conns -> Stages]
    BY <1>3 DEF Failed, Goto, TypeOK, Stages
  <2> QED
    BY <1>3, <2>1, <2>2 DEF Failed, TypeOK
<1>4. ASSUME NEW c \in Conns, NEW privileged, NEW alike, NEW mini, NEW op, NEW partial,
             PrepareFile(c, privileged, alike, mini, op, partial)
      PROVE  TypeOK'
  BY <1>4, PrepareFileCases, TypesTake, TypesRefuse DEF Kinds
<1>5. CASE NotifyQueuedUsers
  BY <1>5, TypesNotify
<1>6. CASE Minute
  <2>1. uploadQueue' \in Seq(Users) /\ notifiedUsers' \subseteq Users
    BY <1>6, QueueTypes DEF Minute, TypeOK
  <2> QED
    BY <1>6, <2>1 DEF Minute, TypeOK
<1>7. ASSUME NEW u \in Users, UserDisconnected(u) PROVE TypeOK'
  <2>1. uploadQueue' \in Seq(Users)
    BY <1>7, QueueTypes DEF UserDisconnected, Dequeued
  <2> QED
    BY <1>7, <2>1 DEF UserDisconnected, TypeOK
<1>8. CASE UNCHANGED vars
  BY <1>8 DEF vars, TypeOK
<1> QED
  BY <1>1, <1>2, <1>3, <1>4, <1>5, <1>6, <1>7, <1>8 DEF Next, Fail, Passes

\* The counters stay bytes, and only users are queued and told to come.
THEOREM TypeCorrect == Spec => []TypeOK
<1>1. Init => TypeOK
  BY DEF Init, TypeOK, Zero, Stages
<1> QED
  BY <1>1, TypesNext, PTL DEF Spec

-----------------------------------------------------------------------------
(***************************************************************************)
(* Slots and promises: a slot that a thread is about to take counts too    *)
(***************************************************************************)

\* Connections whose thread is about to write down a standard slot.
Pending == {c \in Conns : stage[c] = "taking" /\ next[c] = "STDSLOT"}

\* Standard slots that are taken, or as good as taken, without privilege.
Promised == (Holders("STDSLOT") \cup Pending) \ bonus

PromisesKept == "STDSLOT" \notin raced => Cardinality(notifiedUsers) + Cardinality(Promised) <= Slots

LeavingEnds == \A c \in Conns : stage[c] = "leaving" => next[c] = NOSLOT

\* The strengthening, on top of the one about the counters.
PInv == IInv /\ TypeOK /\ LeavingEnds /\ PromisesKept

LEMMA PromisedIsFinite ==
    /\ IsFiniteSet(Promised) /\ Cardinality(Promised) \in Nat
    /\ TypeOK => IsFiniteSet(notifiedUsers) /\ Cardinality(notifiedUsers) \in Nat
<1>1. Promised \subseteq Conns /\ (TypeOK => notifiedUsers \subseteq Users)
  BY DEF Promised, Holders, Pending, TypeOK
<1> QED
  BY <1>1, SlotAssumption, FS_Subset, FS_CardinalityType

\* Nothing is promised to anyone else.
LEMMA NoMorePromises ==
    ASSUME PInv, Promised' \subseteq Promised, notifiedUsers' \subseteq notifiedUsers, raced \subseteq raced'
    PROVE  PromisesKept'
<1> SUFFICES ASSUME "STDSLOT" \notin raced'
             PROVE  Cardinality(notifiedUsers') + Cardinality(Promised') <= Slots
  BY DEF PromisesKept
<1>1. Cardinality(notifiedUsers) + Cardinality(Promised) <= Slots
  BY DEF PInv, PromisesKept
<1>2. /\ Cardinality(Promised) \in Nat /\ Cardinality(Promised') \in Nat
      /\ Cardinality(Promised') <= Cardinality(Promised)
  BY PromisedIsFinite, FS_Subset, FS_CardinalityType
<1>3. /\ Cardinality(notifiedUsers) \in Nat /\ Cardinality(notifiedUsers') \in Nat
      /\ Cardinality(notifiedUsers') <= Cardinality(notifiedUsers)
  BY PromisedIsFinite, FS_Subset, FS_CardinalityType DEF PInv
<1> QED
  BY <1>1, <1>2, <1>3, SlotAssumption

\* While no thread is taking a slot, the counter knows all that is promised.
LEMMA CountedPromises ==
    ASSUME PInv, Unlocked, "STDSLOT" \notin raced
    PROVE  /\ Pending = {} /\ Cardinality(Promised) <= count["STDSLOT"]
           /\ count["STDSLOT"] \in Nat
<1>1. Pending = {}
  BY DEF Unlocked, Pending
<1>2. Promised \subseteq Holders("STDSLOT")
  BY <1>1 DEF Promised
<1>3. count["STDSLOT"] = Cardinality(Holders("STDSLOT"))
  BY DEF PInv, IInv, SlotsAreCounted, Kinds
<1> QED
  BY <1>1, <1>2, <1>3, HoldersAreFinite, FS_Subset

\* A standard slot goes to one who has it, who was told to come, who is
\* privileged, or who finds one that nobody was told to come for.
LEMMA PromiseTake ==
    ASSUME PInv, NEW c \in Conns, NEW privileged, NEW alike, Unlocked, Standard(c, privileged, alike),
           Take(c, "STDSLOT", slotType[c] # "STDSLOT" /\ ~HasFreeSlot(owner[c]))
    PROVE  PromisesKept'
<1>1. /\ stage' = [stage EXCEPT ![c] = "taking"] /\ next' = [next EXCEPT ![c] = "STDSLOT"]
      /\ raced \subseteq raced' /\ notifiedUsers' = notifiedUsers \ {owner[c]}
      /\ UNCHANGED slotType
  BY DEF Take, Goto, BeginChange
<1>2. \A k : Holders(k)' = Holders(k)
  BY <1>1 DEF Holders
<1>3. Pending' = Pending \cup {c}
  BY <1>1 DEF Pending, PInv, TypeOK
<1>4. bonus' = IF slotType[c] # "STDSLOT" /\ ~HasFreeSlot(owner[c]) THEN bonus \cup {c} ELSE bonus
  BY DEF Take
<1>5. CASE slotType[c] = "STDSLOT"
  <2>1. c \in Holders("STDSLOT")
    BY <1>5 DEF Holders
  <2>2. Promised' \subseteq Promised
    BY <1>2, <1>3, <1>4, <1>5, <2>1 DEF Promised
  <2> QED
    BY <1>1, <2>2, NoMorePromises
<1>6. CASE slotType[c] # "STDSLOT" /\ ~HasFreeSlot(owner[c])
  <2>1. Promised' \subseteq Promised
    BY <1>2, <1>3, <1>4, <1>6 DEF Promised
  <2> QED
    BY <1>1, <2>1, NoMorePromises
<1>7. CASE slotType[c] # "STDSLOT" /\ HasFreeSlot(owner[c])
  <2> SUFFICES ASSUME "STDSLOT" \notin raced'
               PROVE  Cardinality(notifiedUsers') + Cardinality(Promised') <= Slots
    BY DEF PromisesKept
  <2>1. Promised' \subseteq Promised \cup {c}
    BY <1>2, <1>3, <1>4, <1>7 DEF Promised
  <2>2. /\ Cardinality(Promised') \in Nat /\ Cardinality(Promised) \in Nat
        /\ Cardinality(Promised') <= Cardinality(Promised) + 1
    <3> DEFINE more == Promised \cup {c}
    <3>1. IsFiniteSet(Promised) /\ Cardinality(Promised) \in Nat
      BY PromisedIsFinite
    <3>2. IsFiniteSet(more) /\ (c \notin Promised => Cardinality(more) = Cardinality(Promised) + 1)
      BY <3>1, FS_AddElement
    <3>3. c \in Promised => more = Promised
      OBVIOUS
    <3> HIDE DEF more
    <3>4. Cardinality(Promised') <= Cardinality(more) /\ IsFiniteSet(Promised')
      BY <2>1, <3>2, FS_Subset DEF more
    <3>5. Cardinality(more) <= Cardinality(Promised) + 1 /\ Cardinality(more) \in Nat
      BY <3>1, <3>2, <3>3, FS_CardinalityType
    <3>6. Cardinality(Promised') \in Nat
      BY <3>4, FS_CardinalityType
    <3> QED
      BY <3>1, <3>4, <3>5, <3>6
  <2>3. "STDSLOT" \notin raced
    BY <1>1
  <2>4. IsFiniteSet(notifiedUsers) /\ Cardinality(notifiedUsers) \in Nat
    BY PromisedIsFinite DEF PInv
  <2>5. CASE owner[c] \in notifiedUsers
    <3>1. Cardinality(notifiedUsers') = Cardinality(notifiedUsers) - 1
      BY <1>1, <2>4, <2>5, FS_RemoveElement
    <3>2. Cardinality(notifiedUsers) + Cardinality(Promised) <= Slots
      BY <2>3 DEF PInv, PromisesKept
    <3> QED
      BY <2>2, <2>4, <3>1, <3>2, SlotAssumption
  <2>6. CASE owner[c] \notin notifiedUsers
    <3>1. notifiedUsers = {} /\ getFreeSlots > 0
      BY <1>7, <2>6 DEF HasFreeSlot
    <3>2. count["STDSLOT"] < Slots
      BY <3>1 DEF getFreeSlots
    <3>3. Cardinality(Promised) <= count["STDSLOT"] /\ count["STDSLOT"] \in Nat
      BY <2>3, CountedPromises
    <3>4. Cardinality(notifiedUsers') = 0
      BY <1>1, <3>1, FS_EmptySet
    <3> QED
      BY <2>2, <3>2, <3>3, <3>4, SlotAssumption
  <2> QED
    BY <2>5, <2>6
<1> QED
  BY <1>5, <1>6, <1>7

\* The timer tells only as many to come as there are slots that are neither
\* taken nor promised.
LEMMA PromiseNotify == ASSUME PInv, NotifyQueuedUsers PROVE PromisesKept'
<1> DEFINE n == IF Turns < Len(uploadQueue) THEN Turns ELSE Len(uploadQueue)
           told == {uploadQueue[i] : i \in 1..n}
<1>1. /\ Unlocked /\ n > 0 /\ notifiedUsers' = notifiedUsers \cup told
      /\ UNCHANGED <<count, stage, slotType, next, bonus, raced>>
  BY DEF NotifyQueuedUsers
<1>2. Promised' = Promised
  BY <1>1 DEF Promised, Holders, Pending
<1> SUFFICES ASSUME "STDSLOT" \notin raced
             PROVE  Cardinality(notifiedUsers') + Cardinality(Promised) <= Slots
  BY <1>1, <1>2 DEF PromisesKept
<1>3. IsFiniteSet(notifiedUsers) /\ Cardinality(notifiedUsers) \in Nat /\ Slots \in Nat
  BY PromisedIsFinite, SlotAssumption DEF PInv
<1>4. Cardinality(Promised) <= count["STDSLOT"] /\ count["STDSLOT"] \in Nat /\ Cardinality(Promised) \in Nat
  BY <1>1, CountedPromises, PromisedIsFinite
<1>5. Turns = getFreeSlots - Cardinality(notifiedUsers) /\ getFreeSlots \in Nat
  BY <1>3, <1>4 DEF Turns, getFreeSlots
<1>6. n \in Nat /\ n <= Turns /\ Len(uploadQueue) \in Nat
  BY <1>1, <1>3, <1>5 DEF PInv, TypeOK
<1>7. getFreeSlots = Slots - count["STDSLOT"]
  BY <1>1, <1>3, <1>4, <1>5, <1>6 DEF getFreeSlots
<1> HIDE DEF n
<1>8. IsFiniteSet(told) /\ Cardinality(told) \in Nat /\ Cardinality(told) <= n
  <2> DEFINE f == [i \in 1..n |-> uploadQueue[i]]
  <2>1. f \in Surjection(1..n, told)
    <3>1. f \in [1..n -> told] /\ \A u \in told : \E i \in 1..n : f[i] = u
      OBVIOUS
    <3> HIDE DEF f, told
    <3> QED
      BY <3>1, Fun_IsSurj
  <2>2. IsFiniteSet(1..n) /\ Cardinality(1..n) = n
    BY <1>6, FS_Interval
  <2> HIDE DEF f, told
  <2> QED
    BY <2>1, <2>2, FS_Surjection, FS_CardinalityType
<1> HIDE DEF told
<1>9. /\ Cardinality(notifiedUsers \cup told) \in Nat
      /\ Cardinality(notifiedUsers \cup told) <= Cardinality(notifiedUsers) + Cardinality(told)
  <2>1. /\ IsFiniteSet(notifiedUsers \cup told) /\ IsFiniteSet(notifiedUsers \cap told)
        /\ Cardinality(notifiedUsers \cup told) =
              Cardinality(notifiedUsers) + Cardinality(told) - Cardinality(notifiedUsers \cap told)
    BY <1>3, <1>8, FS_Union, FS_Intersection
  <2>2. Cardinality(notifiedUsers \cap told) \in Nat /\ Cardinality(notifiedUsers \cup told) \in Nat
    BY <2>1, FS_CardinalityType
  <2> QED
    BY <1>3, <1>8, <2>1, <2>2
<1>10. Cardinality(notifiedUsers \cup told) <= getFreeSlots
  <2>1. n <= getFreeSlots - Cardinality(notifiedUsers)
    BY <1>5, <1>6
  <2>2. Cardinality(told) <= getFreeSlots - Cardinality(notifiedUsers)
    BY <1>3, <1>5, <1>6, <1>8, <2>1
  <2> QED
    BY <1>3, <1>5, <1>8, <1>9, <2>2
<1>11. Cardinality(notifiedUsers \cup told) + Cardinality(Promised) <= Slots
  BY <1>3, <1>4, <1>7, <1>9, <1>10
<1> QED
  BY <1>1, <1>11

LEMMA PromisesNext == ASSUME PInv, IInv', TypeOK', [Next]_vars PROVE PInv'
<1>1. ASSUME NEW c \in Conns, Passes(c) PROVE LeavingEnds' /\ PromisesKept'
  <2>0. PICK s \in Stages \ {"taking", "leaving"} : stage' = [stage EXCEPT ![c] = s]
    BY <1>1, PassesOn
  <2>1. /\ stage' = [stage EXCEPT ![c] = s] /\ s \notin {"taking", "leaving"}
        /\ UNCHANGED <<slotType, next, notifiedUsers, bonus, raced>>
    BY <1>1, <2>0, PassesOn
  <2>2. LeavingEnds'
    BY <2>1 DEF PInv, LeavingEnds, TypeOK
  <2>3. Promised' \subseteq Promised
    BY <2>1 DEF Promised, Holders, Pending, PInv, TypeOK
  <2> QED
    BY <2>1, <2>2, <2>3, NoMorePromises
<1>2. ASSUME NEW c \in Conns, Taken(c) PROVE LeavingEnds' /\ PromisesKept'
  <2>1. /\ stage[c] = "taking" /\ stage' = [stage EXCEPT ![c] = "RUNNING"]
        /\ slotType' = [slotType EXCEPT ![c] = next[c]] /\ next' = [next EXCEPT ![c] = NOSLOT]
        /\ UNCHANGED <<notifiedUsers, bonus, raced>>
    BY <1>2 DEF Taken, EndChange, Goto
  <2>2. LeavingEnds'
    BY <2>1 DEF PInv, LeavingEnds, TypeOK
  <2>3. Promised' \subseteq Promised
    BY <2>1 DEF Promised, Holders, Pending, PInv, TypeOK
  <2> QED
    BY <2>1, <2>2, <2>3, NoMorePromises
<1>3. ASSUME NEW c \in Conns, Left(c) PROVE LeavingEnds' /\ PromisesKept'
  <2>1. /\ stage[c] = "leaving" /\ stage' = [stage EXCEPT ![c] = "none"]
        /\ slotType' = [slotType EXCEPT ![c] = next[c]] /\ next' = [next EXCEPT ![c] = NOSLOT]
        /\ bonus' = bonus \ {c} /\ UNCHANGED <<notifiedUsers, raced>>
    BY <1>3 DEF Left, EndChange, Goto
  <2>2. LeavingEnds'
    BY <2>1 DEF PInv, LeavingEnds, TypeOK
  <2>3. next[c] # "STDSLOT"
    BY <2>1 DEF PInv, LeavingEnds, NOSLOT
  <2>4. Promised' \subseteq Promised
    BY <2>1, <2>3 DEF Promised, Holders, Pending, PInv, TypeOK
  <2> QED
    BY <2>1, <2>2, <2>4, NoMorePromises
<1>4. ASSUME NEW c \in Conns, Failed(c) PROVE LeavingEnds' /\ PromisesKept'
  <2>1. /\ stage' = [stage EXCEPT ![c] = "leaving"] /\ next' = [next EXCEPT ![c] = NOSLOT]
        /\ raced \subseteq raced' /\ UNCHANGED <<slotType, notifiedUsers, bonus>>
    BY <1>4 DEF Failed, BeginChange, Goto
  <2>2. LeavingEnds'
    BY <2>1 DEF PInv, LeavingEnds, TypeOK
  <2>3. Promised' \subseteq Promised
    BY <2>1 DEF Promised, Holders, Pending, PInv, TypeOK
  <2> QED
    BY <2>1, <2>2, <2>3, NoMorePromises
<1>5. ASSUME NEW c \in Conns, NEW privileged, NEW alike, NEW mini, NEW op, NEW partial,
             PrepareFile(c, privileged, alike, mini, op, partial)
      PROVE  LeavingEnds' /\ PromisesKept'
  <2>1. Unlocked /\ stage[c] = "GET"
    BY <1>5 DEF PrepareFile
  <2>2. ASSUME NEW slot, NEW byPrivilege, Take(c, slot, byPrivilege) PROVE LeavingEnds'
    <3>1. stage' = [stage EXCEPT ![c] = "taking"] /\ next' = [next EXCEPT ![c] = slot]
      BY <2>2 DEF Take, Goto, BeginChange
    <3> QED
      BY <3>1 DEF PInv, LeavingEnds, TypeOK
  <2>3. ASSUME NEW slot \in {"EXTRASLOT", "PARTIALSLOT"}, Take(c, slot, FALSE) PROVE PromisesKept'
    <3>1. /\ stage' = [stage EXCEPT ![c] = "taking"] /\ next' = [next EXCEPT ![c] = slot]
          /\ raced \subseteq raced' /\ notifiedUsers' \subseteq notifiedUsers
          /\ bonus' = bonus /\ slotType' = slotType
      BY <2>3 DEF Take, Goto, BeginChange
    <3>2. Promised' \subseteq Promised
      BY <3>1 DEF Promised, Holders, Pending, PInv, TypeOK
    <3> QED
      BY <3>1, <3>2, NoMorePromises
  <2>4. ASSUME Refuse(c) PROVE LeavingEnds' /\ PromisesKept'
    <3>1. /\ stage' = [stage EXCEPT ![c] = "closing"]
          /\ UNCHANGED <<slotType, next, notifiedUsers, bonus, raced>>
      BY <2>4 DEF Refuse, Goto
    <3>2. LeavingEnds'
      BY <3>1 DEF PInv, LeavingEnds, TypeOK
    <3>3. Promised' \subseteq Promised
      BY <3>1 DEF Promised, Holders, Pending, PInv, TypeOK
    <3> QED
      BY <3>1, <3>2, <3>3, NoMorePromises
  <2> QED
    BY <1>5, <2>1, <2>2, <2>3, <2>4, PrepareFileCases, PromiseTake
<1>6. CASE NotifyQueuedUsers
  <2>1. LeavingEnds'
    BY <1>6 DEF NotifyQueuedUsers, PInv, LeavingEnds
  <2> QED
    BY <1>6, <2>1, PromiseNotify DEF PInv
<1>7. CASE Minute \/ (\E u \in Users : UserDisconnected(u)) \/ UNCHANGED vars
  <2>1. notifiedUsers' \subseteq notifiedUsers /\ UNCHANGED <<stage, slotType, next, bonus, raced>>
    BY <1>7 DEF Minute, UserDisconnected, vars
  <2>2. LeavingEnds' /\ Promised' \subseteq Promised
    BY <2>1 DEF PInv, LeavingEnds, Promised, Holders, Pending
  <2> QED
    BY <2>1, <2>2, NoMorePromises DEF PInv
<1> QED
  BY <1>1, <1>2, <1>3, <1>4, <1>5, <1>6, <1>7 DEF Next, Fail, Passes, PInv

\* Whoever asks, is told to come, comes late or leaves meanwhile: users who were
\* told to come and those who hold standard slots without privilege are never
\* more than there are slots, unless two threads changed the counter at once.
THEOREM NoSlotIsPromisedTwice == Cardinality(Conns) < 256 => (Spec => []SlotsPromisedOnce)
<1> SUFFICES ASSUME Cardinality(Conns) < 256 PROVE Spec => []SlotsPromisedOnce
  OBVIOUS
<1>1. Init => PInv
  <2> SUFFICES ASSUME Init PROVE PInv
    OBVIOUS
  <2>1. Promised = {} /\ notifiedUsers = {} /\ LeavingEnds
    BY DEF Init, Promised, Holders, Pending, LeavingEnds, NOSLOT
  <2>2. PromisesKept
    BY <2>1, FS_EmptySet, SlotAssumption DEF PromisesKept
  <2>3. TypeOK
    BY DEF Init, TypeOK, Zero, Stages
  <2> QED
    BY <2>1, <2>2, <2>3, InitIInv DEF PInv
<1>2. PInv /\ [Next]_vars => PInv'
  BY NextIInv, TypesNext, PromisesNext DEF PInv
<1>3. PInv => SlotsPromisedOnce
  <2> SUFFICES ASSUME PInv, "STDSLOT" \notin raced
               PROVE  Cardinality(notifiedUsers) + Cardinality(Holders("STDSLOT") \ bonus) <= Slots
    BY DEF SlotsPromisedOnce
  <2>1. Holders("STDSLOT") \ bonus \subseteq Promised
    BY DEF Promised
  <2>2. /\ Cardinality(Holders("STDSLOT") \ bonus) \in Nat /\ Cardinality(Promised) \in Nat
        /\ Cardinality(Holders("STDSLOT") \ bonus) <= Cardinality(Promised)
    BY <2>1, PromisedIsFinite, FS_Subset, FS_CardinalityType
  <2>3. Cardinality(notifiedUsers) + Cardinality(Promised) <= Slots /\ Cardinality(notifiedUsers) \in Nat
    BY PromisedIsFinite DEF PInv, PromisesKept
  <2> QED
    BY <2>2, <2>3, SlotAssumption
<1> QED
  BY <1>1, <1>2, <1>3, PTL DEF Spec

-----------------------------------------------------------------------------
(***************************************************************************)
(* The bandwidth limiter                                                   *)
(***************************************************************************)

\* A connection that is past the test of its limit sees a limit of 0 only if it
\* was switched off since.
Tested == \A c \in DOMAIN busy : limit[busy[c].dir] = 0 => c \in switched

\* The strengthening: the tokens are bounded because the budget is kept.
LimiterInv == LimiterTypeOK /\ BudgetKept /\ Tested /\ CutOnlyAtSwitch

-----------------------------------------------------------------------------
(***************************************************************************)
(* Lemmas about shares and tokens                                          *)
(***************************************************************************)

LEMMA ConnsAreCounted == Cardinality(Sockets) \in Nat
  BY FS_CardinalityType, ThrottleAssumption

\* A share of a limit is a number, and 0 only if the limit is.
LEMMA ShareType == \A n \in Nat, k \in Nat \ {0} : n \div k \in Nat
  OBVIOUS

LEMMA ShareIsPositive == \A n \in Nat, k \in Nat \ {0} : k <= n => n \div k >= 1
  OBVIOUS

\* Below the end of a word the subtraction does not wrap.
LEMMA NoWrap == \A w \in Nat, n \in Nat : n < w => n % w = n
  OBVIOUS

\* What a connection may read or write are tokens that are there, and nothing
\* only if its limit is switched off.
LEMMA SizeType ==
    ASSUME LimiterInv, NEW c \in DOMAIN busy
    PROVE  /\ Size(c) \in Nat /\ Size(c) <= tokens[busy[c].dir]
           /\ Size(c) = 0 /\ tokens[busy[c].dir] > 0 => limit[busy[c].dir] = 0
<1> DEFINE d == busy[c].dir
           k == busy[c].transfers
           share == limit[d] \div k
<1>1. d \in Directions /\ k \in 1..Cardinality(Sockets)
  BY DEF LimiterInv, LimiterTypeOK, Transfer
<1>2. k \in Nat \ {0} /\ k <= Cardinality(Sockets)
  BY <1>1, ConnsAreCounted
<1>3. limit[d] \in Nat /\ tokens[d] \in Nat /\ Buffer \in Nat \ {0}
  BY <1>1, ThrottleAssumption DEF LimiterInv, LimiterTypeOK
<1>4. limit[d] # 0 => Cardinality(Sockets) <= limit[d]
  BY <1>1, ThrottleAssumption DEF LimiterInv, LimiterTypeOK
<1>5. share \in Nat
  BY <1>2, <1>3, ShareType
<1>6. limit[d] # 0 => share >= 1
  BY <1>2, <1>3, <1>4, ConnsAreCounted, ShareIsPositive
<1>7. Size(c) = Least(share, Least(Buffer, tokens[d]))
  BY DEF Size
<1> HIDE DEF share, d
<1>8. Size(c) \in Nat /\ Size(c) <= tokens[d] /\ (Size(c) = 0 /\ tokens[d] > 0 => limit[d] = 0)
  BY <1>3, <1>5, <1>6, <1>7 DEF Least
<1> QED
  BY <1>8 DEF d

\* The end of a transfer leaves the others as they are.
LEMMA DoneType ==
    ASSUME LimiterInv, NEW c, Done(c)
    PROVE  /\ DOMAIN busy' = DOMAIN busy \ {c}
           /\ \A e \in DOMAIN busy' : busy'[e] = busy[e] /\ busy'[e] \in Transfer
  BY DEF Done, LimiterInv, LimiterTypeOK

\* The bytes that a read may return.
LEMMA ResultType == \A size \in Nat : \A n \in Result(size) :
                       n \in Int /\ -1 <= n /\ n <= size /\ (n = 0 => size = 0)
  BY DEF Result

-----------------------------------------------------------------------------
(***************************************************************************)
(* The steps                                                               *)
(***************************************************************************)

LEMMA KeepsRead == ASSUME LimiterInv, NEW c \in Sockets, Read(c) PROVE LimiterInv'
<1>1. /\ c \in DOMAIN busy /\ busy[c].dir = "down" /\ tokens["down"] > 0
      /\ Done(c) /\ UNCHANGED <<enabled, limit, filling, granted, switched>>
  BY DEF Read
<1>2. PICK n \in Result(Size(c)) :
         /\ n = -1 => failures < MaxFailures
         /\ tokens' = [tokens EXCEPT !["down"] = (@ - n) % Word]
         /\ used' = [used EXCEPT !["down"] = IF n > 0 THEN @ + n ELSE @]
         /\ failures' = IF n = -1 THEN failures + 1 ELSE failures
         /\ cut' = IF n = 0 THEN cut \cup {c} ELSE cut
  BY DEF Read
<1>3. Size(c) \in Nat /\ Size(c) <= tokens["down"] /\ (Size(c) = 0 => limit["down"] = 0)
  BY <1>1, SizeType
<1>4. n \in Int /\ -1 <= n /\ n <= Size(c) /\ (n = 0 => Size(c) = 0)
  BY <1>3, ResultType
<1>5. /\ tokens["down"] \in Nat /\ used["down"] \in Nat /\ failures \in 0..MaxFailures
      /\ tokens["down"] + used["down"] = granted["down"] + failures
      /\ granted["down"] \in Limits \cup {0} /\ MaxFailures \in Nat /\ Word \in Nat
      /\ tokens["down"] < Word
  BY ThrottleAssumption DEF LimiterInv, LimiterTypeOK, BudgetKept, Directions
<1>6. failures' \in 0..MaxFailures
  BY <1>2, <1>5
<1>7. granted["down"] + MaxFailures < Word /\ granted["down"] \in Nat
  BY <1>5, ThrottleAssumption
<1>8. tokens["down"] - n \in Nat /\ tokens["down"] - n < Word
  BY <1>1, <1>2, <1>3, <1>4, <1>5, <1>7
<1>9. (tokens["down"] - n) % Word = tokens["down"] - n
  BY <1>5, <1>8, NoWrap
<1> DEFINE left == tokens["down"] - n
           more == IF n > 0 THEN used["down"] + n ELSE used["down"]
<1>10. tokens' = [tokens EXCEPT !["down"] = left] /\ used' = [used EXCEPT !["down"] = more]
  BY <1>2, <1>9
<1>11. left \in 0..(Word - 1) /\ more \in Nat
  BY <1>4, <1>5, <1>8
<1>12. left + more = granted["down"] + failures'
  <2>1. failures' = IF n = -1 THEN failures + 1 ELSE failures
    BY <1>2
  <2>2. granted["down"] \in Nat
    BY <1>7
  <2> QED
    BY <1>4, <1>5, <2>1, <2>2
<1>13. n = 0 => c \in switched
  BY <1>1, <1>3, <1>4 DEF LimiterInv, Tested
<1> HIDE DEF left, more
<1>14. LimiterTypeOK'
  <2>1. tokens' \in [Directions -> 0..(Word - 1)] /\ used' \in [Directions -> Nat]
    BY <1>10, <1>11 DEF LimiterInv, LimiterTypeOK
  <2>2. cut' \subseteq Sockets
    BY <1>2 DEF LimiterInv, LimiterTypeOK
  <2> QED
    BY <1>1, <1>6, <2>1, <2>2, DoneType DEF LimiterInv, LimiterTypeOK
<1>15. BudgetKept'
  BY <1>1, <1>10, <1>12 DEF LimiterInv, LimiterTypeOK, BudgetKept, Directions
<1>16. Tested'
  BY <1>1, DoneType DEF LimiterInv, Tested
<1>17. CutOnlyAtSwitch'
  BY <1>1, <1>2, <1>13 DEF LimiterInv, CutOnlyAtSwitch
<1> QED
  BY <1>14, <1>15, <1>16, <1>17 DEF LimiterInv

LEMMA KeepsWrite == ASSUME LimiterInv, NEW c \in Sockets, Write(c) PROVE LimiterInv'
<1>1. /\ c \in DOMAIN busy /\ busy[c].dir = "up" /\ tokens["up"] > 0 /\ Done(c)
      /\ UNCHANGED <<enabled, limit, filling, granted, failures, switched, cut>>
      /\ tokens' = [tokens EXCEPT !["up"] = @ - Size(c)]
      /\ used' = [used EXCEPT !["up"] = @ + Size(c)]
  BY DEF Write, Begun
<1>2. Size(c) \in Nat /\ Size(c) <= tokens["up"]
  BY <1>1, SizeType
<1> HIDE DEF Size
<1> DEFINE left == tokens["up"] - Size(c)
           more == used["up"] + Size(c)
<1>3. left \in 0..(Word - 1) /\ more \in Nat
  BY <1>2, ThrottleAssumption DEF LimiterInv, LimiterTypeOK, Directions
<1>4. tokens' = [tokens EXCEPT !["up"] = left] /\ used' = [used EXCEPT !["up"] = more]
  BY <1>1
<1>5. LimiterTypeOK'
  <2> HIDE DEF left, more
  <2>1. tokens' \in [Directions -> 0..(Word - 1)] /\ used' \in [Directions -> Nat]
    BY <1>3, <1>4 DEF LimiterInv, LimiterTypeOK
  <2> QED
    BY <1>1, <2>1, DoneType DEF LimiterInv, LimiterTypeOK
<1>6. BudgetKept'
  BY <1>1, <1>2 DEF LimiterInv, LimiterTypeOK, BudgetKept, Directions
<1>7. Tested' /\ CutOnlyAtSwitch'
  BY <1>1, DoneType DEF LimiterInv, Tested, CutOnlyAtSwitch
<1> QED
  BY <1>5, <1>6, <1>7 DEF LimiterInv

LEMMA KeepsTimedWait == ASSUME LimiterInv, NEW c \in Sockets, TimedWait(c) PROVE LimiterInv'
<1>1. Done(c) /\ UNCHANGED <<enabled, limit, tokens, filling, granted, used, failures, switched, cut>>
  BY DEF TimedWait, Starved, second
<1>2. LimiterTypeOK'
  BY <1>1, DoneType DEF LimiterInv, LimiterTypeOK
<1> QED
  BY <1>1, <1>2, DoneType DEF LimiterInv, BudgetKept, Tested, CutOnlyAtSwitch

LEMMA KeepsTest == ASSUME LimiterInv, NEW c \in Sockets, NEW d \in Directions, NEW k \in 1..Cardinality(Sockets),
                          Test(c, d, k)
                   PROVE  LimiterInv'
<1> DEFINE transfer == [dir |-> d, transfers |-> k]
<1>1. /\ c \notin DOMAIN busy \cup cut /\ limit[d] # 0
      /\ busy' = [e \in DOMAIN busy \cup {c} |-> IF e = c THEN transfer ELSE busy[e]]
      /\ switched' = switched \ {c}
      /\ UNCHANGED <<enabled, limit, tokens, filling, granted, used, failures, cut>>
  BY DEF Test, second
<1>2. transfer \in Transfer /\ transfer.dir = d
  BY DEF Transfer
<1> HIDE DEF transfer
<1>3. LimiterTypeOK'
  BY <1>1, <1>2 DEF LimiterInv, LimiterTypeOK
<1>4. Tested'
  BY <1>1, <1>2 DEF LimiterInv, Tested
<1> QED
  BY <1>1, <1>3, <1>4 DEF LimiterInv, BudgetKept, CutOnlyAtSwitch

\* The timer: a limit becomes 0 only when the limiter is switched off.
LEMMA KeepsSetLimits == ASSUME LimiterInv, SetLimits PROVE LimiterInv'
<1>1. UNCHANGED <<enabled, tokens, busy, granted, used, failures, cut>>
  BY DEF SetLimits, second
<1>2. /\ limit' \in [Directions -> Limits \cup {0}] /\ filling' \subseteq Directions
      /\ switched' \subseteq Sockets
  BY DEF SetLimits, LimiterInv, LimiterTypeOK
<1>3. LimiterTypeOK'
  BY <1>1, <1>2 DEF LimiterInv, LimiterTypeOK
<1>4. CASE enabled
  <2>1. limit' \in [Directions -> Limits] /\ switched' = switched
    BY <1>4 DEF SetLimits
  <2>2. ASSUME NEW c \in DOMAIN busy PROVE limit'[busy[c].dir] # 0
    <3>1. busy[c].dir \in Directions /\ busy[c].transfers \in 1..Cardinality(Sockets)
      BY DEF LimiterInv, LimiterTypeOK, Transfer
    <3>2. limit'[busy[c].dir] \in Nat /\ Cardinality(Sockets) <= limit'[busy[c].dir]
      BY <2>1, <3>1, ThrottleAssumption
    <3> QED
      BY <3>1, <3>2, ConnsAreCounted
  <2> QED
    BY <1>1, <1>3, <2>1, <2>2 DEF LimiterInv, BudgetKept, Tested, CutOnlyAtSwitch
<1>5. CASE ~enabled
  <2>1. switched' = switched \cup DOMAIN busy
    BY <1>5 DEF SetLimits
  <2> QED
    BY <1>1, <1>3, <2>1 DEF LimiterInv, BudgetKept, Tested, CutOnlyAtSwitch
<1> QED
  BY <1>4, <1>5

LEMMA KeepsAlternative == ASSUME LimiterInv, Alternative PROVE LimiterInv'
<1>1. /\ limit' \in [Directions -> Limits]
      /\ UNCHANGED <<enabled, tokens, filling, busy, granted, used, failures, switched, cut>>
  BY DEF Alternative, second
<1>2. LimiterTypeOK'
  BY <1>1 DEF LimiterInv, LimiterTypeOK
<1>3. ASSUME NEW c \in DOMAIN busy PROVE limit'[busy[c].dir] # 0
  <2>1. busy[c].dir \in Directions /\ busy[c].transfers \in 1..Cardinality(Sockets)
    BY DEF LimiterInv, LimiterTypeOK, Transfer
  <2>2. limit'[busy[c].dir] \in Nat /\ Cardinality(Sockets) <= limit'[busy[c].dir]
    BY <1>1, <2>1, ThrottleAssumption
  <2> QED
    BY <2>1, <2>2, ConnsAreCounted
<1> QED
  BY <1>1, <1>2, <1>3 DEF LimiterInv, BudgetKept, Tested, CutOnlyAtSwitch

LEMMA KeepsFill == ASSUME LimiterInv, NEW d \in Directions, Fill(d) PROVE LimiterInv'
<1>1. /\ filling' = filling \ {d}
      /\ tokens' = [tokens EXCEPT ![d] = limit[d]]
      /\ granted' = [granted EXCEPT ![d] = limit[d]]
      /\ used' = [used EXCEPT ![d] = 0]
      /\ failures' = IF d = "down" THEN 0 ELSE failures
      /\ UNCHANGED <<enabled, limit, busy, switched, cut>>
  BY DEF Fill, Filled
<1>2. limit[d] \in Limits \cup {0} /\ limit[d] \in 0..(Word - 1)
  BY ThrottleAssumption DEF LimiterInv, LimiterTypeOK
<1>3. LimiterTypeOK'
  BY <1>1, <1>2, ThrottleAssumption DEF LimiterInv, LimiterTypeOK, Directions
<1>4. BudgetKept'
  BY <1>1, <1>2, ThrottleAssumption DEF LimiterInv, LimiterTypeOK, BudgetKept, Directions
<1> QED
  BY <1>1, <1>3, <1>4 DEF LimiterInv, Tested, CutOnlyAtSwitch

-----------------------------------------------------------------------------
(***************************************************************************)
(* Conclusions                                                             *)
(***************************************************************************)

LEMMA LimiterInitInv == ASSUME LimiterInit PROVE LimiterInv
<1>1. DOMAIN busy = {}
  BY DEF LimiterInit
<1> QED
  BY <1>1, ThrottleAssumption DEF LimiterInit, LimiterInv, LimiterTypeOK, BudgetKept, Tested,
     CutOnlyAtSwitch, Directions

LEMMA LimiterNextInv == ASSUME LimiterInv, [LimiterNext]_limiterVars PROVE LimiterInv'
<1>1. CASE Change \/ UNCHANGED limiterVars
  <2>1. /\ enabled' \in BOOLEAN
        /\ UNCHANGED <<limit, tokens, filling, busy, granted, used, failures, switched, cut>>
    BY <1>1 DEF Change, limiterVars, second, LimiterInv, LimiterTypeOK
  <2> QED
    BY <2>1 DEF LimiterInv, LimiterTypeOK, BudgetKept, Tested, CutOnlyAtSwitch
<1>2. CASE SetLimits
  BY <1>2, KeepsSetLimits
<1>3. CASE Alternative
  BY <1>3, KeepsAlternative
<1>4. ASSUME NEW d \in Directions, Fill(d) PROVE LimiterInv'
  BY <1>4, KeepsFill
<1>5. ASSUME NEW c \in Sockets, NEW d \in Directions, NEW k \in 1..Cardinality(Sockets), Test(c, d, k)
      PROVE  LimiterInv'
  BY <1>5, KeepsTest
<1>6. ASSUME NEW c \in Sockets, Read(c) \/ Write(c) \/ TimedWait(c) PROVE LimiterInv'
  BY <1>6, KeepsRead, KeepsWrite, KeepsTimedWait
<1> QED
  BY <1>1, <1>2, <1>3, <1>4, <1>5, <1>6 DEF LimiterNext

\* The strengthening of the three properties is an invariant.
THEOREM LimiterInvariance == LimiterSpec => []LimiterInv
<1>1. LimiterInit => LimiterInv
  BY LimiterInitInv
<1>2. LimiterInv /\ [LimiterNext]_limiterVars => LimiterInv'
  BY LimiterNextInv
<1> QED
  BY <1>1, <1>2, PTL DEF LimiterSpec

\* The limits, the tokens and the transfers keep their types; no number of
\* tokens is taken for a huge one, although a failed read subtracts -1.
THEOREM LimiterTypeCorrect == LimiterSpec => []LimiterTypeOK
<1>1. LimiterInv => LimiterTypeOK
  BY DEF LimiterInv
<1> QED
  BY <1>1, LimiterInvariance, PTL

\* No second uses more than its tokens, for any number of connections and any limits.
THEOREM BudgetIsKept == LimiterSpec => []BudgetKept
<1>1. LimiterInv => BudgetKept
  BY DEF LimiterInv
<1> QED
  BY <1>1, LimiterInvariance, PTL

\* A connection is taken for closed only if the limiter was switched off between
\* the test of its limit and its share.
THEOREM CutsOnlyAtSwitch == LimiterSpec => []CutOnlyAtSwitch
<1>1. LimiterInv => CutOnlyAtSwitch
  BY DEF LimiterInv
<1> QED
  BY <1>1, LimiterInvariance, PTL

=============================================================================
