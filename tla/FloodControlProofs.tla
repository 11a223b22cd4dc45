------------------------- MODULE FloodControlProofs -------------------------
(***************************************************************************)
(* Proofs about what arrives from the network.  FloodControl, for any      *)
(* threads, addresses and commands: the types, the limits per minute, that *)
(* a request licenses one response, and when it is forgotten too early.    *)
(* FirewallCheck, for any nodes, liars, ports and lies: the types, and     *)
(* that one wrong answer of three is outvoted.                             *)
(***************************************************************************)
EXTENDS FloodControl, FirewallCheck, ListsProofs, SequenceTheorems

-----------------------------------------------------------------------------
(***************************************************************************)
(* Lemmas about the operators                                              *)
(***************************************************************************)

\* The limits are natural numbers.
LEMMA LimitType == \A c \in Requests : maxAllowedPacketsPerMinute(c) \in Nat
  BY DEF maxAllowedPacketsPerMinute

\* A counter that is incremented stays a counter.
LEMMA IncType ==
  ASSUME NEW f \in Counts, NEW a \in IPs, NEW c \in Requests
  PROVE  /\ Inc(f, a, c) \in Counts
         /\ \A b \in IPs, d \in Requests :
               Inc(f, a, c)[b][d] = IF a = b /\ c = d THEN f[b][d] + 1 ELSE f[b][d]
  BY DEF Inc, Counts

\* Counters start as counters.
LEMMA NoCountsType == NoCounts \in Counts /\ \A a \in IPs, c \in Requests : NoCounts[a][c] = 0
  BY DEF NoCounts, Counts

\* A difference that is smaller than the modulus is not wrapped.
LEMMA NoWrap == \A w \in Nat, n \in Nat : n < w => n % w = n
  OBVIOUS

\* The clean-up leaves the end of the list, from some position on.
LEMMA CleanUpIsSuffix ==
  ASSUME NEW s \in Seq(OutPacket), NEW now
  PROVE  \E n \in 0..Len(s) : CleanUp(s, now) = SubSeq(s, n + 1, Len(s))
<1> DEFINE young == {i \in 1..Len(s) : diff(now, s[i]) < TIME_FOR_RESPONSE}
<1> DEFINE first == SelectInSeq(s, LAMBDA p : diff(now, p) < TIME_FOR_RESPONSE)
<1>a. first = IF young # {} THEN Min(young) ELSE 0
  BY DEF SelectInSeq
<1>b. CleanUp(s, now) = IF first = 0 THEN <<>> ELSE SubSeq(s, first, Len(s))
  BY DEF CleanUp
<1>c. young \in SUBSET Nat /\ young \subseteq 1..Len(s)
  OBVIOUS
<1> HIDE DEF young, first
<1>1. CASE young = {}
  <2>1. CleanUp(s, now) = <<>>
    BY <1>a, <1>b, <1>1
  <2>2. SubSeq(s, Len(s) + 1, Len(s)) = <<>>
    OBVIOUS
  <2> QED BY <2>1, <2>2
<1>2. CASE young # {}
  <2>1. Min(young) \in 1..Len(s)
    BY <1>c, <1>2, MinIsLeast
  <2>2. CleanUp(s, now) = SubSeq(s, Min(young), Len(s))
    BY <1>a, <1>b, <1>2, <2>1
  <2>3. Min(young) - 1 \in 0..Len(s) /\ Min(young) = (Min(young) - 1) + 1
    BY <2>1
  <2> QED BY <2>2, <2>3
<1> QED BY <1>1, <1>2

\* The request that a response answers is in the list.
LEMMA MatchInList ==
  ASSUME NEW a, NEW c, sentPackets \in Seq(OutPacket), Match(a, c) # 0
  PROVE  /\ Match(a, c) \in 1..Len(sentPackets)
         /\ sentPackets[Match(a, c)].ip = a
         /\ sentPackets[Match(a, c)].cmd = requestCmd(c)
<1> DEFINE fits == {i \in 1..Len(sentPackets) : /\ sentPackets[i].cmd = requestCmd(c)
                                                /\ sentPackets[i].ip = a}
<1>1. Match(a, c) = IF fits # {} THEN Min(fits) ELSE 0
  BY DEF Match, SelectInSeq
<1>2. fits # {} /\ fits \in SUBSET Nat
  BY <1>1
<1>3. Min(fits) \in fits
  <2> HIDE DEF fits
  <2> QED BY <1>2, MinIsLeast
<1> QED BY <1>1, <1>2, <1>3

-----------------------------------------------------------------------------
(***************************************************************************)
(* Types                                                                   *)
(***************************************************************************)

\* Every step keeps the types.
LEMMA TypeStep ==
  ASSUME TypeOK, [Next]_vars
  PROVE  TypeOK'
<1>1. CASE Tick
  <2>1. tick' \in 0..MaxTick
    BY <1>1, FloodAssumption DEF Tick, TypeOK
  <2> QED BY <1>1, <2>1 DEF Tick, TypeOK
<1>2. ASSUME NEW t \in Threads, NEW a \in IPs, NEW c \in SentCmds, ReadTick(t, a, c)
      PROVE  TypeOK'
  <2> DEFINE new == [ip |-> a, time |-> tick, cmd |-> c]
  <2>1. new \in OutPacket
    BY FloodAssumption DEF TypeOK, OutPacket
  <2>2. sending' = [sending EXCEPT ![t] = {new}]
    BY <1>2 DEF ReadTick
  <2> HIDE DEF new
  <2>3. sending' \in [Threads -> SUBSET OutPacket]
    BY <2>1, <2>2 DEF TypeOK
  <2> QED BY <1>2, <2>3 DEF ReadTick, TypeOK
<1>3. ASSUME NEW t \in Threads, TrackOutgoingPacket(t)
      PROVE  TypeOK'
  <2>1. PICK p \in sending[t] : TrackOutgoingPacket(t)!(p)
    BY <1>3 DEF TrackOutgoingPacket
  <2>2. p \in OutPacket
    BY DEF TypeOK
  <2> DEFINE s == IF p.cmd \in Tracked THEN Append(sentPackets, p) ELSE sentPackets
  <2>3. s \in Seq(OutPacket)
    BY <2>2 DEF TypeOK
  <2>4. sentPackets' = CleanUp(s, p.time)
    BY <2>1
  <2> HIDE DEF s
  <2>5. PICK n \in 0..Len(s) : sentPackets' = SubSeq(s, n + 1, Len(s))
    BY <2>3, <2>4, CleanUpIsSuffix
  <2>6. sentPackets' \in Seq(OutPacket)
    BY <2>3, <2>5
  <2>7. tracked' \in Counts
    BY <2>1, <2>2, IncType DEF TypeOK, OutPacket, Requests
  <2>8. sending' \in [Threads -> SUBSET OutPacket]
    BY <2>1 DEF TypeOK, Idle
  <2> QED BY <2>1, <2>6, <2>7, <2>8 DEF TypeOK
<1>4. ASSUME NEW a \in IPs, NEW c \in ReceivedCmds, AcceptResponse(a, c)
      PROVE  TypeOK'
  <2>1. sentPackets' \in Seq(OutPacket)
    BY <1>4, MatchInList, RemoveAtProps DEF AcceptResponse, TypeOK
  <2>2. requestCmd(c) \in Requests
    BY DEF requestCmd, Requests, Tracked
  <2>3. answered' \in Counts
    BY <1>4, <2>2, IncType DEF AcceptResponse, TypeOK
  <2> QED BY <1>4, <2>1, <2>3 DEF AcceptResponse, TypeOK
<1>5. ASSUME NEW a \in IPs, NEW c \in ReceivedCmds, CountRequest(a, c)
      PROVE  TypeOK'
  <2>1. receivedPackets' \in Counts /\ passed' \in Counts
    BY <1>5, IncType DEF CountRequest, TypeOK
  <2> QED BY <1>5, <2>1 DEF CountRequest, TypeOK
<1>6. CASE CleanFlood
  BY <1>6, NoCountsType DEF CleanFlood, TypeOK
<1>7. CASE UNCHANGED vars
  BY <1>7 DEF vars, TypeOK
<1> QED BY <1>1, <1>2, <1>3, <1>4, <1>5, <1>6, <1>7 DEF Next, CheckFlood

\* The lists of packets and the counters have their types at any time, with
\* any number of threads and addresses.
THEOREM TypeCorrect == Spec => []TypeOK
<1>1. Init => TypeOK
  BY FloodAssumption, NoCountsType DEF Init, TypeOK, Idle
<1> QED BY <1>1, TypeStep, PTL DEF Spec

-----------------------------------------------------------------------------
(***************************************************************************)
(* The limits                                                              *)
(***************************************************************************)

\* The two counters behind the limits, which is all that LimitIsExact needs.
LimitInv ==
    /\ receivedPackets \in Counts
    /\ passed \in Counts
    /\ LimitIsExact

\* Counting one request keeps the limits exact.
LEMMA CountStep ==
  ASSUME LimitInv, NEW a \in IPs, NEW c \in ReceivedCmds, CountRequest(a, c)
  PROVE  LimitInv'
<1> DEFINE limit == maxAllowedPacketsPerMinute(c)
<1>1. c \in Requests /\ limit \in Nat
  BY LimitType DEF CountRequest
<1>2. /\ receivedPackets \in Counts /\ passed \in Counts
      /\ \A b \in IPs, d \in Requests : receivedPackets[b][d] \in Nat /\ passed[b][d] \in Nat
  BY DEF LimitInv, Counts
<1>3. /\ receivedPackets' \in Counts
      /\ \A b \in IPs, d \in Requests :
            receivedPackets'[b][d] = IF a = b /\ c = d THEN receivedPackets[b][d] + 1
                                     ELSE receivedPackets[b][d]
  BY <1>1, <1>2, IncType DEF CountRequest
<1>4. receivedPackets'[a][c] = receivedPackets[a][c] + 1
  BY <1>1, <1>3
<1>5. CASE receivedPackets[a][c] + 1 > limit
  <2>1. passed' = passed
    BY <1>4, <1>5 DEF CountRequest
  <2>2. passed[a][c] = limit
    BY <1>1, <1>2, <1>5 DEF LimitInv, LimitIsExact
  <2> QED BY <1>1, <1>2, <1>3, <1>5, <2>1, <2>2 DEF LimitInv, LimitIsExact
<1>6. CASE ~(receivedPackets[a][c] + 1 > limit)
  <2>1. passed' = Inc(passed, a, c)
    BY <1>4, <1>6 DEF CountRequest
  <2>2. /\ passed' \in Counts
        /\ \A b \in IPs, d \in Requests :
              passed'[b][d] = IF a = b /\ c = d THEN passed[b][d] + 1 ELSE passed[b][d]
    BY <1>1, <1>2, <2>1, IncType
  <2>3. passed[a][c] = receivedPackets[a][c]
    BY <1>1, <1>2, <1>6 DEF LimitInv, LimitIsExact
  <2> QED BY <1>1, <1>2, <1>3, <1>6, <2>2, <2>3 DEF LimitInv, LimitIsExact
<1> QED BY <1>5, <1>6

\* From any address exactly the allowed number of requests passes in a minute,
\* whatever other addresses send and whenever cleanFlood runs.
THEOREM LimitsAreExact == Spec => []LimitIsExact
<1>1. Init => LimitInv
  BY LimitType, NoCountsType DEF Init, LimitInv, LimitIsExact
<1>2. LimitInv /\ [Next]_vars => LimitInv'
  <2> SUFFICES ASSUME LimitInv, [Next]_vars PROVE LimitInv'
    OBVIOUS
  <2>1. CASE CleanFlood
    BY <2>1, LimitType, NoCountsType DEF CleanFlood, LimitInv, LimitIsExact
  <2>2. CASE UNCHANGED <<receivedPackets, passed>>
    BY <2>2 DEF LimitInv, LimitIsExact
  <2> QED BY <2>1, <2>2, CountStep
          DEF Next, vars, CheckFlood, Tick, ReadTick, TrackOutgoingPacket, AcceptResponse
<1>3. LimitInv => LimitIsExact
  BY DEF LimitInv
<1> QED BY <1>1, <1>2, <1>3, PTL DEF Spec

-----------------------------------------------------------------------------
(***************************************************************************)
(* One request, one response                                               *)
(***************************************************************************)

\* Where a list has requests of a kind to an address.
Positions(s, a, c) == {i \in 1..Len(s) : s[i].ip = a /\ s[i].cmd = c}

\* There are finitely many.
LEMMA PositionsFinite ==
  ASSUME NEW s \in Seq(OutPacket), NEW a, NEW c
  PROVE  IsFiniteSet(Positions(s, a, c)) /\ Cardinality(Positions(s, a, c)) \in Nat
<1>1. Positions(s, a, c) \in SUBSET (1..Len(s)) /\ IsFiniteSet(1..Len(s))
  BY FS_Interval DEF Positions
<1> QED BY <1>1, FS_Subset, FS_CardinalityType

\* The end of a list has no more requests than the list.
LEMMA SuffixPositions ==
  ASSUME NEW s \in Seq(OutPacket), NEW n \in 0..Len(s), NEW a, NEW c
  PROVE  Cardinality(Positions(SubSeq(s, n + 1, Len(s)), a, c)) <= Cardinality(Positions(s, a, c))
<1> DEFINE r == SubSeq(s, n + 1, Len(s))
           f == [i \in Positions(r, a, c) |-> i + n]
<1>1. Len(r) = Len(s) - n /\ \A i \in 1..Len(r) : r[i] = s[i + n]
  OBVIOUS
<1>2. \A i \in Positions(r, a, c) : i \in Nat /\ i + n \in Positions(s, a, c)
  BY <1>1 DEF Positions
<1>3. f \in Injection(Positions(r, a, c), Positions(s, a, c))
  BY <1>2 DEF Injection, IsInjective
<1> QED BY <1>3, PositionsFinite, FS_Injection

\* A new request adds one position of its kind.
LEMMA AppendPositions ==
  ASSUME NEW s \in Seq(OutPacket), NEW p \in OutPacket, NEW a, NEW c
  PROVE  Cardinality(Positions(Append(s, p), a, c)) =
            Cardinality(Positions(s, a, c)) + (IF p.ip = a /\ p.cmd = c THEN 1 ELSE 0)
<1>1. /\ Len(Append(s, p)) = Len(s) + 1
      /\ \A i \in 1..Len(s) : Append(s, p)[i] = s[i]
      /\ Append(s, p)[Len(s) + 1] = p
  OBVIOUS
<1>2. Len(s) \in Nat /\ Len(s) + 1 \notin Positions(s, a, c)
  BY DEF Positions
<1>3. CASE p.ip = a /\ p.cmd = c
  <2>1. Positions(Append(s, p), a, c) = Positions(s, a, c) \cup {Len(s) + 1}
    BY <1>1, <1>2, <1>3 DEF Positions
  <2>2. Cardinality(Positions(s, a, c) \cup {Len(s) + 1}) = Cardinality(Positions(s, a, c)) + 1
    BY <1>2, PositionsFinite, FS_AddElement
  <2> QED BY <1>3, <2>1, <2>2
<1>4. CASE ~(p.ip = a /\ p.cmd = c)
  <2>1. Positions(Append(s, p), a, c) = Positions(s, a, c)
    BY <1>1, <1>2, <1>4 DEF Positions
  <2> QED BY <1>4, <2>1, PositionsFinite
<1> QED BY <1>3, <1>4

\* Removing a request removes its position, and shifts the later ones.
LEMMA RemovePositions ==
  ASSUME NEW s \in Seq(OutPacket), NEW i \in 1..Len(s), NEW a, NEW c
  PROVE  Cardinality(Positions(RemoveAt(s, i), a, c)) <=
            Cardinality(Positions(s, a, c)) - (IF s[i].ip = a /\ s[i].cmd = c THEN 1 ELSE 0)
<1> DEFINE r == RemoveAt(s, i)
           S == Positions(s, a, c) \ {i}
           f == [j \in Positions(r, a, c) |-> IF j < i THEN j ELSE j + 1]
<1>1. /\ r \in Seq(OutPacket) /\ Len(r) = Len(s) - 1
      /\ \A j \in 1..(Len(s) - 1) : r[j] = IF j < i THEN s[j] ELSE s[j + 1]
  BY RemoveAtProps
<1>2. \A j \in Positions(r, a, c) : j \in Nat /\ (IF j < i THEN j ELSE j + 1) \in S
  BY <1>1 DEF Positions
<1>3. f \in Injection(Positions(r, a, c), S)
  BY <1>2 DEF Injection, IsInjective
<1>4. /\ IsFiniteSet(S)
      /\ Cardinality(S) = Cardinality(Positions(s, a, c)) - (IF i \in Positions(s, a, c) THEN 1 ELSE 0)
  BY PositionsFinite, FS_RemoveElement
<1>5. i \in Positions(s, a, c) <=> s[i].ip = a /\ s[i].cmd = c
  BY DEF Positions
<1>6. Cardinality(Positions(r, a, c)) <= Cardinality(S)
  BY <1>3, <1>4, FS_Injection
<1> QED BY <1>4, <1>5, <1>6

\* A request licenses one response; what is sent, kept or forgotten never
\* gains a second one.
AnswerInv == TypeOK /\ AnsweredAtMostOnce

\* The requests that wait, by their positions.
LEMMA WaitingForPositions ==
  \A a, c : WaitingFor(a, c) = Positions(sentPackets, a, c)
  BY DEF WaitingFor, Positions

\* Tracking a request, and cleaning up with any tick, keeps the balance.
LEMMA TrackStep ==
  ASSUME AnswerInv, NEW t \in Threads, TrackOutgoingPacket(t)
  PROVE  AnsweredAtMostOnce'
<1>1. PICK p \in sending[t] : TrackOutgoingPacket(t)!(p)
  BY DEF TrackOutgoingPacket
<1>2. p \in OutPacket /\ sentPackets \in Seq(OutPacket) /\ tracked \in Counts /\ answered \in Counts
  BY DEF AnswerInv, TypeOK
<1> DEFINE s == IF p.cmd \in Tracked THEN Append(sentPackets, p) ELSE sentPackets
<1>3. s \in Seq(OutPacket) /\ sentPackets' = CleanUp(s, p.time)
  BY <1>1, <1>2
<1> SUFFICES ASSUME NEW a \in IPs, NEW c \in Requests
             PROVE  answered[a][c] + Cardinality(Positions(sentPackets', a, c)) <= tracked'[a][c]
  BY <1>1, WaitingForPositions DEF AnsweredAtMostOnce, WaitingFor, Positions
<1> DEFINE before == Cardinality(Positions(sentPackets, a, c))
           between == Cardinality(Positions(s, a, c))
           after == Cardinality(Positions(sentPackets', a, c))
<1>4. before \in Nat /\ between \in Nat
  BY <1>2, <1>3, PositionsFinite
<1>5. after <= between /\ after \in Nat
  <2> HIDE DEF s
  <2>1. PICK n \in 0..Len(s) : sentPackets' = SubSeq(s, n + 1, Len(s))
    BY <1>3, CleanUpIsSuffix
  <2>2. sentPackets' \in Seq(OutPacket)
    BY <1>3, <2>1
  <2> QED BY <1>3, <2>1, <2>2, SuffixPositions, PositionsFinite
<1>6. /\ answered[a][c] \in Nat /\ tracked[a][c] \in Nat
      /\ answered[a][c] + before <= tracked[a][c]
  BY <1>2, WaitingForPositions DEF AnswerInv, AnsweredAtMostOnce, Counts
<1>7. CASE p.cmd \in Tracked
  <2>1. between = before + (IF p.ip = a /\ p.cmd = c THEN 1 ELSE 0)
    BY <1>2, <1>7, AppendPositions
  <2>2. p.ip \in IPs /\ p.cmd \in Requests
    BY <1>2, <1>7 DEF OutPacket, Requests
  <2>3. tracked'[a][c] = IF p.ip = a /\ p.cmd = c THEN tracked[a][c] + 1 ELSE tracked[a][c]
    BY <1>1, <1>2, <1>7, <2>2, IncType
  <2> HIDE DEF before, between, after
  <2>4. answered[a][c] + after <= tracked'[a][c]
    BY <1>4, <1>5, <1>6, <2>1, <2>3
  <2> QED BY <2>4 DEF after
<1>8. CASE p.cmd \notin Tracked
  <2>1. between = before /\ tracked' = tracked
    BY <1>1, <1>8
  <2> HIDE DEF before, between, after
  <2>2. answered[a][c] + after <= tracked[a][c]
    BY <1>4, <1>5, <1>6, <2>1
  <2> QED BY <2>1, <2>2 DEF after
<1> QED BY <1>7, <1>8

\* A response that is let through uses up its request.
LEMMA AcceptStep ==
  ASSUME AnswerInv, NEW b \in IPs, NEW d \in ReceivedCmds, AcceptResponse(b, d)
  PROVE  AnsweredAtMostOnce'
<1> DEFINE i == Match(b, d)
           q == requestCmd(d)
<1>1. sentPackets \in Seq(OutPacket) /\ tracked \in Counts /\ answered \in Counts
  BY DEF AnswerInv, TypeOK
<1>2. i \in 1..Len(sentPackets) /\ sentPackets[i].ip = b /\ sentPackets[i].cmd = q
  BY <1>1, MatchInList DEF AcceptResponse
<1>3. q \in Requests
  BY DEF requestCmd, Requests, Tracked
<1>4. sentPackets' = RemoveAt(sentPackets, i) /\ tracked' = tracked
  BY DEF AcceptResponse
<1>5. \A a \in IPs, c \in Requests :
         answered'[a][c] = IF b = a /\ q = c THEN answered[a][c] + 1 ELSE answered[a][c]
  BY <1>1, <1>3, IncType DEF AcceptResponse
<1> SUFFICES ASSUME NEW a \in IPs, NEW c \in Requests
             PROVE  answered'[a][c] + Cardinality(Positions(sentPackets', a, c)) <= tracked[a][c]
  BY <1>4 DEF AnsweredAtMostOnce, WaitingFor, Positions
<1> DEFINE before == Cardinality(Positions(sentPackets, a, c))
           after == Cardinality(Positions(sentPackets', a, c))
<1> HIDE DEF i, q
<1>6. before \in Nat /\ after \in Nat
  BY <1>1, <1>2, <1>4, RemoveAtProps, PositionsFinite
<1>7. after <= before - (IF b = a /\ q = c THEN 1 ELSE 0)
  BY <1>1, <1>2, <1>4, RemovePositions
<1>8. /\ answered[a][c] \in Nat /\ tracked[a][c] \in Nat
      /\ answered[a][c] + before <= tracked[a][c]
  BY <1>1, WaitingForPositions DEF AnswerInv, AnsweredAtMostOnce, Counts
<1> HIDE DEF before, after
<1>9. answered'[a][c] + after <= tracked[a][c]
  BY <1>5, <1>6, <1>7, <1>8
<1> QED BY <1>9 DEF after

\* For any number of threads, addresses and packets, lost, late and repeated
\* responses included, checkFlood lets at most one response per request through.
THEOREM AnswersAreLicensed == Spec => []AnsweredAtMostOnce
<1>1. Init => AnswerInv
  <2> SUFFICES ASSUME Init PROVE AnswerInv
    OBVIOUS
  <2>1. \A a, c : WaitingFor(a, c) = {}
    BY DEF Init, WaitingFor
  <2>2. TypeOK
    BY FloodAssumption, NoCountsType DEF Init, TypeOK, Idle
  <2>3. \A a \in IPs, c \in Requests :
           answered[a][c] = 0 /\ tracked[a][c] = 0 /\ Cardinality(WaitingFor(a, c)) = 0
    BY <2>1, NoCountsType, FS_EmptySet DEF Init
  <2> QED BY <2>2, <2>3 DEF AnswerInv, AnsweredAtMostOnce
<1>2. AnswerInv /\ [Next]_vars => AnswerInv'
  <2> SUFFICES ASSUME AnswerInv, [Next]_vars PROVE AnsweredAtMostOnce'
    BY TypeStep DEF AnswerInv
  <2>1. CASE UNCHANGED <<sentPackets, tracked, answered>>
    BY <2>1 DEF AnswerInv, AnsweredAtMostOnce, WaitingFor
  <2> QED BY <2>1, TrackStep, AcceptStep
          DEF Next, vars, CheckFlood, Tick, ReadTick, CountRequest, CleanFlood
<1>3. AnswerInv => AnsweredAtMostOnce
  BY DEF AnswerInv
<1> QED BY <1>1, <1>2, <1>3, PTL DEF Spec
-----------------------------------------------------------------------------
(***************************************************************************)
(* What is forgotten                                                       *)
(***************************************************************************)

\* A thread tracks one packet at a time, and no packet is from the future.
ForgetInv ==
    /\ TypeOK
    /\ \A t \in Threads : \A p, q \in sending[t] : p = q
    /\ \A t \in Threads : \A p \in sending[t] : p.time <= tick
    /\ \A i \in 1..Len(sentPackets) : sentPackets[i].time <= tick

\* The clean-up drops no packet whose response is still wanted.
LEMMA CleanUpDropsOld ==
  ASSUME NEW s \in Seq(OutPacket), NEW now, NEW i \in 1..Len(s), diff(now, s[i]) < TIME_FOR_RESPONSE
  PROVE  s[i] \in Range(CleanUp(s, now))
<1> DEFINE young == {j \in 1..Len(s) : diff(now, s[j]) < TIME_FOR_RESPONSE}
           first == SelectInSeq(s, LAMBDA p : diff(now, p) < TIME_FOR_RESPONSE)
<1>1. first = IF young # {} THEN Min(young) ELSE 0
  BY DEF SelectInSeq
<1>2. CleanUp(s, now) = IF first = 0 THEN <<>> ELSE SubSeq(s, first, Len(s))
  BY DEF CleanUp
<1>3. i \in young /\ young \in SUBSET Nat /\ young \subseteq 1..Len(s)
  OBVIOUS
<1> HIDE DEF young, first
<1>4. first \in 1..Len(s)
  BY <1>1, <1>3, MinIsLeast
<1>5. first <= i
  <2>1. \A y \in young : Min(young) <= y
    BY <1>3, MinIsLeast
  <2> QED BY <1>1, <1>3, <2>1
<1> DEFINE r == SubSeq(s, first, Len(s))
<1>6. CleanUp(s, now) = r
  BY <1>2, <1>4
<1>7. i - first + 1 \in DOMAIN r /\ r[i - first + 1] = s[i]
  BY <1>4, <1>5
<1> HIDE DEF r
<1> QED BY <1>6, <1>7 DEF Range

\* Only trackOutgoingPacket forgets a request without a response.
LEMMA TrackForgets ==
  ASSUME ForgetInv, NEW t \in Threads, TrackOutgoingPacket(t), NEW p \in Waiting, p \notin Waiting'
  PROVE  Stale(p) \/ \E q \in sending[t] : sending'[t] = Idle /\ q.time < p.time
<1>1. PICK q \in sending[t] : TrackOutgoingPacket(t)!(q)
  BY DEF TrackOutgoingPacket
<1>2. /\ sentPackets \in Seq(OutPacket) /\ sending \in [Threads -> SUBSET OutPacket]
      /\ tick \in Nat /\ q \in OutPacket
  BY FloodAssumption DEF ForgetInv, TypeOK
<1> DEFINE s == IF q.cmd \in Tracked THEN Append(sentPackets, q) ELSE sentPackets
<1>3. s \in Seq(OutPacket) /\ sentPackets' = CleanUp(s, q.time)
  BY <1>1, <1>2
<1>4. p.cmd \in Tracked /\ p \notin Range(sentPackets')
      /\ \A u \in Threads : p \notin sending'[u]
  BY DEF Waiting
<1>5. PICK i \in 1..Len(s) : s[i] = p
  <2>1. CASE p \in Range(sentPackets)
    <3>1. PICK i \in 1..Len(sentPackets) : sentPackets[i] = p
      BY <1>2, <2>1 DEF Range
    <3> QED BY <1>2, <3>1
  <2>2. CASE \E u \in Threads : p \in sending[u]
    <3>1. PICK u \in Threads : p \in sending[u]
      BY <2>2
    <3>2. u = t
      BY <1>1, <1>2, <1>4, <3>1
    <3>3. p = q
      BY <3>1, <3>2 DEF ForgetInv
    <3> QED BY <1>2, <1>4, <3>3
  <2> QED BY <2>1, <2>2 DEF Waiting
<1>6. ~(diff(q.time, p) < TIME_FOR_RESPONSE)
  <2> HIDE DEF s
  <2> QED BY <1>3, <1>4, <1>5, CleanUpDropsOld
<1>7. sending'[t] = Idle
  BY <1>1, <1>2
<1>8. /\ p.time \in 0..MaxTick /\ q.time \in 0..MaxTick /\ q.time <= tick
      /\ MaxTick \in Nat /\ TIME_FOR_RESPONSE \in Nat /\ TickModulus \in Nat /\ MaxTick < TickModulus
  <2>1. p \in OutPacket
    BY <1>3, <1>5
  <2> QED BY <1>2, <2>1, FloodAssumption DEF ForgetInv, OutPacket
<1>9. CASE ~(q.time < p.time)
  <2>1. q.time - p.time \in 0..MaxTick
    BY <1>8, <1>9
  <2>2. diff(q.time, p) = q.time - p.time
    BY <1>8, <2>1, NoWrap DEF diff
  <2>3. tick - p.time >= TIME_FOR_RESPONSE
    BY <1>2, <1>6, <1>8, <2>2
  <2> QED BY <2>3 DEF Stale
<1> QED BY <1>7, <1>9

\* The strengthening is inductive.
LEMMA ForgetStep ==
  ASSUME ForgetInv, [Next]_vars
  PROVE  ForgetInv'
<1>0. TypeOK' /\ TypeOK /\ tick \in Nat
  BY TypeStep, FloodAssumption DEF ForgetInv, TypeOK
<1>1. CASE Tick
  <2>1. /\ \A t \in Threads : sending'[t] = sending[t] /\ \A p \in sending[t] : p.time <= tick + 1
        /\ \A i \in 1..Len(sentPackets) : sentPackets[i].time <= tick + 1
    <3>1. \A n \in Nat : n <= tick => n <= tick + 1
      BY <1>0
    <3>2. \A t \in Threads : \A p \in sending[t] : p.time \in Nat
      BY <1>0, FloodAssumption DEF TypeOK, OutPacket
    <3>3. \A i \in 1..Len(sentPackets) : sentPackets[i].time \in Nat
      <4>1. \A i \in 1..Len(sentPackets) : sentPackets[i] \in OutPacket
        BY <1>0 DEF TypeOK
      <4> QED BY <4>1, FloodAssumption DEF OutPacket
    <3> QED BY <1>1, <3>1, <3>2, <3>3 DEF ForgetInv, Tick
  <2> QED BY <1>0, <1>1, <2>1 DEF ForgetInv, Tick
<1>2. ASSUME NEW t \in Threads, NEW a \in IPs, NEW c \in SentCmds, ReadTick(t, a, c)
      PROVE  ForgetInv'
  <2> DEFINE new == [ip |-> a, time |-> tick, cmd |-> c]
  <2>1. new.time = tick
    OBVIOUS
  <2>2. sending' = [sending EXCEPT ![t] = {new}]
    BY <1>2 DEF ReadTick
  <2> HIDE DEF new
  <2>3. \A u \in Threads : sending'[u] = IF u = t THEN {new} ELSE sending[u]
    BY <1>0, <2>2 DEF TypeOK
  <2>4. \A u \in Threads : (\A p, q \in sending'[u] : p = q) /\ \A p \in sending'[u] : p.time <= tick
    BY <1>0, <2>1, <2>3 DEF ForgetInv
  <2> QED BY <1>0, <1>2, <2>4 DEF ReadTick, ForgetInv
<1>3. ASSUME NEW t \in Threads, TrackOutgoingPacket(t)
      PROVE  ForgetInv'
  <2>1. PICK q \in sending[t] : TrackOutgoingPacket(t)!(q)
    BY <1>3 DEF TrackOutgoingPacket
  <2>2. \A u \in Threads : sending'[u] = IF u = t THEN Idle ELSE sending[u]
    BY <1>0, <2>1 DEF TypeOK
  <2> DEFINE s == IF q.cmd \in Tracked THEN Append(sentPackets, q) ELSE sentPackets
  <2>3. q \in OutPacket /\ q.time <= tick
    BY <1>0 DEF ForgetInv, TypeOK
  <2>4. /\ s \in Seq(OutPacket) /\ sentPackets' = CleanUp(s, q.time)
        /\ \A i \in 1..Len(s) : s[i].time <= tick
    <3>1. CASE q.cmd \in Tracked
      <4>1. /\ Append(sentPackets, q) \in Seq(OutPacket)
            /\ \A i \in 1..Len(Append(sentPackets, q)) :
                  \/ i \in 1..Len(sentPackets) /\ Append(sentPackets, q)[i] = sentPackets[i]
                  \/ Append(sentPackets, q)[i] = q
        BY <1>0, <2>3 DEF TypeOK
      <4> QED BY <2>1, <2>3, <3>1, <4>1 DEF ForgetInv
    <3>2. CASE q.cmd \notin Tracked
      BY <1>0, <2>1, <3>2 DEF ForgetInv, TypeOK
    <3> QED BY <3>1, <3>2
  <2> HIDE DEF s
  <2>5. PICK n \in 0..Len(s) : sentPackets' = SubSeq(s, n + 1, Len(s))
    BY <2>4, CleanUpIsSuffix
  <2>6. \A i \in 1..Len(sentPackets') : i + n \in 1..Len(s) /\ sentPackets'[i] = s[i + n]
    BY <2>4, <2>5
  <2>7. \A i \in 1..Len(sentPackets') : sentPackets'[i].time <= tick
    BY <2>4, <2>6
  <2>8. \A u \in Threads : (\A p, q2 \in sending'[u] : p = q2) /\ \A p \in sending'[u] : p.time <= tick
    BY <2>2 DEF ForgetInv, Idle
  <2> QED BY <1>0, <2>1, <2>7, <2>8 DEF ForgetInv
<1>4. ASSUME NEW a \in IPs, NEW c \in ReceivedCmds, AcceptResponse(a, c)
      PROVE  ForgetInv'
  <2> DEFINE k == Match(a, c)
  <2>1. sentPackets \in Seq(OutPacket) /\ k \in 1..Len(sentPackets) /\ sentPackets' = RemoveAt(sentPackets, k)
    BY <1>0, <1>4, MatchInList DEF AcceptResponse, TypeOK
  <2> HIDE DEF k
  <2>2. \A i \in 1..Len(sentPackets') : \E j \in 1..Len(sentPackets) : sentPackets'[i] = sentPackets[j]
    <3>1. /\ Len(sentPackets') = Len(sentPackets) - 1
          /\ \A j \in 1..(Len(sentPackets) - 1) :
                sentPackets'[j] = IF j < k THEN sentPackets[j] ELSE sentPackets[j + 1]
      BY <2>1, RemoveAtProps
    <3> QED BY <2>1, <3>1
  <2> QED BY <1>0, <1>4, <2>2 DEF AcceptResponse, ForgetInv
<1>5. CASE UNCHANGED <<tick, sending, sentPackets>>
  BY <1>0, <1>5 DEF ForgetInv
<1> QED BY <1>1, <1>2, <1>3, <1>4, <1>5 DEF Next, CheckFlood, CountRequest, CleanFlood, vars

\* The body of ForgottenIsStaleOrOvertaken.
LEMMA ForgottenStep ==
  ASSUME ForgetInv, [Next]_vars, NEW p \in Forgotten
  PROVE  \/ Stale(p)
         \/ \E t \in Threads : \E q \in sending[t] : sending'[t] = Idle /\ q.time < p.time
<1>1. p \in Waiting /\ p \notin Waiting' /\ answered' = answered
  BY DEF Forgotten
<1>2. ASSUME NEW t \in Threads, NEW a \in IPs, NEW c \in SentCmds, ReadTick(t, a, c)
      PROVE  FALSE
  <2>1. \A u \in Threads : sending[u] \subseteq sending'[u]
    BY <1>2 DEF ReadTick, ForgetInv, TypeOK, Idle
  <2>2. sentPackets' = sentPackets
    BY <1>2 DEF ReadTick
  <2> QED BY <1>1, <2>1, <2>2 DEF Waiting
<1>3. ASSUME NEW a \in IPs, NEW c \in ReceivedCmds, AcceptResponse(a, c)
      PROVE  FALSE
  <2>1. requestCmd(c) \in Requests
    BY DEF requestCmd, Requests, Tracked
  <2>2. answered'[a][requestCmd(c)] = answered[a][requestCmd(c)] + 1 /\ answered[a][requestCmd(c)] \in Nat
    <3>1. answered \in Counts /\ answered' = Inc(answered, a, requestCmd(c))
      BY <1>3 DEF AcceptResponse, ForgetInv, TypeOK
    <3>2. answered[a][requestCmd(c)] \in Nat
      BY <2>1, <3>1 DEF Counts
    <3> QED BY <2>1, <3>1, <3>2, IncType
  <2> QED BY <1>1, <2>2
<1>4. ~UNCHANGED <<sending, sentPackets>>
  BY <1>1 DEF Waiting
<1>5. PICK t \in Threads : TrackOutgoingPacket(t)
  BY <1>2, <1>3, <1>4 DEF Next, vars, Tick, CheckFlood, CountRequest, CleanFlood
<1> QED BY <1>1, <1>5, TrackForgets

\* However many threads send at once, a request is forgotten without a response
\* only when it is older than TIME_FOR_RESPONSE, or when its thread read a later
\* tick than the thread that cleans up.
THEOREM OnlyOldIsForgotten == Spec => ForgottenIsStaleOrOvertaken
<1>1. Init => ForgetInv
  <2> SUFFICES ASSUME Init PROVE ForgetInv
    OBVIOUS
  <2>1. TypeOK
    BY FloodAssumption, NoCountsType DEF Init, TypeOK, Idle
  <2> QED BY <2>1 DEF Init, ForgetInv, Idle
<1>2. ForgetInv /\ [Next]_vars => ForgetInv'
  BY ForgetStep
<1>3. ForgetInv /\ [Next]_vars =>
         [\A p \in Forgotten :
             \/ Stale(p)
             \/ \E t \in Threads : \E q \in sending[t] : sending'[t] = Idle /\ q.time < p.time]_vars
  BY ForgottenStep
<1> QED BY <1>1, <1>2, <1>3, PTL DEF Spec, ForgottenIsStaleOrOvertaken

-----------------------------------------------------------------------------
(***************************************************************************)
(* The firewall check                                                      *)
(***************************************************************************)

\* A socket whose thread runs is bound to one of the ports.
Bound == socket # "down" => port \in Ports

\* The strengthening.
CheckInv == CheckTypeOK /\ Bound /\ OneWrongAnswerIsOutvoted

-----------------------------------------------------------------------------
(***************************************************************************)
(* Lemmas about counting up to three                                       *)
(***************************************************************************)

LEMMA OneOrTwo ==
    \A x, y : /\ IsFiniteSet({x, y}) /\ Cardinality({x, y}) \in Nat
              /\ Cardinality({x, y}) <= 2
              /\ x # y => Cardinality({x, y}) = 2
<1> TAKE x, y
<1>1. IsFiniteSet({x}) /\ Cardinality({x}) = 1
  BY FS_Singleton
<1>2. IsFiniteSet({x} \cup {y}) /\ (y \notin {x} => Cardinality({x} \cup {y}) = 2)
  BY <1>1, FS_AddElement
<1>3. {x} \cup {y} = {x, y} /\ (x = y => {x, y} = {x})
  OBVIOUS
<1> QED
  BY <1>1, <1>2, <1>3

LEMMA AtMostThree == \A x, y, z : IsFiniteSet({x, y, z}) /\ Cardinality({x, y, z}) \in 0..3
<1> TAKE x, y, z
<1> DEFINE P == {x, y}
<1>1. IsFiniteSet(P) /\ Cardinality(P) \in Nat /\ Cardinality(P) <= 2
  BY OneOrTwo
<1>2. P \cup {z} = {x, y, z}
  OBVIOUS
<1> HIDE DEF P
<1>3. /\ IsFiniteSet(P \cup {z})
      /\ Cardinality(P \cup {z}) = IF z \in P THEN Cardinality(P) ELSE Cardinality(P) + 1
  BY <1>1, FS_AddElement
<1>4. Cardinality(P \cup {z}) \in 0..3
  BY <1>1, <1>3
<1> QED
  BY <1>2, <1>3, <1>4, Zenon

\* Two members make two, and a set inside a singleton has one at most.
LEMMA CountTwo ==
    ASSUME NEW S, IsFiniteSet(S), NEW x \in S, NEW y \in S, x # y
    PROVE  Cardinality(S) >= 2
<1>1. {x, y} \subseteq S
  OBVIOUS
<1>2. Cardinality({x, y}) <= Cardinality(S)
  BY <1>1, FS_Subset
<1> QED
  BY <1>2, OneOrTwo, FS_CardinalityType

LEMMA CountOne ==
    ASSUME NEW S, NEW x, S \subseteq {x}
    PROVE  Cardinality(S) \in Nat /\ Cardinality(S) < 2
<1>1. IsFiniteSet({x}) /\ Cardinality({x}) = 1
  BY FS_Singleton
<1>2. IsFiniteSet(S) /\ Cardinality(S) <= 1
  BY <1>1, FS_Subset
<1> QED
  BY <1>2, FS_CardinalityType

\* Whoever is read among three nodes, three are read once each.
LEMMA ThreeDistinct ==
    ASSUME NEW a, NEW b, NEW c, Cardinality({a, b, c}) >= 3
    PROVE  a # b /\ a # c /\ b # c
<1>1. \A x, y : Cardinality({x, y}) \in Nat /\ Cardinality({x, y}) <= 2
  BY OneOrTwo
<1>2. \A x, y : {a, b, c} # {x, y}
  <2>1. SUFFICES ASSUME NEW x, NEW y, {a, b, c} = {x, y} PROVE FALSE
    OBVIOUS
  <2> DEFINE n == Cardinality({x, y})
  <2>2. n \in Nat /\ n <= 2
    BY <1>1
  <2>3. n >= 3
    BY <2>1, Zenon
  <2> HIDE DEF n
  <2> QED
    BY <2>2, <2>3
<1>3. a = b => {a, b, c} = {a, c}
  OBVIOUS
<1>4. a = c => {a, b, c} = {a, b}
  OBVIOUS
<1>5. b = c => {a, b, c} = {a, b}
  OBVIOUS
<1> QED
  BY <1>2, <1>3, <1>4, <1>5, Zenon

-----------------------------------------------------------------------------
(***************************************************************************)
(* The verdict                                                             *)
(***************************************************************************)

\* Two of three answers that name one address give it.
LEMMA MajorityGivesAddress ==
    \A a, b, c, ip : (a = ip /\ b = ip) \/ (a = ip /\ c = ip) \/ (b = ip /\ c = ip)
        => ExternalIP(a, b, c) = ip
  BY DEF ExternalIP

\* The external address is one of those that were given.
LEMMA AddressIsGiven == \A a, b, c : ExternalIP(a, b, c) \in {a, b, c}
  BY DEF ExternalIP

\* The truth is an answer, also while the socket is closing.
LEMMA TruthIsAnswer == ASSUME CheckInv, socket # "down" PROVE Truth(port) \in Answer
  BY FirewallAssumption DEF CheckInv, CheckTypeOK, Bound, Truth, Answer

\* Two ports that a predicate tells from the others are two, and if it does not
\* hold of two they are not.
LEMMA MajorityOfPorts ==
    ASSUME NEW p, NEW q, NEW r, NEW s
    PROVE  LET O == {i \in 1..3 : <<p, q, r>>[i] # s}
           IN  /\ Cardinality(O) \in Nat
               /\ (p # s /\ q # s) \/ (p # s /\ r # s) \/ (q # s /\ r # s) => Cardinality(O) >= 2
               /\ (p = s /\ q = s) \/ (p = s /\ r = s) \/ (q = s /\ r = s) => Cardinality(O) < 2
<1> DEFINE O == {i \in 1..3 : <<p, q, r>>[i] # s}
<1>1. /\ 1 \in O <=> p # s
      /\ 2 \in O <=> q # s
      /\ 3 \in O <=> r # s
      /\ O \subseteq {1, 2, 3}
  OBVIOUS
<1> HIDE DEF O
<1>2. IsFiniteSet(O)
  BY <1>1, AtMostThree, FS_Subset
<1>3. (p # s /\ q # s) \/ (p # s /\ r # s) \/ (q # s /\ r # s) => Cardinality(O) >= 2
  BY <1>1, <1>2, CountTwo
<1>4. p = s /\ q = s => O \subseteq {3}
  BY <1>1
<1>5. p = s /\ r = s => O \subseteq {2}
  BY <1>1
<1>6. q = s /\ r = s => O \subseteq {1}
  BY <1>1
<1>7. (p = s /\ q = s) \/ (p = s /\ r = s) \/ (q = s /\ r = s) => Cardinality(O) < 2
  BY <1>4, <1>5, <1>6, CountOne
<1> QED
  BY <1>2, <1>3, <1>7, FS_CardinalityType DEF O

\* With no more than one wrong answer, a verdict on an open socket is right.
LEMMA VerdictIsRight ==
    ASSUME CheckInv, socket = "up",
           NEW checks, \A n \in DOMAIN checks : checks[n] \in Answer,
           Enough(checks), Verdict(checks),
           Cardinality({m \in DOMAIN checks : checks[m] # Truth(port)}) <= 1
    PROVE  firewalled' = natted /\ lastExternalIP' = MyIP
<1> DEFINE W == {m \in DOMAIN checks : checks[m] # Truth(port)}
<1>1. SeenPorts = {<<port, port, port>>}
  BY DEF SeenPorts
<1>2. PICK a, b, c \in DOMAIN checks :
         /\ {a, b, c} = DOMAIN checks
         /\ firewalled' = (Cardinality({i \in 1..3 : checks[<<a, b, c>>[i]].port # <<port, port, port>>[i]}) >= 2)
         /\ lastExternalIP' = ExternalIP(checks[a].ip, checks[b].ip, checks[c].ip)
  BY <1>1 DEF Verdict
<1>3. a # b /\ a # c /\ b # c
  BY <1>2, ThreeDistinct DEF Enough, FW_RESPONSES
<1>4. IsFiniteSet(W) /\ Cardinality(W) \in Nat
  BY <1>2, AtMostThree, FS_Subset, FS_CardinalityType
<1>5. \A m \in DOMAIN checks : m \notin W => checks[m] = Truth(port)
  OBVIOUS
<1>6. Cardinality(W) <= 1
  OBVIOUS
<1> HIDE DEF W
<1>7. \/ a \notin W /\ b \notin W
      \/ a \notin W /\ c \notin W
      \/ b \notin W /\ c \notin W
  BY <1>3, <1>4, <1>6, CountTwo
<1> DEFINE right(n) == checks[n] = Truth(port)
<1>8. (right(a) /\ right(b)) \/ (right(a) /\ right(c)) \/ (right(b) /\ right(c))
  BY <1>5, <1>7
<1>9. Truth(port).ip = MyIP /\ Truth(port).port = IF natted THEN Mapped ELSE port
  BY DEF Truth
<1>10. lastExternalIP' = MyIP
  BY <1>2, <1>8, <1>9, MajorityGivesAddress
<1>11. firewalled' = natted
  <2> DEFINE p == checks[a].port
             q == checks[b].port
             r == checks[c].port
             O == {i \in 1..3 : <<p, q, r>>[i] # port}
  <2>1. {i \in 1..3 : checks[<<a, b, c>>[i]].port # <<port, port, port>>[i]} = O
    OBVIOUS
  <2>2. firewalled' = (Cardinality(O) >= 2)
    BY <1>2, <2>1
  <2>3. port # Mapped /\ natted \in BOOLEAN
    BY FirewallAssumption DEF CheckInv, CheckTypeOK
  <2>4. /\ Cardinality(O) \in Nat
        /\ (p # port /\ q # port) \/ (p # port /\ r # port) \/ (q # port /\ r # port) => Cardinality(O) >= 2
        /\ (p = port /\ q = port) \/ (p = port /\ r = port) \/ (q = port /\ r = port) => Cardinality(O) < 2
    BY MajorityOfPorts
  <2>5. natted => (p # port /\ q # port) \/ (p # port /\ r # port) \/ (q # port /\ r # port)
    BY <1>8, <1>9, <2>3
  <2>6. ~natted => (p = port /\ q = port) \/ (p = port /\ r = port) \/ (q = port /\ r = port)
    BY <1>8, <1>9
  <2> HIDE DEF p, q, r, O
  <2>7. natted => Cardinality(O) >= 2
    BY <2>4, <2>5
  <2>8. ~natted => ~(Cardinality(O) >= 2)
    BY <2>4, <2>6
  <2> QED
    BY <2>2, <2>3, <2>7, <2>8
<1> QED
  BY <1>10, <1>11

\* The types that a verdict leaves.
LEMMA VerdictType ==
    ASSUME CheckInv, NEW checks, \A n \in DOMAIN checks : checks[n] \in Answer, Verdict(checks)
    PROVE  /\ firewalled' \in BOOLEAN
           /\ lastExternalIP' \in LiedIPs \cup {MyIP, NoIP}
           /\ Cardinality({m \in DOMAIN checks : checks[m] # Truth(port)}) \in 0..3
<1>1. PICK a, b, c \in DOMAIN checks, seen \in SeenPorts :
         /\ {a, b, c} = DOMAIN checks
         /\ firewalled' = (Cardinality({i \in 1..3 : checks[<<a, b, c>>[i]].port # seen[i]}) >= 2)
         /\ lastExternalIP' = ExternalIP(checks[a].ip, checks[b].ip, checks[c].ip)
  BY DEF Verdict
<1>2. \A n \in DOMAIN checks : checks[n].ip \in LiedIPs \cup {MyIP}
  BY DEF Answer
<1>3. lastExternalIP' \in LiedIPs \cup {MyIP, NoIP}
  BY <1>1, <1>2, AddressIsGiven
<1>4. {m \in DOMAIN checks : checks[m] # Truth(port)} \subseteq {a, b, c}
  BY <1>1
<1>5. Cardinality({m \in DOMAIN checks : checks[m] # Truth(port)}) \in 0..3
  <2> DEFINE W == {m \in DOMAIN checks : checks[m] # Truth(port)}
  <2> HIDE DEF W
  <2>1. W \subseteq {a, b, c}
    BY <1>4 DEF W
  <2> DEFINE D == {a, b, c}
  <2>2. IsFiniteSet(D) /\ Cardinality(D) \in 0..3 /\ W \subseteq D
    BY <2>1, AtMostThree
  <2> HIDE DEF D
  <2>3. Cardinality(W) \in 0..3
    BY <2>2, FS_Subset, FS_CardinalityType
  <2> QED
    BY <2>3 DEF W
<1>6. firewalled' \in BOOLEAN
  BY <1>1
<1> QED
  BY <1>3, <1>5, <1>6

-----------------------------------------------------------------------------
(***************************************************************************)
(* Steps                                                                   *)
(***************************************************************************)

LEMMA NoAnswers == DOMAIN NoChecks = {} /\ \A n \in DOMAIN NoChecks : NoChecks[n] \in Answer
  BY DEF NoChecks

LEMMA CheckReceive ==
    ASSUME CheckInv, NEW n \in Nodes, NEW answer \in Answer, Receive(n, answer)
    PROVE  CheckInv'
<1> DEFINE checks == [m \in DOMAIN firewalledChecks \cup {n} |->
                         IF m \in DOMAIN firewalledChecks THEN firewalledChecks[m] ELSE answer]
<1>1. DOMAIN checks \subseteq Nodes /\ \A m \in DOMAIN checks : checks[m] \in Answer
  BY DEF CheckInv, CheckTypeOK
<1>2. UNCHANGED <<natted, socket, port, sendQueue, wire>>
  BY DEF Receive
<1>3. CASE n \notin DOMAIN firewalledChecks /\ Enough(checks)
  <2>1. /\ Verdict(checks)
        /\ firewalledChecks' = NoChecks
        /\ firewalledWanted' = {}
        /\ requestFWCheck' = FALSE
        /\ wrong' = Cardinality({m \in DOMAIN checks : checks[m] # Truth(port)})
    BY <1>3 DEF Receive
  <2> HIDE DEF checks
  <2>2. /\ firewalled' \in BOOLEAN
        /\ lastExternalIP' \in LiedIPs \cup {MyIP, NoIP}
        /\ wrong' \in 0..3
    BY <1>1, <2>1, VerdictType
  <2>3. CheckTypeOK'
    BY <1>2, <2>1, <2>2, NoAnswers DEF CheckInv, CheckTypeOK
  <2>4. socket = "up" /\ wrong' <= 1 => firewalled' = natted /\ lastExternalIP' = MyIP
    BY <1>1, <1>3, <2>1, VerdictIsRight
  <2> QED
    BY <1>2, <2>3, <2>4 DEF CheckInv, Bound, OneWrongAnswerIsOutvoted
<1>4. CASE ~(n \notin DOMAIN firewalledChecks /\ Enough(checks))
  <2>1. /\ firewalledChecks' = checks
        /\ firewalledWanted' = firewalledWanted \ {n}
        /\ UNCHANGED <<requestFWCheck, firewalled, lastExternalIP, wrong>>
    BY <1>4 DEF Receive
  <2> HIDE DEF checks
  <2> QED
    BY <1>1, <1>2, <2>1 DEF CheckInv, CheckTypeOK, Bound, OneWrongAnswerIsOutvoted
<1> QED
  BY <1>3, <1>4

\* An answer that an honest node gives is one.
LEMMA CheckTransmit == ASSUME CheckInv, NEW n \in Nodes, Transmit(n) PROVE CheckInv'
<1>1. Truth(port) \in Answer
  BY TruthIsAnswer DEF Transmit
<1>2. [from |-> n, answer |-> Truth(port)] \in [from : Nodes, answer : Answer]
  BY <1>1
<1>3. wire' \subseteq [from : Nodes, answer : Answer]
  BY <1>2 DEF Transmit, CheckInv, CheckTypeOK
<1> QED
  BY <1>3 DEF Transmit, CheckInv, CheckTypeOK, Bound, OneWrongAnswerIsOutvoted, check

LEMMA CheckSocket ==
    ASSUME CheckInv, (\E p \in Ports : Start(p)) \/ BeginStop \/ EndStop
    PROVE  CheckInv'
<1>1. ASSUME NEW p \in Ports, Start(p) PROVE CheckInv'
  BY <1>1 DEF Start, Requested, CheckInv, CheckTypeOK, Bound, OneWrongAnswerIsOutvoted
<1>2. CASE BeginStop \/ EndStop
  BY <1>2 DEF BeginStop, EndStop, check, CheckInv, CheckTypeOK, Bound, OneWrongAnswerIsOutvoted
<1> QED
  BY <1>1, <1>2

LEMMA CheckQuestions ==
    ASSUME CheckInv, (\E n \in Nodes : Send(n)) \/ Minute \/ Hour
    PROVE  CheckInv'
<1>1. ASSUME NEW n \in Nodes, Send(n) PROVE CheckInv'
  BY <1>1 DEF Send, CheckInv, CheckTypeOK, Bound, OneWrongAnswerIsOutvoted
<1>2. CASE Minute
  BY <1>2 DEF Minute, Remembered, CheckInv, CheckTypeOK, Bound, OneWrongAnswerIsOutvoted
<1>3. CASE Hour
  BY <1>3, NoAnswers DEF Hour, CheckInv, CheckTypeOK, Bound, OneWrongAnswerIsOutvoted
<1> QED
  BY <1>1, <1>2, <1>3

LEMMA CheckInitInv == CheckInit => CheckInv
  BY NoAnswers DEF CheckInit, CheckInv, CheckTypeOK, Bound, OneWrongAnswerIsOutvoted

LEMMA CheckNextInv == CheckInv /\ [CheckNext]_checkVars => CheckInv'
<1> SUFFICES ASSUME CheckInv, [CheckNext]_checkVars PROVE CheckInv'
  OBVIOUS
<1>1. CASE (\E p \in Ports : Start(p)) \/ BeginStop \/ EndStop
  BY <1>1, CheckSocket
<1>2. CASE (\E n \in Nodes : Send(n)) \/ Minute \/ Hour
  BY <1>2, CheckQuestions
<1>3. ASSUME NEW n \in Nodes, Transmit(n) PROVE CheckInv'
  BY <1>3, CheckTransmit
<1>4. ASSUME NEW n \in Nodes, Arrive(n) PROVE CheckInv'
  <2>1. PICK m \in wire : m.from = n /\ Receive(n, m.answer)
    BY <1>4 DEF Arrive
  <2>2. m.answer \in Answer
    BY <2>1 DEF CheckInv, CheckTypeOK
  <2> QED
    BY <2>1, <2>2, CheckReceive
<1>5. ASSUME NEW n \in Nodes, Lie(n) PROVE CheckInv'
  BY <1>5, CheckReceive DEF Lie
<1>6. CASE UNCHANGED checkVars
  BY <1>6 DEF checkVars, check, CheckInv, CheckTypeOK, Bound, OneWrongAnswerIsOutvoted
<1> QED
  BY <1>1, <1>2, <1>3, <1>4, <1>5, <1>6 DEF CheckNext

-----------------------------------------------------------------------------
(***************************************************************************)
(* Theorems                                                                *)
(***************************************************************************)

\* The strengthening holds of everything that the check of dht/DHT.cpp does.
THEOREM CheckInvariance == CheckSpec => []CheckInv
  BY CheckInitInv, CheckNextInv, PTL DEF CheckSpec

\* The state of the check keeps its types.
THEOREM CheckTypeCorrect == CheckSpec => []CheckTypeOK
<1>1. CheckInv => CheckTypeOK
  BY DEF CheckInv
<1> QED
  BY <1>1, CheckInvariance, PTL

\* However many nodes lie, and however packets are delayed or repeated and the
\* socket is stopped and started, the verdict of handle(STA) that is in force is
\* right when no more than one of its three answers was wrong.
THEOREM VerdictOutvotes == CheckSpec => []OneWrongAnswerIsOutvoted
<1>1. CheckInv => OneWrongAnswerIsOutvoted
  BY DEF CheckInv
<1> QED
  BY <1>1, CheckInvariance, PTL

=============================================================================
