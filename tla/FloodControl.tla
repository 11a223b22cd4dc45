---------------------------- MODULE FloodControl ----------------------------
(***************************************************************************)
(* The packet accounting of the DHT (dht/Utils.cpp): which requests we     *)
(* have sent to which address, and how many requests each address has sent *)
(* to us in the current minute.                                            *)
(*                                                                         *)
(* Packets are sent by several threads (the UDP thread answers, the timer  *)
(* thread searches, pings and publishes, the user interface starts         *)
(* searches).  trackOutgoingPacket is therefore two steps: the tick is     *)
(* read before the lock is taken.  checkFlood is called by the UDP thread  *)
(* and cleanFlood by the timer thread; each does its work under the lock.  *)
(*                                                                         *)
(* A tick is an unsigned 64-bit number of milliseconds, and a difference   *)
(* of ticks wraps; TickModulus stands for 2^64.                            *)
(***************************************************************************)
EXTENDS Integers, FiniteSets, SequencesExt

CONSTANTS
    Threads,            \* threads that send packets
    IPs,                \* addresses of other nodes
    SentCmds,           \* commands this instance sends
    ReceivedCmds,       \* commands this instance receives
    TIME_FOR_RESPONSE,  \* how long a response is wanted
    TickModulus,        \* number of values a tick can have
    MaxTick,            \* bound: the last tick
    MaxSent,            \* bound: requests of one kind tracked for an address
    MaxReceived         \* bound: requests of one kind received from an address in a minute

Tracked   == {"SCH", "PUB", "INF", "CTM", "GET", "PSR"}
Responses == {"RES", "SND"}
Commands  == Tracked \cup Responses \cup {"RCM", "MSG", "STA"}

\* The commands checkFlood counts: all but the responses and STA.
Requests  == Tracked \cup {"RCM", "MSG"}

ASSUME FloodAssumption ==
    /\ IsFiniteSet(IPs)
    /\ SentCmds \subseteq Commands
    /\ ReceivedCmds \subseteq Commands
    /\ {TIME_FOR_RESPONSE, MaxTick, MaxSent, MaxReceived, TickModulus} \subseteq Nat
    /\ TickModulus > MaxTick + TIME_FOR_RESPONSE

\* Requests of one kind that an address may send in a minute.  Commands
\* the switch does not name keep the initial value 0.
maxAllowedPacketsPerMinute(c) ==
    CASE c = "SCH" -> 20
      [] c = "PUB" -> 10
      [] c \in {"INF", "PSR"} -> 3
      [] c \in {"CTM", "RCM", "GET"} -> 2
      [] OTHER -> 0

\* The request that a response answers.
requestCmd(c) == IF c = "SND" THEN "GET" ELSE "SCH"

VARIABLES
    tick,             \* GET_TICK()
    sentPackets,      \* requests waiting for a response, oldest in front
    receivedPackets,  \* requests received in this minute, by address and command
    sending,          \* per thread: what it is about to track
    tracked,          \* history: requests ever tracked, by address and command
    answered,         \* history: responses let through, by address and request
    passed            \* history: requests let through in this minute

vars == <<tick, sentPackets, receivedPackets, sending, tracked, answered, passed>>

OutPacket == [ip : IPs, time : 0..MaxTick, cmd : Commands]
Idle      == {}             \* a thread holds {} or {p} for one OutPacket p
Counts    == [IPs -> [Requests -> Nat]]
NoCounts  == [a \in IPs |-> [c \in Requests |-> 0]]
Inc(f, a, c) == [f EXCEPT ![a][c] = @ + 1]

Init ==
    /\ tick = 0
    /\ sentPackets = <<>>
    /\ receivedPackets = NoCounts
    /\ sending = [t \in Threads |-> Idle]
    /\ tracked = NoCounts
    /\ answered = NoCounts
    /\ passed = NoCounts

-----------------------------------------------------------------------------
\* The clock.
Tick ==
    /\ tick < MaxTick
    /\ tick' = tick + 1
    /\ UNCHANGED <<sentPackets, receivedPackets, sending, tracked, answered, passed>>

\* trackOutgoingPacket up to its lock: the tick is read.
ReadTick(t, a, c) ==
    /\ sending[t] = Idle
    /\ c \in Tracked => tracked[a][c] < MaxSent
    /\ sending' = [sending EXCEPT ![t] = {[ip |-> a, time |-> tick, cmd |-> c]}]
    /\ UNCHANGED <<tick, sentPackets, receivedPackets, tracked, answered, passed>>

\* Age of a packet as the unsigned subtraction computes it.
diff(now, p) == (now - p.time) % TickModulus

\* Fault: a packet is dropped one tick early.
CleanUp_Early(s, now) ==
    LET first == SelectInSeq(s, LAMBDA p : diff(now, p) + 1 < TIME_FOR_RESPONSE)
    IN  IF first = 0 THEN <<>> ELSE SubSeq(s, first, Len(s))

\* The clean-up loop: drop packets from the front up to the first young one.
CleanUp(s, now) ==
    LET first == SelectInSeq(s, LAMBDA p : diff(now, p) < TIME_FOR_RESPONSE)
    IN  IF first = 0 THEN <<>> ELSE SubSeq(s, first, Len(s))

\* trackOutgoingPacket under its lock: store the packet and clean up.
TrackOutgoingPacket(t) ==
    \E p \in sending[t] :
        /\ sentPackets' = CleanUp(IF p.cmd \in Tracked THEN Append(sentPackets, p)
                                  ELSE sentPackets, p.time)
        /\ tracked' = IF p.cmd \in Tracked THEN Inc(tracked, p.ip, p.cmd) ELSE tracked
        /\ sending' = [sending EXCEPT ![t] = Idle]
        /\ UNCHANGED <<tick, receivedPackets, answered, passed>>

\* Position of the first tracked request that a response c from a answers, or 0.
Match(a, c) == SelectInSeq(sentPackets, LAMBDA p : p.cmd = requestCmd(c) /\ p.ip = a)

\* Fault: the answered request stays on the list.
AcceptResponse_Kept(a, c) ==
    /\ c \in Responses
    /\ Match(a, c) # 0
    /\ answered' = Inc(answered, a, requestCmd(c))
    /\ UNCHANGED <<tick, sentPackets, receivedPackets, sending, tracked, passed>>

\* checkFlood for a response: it is let through when it answers a tracked
\* request, which is then forgotten.  An unwanted response changes nothing.
AcceptResponse(a, c) ==
    /\ c \in Responses
    /\ Match(a, c) # 0
    /\ sentPackets' = RemoveAt(sentPackets, Match(a, c))
    /\ answered' = Inc(answered, a, requestCmd(c))
    /\ UNCHANGED <<tick, receivedPackets, sending, tracked, passed>>

\* Fault: the limit is compared with the count before this request.
CountRequest_OffByOne(a, c) ==
    /\ c \in Requests
    /\ receivedPackets[a][c] < MaxReceived
    /\ receivedPackets' = Inc(receivedPackets, a, c)
    /\ passed' = IF receivedPackets[a][c] > maxAllowedPacketsPerMinute(c)
                 THEN passed
                 ELSE Inc(passed, a, c)
    /\ UNCHANGED <<tick, sentPackets, sending, tracked, answered>>

\* checkFlood for a request: it is counted, and let through up to the limit.
CountRequest(a, c) ==
    /\ c \in Requests
    /\ receivedPackets[a][c] < MaxReceived
    /\ receivedPackets' = Inc(receivedPackets, a, c)
    /\ passed' = IF receivedPackets'[a][c] > maxAllowedPacketsPerMinute(c)
                 THEN passed
                 ELSE Inc(passed, a, c)
    /\ UNCHANGED <<tick, sentPackets, sending, tracked, answered>>

\* cleanFlood, once a minute.
CleanFlood ==
    /\ receivedPackets' = NoCounts
    /\ passed' = NoCounts
    /\ UNCHANGED <<tick, sentPackets, sending, tracked, answered>>

\* STA is always let through and recorded nowhere.
CheckFlood(a, c) == AcceptResponse(a, c) \/ CountRequest(a, c)

Next ==
    \/ Tick
    \/ \E t \in Threads, a \in IPs, c \in SentCmds : ReadTick(t, a, c)
    \/ \E t \in Threads : TrackOutgoingPacket(t)
    \/ \E a \in IPs, c \in ReceivedCmds : CheckFlood(a, c)
    \/ CleanFlood

Spec == Init /\ [][Next]_vars

-----------------------------------------------------------------------------
(***************************************************************************)
(* Properties                                                              *)
(***************************************************************************)

\* Types of the packet lists, the counters and the threads' local packets.
TypeOK ==
    /\ tick \in 0..MaxTick
    /\ sentPackets \in Seq(OutPacket)
    /\ receivedPackets \in Counts
    /\ sending \in [Threads -> SUBSET OutPacket]
    /\ tracked \in Counts
    /\ answered \in Counts
    /\ passed \in Counts

WaitingFor(a, c) == {i \in 1..Len(sentPackets) : /\ sentPackets[i].ip = a
                                                 /\ sentPackets[i].cmd = c}

\* A request licenses at most one response: the responses checkFlood let
\* through for a request, plus those it would still let through, never
\* exceed the requests sent, however responses are lost or repeated.
AnsweredAtMostOnce ==
    \A a \in IPs, c \in Requests :
        answered[a][c] + Cardinality(WaitingFor(a, c)) <= tracked[a][c]

\* The per-minute limit of checkFlood is exact for every address and
\* command: the requests let through in a minute are those received, up to
\* the limit, and one address never uses up the allowance of another.
LimitIsExact ==
    \A a \in IPs, c \in Requests :
        passed[a][c] = IF receivedPackets[a][c] <= maxAllowedPacketsPerMinute(c)
                       THEN receivedPackets[a][c]
                       ELSE maxAllowedPacketsPerMinute(c)

\* The requests that wait for a response, or are about to.
Waiting == {p \in Range(sentPackets) \cup UNION {sending[t] : t \in Threads} : p.cmd \in Tracked}
Forgotten == {p \in Waiting : p \notin Waiting' /\ answered' = answered}

Stale(p) == tick - p.time >= TIME_FOR_RESPONSE

\* trackOutgoingPacket forgets an unanswered request only when it is older
\* than TIME_FOR_RESPONSE, or when its thread read a later tick than the
\* thread that cleans up: that is the only way the clean-up goes wrong.
ForgottenIsStaleOrOvertaken ==
    [][\A p \in Forgotten :
          \/ Stale(p)
          \/ \E t \in Threads : \E q \in sending[t] : sending'[t] = Idle /\ q.time < p.time]_vars

=============================================================================
