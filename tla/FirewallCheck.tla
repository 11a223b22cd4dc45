---------------------------- MODULE FirewallCheck ----------------------------
(***************************************************************************)
(* The firewall check of the DHT: dht/DHT.cpp.                             *)
(*                                                                         *)
(* While a check is requested, the first packet to each node asks it which *)
(* address and port it comes from.  Three answers decide: if most of them  *)
(* name another port than the one the socket is bound to, we are           *)
(* firewalled, and the address that two of them name is our external one.  *)
(* Packets and answers may be lost, late or repeated, some nodes lie, the  *)
(* minute timer forgets who was asked, the hourly timer begins anew, and   *)
(* the main thread stops the socket and starts it at another port.         *)
(***************************************************************************)
EXTENDS Integers, FiniteSets

CONSTANTS
    Nodes,       \* other nodes, each with an address of its own
    Liars,       \* those that answer as they like
    Ports,       \* ports that the socket may be bound to
    MyIP,        \* our external address
    Mapped,      \* the port at which a NAT shows us
    NoIP,        \* our local address
    LiedIPs      \* addresses that liars give for ours

ASSUME FirewallAssumption ==
    /\ IsFiniteSet(Nodes) /\ Liars \subseteq Nodes
    /\ MyIP \notin Nodes /\ NoIP \notin Nodes \cup {MyIP}
    /\ Ports \subseteq Nat \ {0} /\ Mapped \in Nat \ (Ports \cup {0})
    /\ NoIP \notin LiedIPs

FW_RESPONSES == 3

VARIABLES
    natted,              \* whether a NAT hides the port of the socket
    socket,              \* "down", "up", or "closing" while its thread still runs
    port,                \* the port that it is or was bound to
    requestFWCheck,
    firewalledWanted,    \* nodes that were asked
    firewalledChecks,    \* node |-> its answer
    firewalled,
    lastExternalIP,
    sendQueue,           \* nodes for whom a question is in the queue of the socket
    wire,                \* answers of honest nodes that may still arrive
    wrong                \* history: how many answers of the last verdict were wrong

check == <<requestFWCheck, firewalledWanted, firewalledChecks, firewalled, lastExternalIP, wrong>>
checkVars == <<natted, socket, port, check, sendQueue, wire>>

Answer == [ip : LiedIPs \cup {MyIP}, port : Ports \cup {Mapped}]

NoChecks == [n \in {} |-> [ip |-> MyIP, port |-> Mapped]]

CheckInit ==
    /\ natted \in BOOLEAN
    /\ socket = "down"
    /\ port = 0
    /\ requestFWCheck = TRUE
    /\ firewalledWanted = {}
    /\ firewalledChecks = NoChecks
    /\ firewalled = TRUE
    /\ lastExternalIP = NoIP
    /\ sendQueue = {}
    /\ wire = {}
    /\ wrong = 0

-----------------------------------------------------------------------------
(***************************************************************************)
(* The socket                                                              *)
(***************************************************************************)

\* Fault: the verdict on the last port is kept.
Requested_Kept == requestFWCheck

\* start() asks for a check.
Requested == TRUE

\* start(), after ConnectivityManager has stopped the socket: firewalled is what
\* the settings say until there is a verdict.  Binding may fail.
Start(p) ==
    /\ socket = "down"
    /\ firewalled' \in BOOLEAN
    /\ requestFWCheck' = Requested
    /\ \/ socket' = "up" /\ port' = p
       \/ UNCHANGED <<socket, port>>
    /\ UNCHANGED <<natted, firewalledWanted, firewalledChecks, lastExternalIP, wrong, sendQueue, wire>>

\* stop() tells the thread of the socket to end, and sets the port to 0.
BeginStop ==
    /\ socket = "up"
    /\ socket' = "closing"
    /\ UNCHANGED <<natted, port, check, sendQueue, wire>>

\* stop() has joined the thread.
EndStop ==
    /\ socket = "closing"
    /\ socket' = "down"
    /\ UNCHANGED <<natted, port, check, sendQueue, wire>>

-----------------------------------------------------------------------------
(***************************************************************************)
(* Questions                                                               *)
(***************************************************************************)

\* send(): any packet to a node that was not asked yet takes the question along.
Send(n) ==
    /\ port # 0
    /\ requestFWCheck
    /\ n \notin firewalledWanted
    /\ firewalledWanted' = firewalledWanted \cup {n}
    /\ sendQueue' = sendQueue \cup ({n} \ Liars)
    /\ UNCHANGED <<natted, socket, port, requestFWCheck, firewalledChecks, firewalled, lastExternalIP, wrong, wire>>

\* What an honest node sees of us.
Truth(p) == [ip |-> MyIP, port |-> IF natted THEN Mapped ELSE p]

\* The question leaves the queue; it is lost, or answered.
Transmit(n) ==
    /\ socket = "up"
    /\ n \in sendQueue
    /\ sendQueue' = sendQueue \ {n}
    /\ \/ UNCHANGED wire
       \/ wire' = wire \cup {[from |-> n, answer |-> Truth(port)]}
    /\ UNCHANGED <<natted, socket, port, check>>

\* Fault: who has not answered is not asked again.
Remembered_All == firewalledWanted

\* The nodes that the minute timer remembers to have asked.
Remembered == {}

\* on(Minute): who has not answered may be asked again.
Minute ==
    /\ port # 0
    /\ firewalledWanted' = Remembered
    /\ UNCHANGED <<natted, socket, port, requestFWCheck, firewalledChecks, firewalled, lastExternalIP, wrong,
                   sendQueue, wire>>

\* setRequestFWCheck, from the timer.
Hour ==
    /\ port # 0
    /\ requestFWCheck' = TRUE
    /\ firewalledWanted' = {}
    /\ firewalledChecks' = NoChecks
    /\ UNCHANGED <<natted, socket, port, firewalled, lastExternalIP, wrong, sendQueue, wire>>

-----------------------------------------------------------------------------
(***************************************************************************)
(* Answers                                                                 *)
(***************************************************************************)

\* The address that handle(STA) takes from three answers: each one that agrees
\* with the last one read replaces it.
ExternalIP(a, b, c) ==
    LET Read(seen, ip) == IF ip = seen.last THEN [seen EXCEPT !.external = ip] ELSE [seen EXCEPT !.last = ip]
    IN  Read(Read([external |-> a, last |-> a], b), c).external

\* The ports that the thread may see while it compares three answers: that of
\* the socket, and 0 from when stop() sets it.
SeenPorts == IF socket = "up" THEN {<<port, port, port>>}
             ELSE {[i \in 1..3 |-> IF i <= k THEN port ELSE 0] : k \in 0..3}

Enough(checks) == Cardinality(DOMAIN checks) >= FW_RESPONSES

\* The verdict.  The answers are read in an order that nobody controls.
Verdict(checks) ==
    \E a, b, c \in DOMAIN checks, seen \in SeenPorts :
        LET others == Cardinality({i \in 1..3 : checks[<<a, b, c>>[i]].port # seen[i]})
        IN  /\ {a, b, c} = DOMAIN checks
            /\ firewalled' = (others >= 2)
            /\ lastExternalIP' = ExternalIP(checks[a].ip, checks[b].ip, checks[c].ip)

\* handle(STA), FWCHECK: the answer of a node that was asked.
Receive(n, answer) ==
    LET checks == [m \in DOMAIN firewalledChecks \cup {n} |->
                      IF m \in DOMAIN firewalledChecks THEN firewalledChecks[m] ELSE answer]
    IN  /\ socket \in {"up", "closing"}
        /\ n # lastExternalIP
        /\ n \in firewalledWanted
        /\ IF n \notin DOMAIN firewalledChecks /\ Enough(checks)
           THEN /\ Verdict(checks)
                /\ firewalledChecks' = NoChecks
                /\ firewalledWanted' = {}
                /\ requestFWCheck' = FALSE
                /\ wrong' = Cardinality({m \in DOMAIN checks : checks[m] # Truth(port)})
           ELSE /\ firewalledChecks' = checks
                /\ firewalledWanted' = firewalledWanted \ {n}
                /\ UNCHANGED <<requestFWCheck, firewalled, lastExternalIP, wrong>>
        /\ UNCHANGED <<natted, socket, port, sendQueue, wire>>

\* An answer of an honest node arrives, perhaps late or again.
Arrive(n) == \E m \in wire : m.from = n /\ Receive(n, m.answer)

\* A node lies.
Lie(n) == n \in Liars /\ \E answer \in Answer : Receive(n, answer)

CheckNext ==
    \/ \E p \in Ports : Start(p)
    \/ BeginStop
    \/ EndStop
    \/ \E n \in Nodes : Send(n) \/ Transmit(n) \/ Arrive(n) \/ Lie(n)
    \/ Minute
    \/ Hour

CheckSpec == CheckInit /\ [][CheckNext]_checkVars

\* Packets are sent to every node again and again, one that is asked often enough
\* answers in the end, and the minute timer runs.
Fairness ==
    /\ WF_checkVars(Minute /\ firewalledWanted # {})
    /\ \A n \in Nodes : /\ SF_checkVars(Send(n))
                        /\ SF_checkVars(Transmit(n) /\ wire' # wire)
                        /\ SF_checkVars(Arrive(n) \/ Lie(n))

FairSpec == CheckSpec /\ Fairness

-----------------------------------------------------------------------------
(***************************************************************************)
(* Properties                                                              *)
(***************************************************************************)

\* Types of the state of the check.
CheckTypeOK ==
    /\ natted \in BOOLEAN
    /\ socket \in {"down", "up", "closing"}
    /\ port \in Ports \cup {0}
    /\ requestFWCheck \in BOOLEAN
    /\ firewalledWanted \subseteq Nodes
    /\ DOMAIN firewalledChecks \subseteq Nodes /\ \A n \in DOMAIN firewalledChecks : firewalledChecks[n] \in Answer
    /\ firewalled \in BOOLEAN
    /\ lastExternalIP \in LiedIPs \cup {MyIP, NoIP}
    /\ sendQueue \subseteq Nodes
    /\ wire \subseteq [from : Nodes, answer : Answer]
    /\ wrong \in 0..3

\* When the socket listens and no check is under way, the DHT knows whether its
\* port is open and what its address is, if no more than one of the three
\* answers was a lie or about another port: late and repeated answers, answers
\* that arrive while the socket is stopped, and those that a check before the
\* start has left behind do not make it worse.
OneWrongAnswerIsOutvoted ==
    socket = "up" /\ ~requestFWCheck /\ wrong <= 1 =>
        firewalled = natted /\ lastExternalIP = MyIP

\* A check comes to an end although packets are lost and the timer forgets who
\* was asked, unless the socket is stopped or a node's address is taken for ours.
CheckEnds ==
    <>[][~Hour]_checkVars => requestFWCheck ~> (~requestFWCheck \/ socket # "up" \/ lastExternalIP \in Nodes)

=============================================================================
