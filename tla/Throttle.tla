------------------------------ MODULE Throttle ------------------------------
(***************************************************************************)
(* The bandwidth limiter: client/ThrottleManager.cpp.                      *)
(*                                                                         *)
(* Every second the timer sets the limits, without a lock, and fills up    *)
(* the tokens.  The thread of a connection tests the limit without a lock, *)
(* takes the lock, reads the limit again for its share of it, and takes    *)
(* tokens: for a download after the read, by what was read, for an upload  *)
(* before the write.                                                       *)
(***************************************************************************)
EXTENDS Integers, FiniteSets

CONSTANTS
    Sockets,      \* connections that transfer
    Limits,       \* limits that the settings may have, in bytes per second
    Buffer,       \* size of the buffer of a connection
    Word,         \* size_t is a number below this one
    MaxFailures   \* bound: reads that fail in one second

ASSUME ThrottleAssumption ==
    /\ IsFiniteSet(Sockets) /\ Buffer \in Nat \ {0} /\ MaxFailures \in Nat
    /\ Word \in Nat /\ MaxFailures < Word
    /\ \A n \in Limits : n \in Nat /\ Cardinality(Sockets) <= n /\ n + MaxFailures < Word

Directions == {"down", "up"}

VARIABLES
    enabled,      \* the setting THROTTLE_ENABLE
    limit,        \* downLimit and upLimit
    tokens,       \* downTokens and upTokens
    filling,      \* the tokens that on(Second) has still to fill up
    busy,         \* connection in read() or write(), past the test |-> its direction, and
                  \* the number of transfers it has seen
    granted,      \* history: the tokens of this second
    used,         \* history: the bytes read or given to write() for them
    failures,     \* history: the reads of this second that failed
    switched,     \* history: connections whose limit was set to 0 since they tested it
    cut           \* history: those that took nothing read for a closed connection

second == <<granted, used, failures>>
limiterVars == <<enabled, limit, tokens, filling, busy, second, switched, cut>>

Transfer == [dir : Directions, transfers : 1..Cardinality(Sockets)]

LimiterInit ==
    /\ enabled \in BOOLEAN
    /\ limit = [d \in Directions |-> 0]
    /\ tokens = [d \in Directions |-> 0]
    /\ filling = {}
    /\ busy = [c \in {} |-> 0]
    /\ granted = [d \in Directions |-> 0]
    /\ used = [d \in Directions |-> 0]
    /\ failures = 0
    /\ switched = {}
    /\ cut = {}

-----------------------------------------------------------------------------
\* The user changes the setting.
Change ==
    /\ enabled' = ~enabled
    /\ UNCHANGED <<limit, tokens, filling, busy, second, switched, cut>>

\* on(Second): the limits, which are 0 if there are none.
SetLimits ==
    /\ filling = {}
    /\ IF enabled
       THEN limit' \in [Directions -> Limits] /\ filling' = Directions
       ELSE limit' = [d \in Directions |-> 0] /\ filling' = {}
    /\ switched' = IF enabled THEN switched ELSE switched \cup DOMAIN busy
    /\ UNCHANGED <<enabled, tokens, busy, second, cut>>

\* on(Second): at certain hours other limits replace them.
Alternative ==
    /\ filling = Directions
    /\ limit' \in [Directions -> Limits]
    /\ UNCHANGED <<enabled, tokens, filling, busy, second, switched, cut>>

\* Fault: what is left of the last second is kept.
Filled_Saved(d) == tokens[d] + limit[d]

\* The tokens of a new second.
Filled(d) == limit[d]

\* on(Second), under the lock: the tokens are filled up, downTokens first.
Fill(d) ==
    /\ d \in filling
    /\ d = "up" => "down" \notin filling
    /\ filling' = filling \ {d}
    /\ tokens' = [tokens EXCEPT ![d] = Filled(d)]
    /\ granted' = [granted EXCEPT ![d] = limit[d]]
    /\ used' = [used EXCEPT ![d] = 0]
    /\ failures' = IF d = "down" THEN 0 ELSE failures
    /\ UNCHANGED <<enabled, limit, busy, switched, cut>>

-----------------------------------------------------------------------------
\* read() and write() to their locks: transfers is the number of downloads or
\* uploads as the thread has read it.  Without a limit they read and write at
\* once.  A connection taken for closed fails.
Test(c, d, transfers) ==
    /\ c \notin DOMAIN busy \cup cut
    /\ limit[d] # 0
    /\ busy' = [e \in DOMAIN busy \cup {c} |-> IF e = c THEN [dir |-> d, transfers |-> transfers] ELSE busy[e]]
    /\ switched' = switched \ {c}
    /\ UNCHANGED <<enabled, limit, tokens, filling, second, cut>>

Least(m, n) == IF m < n THEN m ELSE n

\* How much a connection may read or write: its share of the limit as it is now.
Size(c) ==
    LET d == busy[c].dir
    IN  Least(limit[d] \div busy[c].transfers, Least(Buffer, tokens[d]))

Done(c) == busy' = [e \in DOMAIN busy \ {c} |-> busy[e]]

\* What a read of up to size bytes returns: -1 if nothing is there.  That the
\* other side closes the connection is left out.
Result(size) == IF size = 0 THEN {0} ELSE {-1} \cup 1..size

\* read() under the lock.  What it returns is taken from the tokens as a size_t,
\* so that a failed read adds one.
Read(c) ==
    /\ c \in DOMAIN busy
    /\ busy[c].dir = "down"
    /\ tokens["down"] > 0
    /\ \E n \in Result(Size(c)) :
          /\ n = -1 => failures < MaxFailures
          /\ tokens' = [tokens EXCEPT !["down"] = (@ - n) % Word]
          /\ used' = [used EXCEPT !["down"] = IF n > 0 THEN @ + n ELSE @]
          /\ failures' = IF n = -1 THEN failures + 1 ELSE failures
          /\ cut' = IF n = 0 THEN cut \cup {c} ELSE cut
    /\ Done(c)
    /\ UNCHANGED <<enabled, limit, filling, granted, switched>>

\* The tokens when a write has begun.
Begun(c) == [tokens EXCEPT !["up"] = @ - Size(c)]

\* write() under the lock.
Write(c) ==
    /\ c \in DOMAIN busy
    /\ busy[c].dir = "up"
    /\ tokens["up"] > 0
    /\ tokens' = Begun(c)
    /\ used' = [used EXCEPT !["up"] = @ + Size(c)]
    /\ Done(c)
    /\ UNCHANGED <<enabled, limit, filling, granted, failures, switched, cut>>

\* Fault: a download without tokens returns 0, as an upload does.
Starved_Cut(c) == cut \cup {c}

\* A thread without tokens is told to try again.
Starved(c) == cut

\* read() and write() without tokens wait, not for ever, and return.
TimedWait(c) ==
    /\ c \in DOMAIN busy
    /\ tokens[busy[c].dir] = 0
    /\ cut' = Starved(c)
    /\ Done(c)
    /\ UNCHANGED <<enabled, limit, tokens, filling, second, switched>>

LimiterNext ==
    \/ Change
    \/ SetLimits
    \/ Alternative
    \/ \E d \in Directions : Fill(d)
    \/ \E c \in Sockets :
          \/ \E d \in Directions, transfers \in 1..Cardinality(Sockets) : Test(c, d, transfers)
          \/ Read(c)
          \/ Write(c)
          \/ TimedWait(c)

LimiterSpec == LimiterInit /\ [][LimiterNext]_limiterVars

-----------------------------------------------------------------------------
(***************************************************************************)
(* Properties                                                              *)
(***************************************************************************)

\* Types of the limits, the tokens and the transfers.
LimiterTypeOK ==
    /\ enabled \in BOOLEAN
    /\ limit \in [Directions -> Limits \cup {0}]
    /\ tokens \in [Directions -> 0..(Word - 1)]
    /\ filling \subseteq Directions
    /\ DOMAIN busy \subseteq Sockets /\ \A c \in DOMAIN busy : busy[c] \in Transfer
    /\ granted \in [Directions -> Limits \cup {0}]
    /\ used \in [Directions -> Nat]
    /\ failures \in 0..MaxFailures
    /\ switched \subseteq Sockets /\ cut \subseteq Sockets

\* In no second are more bytes taken than its limit, whatever several threads
\* and the timer do at once: what was used and what is left are the tokens of
\* the second, and one more for every download that found nothing to read,
\* which the subtraction of -1 gives back.
BudgetKept ==
    /\ tokens["down"] + used["down"] = granted["down"] + failures
    /\ tokens["up"] + used["up"] = granted["up"]

\* A thread takes a connection for closed ("0 = connection close" in read())
\* that is not only if the limiter was switched off between its test of the
\* limit and its share of it.
CutOnlyAtSwitch == cut \subseteq switched

=============================================================================
