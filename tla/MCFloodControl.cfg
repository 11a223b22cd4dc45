\* Two threads send to two addresses, which answer late, twice or never, and
\* flood us with requests of their own.
CONSTANTS
    t1 = t1
    t2 = t2
    ip1 = ip1
    ip2 = ip2
    Threads = {t1, t2}
    IPs = {ip1, ip2}
    SentCmds = {"SCH", "STA"}
    ReceivedCmds = {"RES", "SND", "GET"}
    TIME_FOR_RESPONSE = 2
    TickModulus = 16
    MaxTick = 3
    MaxSent = 1
    MaxReceived = 3
SYMMETRY Symmetry
SPECIFICATION Spec
INVARIANTS AnsweredAtMostOnce LimitIsExact
PROPERTIES ForgottenIsStaleOrOvertaken
