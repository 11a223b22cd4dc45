\* Two honest nodes and a liar, who may also claim that our address is that of another
\* node; one port; fair network and timers.
CONSTANTS
    n1 = n1
    n2 = n2
    l1 = l1
    MyIP = MyIP
    NoIP = NoIP
    Nodes = {n1, n2, l1}
    Liars = {l1}
    Ports = {1}
    Mapped = 9
    LiedIPs = {n1}
SPECIFICATION FairSpec
INVARIANTS OneWrongAnswerIsOutvoted
PROPERTIES CheckEnds
