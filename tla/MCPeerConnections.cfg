\* One user, two connections; fair threads.
CONSTANTS
    u1 = u1
    u2 = u2
    c1 = c1
    c2 = c2
    None = None
    Users = {u1}
    Conns = {c1, c2}
    MaxErrors = 1
SPECIFICATION FairSpec
INVARIANTS ItemsMatchConnections
PROPERTIES AttemptEnds ShutdownEnds
