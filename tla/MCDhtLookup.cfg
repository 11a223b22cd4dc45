\* One search at a time among four nodes, of which a response lists two; one of
\* them has files, and is offline or online.
CONSTANTS
    CIDs = {1, 2, 3}
    Me = 0
    Sources = {1}
    Files = {7}
    Tokens = {k1}
    Timer = Timer
    u1 = u1
    k1 = k1
    k2 = k2
    k3 = k3
    UserThreads = {u1}
    Distance <- XorDistance
    SEARCH_ALPHA = 2
    DHT_K = 2
    MAX_PUBLISHES_AT_TIME = 1
    SEARCHFILE_LIFETIME = 1
    SEARCHNODE_LIFETIME = 1
    SEARCHSTOREFILE_LIFETIME = 1
    SEARCH_STOPTIME = 1
    FILE_INTERVAL = 1
    RESULT_LIFETIME = 0
    MaxQueue = 1
SPECIFICATION Spec
INVARIANTS AskedOnce WaitingUserIsOffline
PROPERTIES AsksTheClosest
