\* Two sources of a file, offline or online.
CONSTANTS
    CIDs = {1, 2}
    Me = 0
    Sources = {1, 2}
    Files = {7}
    Tokens = {k1}
    Timer = Timer
    u1 = u1
    k1 = k1
    k2 = k2
    k3 = k3
    UserThreads = {u1}
    Distance <- XorDistance
    SEARCH_ALPHA = 2
    DHT_K = 1
    MAX_PUBLISHES_AT_TIME = 1
    SEARCHFILE_LIFETIME = 2
    SEARCHNODE_LIFETIME = 1
    SEARCHSTOREFILE_LIFETIME = 1
    SEARCH_STOPTIME = 1
    FILE_INTERVAL = 1
    RESULT_LIFETIME = 1
    MaxQueue = 1
SPECIFICATION Spec
INVARIANTS WaitingUserIsContacted
