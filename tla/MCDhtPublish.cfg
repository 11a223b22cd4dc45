\* Three searches at a time, two publishing slots, a thread that searches; fair
\* scheduling of the threads.
CONSTANTS
    CIDs = {1}
    Me = 0
    Sources = {}
    Files = {2, 3}
    k1 = k1
    k2 = k2
    k3 = k3
    Tokens = {k1, k2, k3}
    Timer = Timer
    u1 = u1
    UserThreads = {u1}
    Distance <- XorDistance
    SEARCH_ALPHA = 1
    DHT_K = 2
    MAX_PUBLISHES_AT_TIME = 2
    SEARCHFILE_LIFETIME = 0
    SEARCHNODE_LIFETIME = 0
    SEARCHSTOREFILE_LIFETIME = 1
    SEARCH_STOPTIME = 1
    FILE_INTERVAL = 0
    RESULT_LIFETIME = 0
    MaxQueue = 1
SPECIFICATION FairSpec
INVARIANTS SlotsAccounted DuplicateIsFileSearch
PROPERTIES PublishesAsPromised SearchEnds SlotsComeBack
