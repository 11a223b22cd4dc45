\* Three nodes publish a file that has room for two sources.
CONSTANTS
    n1 = n1
    n2 = n2
    n3 = n3
    f1 = f1
    f2 = f2
    TTHs = {f1}
    CIDs = {n1, n2, n3}
    MAX_SEARCH_RESULTS = 2
    REPUBLISH_TIME = 2
    PFS_REPUBLISH_TIME = 1
    MaxTick = 2
    MaxFailures = 2
    NoFile = NoFile
    Torn = Torn
SYMMETRY Symmetry
SPECIFICATION Spec
INVARIANTS TypeOK OneSourcePerUser OutlivesOnlyIfLoaded ExpiredOnlyBehindLonger SavedIsRead
