SPECIFICATION FairSpec
CONSTANTS
    Uploads = {u1, u2}
    Streams = {s1}
    Workers = 1
CHECK_DEADLOCK FALSE
INVARIANTS
    NoStoreClosedUnderJob
    CleanExit
PROPERTIES
    ShutdownEnds
