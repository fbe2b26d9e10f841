SPECIFICATION Spec
CONSTANTS
    Jobs = {j1}
    Streams = {s1, s2}
    NumFiles = 1
    ChanCap = 1
    MaxEmits = 2
SYMMETRY Symmetry
CHECK_DEADLOCK FALSE
INVARIANTS
    OwnEventsInOneLog
    EndedStreamSawTheJob
PROPERTIES
    RefinesFeed
