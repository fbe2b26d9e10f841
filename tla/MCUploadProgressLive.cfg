SPECIFICATION LiveSpec
CONSTANTS
    Jobs = {j1}
    Streams = {s1, s2}
    NumFiles = 1
    ChanCap = 1
    MaxEmits = 0
CHECK_DEADLOCK FALSE
PROPERTIES
    EveryoneReturns
