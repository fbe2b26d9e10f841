SPECIFICATION FairSpec
CONSTANTS
    CfgWorkers = 2
    CfgQueueDepth = 1
    Jobs = {j1, j2, j3, j4}
    Closers = {c1, c2}
    Idle = Idle
    Exited = Exited
CHECK_DEADLOCK FALSE
INVARIANTS
    NoSendOnClosed
    EveryWaitHasAnEnd
PROPERTIES
    CallsReturn
    AcceptedRuns
    RefinesService
