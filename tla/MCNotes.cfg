SPECIFICATION Spec
CONSTANTS
    Keys = {k1, k2}
    Writes = {w1, w2}
    Deletes = {d1}
    Imports = {i1}
    Absent = Absent
    Torn = Torn
    Free = Free
    Faults = {"disk", "git", "index"}
    MaxEntries = 1
    MaxCrashes = 1
CHECK_DEADLOCK FALSE
SYMMETRY Sym
INVARIANTS
    HistoryCatchesUp
    TornOnlyByImport
    IndexAgreesUnlessRaced
PROPERTIES
    CommitRecordsItsOwnChange
