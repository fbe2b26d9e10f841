SPECIFICATION Spec
CONSTANTS
    Indexers = {i1, i2}
    Paths = {p1, p2}
    Texts = {t1, t2}
    Binary = Binary
    Blank = Blank
    None = None
    SameSecond = FALSE
    MaxRuns = 3
    MaxEdits = 2
SYMMETRY Symmetry
CHECK_DEADLOCK FALSE
INVARIANTS
    OneLatest
    HistoryWellFormed
    WholeUnlessFlawed
    FreshAfterOk
