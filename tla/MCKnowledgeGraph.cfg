SPECIFICATION Spec
CONSTANTS
    Files = {f1, f2}
    Names <- MCNames
    Norm <- MCNorm
    Answers <- MCAnswers
    Finalizes = {z1, z2}
    Forced = {z2}
    MinCommunitySize = 2
    MaxCalls = 3
SYMMETRY Symmetry
CHECK_DEADLOCK FALSE
INVARIANTS
    ExtractedGraphIsStored
    CommunitiesAreThePartition
    DeletedLeavesNothing
PROPERTIES
    OverlapsAloneHarm
