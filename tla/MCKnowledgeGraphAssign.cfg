SPECIFICATION Spec
CONSTANTS
    Files = {f1}
    Names <- MCNames
    Norm <- MCNorm
    Answers <- MCAnswers
    Finalizes = {z1}
    Forced = {z1}
    MinCommunitySize = 2
    MaxCalls = 2
CHECK_DEADLOCK FALSE
INVARIANTS
    MembersAreAssigned
