SPECIFICATION Spec
CONSTANTS
    Searches = {s1, s2, s3}
    Uploads = {u1}
    MaxFiles = 2
    None = None
CHECK_DEADLOCK FALSE
INVARIANTS
    InvalidateForcesRebuild
