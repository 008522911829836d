CONSTANTS
    r = r
    a = a
    b = b
    Root = r
    Dirs <- MCDirs
    Bytes <- MCBytes
    BatchSize = 2
    Capacity = 1
SPECIFICATION FairSpec
INVARIANTS
    ViewGetsEverything EndIsReported
PROPERTY ThreadEnds
CHECK_DEADLOCK FALSE
