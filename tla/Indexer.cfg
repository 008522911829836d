CONSTANTS
    r = r
    a = a
    b = b
    v = v
    w = w
    Root = r
    Dirs <- MCDirs
    Children <- MCChildren
    Rows <- MCRows
    Flawed = {b}
    Workers <- MCWorkers
    Callers = {p, q}
    MaxKills = 1
    NULL = NULL
SPECIFICATION FairSpec
INVARIANTS
    NoTaskIsLost ReportStaysTrue
PROPERTIES EveryCallReturns TraversalEnds
CHECK_DEADLOCK FALSE
