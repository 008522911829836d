CONSTANTS
    Threads = {t1, t2}
    Readers = {}
    MaxId = 4
    SegmentSize = 2
    JournalChunk = 1
    Batches <- MCBatches
    Limits = {1}
    NULL = NULL
    t1 = t1
    t2 = t2
SPECIFICATION Spec
SYMMETRY ThreadSymmetry
INVARIANTS
    TypeOK
    JournalIsExact
    ParentsCompleteFirst
    TablesAgree
    CallsSeeTheTree
PROPERTIES
    CompletedStaysPut
    OnlyCompletionsChangeTheTree
