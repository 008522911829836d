CONSTANTS
    Threads = {t1}
    Readers = {r1, r2}
    MaxId = 4
    SegmentSize = 2
    JournalChunk = 1
    Batches <- MCFewBatches
    Limits = {1, 3}
    NULL = NULL
    t1 = t1
    r1 = r1
    r2 = r2
SPECIFICATION Spec
INVARIANTS
    DeliveredIsJournalPrefix
PROPERTIES
    CompletionLogSpec
