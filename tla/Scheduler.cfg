CONSTANTS
    a = a
    b = b
    c = c
    Ids <- MCIds
    Payloads <- MCPayloads
    Keys <- MCKeys
    Values <- MCValues
    ABSENT = ABSENT
    Ranker <- MCRanker
    TaskLists <- MCTaskLists
    MaxSequence = 4
    MaxRevision = 2
SYMMETRY IdSymmetry
SPECIFICATION Spec
INVARIANTS StructuresAgree NothingIsStale
PROPERTY RankQueueSpec
