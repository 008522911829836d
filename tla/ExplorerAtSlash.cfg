CONSTANTS
    Ids <- MCIds
    NO_PARENT <- MCNoParent
    TreeParent <- MCTreeParent
    Files <- MCFiles
    FailedIds = {2, 6}
    MAX_DEPTH = 4
    TOP_LIMIT = 3
    FAILURE_LIMIT = 1
    LARGEST_PER_DIRECTORY = 2
    MaxBytes = 25
    MaxBatch = 2
    RootName <- MCSlash
    LIST_LIMIT = 2
    RINGS = 2
    MINIMUM_SWEEP = 25
    FILLER = 1
    CHILD_LIMIT = 2
    PREVIEWED = 1
    GRANDCHILDREN_EACH = 2
    ZOOMS <- MCZooms
    TAIL = 1
    BREAKDOWN = 1
    INSIDE = 2
SPECIFICATION ExplorerSpec
INVARIANTS
    InspectorListsFiles
CHECK_DEADLOCK FALSE
