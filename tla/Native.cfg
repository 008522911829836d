SPECIFICATION NativeSpec
CONSTANTS
    p1 = p1
    p2 = p2
    NULL = NULL
    Processes <- MCProcesses
    Opener = p1
    Descriptors <- MCDescriptors
    EntryCount = 3
    BatchLimit = 2
    Directories <- MCDirectories
    BufferSizes = {1, 2}
    MAX_BUFFER_SIZE = 3
    FIRST_CHILDREN = 1
    FIRST_ERRORS = 1
    MaxEntries = 3
    s1 = s1
    s2 = s2
    s3 = s3
    s4 = s4
    NO_STORE = NO_STORE
    Stores <- MCStores
INVARIANTS DescriptorsStayOurs EntriesComeOnce ScansAreClean StoresAreFreedOnce
PROPERTY CleanupFinishes
\* A scan is one call, which ends; the library may be unloaded, or stay idle.
CHECK_DEADLOCK FALSE
