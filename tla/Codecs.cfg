SPECIFICATION CodecsSpec
CONSTANTS
    Selections <- MCSelections
    NIL = NIL
    Terms <- MCTerms
    Requests <- MCRequests
    BYTE = 4
    INT_BYTES = 2
    LONG_BYTES = 3
    MAXIMUM_NESTING = 2
    MAXIMUM_FRAME = 9
    VERSION = 6
    Versions = {5, 6}
    MaxFrames = 2
    Commands <- MCCommands
    Numbers <- MCNumbers
    Dashed <- MCDashed
    UNSET = UNSET
    Lists <- MCLists
    Sizes <- MCSizes
    EPSILON <- MCEpsilon
INVARIANTS DecodersAreExact EventsArriveAsSent RequestsAreTerms ArgumentsMeanWhatTheySay TilesFillTheCanvas
\* A record is decoded, a line read and a canvas filled once; a pipe ends.
CHECK_DEADLOCK FALSE
