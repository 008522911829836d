CONSTANTS
    home = home
    missing = missing
    NO_ROOT = NO_ROOT
    Roots <- MCRoots
    Canonical <- MCCanonical
    AUTOSHOT_STEPS <- MCSteps
    WARMUP = 1
    DARK = TRUE
    SECONDS <- MCSeconds
    TABS <- MCTabs
    PHASES <- MCPhases
    FrameCapacity = 1
    BufferedLines = 1
    MaxEvents = 1
    MaxTicks = 1
    MaxFrames = 1
    MaxTouches = 2
SPECIFICATION FairSpec
INVARIANTS
    RecordingIsWhole PicturesMatchStops
PROPERTIES OldEventsComeFirst CapturesEnd
CHECK_DEADLOCK FALSE
