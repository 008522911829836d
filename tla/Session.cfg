CONSTANTS
    MaxIndexId = 1
    MaxRequestId = 5
    Requests <- MCAllRequests
    MaxCrashes = 1
    MaxKills = 1
SPECIFICATION FairSpec
INVARIANTS
    BothSidesAgree
PROPERTIES EveryCallReturns BackendFollowsClient
CHECK_DEADLOCK FALSE
