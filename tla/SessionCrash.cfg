CONSTANTS
    MaxIndexId = 1
    MaxRequestId = 4
    Requests <- MCFewRequests
    MaxCrashes = 1
    MaxKills = 0
SPECIFICATION FairSpec
PROPERTY AwaitReturns
CHECK_DEADLOCK FALSE
