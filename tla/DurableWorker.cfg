CONSTANTS
    Jobs = {1, 2, 3, 4}
    Ids = {v1, v2, v3, v4, v5}
    NoId = NoId
    Undecodable = {4}
    Poison = {3}
    MaxResults = 1
    MaxFailures = 1
    MaxStorageFaults = 2
    MaxCrashes = 2
SPECIFICATION FairSpec
INVARIANTS
    NoAcceptedJobLost
    ProcessingIsHeld
PROPERTIES
    ResultIsFinal
    SettledUnlessTorn
CHECK_DEADLOCK FALSE
