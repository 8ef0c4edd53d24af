CONSTANTS
    Jobs = {1, 2}
    Ids = {v1, v2, v3}
    NoId = NoId
    Undecodable = {}
    Poison = {}
    MaxResults = 2
    MaxFailures = 0
    MaxStorageFaults = 0
    MaxCrashes = 1
SPECIFICATION FairSpec
PROPERTIES
    RecoveredJobSettles
CHECK_DEADLOCK FALSE
