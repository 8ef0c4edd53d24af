CONSTANTS
    Verdicts = {pass, blocked}
    NumJobs = 3
    PageSize = 2
    MaxResults = 2
    MaxOthers = 2
    MaxFaults = 1
SPECIFICATION Spec
SYMMETRY Symmetry
INVARIANTS
    StoredWasPublished
    NewestIsShown

