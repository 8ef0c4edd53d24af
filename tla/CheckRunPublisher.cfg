CONSTANTS
    None = None
    r = r
    s1 = s1
    s2 = s2
    Calls = {c1, c2}
    Repos <- MCRepos
    Shas <- MCShas
    Inputs <- MCInputs
    ForeignVers <- MCForeignVers
    MaxFreshness = 1
    MaxCalls = 3
    MaxRuns = 3
    MaxCrashes = 1
    MaxGivenUp = 1
CHECK_DEADLOCK FALSE
SPECIFICATION Spec
INVARIANTS
    Inv
PROPERTIES
    NeverRegresses
    StaleIsSuperseded
    WrittenIsShown
    OthersUntouched
    EveryCallSettles
