CONSTANTS
    None = None
    Unusable = Unusable
    Overflow = Overflow
    Error = Error
    c1 = c1
    c2 = c2
    c3 = c3
    c4 = c4
    c5 = c5
    c6 = c6
    c7 = c7
    Commits = {c1, c2, c3, c4, c5, c6, c7}
    MaxFiles = 3
    MaxFileBytes = 3
    MaxTotalBytes = 4
    DefaultRequired = {"typecheck", "lint", "build"}
    HasSpec = {"typecheck", "lint", "build"}
    DefaultCheck = "typecheck"
    TreeOf <- MCTreeOf
    Requests <- MCRequests
    Checks <- MCChecks
    Rank <- MCRank
    DependsOn <- MCDependsOn
SPECIFICATION Spec
INVARIANTS
    Inv
    PassIsEarned
    FailureIsVisible
    SnapshotIsExact
    DependenciesFirst
PROPERTIES
    VerificationEnds
