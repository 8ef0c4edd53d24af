CONSTANTS
    None = None
    Malformed = Malformed
    Stale = Stale
    s1 = s1
    s2 = s2
    Workers = {w1, w2}
    Sources = {s1, s2}
    DepPaths = {"modules/a", "modules/b"}
    GenPaths = {"out"}
    MaxFiles = 2
    MaxJobs = 2
    MaxCrashes = 1
    MaxDisturbed = 1
    Commit <- MCCommit
    Resolutions <- MCResolutions
    Installs <- MCInstalls
    Used = {s1}
    Earlier <- MCEarlier
    Generated <- MCGenerated
SPECIFICATION Spec
CHECK_DEADLOCK FALSE
INVARIANTS
    Inv
    ComposedIsTrusted
    MetadataIsOfArtifact
    ReportedIsStored
PROPERTIES
    WriteOnce
    JobsEnd
