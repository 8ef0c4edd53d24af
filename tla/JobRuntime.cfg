CONSTANTS
    Jobs = {j1, j2}
    Stoppers = {s1, s2}
    Callers = {c1}
    MaxGenerations = 3
    NoJob = NoJob
SPECIFICATION FairSpec
INVARIANTS
    AtMostOneOperation
    ParkedIsWakeable
    QuiescentAfterStop
PROPERTIES
    QueuedJobIsTaken
    StopReturns
