CONSTANTS
    QueueJobs = {q1, q2, q3}
    Ids = {v1, v2, v3}
    NativeJobs = {n1, n2, n3}
    NoId = NoId
    MaxResults = 2
SPECIFICATION RegistrySpec
SYMMETRY Symmetry
INVARIANTS
    RegistryInv
    FileIsRetained
