CONSTANTS
    Jobs = {j1, j2, j3}
    Waiters = {w1, w2}
    NoJob = NoJob
    MaxRecent = 2
    MaxRestarts = 1
SPECIFICATION Spec
SYMMETRY Symmetry
INVARIANTS
    NoMissedOutcome
    Inv
