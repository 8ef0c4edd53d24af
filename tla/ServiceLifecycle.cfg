CONSTANTS
    Callers = {c1, c2, c3, c4}
    CanClose = TRUE
SPECIFICATION FairSpec
INVARIANTS
    AtRest
    NoOperationOnClosedStores
PROPERTIES
    CallsReturn
