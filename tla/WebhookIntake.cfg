CONSTANTS
    Deliveries = {d1, d2, d3}
    Irrelevant = {d3}
    Requests = {r1, r2, r3}
    NoDelivery = NoDelivery
    MaxEntries = 2
    Ttl = 2
    MaxJobs = 2
SPECIFICATION IntakeSpec
SYMMETRY Symmetry
INVARIANTS
    IntakeInv
    RefusedOnlyIfHandled
PROPERTIES
    NoSecondJobInWindow
    WindowsStayOpen
