CONSTANTS
    Callers = {c1, c2, c3}
    CanClose = FALSE
SPECIFICATION Spec
PROPERTIES
    NeverResurrected
