CONSTANTS
    p1 = p1
    p2 = p2
    t1 = t1
    t2 = t2
    Products = {p1}
    Tokens = {t1, t2}
    NoToken = NoToken
    OtherTargets = {"penalized"}
    MaxGeneration = 2
    MaxVersion = 3
    MaxRequests = 3
SYMMETRY Symmetry
SPECIFICATION Spec
INVARIANTS
    TypeOK
    RowsNeverGoBack
    ControlsMatchRequests
    OnlyConflictsRefuse
PROPERTIES
    SessionKept
CHECK_DEADLOCK FALSE
