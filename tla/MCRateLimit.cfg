CONSTANTS
    Requests = {r1, r2, r3}
    Limit = 2
    Window = 5
    MaxSkew = 1
    RedisTimeout = 1
    Late = 1
    LastTick = 7
SYMMETRY RequestSymmetry
SPECIFICATION Spec
INVARIANTS
    TypeOK
    WindowBound
    RejectsJustified
    RateInvariant
CHECK_DEADLOCK FALSE
