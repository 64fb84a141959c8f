CONSTANTS
    Writers = {w1, w2, w3}
    Events = {ev1, ev2}
    Ids = {1, 2, 3, 4}
    LegacyIds = {1}
    TicksPerSecond = 2
    MinStep = 0
    MaxStep = 1
    MaxSetback = 1
    MaxClock = 3
    MayFail = TRUE
    MaxLimit = 3
    DefaultLimit = 2
SYMMETRY Symmetry
SPECIFICATION Spec
INVARIANTS
    TypeOK
    LinksResolve
    SerialChain
    SerialVerifies
CHECK_DEADLOCK FALSE
