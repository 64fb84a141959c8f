CONSTANTS
    Writers = {w1, w2}
    Events = {ev1, ev2}
    Ids = {1, 2, 3}
    LegacyIds = {}
    TicksPerSecond = 2
    MinStep = 1
    MaxStep = 1
    MaxSetback = 0
    MaxClock = 3
    MayFail = FALSE
    MaxLimit = 3
    DefaultLimit = 2
SYMMETRY Symmetry
SPECIFICATION Spec
INVARIANTS
    NoFalseAlarm
CHECK_DEADLOCK FALSE
