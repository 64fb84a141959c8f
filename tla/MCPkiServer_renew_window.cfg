CONSTANTS
    Slots = {s1, s2}
    Tokens = {t1}
    Hosts = {h1}
    EnrollmentIds = {e1, e2}
    Serials = {x1, x2}
    Hierarchies <- SomeHierarchies
    CAs = {ca1}
    None = None
    TTLs = {0}
    Lifetime = 3
    RenewBefore = 1
    BackDate = 1
    MayFail = FALSE
    MaxClock = 0
    MaxRequests = 3
    MaxRestarts = 1
SPECIFICATION Spec
PROPERTY
    RenewedInsideWindow
CHECK_DEADLOCK FALSE
