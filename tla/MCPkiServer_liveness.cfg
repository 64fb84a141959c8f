CONSTANTS
    Slots = {s1, s2}
    Tokens = {t1}
    Hosts = {h1}
    EnrollmentIds = {e1}
    Serials = {x1}
    Hierarchies <- SomeHierarchies
    CAs = {ca1, ca2}
    None = None
    TTLs = {0}
    Lifetime = 3
    RenewBefore = 1
    BackDate = 1
    MayFail = TRUE
    MaxClock = 3
    MaxRequests = 2
    MaxRestarts = 1
SPECIFICATION FairSpec
INVARIANTS
    TokenStatusTruthful
    ViewsAgree
PROPERTIES
    RequestsFinish
    ShutdownEnds
CHECK_DEADLOCK FALSE
