CONSTANTS
    Slots = {s1, s2}
    Tokens = {t1}
    Hosts = {h1, h2}
    EnrollmentIds = {e1, e2}
    Serials = {x1, x2}
    Hierarchies <- SomeHierarchies
    CAs = {ca1, ca2}
    None = None
    TTLs <- LiveOrExpired
    Lifetime = 3
    RenewBefore = 1
    BackDate = 1
    MayFail = TRUE
    MaxClock = 0
    MaxRequests = 3
    MaxRestarts = 2
SYMMETRY Symmetry
SPECIFICATION Spec
INVARIANTS
    TypeOK
    IssuedToEnrolled
    StoreNeverRefused
    EnrollmentsUsedLiveTokens
    AuditTruthful
    RepliesDurable
    RevocationsMarked
PROPERTIES
    ImplementsRegistry
    RevocationPermanent
CHECK_DEADLOCK FALSE
