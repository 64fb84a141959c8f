CONSTANTS
    prod = prod
    prod2 = prod2
    web = web
    issuer = issuer
    bind = bind
    policy = policy
    team = team
    f1 = f1
    f2 = f2
    read = read
    write = write
    Names <- MCNames
    Subjects = {team}
    Fingerprints = {f1, f2}
    Verbs = {read, write}
    NumFiles = 2
    Contents <- MCContents
    MaxDeployments = 2
    MaxStarts = 3
    None = None
SPECIFICATION Spec
INVARIANTS
    TypeOK
    LoadedFaithfully
    RestartConverges
    EveryRowShown
CHECK_DEADLOCK FALSE
