CONSTANTS
    Clients = {c1, c2}
    Described = {"metadata.json"}
    None = None
    Missing = Missing
    Torn = Torn
    MaxRuns = 2
    MaxFaults = 1
    MaxCAs = 2
SYMMETRY Symmetry
SPECIFICATION Spec
INVARIANTS
    TypeOK
    WholeAfterSuccess
    ProtectsExisting
CHECK_DEADLOCK FALSE
