CONSTANTS
    Clients = {c1}
    Described = {"metadata.json"}
    None = None
    Missing = Missing
    Torn = Torn
    MaxRuns = 2
    MaxFaults = 0
    MaxCAs = 1
SPECIFICATION Spec
INVARIANT BundleMatchesCertificate
CHECK_DEADLOCK FALSE
