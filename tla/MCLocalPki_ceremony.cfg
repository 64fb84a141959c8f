CONSTANTS
    Lifetimes = {1, 4}
    Sources = {"generated", "file", "plain"}
    RootSources = {"file"}
    ExportSets <- OneCopy
    None = None
    Unset = Unset
    Missing = Missing
    Torn = Torn
    Plain = Plain
    RotateWithin = 1
    MigrateWithin = 3
    MaxRuns = 3
    MaxFaults = 1
    MaxLoads = 1
    MaxClock = 2
    Endpoints = {one, two}
    Ratios = {0, 25, 100}
    Targets <- SomeTargets
    ConfigFiles <- SomeConfigFiles
    Environments <- SomeEnvironments
SPECIFICATION Spec
INVARIANTS
    TypeOK
    RootDelivered
    IntermediateDelivered
    WithinRoot
    UndisturbedLoadIssues
    ViewsTrackDelivered
    
CHECK_DEADLOCK FALSE
