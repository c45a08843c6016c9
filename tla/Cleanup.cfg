SPECIFICATION Spec
CONSTANTS
    Resources <- MCResources
    Info <- MCInfo
    Formatted <- MCDeployments
    Deployments <- MCDeployments
    Owners = {"me"}
    Caller = "me"
    Targets <- MCTargets
    Options <- MCOptions
    Cutoff = 2
    InitialCloud <- MCInitialCloud
    InitialPages <- MCInitialPages
    MaxAttempts = 2
    MaxFaults = 1
    MaxProcesses = 2
INVARIANTS
    ReportsTrue
    OrderSuffices
    LostListingsHarmless
PROPERTY
    ProcessEnds
CHECK_DEADLOCK FALSE
