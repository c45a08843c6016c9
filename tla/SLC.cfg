SPECIFICATION Spec
CONSTANTS
    Procs = {"p1", "p2"}
    Aliases = {"PY", "RUST"}
    Builtins = {"PY"}
    RustAlias = "RUST"
    Catalog <- MCCatalog
    Requests <- MCRequests
    OfficialAlone = TRUE
    MaxCommands = 3
    MaxTrouble = 1
INVARIANT AliasesDisjoint
INVARIANT RecordedHasPackage
INVARIANT AvailableResolves
PROPERTY SuccessIsActive
PROPERTY DeferredTakesEffect
CHECK_DEADLOCK FALSE
