\* A deployment whose database still runs on data inside its container.
SPECIFICATION Spec
CONSTANTS
    Scenarios = {"overlayUp"}
    Careful = FALSE
    Downgrades = FALSE
    MaxRunner = 2
    MaxCommands = 3
    MaxTrouble = 1
INVARIANTS DataKept
CHECK_DEADLOCK FALSE
