SPECIFICATION Spec
CONSTANTS
    p1 = p1
    p2 = p2
    Procs = {p1, p2}
    Local = TRUE
    Commands = {"deploy", "start", "stop", "destroy", "versionCheck"}
    Faults = {"outage"}
    MaxCommands = 4
INVARIANT TypeOK
INVARIANT AtRestUsable
INVARIANT OneTool
INVARIANT ToolIsAnnounced
INVARIANT LocalStateTrue
CHECK_DEADLOCK FALSE
SYMMETRY Symmetry
