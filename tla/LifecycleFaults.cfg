SPECIFICATION Spec
CONSTANTS
    p1 = p1
    p2 = p2
    Procs = {p1, p2}
    Local = TRUE
    Commands = {"deploy", "start", "stop", "destroy", "backfill"}
    Faults = {"crash", "io", "port", "probe", "outage"}
    MaxCommands = 3
INVARIANT GuidanceRunnable
CHECK_DEADLOCK FALSE
SYMMETRY Symmetry
