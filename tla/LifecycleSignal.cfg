SPECIFICATION FairSpec
CONSTANTS
    p1 = p1
    Procs = {p1}
    Local = FALSE
    Commands = {"deploy", "start", "stop", "destroy"}
    Faults = {"signal"}
    MaxCommands = 4
INVARIANT StateMatchesResources
INVARIANT CaughtStaysInterrupted
INVARIANT CaughtToolStops
PROPERTY SignalEndsProcess
CHECK_DEADLOCK FALSE
