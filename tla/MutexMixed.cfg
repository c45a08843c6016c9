SPECIFICATION Spec
CONSTANTS
    p3 = p3
    p2 = p2
    p1 = p1
    Procs = {p1, p2, p3}
    Modes = {"shared", "exclusive"}
    Crashers = {p1, p2, p3}
    Interruptible = {p1, p2, p3}
    MaxShared = 3
    Clearers = {p1, p2, p3}
INVARIANT TypeOK
PROPERTY InvalidIsFinal
CHECK_DEADLOCK FALSE
SYMMETRY Symmetry
