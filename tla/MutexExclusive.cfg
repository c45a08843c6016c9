SPECIFICATION FairSpec
CONSTANTS
    p3 = p3
    p2 = p2
    p1 = p1
    Procs = {p1, p2, p3}
    Modes = {"exclusive"}
    Crashers = {}
    Interruptible = {}
    MaxShared = 3
    Clearers = {}
INVARIANT ExclusiveHeldByOne
PROPERTY ImplementsRWLock
PROPERTY AlwaysFreedAgain
