------------------------------- MODULE RWLock -------------------------------
(***************************************************************************)
(* What a directory lock promises: one exclusive holder or any number of   *)
(* shared holders, each of which holds it from a successful acquire to its *)
(* release.  A holder that dies keeps the lock.                            *)
(***************************************************************************)
CONSTANT Procs

VARIABLES writers, readers

Init == writers = {} /\ readers = {}

AcquireExclusive(p) ==
    /\ writers = {} /\ readers = {}
    /\ writers' = {p}
    /\ UNCHANGED readers

AcquireShared(p) ==
    /\ writers = {}
    /\ readers' = readers \cup {p}
    /\ UNCHANGED writers

ReleaseExclusive(p) ==
    /\ writers = {p}
    /\ writers' = {}
    /\ UNCHANGED readers

ReleaseShared(p) ==
    /\ p \in readers
    /\ readers' = readers \ {p}
    /\ UNCHANGED writers

Next == \E p \in Procs :
    \/ AcquireExclusive(p)
    \/ AcquireShared(p)
    \/ ReleaseExclusive(p)
    \/ ReleaseShared(p)

Spec == Init /\ [][Next]_<<writers, readers>>

=============================================================================
