--------------------------- MODULE DirectoryMutex ---------------------------
(***************************************************************************)
(* internal/directorymutex: the cross-process lock of a directory.         *)
(*                                                                         *)
(* The lock is the NAME of one marker file.  Each file-system call is one  *)
(* atomic step: reading the directory (findMarker) is a step, the create,  *)
(* rename or remove that acts on what was read is a later step of the same *)
(* process, and every other process may run in between.                    *)
(*                                                                         *)
(* A directory listing is taken to be an instantaneous snapshot, which is  *)
(* the best case for the protocol: the operating system promises less.     *)
(***************************************************************************)
EXTENDS Naturals, FiniteSets

CONSTANTS
    Procs,          \* launcher processes using the directory
    Modes,          \* the lock modes they ask for
    Crashers,       \* processes that may be killed
    Interruptible,  \* processes that may receive SIGINT or SIGTERM
    Clearers,       \* processes that may run `unlock`
    MaxShared       \* bound: no shared acquire starts at or above this count

ASSUME ModesAssumption == Modes \subseteq {"shared", "exclusive"}

ASSUME MaxSharedAssumption == MaxShared \in Nat

ASSUME FaultyAssumption ==
    Crashers \subseteq Procs /\ Interruptible \subseteq Procs /\ Clearers \subseteq Procs

VARIABLES
    markers,    \* the marker files in the directory
    pc,         \* where each process stands in withLock or ClearLock
    mode,       \* the lock mode it asked for
    seen,       \* the marker its last findMarker returned, {} for nil
    working,    \* its callback is running
    releaseErr, \* how its last release ended
    returned    \* what its last withLock call returned

vars == <<markers, pc, mode, seen, working, releaseErr, returned>>

-----------------------------------------------------------------------------
(* Marker names *)

\* .dirmutex.exclusive
exclusiveMarkerName == 0

\* .dirmutex.shared.<count>, for a count of at least 1
sharedMarkerName(count) == count

Marker == Nat

\* The program points of withLock ("acquiring" .. "exiting") and of ClearLock.
Steps == {"idle", "acquiring", "tryAcquire", "acquired", "callback", "releasing",
          "tryRelease", "releaseRetry", "exiting", "clearing", "dead", "orphaned"}

\* Between a successful acquire and the end of its release.
Holding == {"acquired", "callback", "releasing", "tryRelease", "releaseRetry"}

Errors == {"nil", "acquireTimeout", "invalidMarker", "lockStateChanged", "unlockTimeout"}

TypeOK ==
    /\ markers \subseteq Marker
    /\ pc \in [Procs -> Steps]
    /\ mode \in [Procs -> {"shared", "exclusive"}]
    /\ seen \in [Procs -> SUBSET Marker]
    /\ working \in [Procs -> BOOLEAN]
    /\ releaseErr \in [Procs -> Errors]
    /\ returned \in [Procs -> Errors]

Init ==
    /\ markers = {}
    /\ pc = [p \in Procs |-> "idle"]
    /\ mode = [p \in Procs |-> "exclusive"]
    /\ seen = [p \in Procs |-> {}]
    /\ working = [p \in Procs |-> FALSE]
    /\ releaseErr = [p \in Procs |-> "nil"]
    /\ returned = [p \in Procs |-> "nil"]

Goto(p, to) == pc' = [pc EXCEPT ![p] = to]

\* The listing goes out of scope with the try that used it.
Forget(p) == seen' = [seen EXCEPT ![p] = {}]

\* Mutant: findMarker picks one of several markers.
InvalidNever == FALSE

\* findMarker refuses a directory with more than one marker.
Invalid == \E a, b \in markers : a # b

-----------------------------------------------------------------------------
(* acquire *)

\* WithShared, WithExclusive: a process asks for a lock.  (A release that times
\* out leaves the counter too high for ever, so it has to be bounded.)
Acquire(p, m) ==
    /\ pc[p] = "idle"
    /\ m = "shared" => \A n \in markers : n < MaxShared
    /\ Goto(p, "acquiring")
    /\ mode' = [mode EXCEPT ![p] = m]
    /\ releaseErr' = [releaseErr EXCEPT ![p] = "nil"]
    /\ returned' = [returned EXCEPT ![p] = "nil"]
    /\ UNCHANGED <<markers, seen, working>>

\* A shared acquire goes on unless it sees the exclusive marker, an exclusive
\* one only when it sees no marker at all; otherwise errWouldBlock, sleep and
\* read again.
MayProceed(p) ==
    IF mode[p] = "exclusive" THEN markers = {} ELSE exclusiveMarkerName \notin markers

\* acquire: the loop found no invalid state and tryAcquire was not blocked by
\* what it read.
AcquireFind(p) ==
    /\ pc[p] = "acquiring"
    /\ ~Invalid
    /\ MayProceed(p)
    /\ seen' = [seen EXCEPT ![p] = markers]
    /\ Goto(p, "tryAcquire")
    /\ UNCHANGED <<markers, mode, working, releaseErr, returned>>

\* acquire returns an error of findMarker at once.
AcquireInvalid(p) ==
    /\ pc[p] = "acquiring"
    /\ Invalid
    /\ returned' = [returned EXCEPT ![p] = "invalidMarker"]
    /\ Goto(p, "idle")
    /\ UNCHANGED <<markers, mode, seen, working, releaseErr>>

\* acquire gives up when the context has ended, at the loop head or in the sleep.
AcquireTimeout(p) ==
    /\ pc[p] = "acquiring"
    /\ returned' = [returned EXCEPT ![p] = "acquireTimeout"]
    /\ Goto(p, "idle")
    /\ UNCHANGED <<markers, mode, seen, working, releaseErr>>

\* Mutant: the marker is created without O_EXCL.
CanCreateWithoutExcl(name) == name \in Marker

\* createMarker: O_CREATE|O_EXCL fails on a file of the same name only.
CanCreate(name) == name \notin markers

\* os.Rename needs the old name; on POSIX it replaces an existing target.
CanRename(from) == from \in markers
Renamed(from, to) == (markers \ {from}) \cup {to}

\* The marker a shared or an exclusive acquire creates in an unlocked directory.
FirstMarker(m) == IF m = "exclusive" THEN exclusiveMarkerName ELSE sharedMarkerName(1)

\* tryAcquireExclusive, tryAcquireShared: act on the marker that was read.
TryAcquire(p) ==
    /\ pc[p] = "tryAcquire"
    /\ \/ /\ seen[p] = {}
          /\ CanCreate(FirstMarker(mode[p]))
          /\ markers' = markers \cup {FirstMarker(mode[p])}
       \/ \E n \in seen[p] :
            /\ CanRename(n)
            /\ markers' = Renamed(n, sharedMarkerName(n + 1))
    /\ Goto(p, "acquired")
    /\ Forget(p)
    /\ UNCHANGED <<mode, working, releaseErr, returned>>

\* ENOENT or EEXIST: errWouldBlock, and back to the head of the loop.
TryAcquireBlocked(p) ==
    /\ pc[p] = "tryAcquire"
    /\ \/ seen[p] = {} /\ ~CanCreate(FirstMarker(mode[p]))
       \/ \E n \in seen[p] : ~CanRename(n)
    /\ Goto(p, "acquiring")
    /\ Forget(p)
    /\ UNCHANGED <<markers, mode, working, releaseErr, returned>>

\* withLock registers the release as a signal handler and calls the callback.
CallbackBegins(p) ==
    /\ pc[p] = "acquired"
    /\ Goto(p, "callback")
    /\ working' = [working EXCEPT ![p] = TRUE]
    /\ UNCHANGED <<markers, mode, seen, releaseErr, returned>>

-----------------------------------------------------------------------------
(* release *)

\* The callback returns; releaseOnce unregisters the signal handler and releases.
CallbackReturns(p) ==
    /\ pc[p] = "callback"
    /\ Goto(p, "releasing")
    /\ working' = [working EXCEPT ![p] = FALSE]
    /\ UNCHANGED <<markers, mode, seen, releaseErr, returned>>

\* A signal while the handler is registered: the handler goroutine takes it and
\* runs the release, the callback keeps running.
Interrupt(p) ==
    /\ p \in Interruptible
    /\ pc[p] = "callback"
    /\ Goto(p, "releasing")
    /\ UNCHANGED <<markers, mode, seen, working, releaseErr, returned>>

\* The marker's mode is the one the process holds.
SameMode(p, m) == (m = exclusiveMarkerName) <=> (mode[p] = "exclusive")

\* release found a marker of the mode it has to release.
ReleaseFind(p) ==
    /\ pc[p] = "releasing"
    /\ markers # {}
    /\ ~Invalid
    /\ \A m \in markers : SameMode(p, m)
    /\ seen' = [seen EXCEPT ![p] = markers]
    /\ Goto(p, "tryRelease")
    /\ UNCHANGED <<markers, mode, working, releaseErr, returned>>

\* The release has ended with err.  In the ordinary case withLock returns: the
\* deferred function assigns err to callbackErr, which the `return callbackErr`
\* before it has already read, so the caller gets nil.  After a signal the
\* handler goroutine goes on to the final handler instead.
Released(p, err) ==
    /\ releaseErr' = [releaseErr EXCEPT ![p] = err]
    /\ returned' = [returned EXCEPT ![p] = IF working[p] THEN @ ELSE "nil"]
    /\ Goto(p, IF working[p] THEN "exiting" ELSE "idle")

\* tryRelease: invalid markers, no marker (counts as released), another mode.
ReleaseEnds(p) ==
    /\ pc[p] = "releasing"
    /\ \/ Invalid /\ Released(p, "invalidMarker")
       \/ markers = {} /\ Released(p, "nil")
       \/ /\ ~Invalid
          /\ \E m \in markers : ~SameMode(p, m)
          /\ Released(p, "lockStateChanged")
    /\ UNCHANGED <<markers, mode, seen, working>>

\* Mutant: every release counts down.
TryReleaseCountsDown(p) ==
    /\ pc[p] = "tryRelease"
    /\ \E n \in seen[p] :
         /\ n \in markers
         /\ markers' = Renamed(n, sharedMarkerName(n - 1))
    /\ Released(p, "nil")
    /\ Forget(p)
    /\ UNCHANGED <<mode, working>>

\* Mutant: a failed attempt to remove the marker counts as a release.
TryReleaseKeepsMarker(p) ==
    /\ pc[p] = "tryRelease"
    /\ Released(p, "nil")
    /\ Forget(p)
    /\ UNCHANGED <<markers, mode, working>>

\* tryReleaseExclusive, tryReleaseShared: remove the last marker, or count down.
TryRelease(p) ==
    /\ pc[p] = "tryRelease"
    /\ \E n \in seen[p] :
         /\ n \in markers
         /\ markers' = IF n \in {exclusiveMarkerName, sharedMarkerName(1)}
                       THEN markers \ {n}
                       ELSE Renamed(n, sharedMarkerName(n - 1))
    /\ Released(p, "nil")
    /\ Forget(p)
    /\ UNCHANGED <<mode, working>>

\* The marker that was read is gone: errWouldBlock, sleep.
TryReleaseBlocked(p) ==
    /\ pc[p] = "tryRelease"
    /\ \E n \in seen[p] : n \notin markers
    /\ Goto(p, "releaseRetry")
    /\ Forget(p)
    /\ UNCHANGED <<markers, mode, working, releaseErr, returned>>

ReleaseRetry(p) ==
    /\ pc[p] = "releaseRetry"
    /\ Goto(p, "releasing")
    /\ UNCHANGED <<markers, mode, seen, working, releaseErr, returned>>

ReleaseTimeout(p) ==
    /\ pc[p] = "releaseRetry"
    /\ Released(p, "unlockTimeout")
    /\ UNCHANGED <<markers, mode, seen, working>>

-----------------------------------------------------------------------------
(* process exit, crash and `unlock` *)

\* The process ends; a marker it holds stays behind.
Die(p) ==
    /\ Goto(p, IF pc[p] \in Holding THEN "orphaned" ELSE "dead")
    /\ working' = [working EXCEPT ![p] = FALSE]
    /\ Forget(p)
    /\ UNCHANGED <<markers, mode, releaseErr, returned>>

\* After the once-handlers the final handler exits the process.
FinalHandler(p) ==
    /\ pc[p] = "exiting"
    /\ Die(p)

\* The callback returns while the handler goroutine holds its release:
\* unregister() is false, nothing waits for the handler, main returns.
MainReturns(p) ==
    /\ pc[p] \in {"releasing", "tryRelease", "releaseRetry", "exiting"}
    /\ working[p]
    /\ Die(p)

\* A signal while no handler is registered, before the registration or after
\* unregister(): the final handler exits at once.
InterruptExit(p) ==
    /\ p \in Interruptible
    /\ pc[p] \in {"acquiring", "tryAcquire", "acquired", "releasing", "tryRelease", "releaseRetry"}
    /\ ~working[p]
    /\ Die(p)

\* The process is killed.
Crash(p) ==
    /\ p \in Crashers
    /\ pc[p] \notin {"idle", "dead", "orphaned"}
    /\ Die(p)

\* ClearLock reads the directory (an error of findMarker ends it) ...
ClearLockFind(p) ==
    /\ p \in Clearers
    /\ pc[p] = "idle"
    /\ markers # {}
    /\ ~Invalid
    /\ seen' = [seen EXCEPT ![p] = markers]
    /\ Goto(p, "clearing")
    /\ UNCHANGED <<markers, mode, working, releaseErr, returned>>

\* ... and removes the marker it saw, whoever holds it.
ClearLock(p) ==
    /\ pc[p] = "clearing"
    /\ markers' = markers \ seen[p]
    /\ Goto(p, "idle")
    /\ Forget(p)
    /\ UNCHANGED <<mode, working, releaseErr, returned>>

-----------------------------------------------------------------------------
(* Specification *)

Step(p) ==
    \/ AcquireFind(p)
    \/ AcquireInvalid(p)
    \/ AcquireTimeout(p)
    \/ TryAcquire(p)
    \/ TryAcquireBlocked(p)
    \/ CallbackBegins(p)
    \/ CallbackReturns(p)
    \/ ReleaseFind(p)
    \/ ReleaseEnds(p)
    \/ TryRelease(p)
    \/ TryReleaseBlocked(p)
    \/ ReleaseRetry(p)
    \/ ReleaseTimeout(p)
    \/ FinalHandler(p)
    \/ MainReturns(p)
    \/ ClearLock(p)

Environment(p) ==
    \/ \E m \in Modes : Acquire(p, m)
    \/ Interrupt(p)
    \/ InterruptExit(p)
    \/ Crash(p)
    \/ ClearLockFind(p)

Next == \E p \in Procs : Step(p) \/ Environment(p)

Spec == Init /\ [][Next]_vars

\* Every process that is inside a call keeps running unless it is killed.
FairSpec == Spec /\ \A p \in Procs : WF_vars(Step(p))

-----------------------------------------------------------------------------
(* Properties *)

\* A process that died with the lock still counts as its holder.
ExclusiveHolders == {p \in Procs : mode[p] = "exclusive" /\ pc[p] \in Holding \cup {"orphaned"}}
SharedHolders == {p \in Procs : mode[p] = "shared" /\ pc[p] \in Holding \cup {"orphaned"}}

\* Whatever shared users, crashes and signals do, at most one process is ever
\* between a successful AcquireExclusive and the end of its release, and the
\* exclusive marker is in the directory as long as one is: no other process'
\* stale listing removes it (acquire, release; without `unlock`).
ExclusiveHeldByOne ==
    /\ \A p, q \in ExclusiveHolders : p = q
    /\ ExclusiveHolders # {} => exclusiveMarkerName \in markers

\* What a process acts on when it releases is a marker of its own mode, and what
\* it acts on when it acquires is never the exclusive marker; no `unlock` runs.
ListingsFit ==
    \A p \in Procs :
        /\ pc[p] = "tryRelease" => \A n \in seen[p] : SameMode(p, n)
        /\ pc[p] = "tryAcquire" =>
               IF mode[p] = "exclusive" THEN seen[p] = {} ELSE exclusiveMarkerName \notin seen[p]
        /\ pc[p] # "clearing"

\* The inductive invariant behind ExclusiveHeldByOne.
IInv == TypeOK /\ ListingsFit /\ ExclusiveHeldByOne

\* The protocol implements a readers-writer lock: a lock is taken and given up
\* at one instant, the one of the file-system call
\* (directorymutex.md, "updates are linearizable").
Lock == INSTANCE RWLock WITH writers <- ExclusiveHolders, readers <- SharedHolders
ImplementsRWLock == Lock!Spec

\* A race has left two markers, and no process acts on a listing from before it.
Stuck ==
    /\ Cardinality(markers) > 1
    /\ \A p \in Procs : pc[p] \notin {"tryAcquire", "tryRelease", "clearing"}

\* Such a directory stays as it is for ever: acquire, release and `unlock` all go
\* through findMarker, which refuses it before any of them acts (ClearLock too).
InvalidIsFinal == [][Stuck => Stuck' /\ UNCHANGED markers]_vars

\* With every process running on, the directory is unlocked again and again: no
\* lock outlives its holder's callback (withLock's deferred release).
AlwaysFreedAgain == []<>(markers = {})

=============================================================================
