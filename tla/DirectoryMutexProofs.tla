------------------------ MODULE DirectoryMutexProofs ------------------------
(* Proofs about DirectoryMutex for every set of processes. *)
EXTENDS DirectoryMutex, FiniteSetTheorems, TLAPS

\* The initial state satisfies the inductive invariant.
LEMMA InitIInv == Init => IInv
  BY DEF Init, IInv, TypeOK, ListingsFit, ExclusiveHeldByOne, ExclusiveHolders,
         Steps, Holding, Errors, Marker

\* Every step of the protocol keeps the variables' types.
LEMMA NextTypeOK == TypeOK /\ [Next]_vars => TypeOK'
<1> SUFFICES ASSUME TypeOK, [Next]_vars PROVE TypeOK'
  OBVIOUS
<1> USE DEF TypeOK, Steps, Errors, Marker, Goto, Forget
<1>1. CASE UNCHANGED vars
  BY <1>1 DEF vars
<1>2. ASSUME NEW p \in Procs, Step(p) PROVE TypeOK'
  <2>1. CASE TryAcquire(p)
    <3>1. \A n \in seen[p] : n \in Nat /\ n + 1 \in Nat
      OBVIOUS
    <3>2. FirstMarker(mode[p]) \in Nat
      BY DEF FirstMarker, sharedMarkerName, exclusiveMarkerName
    <3>3. markers' \subseteq Nat
      BY <2>1, <3>1, <3>2 DEF TryAcquire, Renamed, sharedMarkerName
    <3> QED BY <2>1, <3>3 DEF TryAcquire
  <2>2. CASE TryRelease(p)
    BY <2>2 DEF TryRelease, Released, Renamed, sharedMarkerName, exclusiveMarkerName
  <2>3. CASE ReleaseEnds(p) \/ ReleaseTimeout(p)
    BY <2>3 DEF ReleaseEnds, ReleaseTimeout, Released
  <2>4. CASE FinalHandler(p) \/ MainReturns(p) \/ ClearLock(p)
    BY <2>4 DEF FinalHandler, MainReturns, Die, ClearLock
  <2>5. CASE AcquireFind(p) \/ AcquireInvalid(p) \/ AcquireTimeout(p) \/ TryAcquireBlocked(p)
    BY <2>5 DEF AcquireFind, AcquireInvalid, AcquireTimeout, TryAcquireBlocked
  <2>6. CASE CallbackBegins(p) \/ CallbackReturns(p) \/ ReleaseFind(p)
    BY <2>6 DEF CallbackBegins, CallbackReturns, ReleaseFind
  <2>7. CASE TryReleaseBlocked(p) \/ ReleaseRetry(p)
    BY <2>7 DEF TryReleaseBlocked, ReleaseRetry
  <2> QED BY <1>2, <2>1, <2>2, <2>3, <2>4, <2>5, <2>6, <2>7 DEF Step
<1>3. ASSUME NEW p \in Procs, Environment(p) PROVE TypeOK'
  <2>1. ASSUME NEW m \in Modes, Acquire(p, m) PROVE TypeOK'
    BY <2>1, ModesAssumption DEF Acquire
  <2>2. CASE Interrupt(p) \/ ClearLockFind(p)
    BY <2>2 DEF Interrupt, ClearLockFind
  <2>3. CASE InterruptExit(p) \/ Crash(p)
    BY <2>3 DEF InterruptExit, Crash, Die
  <2> QED BY <1>3, <2>1, <2>2, <2>3 DEF Environment
<1> QED BY <1>1, <1>2, <1>3 DEF Next

\* Type correctness of the lock protocol, `unlock` included.
THEOREM TypeCorrect == Spec => []TypeOK
<1>1. Init => TypeOK
  BY DEF Init, TypeOK, Steps, Errors, Marker
<1> QED BY <1>1, NextTypeOK, PTL DEF Spec

-----------------------------------------------------------------------------
(* At most one exclusive holder, for any mix of modes, crashes and signals. *)

\* A step that gives nobody the lock and leaves the exclusive marker alone
\* cannot disturb ExclusiveHeldByOne.
LEMMA NoNewHolder ==
    ASSUME ExclusiveHeldByOne,
           ExclusiveHolders' \subseteq ExclusiveHolders,
           exclusiveMarkerName \in markers => exclusiveMarkerName \in markers'
    PROVE  ExclusiveHeldByOne'
  BY DEF ExclusiveHeldByOne

\* The inductive step, when no `unlock` runs.
LEMMA NextIInv ==
    ASSUME Clearers = {}
    PROVE  IInv /\ [Next]_vars => IInv'
<1> SUFFICES ASSUME IInv, [Next]_vars PROVE IInv'
  OBVIOUS
<1>0. TypeOK /\ TypeOK' /\ ListingsFit /\ ExclusiveHeldByOne
  BY NextTypeOK DEF IInv
<1> USE <1>0
<1> USE DEF Goto, Forget
<1> SUFFICES ListingsFit' /\ ExclusiveHeldByOne'
  BY DEF IInv
<1>1. CASE UNCHANGED vars
  BY <1>1 DEF vars, ListingsFit, ExclusiveHeldByOne, ExclusiveHolders, SameMode
<1>2. ASSUME NEW p \in Procs, Step(p) PROVE ListingsFit' /\ ExclusiveHeldByOne'
  <2>0. pc \in [Procs -> Steps] /\ seen \in [Procs -> SUBSET Nat]
    BY DEF TypeOK, Marker
  <2>1. CASE AcquireFind(p)
    <3>1. ListingsFit'
      BY <2>0, <2>1 DEF AcquireFind, ListingsFit, SameMode, MayProceed
    <3>2. ExclusiveHolders' \subseteq ExclusiveHolders
      BY <2>0, <2>1 DEF AcquireFind, ExclusiveHolders, Holding
    <3> QED BY <2>1, <3>1, <3>2, NoNewHolder DEF AcquireFind
  <2>2. CASE AcquireInvalid(p) \/ AcquireTimeout(p) \/ TryAcquireBlocked(p)
    <3>1. ListingsFit'
      BY <2>0, <2>2 DEF AcquireInvalid, AcquireTimeout, TryAcquireBlocked, ListingsFit, SameMode
    <3>2. ExclusiveHolders' \subseteq ExclusiveHolders
      BY <2>0, <2>2 DEF AcquireInvalid, AcquireTimeout, TryAcquireBlocked, ExclusiveHolders, Holding
    <3> QED BY <2>2, <3>1, <3>2, NoNewHolder DEF AcquireInvalid, AcquireTimeout, TryAcquireBlocked
  <2>3. CASE TryAcquire(p)
    <3>1. ListingsFit'
      BY <2>0, <2>3 DEF TryAcquire, ListingsFit, SameMode
    <3>2. CASE mode[p] = "exclusive"
      <4>1. seen[p] = {}
        BY <2>3, <3>2 DEF TryAcquire, ListingsFit
      <4>2. exclusiveMarkerName \notin markers /\ exclusiveMarkerName \in markers'
        BY <2>3, <3>2, <4>1 DEF TryAcquire, CanCreate, FirstMarker
      <4>3. ExclusiveHolders = {}
        BY <4>2 DEF ExclusiveHeldByOne
      <4>4. ExclusiveHolders' \subseteq {p}
        BY <2>0, <2>3, <4>3 DEF TryAcquire, ExclusiveHolders, Holding
      <4> QED BY <3>1, <4>2, <4>4 DEF ExclusiveHeldByOne
    <3>3. CASE mode[p] # "exclusive"
      <4>1. exclusiveMarkerName \notin seen[p]
        BY <2>3, <3>3 DEF TryAcquire, ListingsFit
      <4>2. exclusiveMarkerName \in markers => exclusiveMarkerName \in markers'
        BY <2>3, <4>1 DEF TryAcquire, Renamed
      <4>3. ExclusiveHolders' \subseteq ExclusiveHolders
        BY <2>0, <2>3, <3>3 DEF TryAcquire, ExclusiveHolders
      <4> QED BY <3>1, <4>2, <4>3, NoNewHolder
    <3> QED BY <3>2, <3>3
  <2>4. CASE CallbackBegins(p) \/ CallbackReturns(p) \/ TryReleaseBlocked(p) \/ ReleaseRetry(p)
    <3>1. ListingsFit'
      BY <2>0, <2>4 DEF CallbackBegins, CallbackReturns, TryReleaseBlocked, ReleaseRetry, ListingsFit, SameMode
    <3>2. ExclusiveHolders' \subseteq ExclusiveHolders
      BY <2>0, <2>4 DEF CallbackBegins, CallbackReturns, TryReleaseBlocked, ReleaseRetry,
                        ExclusiveHolders, Holding
    <3> QED BY <2>4, <3>1, <3>2, NoNewHolder
            DEF CallbackBegins, CallbackReturns, TryReleaseBlocked, ReleaseRetry
  <2>5. CASE ReleaseFind(p)
    <3>1. ListingsFit'
      BY <2>0, <2>5 DEF ReleaseFind, ListingsFit, SameMode
    <3>2. ExclusiveHolders' \subseteq ExclusiveHolders
      BY <2>0, <2>5 DEF ReleaseFind, ExclusiveHolders, Holding
    <3> QED BY <2>5, <3>1, <3>2, NoNewHolder DEF ReleaseFind
  <2>6. CASE ReleaseEnds(p) \/ ReleaseTimeout(p)
    <3>1. ListingsFit'
      BY <2>0, <2>6 DEF ReleaseEnds, ReleaseTimeout, Released, ListingsFit, SameMode
    <3>2. ExclusiveHolders' \subseteq ExclusiveHolders
      BY <2>0, <2>6 DEF ReleaseEnds, ReleaseTimeout, Released, ExclusiveHolders, Holding
    <3> QED BY <2>6, <3>1, <3>2, NoNewHolder DEF ReleaseEnds, ReleaseTimeout
  <2>7. CASE TryRelease(p)
    <3>1. ListingsFit'
      BY <2>0, <2>7 DEF TryRelease, Released, ListingsFit, SameMode
    <3>2. ExclusiveHolders' \subseteq ExclusiveHolders \ {p}
      BY <2>0, <2>7 DEF TryRelease, Released, ExclusiveHolders, Holding
    <3>3. CASE mode[p] = "exclusive"
      <4>1. p \in ExclusiveHolders
        BY <2>7, <3>3 DEF TryRelease, ExclusiveHolders, Holding
      <4>2. ExclusiveHolders' = {}
        BY <3>2, <4>1 DEF ExclusiveHeldByOne
      <4> QED BY <3>1, <4>2 DEF ExclusiveHeldByOne
    <3>4. CASE mode[p] # "exclusive"
      <4>1. exclusiveMarkerName \notin seen[p]
        BY <2>7, <3>4 DEF TryRelease, ListingsFit, SameMode
      <4>2. exclusiveMarkerName \in markers => exclusiveMarkerName \in markers'
        BY <2>7, <4>1 DEF TryRelease, Renamed
      <4> QED BY <3>1, <3>2, <4>2, NoNewHolder
    <3> QED BY <3>3, <3>4
  <2>8. CASE FinalHandler(p) \/ MainReturns(p)
    <3>1. ListingsFit'
      BY <2>0, <2>8 DEF FinalHandler, MainReturns, Die, ListingsFit, SameMode
    <3>2. ExclusiveHolders' \subseteq ExclusiveHolders
      BY <2>0, <2>8 DEF FinalHandler, MainReturns, Die, ExclusiveHolders, Holding
    <3> QED BY <2>8, <3>1, <3>2, NoNewHolder DEF FinalHandler, MainReturns, Die
  <2>9. CASE ClearLock(p)
    BY <2>9 DEF ClearLock, ListingsFit
  <2> QED BY <1>2, <2>1, <2>2, <2>3, <2>4, <2>5, <2>6, <2>7, <2>8, <2>9 DEF Step
<1>3. ASSUME NEW p \in Procs, Environment(p) PROVE ListingsFit' /\ ExclusiveHeldByOne'
  <2>0. pc \in [Procs -> Steps] /\ seen \in [Procs -> SUBSET Nat]
        /\ mode \in [Procs -> {"shared", "exclusive"}]
    BY DEF TypeOK, Marker
  <2>1. ASSUME NEW m \in Modes, Acquire(p, m) PROVE ListingsFit' /\ ExclusiveHeldByOne'
    <3>1. ListingsFit'
      BY <2>0, <2>1 DEF Acquire, ListingsFit, SameMode
    <3>2. ExclusiveHolders' \subseteq ExclusiveHolders
      BY <2>0, <2>1 DEF Acquire, ExclusiveHolders, Holding
    <3> QED BY <2>1, <3>1, <3>2, NoNewHolder DEF Acquire
  <2>2. CASE Interrupt(p)
    <3>1. ListingsFit'
      BY <2>0, <2>2 DEF Interrupt, ListingsFit, SameMode
    <3>2. ExclusiveHolders' \subseteq ExclusiveHolders
      BY <2>0, <2>2 DEF Interrupt, ExclusiveHolders, Holding
    <3> QED BY <2>2, <3>1, <3>2, NoNewHolder DEF Interrupt
  <2>3. CASE InterruptExit(p) \/ Crash(p)
    <3>1. ListingsFit'
      BY <2>0, <2>3 DEF InterruptExit, Crash, Die, ListingsFit, SameMode
    <3>2. ExclusiveHolders' \subseteq ExclusiveHolders
      BY <2>0, <2>3 DEF InterruptExit, Crash, Die, ExclusiveHolders, Holding
    <3> QED BY <2>3, <3>1, <3>2, NoNewHolder DEF InterruptExit, Crash, Die
  <2>4. CASE ClearLockFind(p)
    BY <2>4 DEF ClearLockFind
  <2> QED BY <1>3, <2>1, <2>2, <2>3, <2>4 DEF Environment
<1> QED BY <1>1, <1>2, <1>3 DEF Next

\* For every set of processes and every mix of lock modes, crashes and signals:
\* unless `unlock` is run, no two processes hold the exclusive lock and its
\* marker stays in the directory as long as one does.
THEOREM ExclusiveLockSafe ==
    ASSUME Clearers = {}
    PROVE  Spec => []ExclusiveHeldByOne
<1>1. IInv /\ [Next]_vars => IInv'
  BY NextIInv
<1>2. IInv => ExclusiveHeldByOne
  BY DEF IInv
<1> QED BY InitIInv, <1>1, <1>2, PTL DEF Spec

-----------------------------------------------------------------------------
(* With exclusive users only, the protocol implements RWLock. *)

\* Nobody ever asks for a shared lock.
ExclusiveOnly == \A p \in Procs : mode[p] = "exclusive"

\* If nobody can ask for a shared lock, no step turns a process into a shared user.
LEMMA NextExclusiveOnly ==
    ASSUME Modes = {"exclusive"}
    PROVE  IInv /\ ExclusiveOnly /\ [Next]_vars => ExclusiveOnly'
<1> SUFFICES ASSUME TypeOK, ExclusiveOnly, [Next]_vars PROVE ExclusiveOnly'
  BY DEF IInv
<1>1. CASE UNCHANGED vars
  BY <1>1 DEF vars, ExclusiveOnly
<1>2. ASSUME NEW p \in Procs, Step(p) PROVE mode' = mode
  BY <1>2 DEF Step, AcquireFind, AcquireInvalid, AcquireTimeout, TryAcquire, TryAcquireBlocked,
     CallbackBegins, CallbackReturns, ReleaseFind, ReleaseEnds, TryRelease, TryReleaseBlocked,
     ReleaseRetry, ReleaseTimeout, FinalHandler, MainReturns, Die, ClearLock
<1>3. ASSUME NEW p \in Procs, Environment(p) PROVE ExclusiveOnly'
  <2>1. ASSUME NEW m \in Modes, Acquire(p, m) PROVE ExclusiveOnly'
    BY <2>1 DEF Acquire, ExclusiveOnly, TypeOK
  <2>2. CASE Interrupt(p) \/ InterruptExit(p) \/ Crash(p) \/ ClearLockFind(p)
    BY <2>2 DEF Interrupt, InterruptExit, Crash, Die, ClearLockFind, ExclusiveOnly
  <2> QED BY <1>3, <2>1, <2>2 DEF Environment
<1> QED BY <1>1, <1>2, <1>3 DEF Next, ExclusiveOnly

\* Every protocol step is an acquire, a release or no step of the abstract lock.
LEMMA StepImplements ==
    ASSUME Clearers = {}, Modes = {"exclusive"}
    PROVE  IInv /\ ExclusiveOnly /\ [Next]_vars => [Lock!Next]_<<ExclusiveHolders, SharedHolders>>
<1> SUFFICES ASSUME IInv, ExclusiveOnly, [Next]_vars
             PROVE  [Lock!Next]_<<ExclusiveHolders, SharedHolders>>
  OBVIOUS
<1>0. /\ pc \in [Procs -> Steps] /\ ExclusiveOnly'
      /\ SharedHolders = {} /\ SharedHolders' = {}
      /\ ExclusiveHeldByOne /\ ListingsFit
      /\ ExclusiveHolders = {p \in Procs : pc[p] \in Holding \cup {"orphaned"}}
      /\ ExclusiveHolders' = {p \in Procs : pc'[p] \in Holding \cup {"orphaned"}}
  BY NextExclusiveOnly DEF IInv, TypeOK, ExclusiveOnly, SharedHolders, ExclusiveHolders
<1> USE <1>0 DEF Goto, Holding
<1>1. CASE UNCHANGED vars
  BY <1>1 DEF vars
<1>2. ASSUME NEW p \in Procs, Step(p) PROVE [Lock!Next]_<<ExclusiveHolders, SharedHolders>>
  <2>1. CASE TryAcquire(p)
    <3>1. seen[p] = {} /\ exclusiveMarkerName \notin markers
      BY <2>1 DEF TryAcquire, ListingsFit, ExclusiveOnly, CanCreate, FirstMarker
    <3>2. ExclusiveHolders = {}
      BY <3>1 DEF ExclusiveHeldByOne
    <3>3. ExclusiveHolders' = {p}
      BY <2>1, <3>2 DEF TryAcquire
    <3>4. Lock!AcquireExclusive(p)
      BY <3>2, <3>3 DEF Lock!AcquireExclusive
    <3> QED BY <3>4 DEF Lock!Next
  <2>2. CASE ReleaseEnds(p) \/ TryRelease(p) \/ ReleaseTimeout(p)
    <3>1. ExclusiveHolders = {p}
      BY <2>2 DEF ReleaseEnds, TryRelease, ReleaseTimeout, ExclusiveHeldByOne
    <3>2. ExclusiveHolders' = {}
      BY <2>2, <3>1 DEF ReleaseEnds, TryRelease, ReleaseTimeout, Released
    <3>3. Lock!ReleaseExclusive(p)
      BY <3>1, <3>2 DEF Lock!ReleaseExclusive
    <3> QED BY <3>3 DEF Lock!Next
  <2>3. CASE AcquireFind(p) \/ AcquireInvalid(p) \/ AcquireTimeout(p) \/ TryAcquireBlocked(p)
    BY <2>3 DEF AcquireFind, AcquireInvalid, AcquireTimeout, TryAcquireBlocked
  <2>4. CASE CallbackBegins(p) \/ CallbackReturns(p) \/ ReleaseFind(p)
    BY <2>4 DEF CallbackBegins, CallbackReturns, ReleaseFind
  <2>5. CASE TryReleaseBlocked(p) \/ ReleaseRetry(p)
    BY <2>5 DEF TryReleaseBlocked, ReleaseRetry
  <2>6. CASE FinalHandler(p) \/ MainReturns(p)
    BY <2>6 DEF FinalHandler, MainReturns, Die
  <2>7. CASE ClearLock(p)
    BY <2>7 DEF ClearLock, ListingsFit
  <2> QED BY <1>2, <2>1, <2>2, <2>3, <2>4, <2>5, <2>6, <2>7 DEF Step
<1>3. ASSUME NEW p \in Procs, Environment(p) PROVE UNCHANGED <<ExclusiveHolders, SharedHolders>>
  <2>1. ASSUME NEW m \in Modes, Acquire(p, m) PROVE ExclusiveHolders' = ExclusiveHolders
    BY <2>1 DEF Acquire
  <2>2. CASE Interrupt(p) \/ InterruptExit(p) \/ Crash(p) \/ ClearLockFind(p)
    BY <2>2 DEF Interrupt, InterruptExit, Crash, Die, ClearLockFind
  <2> QED BY <1>3, <2>1, <2>2 DEF Environment
<1> QED BY <1>1, <1>2, <1>3 DEF Next

\* For every set of processes that only take the exclusive lock, through crashes
\* and signals, the marker protocol implements the abstract lock: it is taken
\* and given up at the instant of one file-system call.
THEOREM ExclusiveImplementsRWLock ==
    ASSUME Clearers = {}, Modes = {"exclusive"}
    PROVE  Spec => ImplementsRWLock
<1>1. Init => IInv /\ ExclusiveOnly /\ Lock!Init
  BY InitIInv DEF Init, ExclusiveOnly, Lock!Init, ExclusiveHolders, SharedHolders, Holding
<1>2. IInv /\ [Next]_vars => IInv'
  BY NextIInv
<1>3. IInv /\ ExclusiveOnly /\ [Next]_vars => ExclusiveOnly'
  BY NextExclusiveOnly
<1>4. IInv /\ ExclusiveOnly /\ [Next]_vars => [Lock!Next]_<<ExclusiveHolders, SharedHolders>>
  BY StepImplements
<1> QED BY <1>1, <1>2, <1>3, <1>4, PTL DEF Spec, ImplementsRWLock, Lock!Spec

-----------------------------------------------------------------------------
(* A directory with two markers, with `unlock` as well. *)

\* What findMarker refuses is what the count of markers says.
LEMMA ManyAreInvalid == Cardinality(markers) > 1 => Invalid
<1> SUFFICES ASSUME ~Invalid PROVE Cardinality(markers) \in {0, 1}
  OBVIOUS
<1>1. CASE markers = {}
  BY <1>1, FS_EmptySet
<1>2. ASSUME NEW m \in markers PROVE Cardinality(markers) = 1
  <2>1. markers = {m}
    BY <1>2 DEF Invalid
  <2> QED BY <2>1, FS_Singleton
<1> QED BY <1>1, <1>2

\* A step in a directory with two markers that no process has read before the second one:
\* each read of the directory fails, so that nobody comes to the point of changing it.
LEMMA StuckStays ==
    ASSUME TypeOK, [Next]_vars, Stuck
    PROVE  Stuck' /\ UNCHANGED markers
<1>0. Invalid /\ pc \in [Procs -> Steps] /\ \A p \in Procs : pc[p] \notin {"tryAcquire", "tryRelease", "clearing"}
  BY ManyAreInvalid DEF Stuck, TypeOK
<1> SUFFICES /\ UNCHANGED markers
             /\ \A q \in Procs : pc'[q] \notin {"tryAcquire", "tryRelease", "clearing"}
  BY DEF Stuck
<1>1. CASE UNCHANGED vars
  BY <1>0, <1>1 DEF vars
<1>2. ASSUME NEW p \in Procs, Step(p)
      PROVE  /\ UNCHANGED markers
             /\ \A q \in Procs : pc'[q] \notin {"tryAcquire", "tryRelease", "clearing"}
  BY <1>0, <1>2 DEF Step, AcquireFind, AcquireInvalid, AcquireTimeout, TryAcquire, TryAcquireBlocked,
     CallbackBegins, CallbackReturns, ReleaseFind, ReleaseEnds, Released, TryRelease, TryReleaseBlocked,
     ReleaseRetry, ReleaseTimeout, FinalHandler, MainReturns, ClearLock, Die, Goto
<1>3. ASSUME NEW p \in Procs, Environment(p)
      PROVE  /\ UNCHANGED markers
             /\ \A q \in Procs : pc'[q] \notin {"tryAcquire", "tryRelease", "clearing"}
  BY <1>0, <1>3 DEF Environment, Acquire, Interrupt, InterruptExit, Crash, ClearLockFind, Die, Goto
<1> QED BY <1>1, <1>2, <1>3 DEF Next

\* Once a race has left two markers, no command ever changes the directory again, `unlock`
\* included: all of them return the error of findMarker, and a user has to delete a file.
THEOREM TwoMarkersStay == Spec => InvalidIsFinal
<1>1. TypeOK /\ [Next]_vars => [Stuck => Stuck' /\ UNCHANGED markers]_vars
  BY StuckStays
<1> QED BY <1>1, TypeCorrect, PTL DEF Spec, InvalidIsFinal

=============================================================================
