-------------------------- MODULE LifecycleProofs ---------------------------
(***************************************************************************)
(* Theorems about Lifecycle, for any number of processes and commands: its *)
(* type invariant, the agreement of guidance and permissions and what a    *)
(* signal may do, whatever goes wrong; and, while no launcher is signalled *)
(* or killed and all commands take the lock, that one backend tool runs at *)
(* a time, that the state file names the operation it works for, that the  *)
(* recorded state is true of the resources and that the next command can   *)
(* use it.                                                                 *)
(***************************************************************************)
EXTENDS Lifecycle, TLAPS

\* Every workflow state the code constructs is one.
LEMMA StatesAreStates ==
    /\ {Initialized, DeploymentFailed, Running, Stopped, Unreadable} \subseteq WorkflowState
    /\ \A op \in Ops : /\ OperationInProgress(op) \in WorkflowState
                       /\ Interrupted(op) \in WorkflowState
                       /\ FailureState(op) \in WorkflowState
                       /\ Final(op) \in WorkflowState
  BY DEF Initialized, DeploymentFailed, Running, Stopped, Unreadable, Plain,
         OperationInProgress, Interrupted, FailureState, Final, WorkflowState, Ops

\* Recording a state keeps the types.
LEMMA RecordType ==
    ASSUME TypeOK, NEW p \in Procs, NEW state \in WorkflowState, NEW to \in Steps,
           Record(p, state, to)
    PROVE  /\ file' \in WorkflowState
           /\ writers' \subseteq Procs \X {"main", "signal"}
           /\ mem' \in [Procs -> WorkflowState]
           /\ pc' \in [Procs -> Steps]
           /\ ret' \in [Procs -> Steps]
  BY StatesAreStates DEF TypeOK, Record, BeginWrite, Goto, Steps, Locked

\* What the tools do to the resources.
LEMMA ResourcesType ==
    ASSUME TypeOK, NEW op
    PROVE  Achieved(op) \cup Attempted(op) \subseteq {"absent", "partial", "stopped", "running"}
  BY DEF TypeOK, Achieved, Attempted

-----------------------------------------------------------------------------
(* Types *)

\* Program points that only the four lifecycle operations reach.
OpSteps == {"probing", "deciding", "marking", "registering", "starting", "backend", "tool",
            "unregistering", "recording", "cleaning", "activating"}

\* What the types rest on: the command is a lifecycle operation wherever its name
\* is recorded or run, the handler of a signal included.
OperationsOnly ==
    \A p \in Procs :
        /\ pc[p] \in OpSteps => cmd[p] \in Ops
        /\ pc[p] = "writing" => ret[p] # "idle" /\ (ret[p] \in OpSteps => cmd[p] \in Ops)
        /\ "state" \in handlers[p] \cup todo[p] => cmd[p] \in Ops /\ pc[p] # "idle"

TInv == TypeOK /\ OperationsOnly

\* The initial state has the types.
LEMMA InitTInv == Init => TInv
<1> SUFFICES ASSUME Init PROVE TInv
  OBVIOUS
<1>1. TypeOK
  BY StatesAreStates DEF Init, TypeOK, Steps, AllCommands, Ops
<1>2. OperationsOnly
  BY DEF Init, OperationsOnly, OpSteps
<1> QED BY <1>1, <1>2 DEF TInv

\* Recording a state in a lifecycle operation, or a state that leads out of the
\* command, keeps the strengthening.
LEMMA RecordOperationsOnly ==
    ASSUME TInv, NEW p \in Procs, NEW state, NEW to \in Steps,
           pc[p] # "idle", to # "idle", to \in OpSteps => cmd[p] \in Ops,
           Record(p, state, to), UNCHANGED <<cmd, handlers, todo>>
    PROVE  OperationsOnly'
  BY DEF TInv, TypeOK, OperationsOnly, Record, Goto, OpSteps

\* A jump to a point of an operation, or out of the command.
LEMMA GotoOperationsOnly ==
    ASSUME TInv, NEW p \in Procs, NEW to \in Steps,
           to \in OpSteps => cmd[p] \in Ops, to \notin {"idle", "writing"},
           Goto(p, to), UNCHANGED <<cmd, ret, todo>>,
           handlers' \in [Procs -> SUBSET {"state", "lock"}],
           \A q \in Procs : "state" \in handlers'[q] =>
                                "state" \in handlers[q] \/ (q = p /\ cmd[p] \in Ops)
    PROVE  OperationsOnly'
  BY DEF TInv, TypeOK, OperationsOnly, Goto, OpSteps

\* Every step of the main goroutine keeps the types.
LEMMA MainTInv ==
    ASSUME TInv, NEW p \in Procs, Main(p)
    PROVE  TInv'
<1> USE DEF TInv
<1>a. cmd[p] \in AllCommands /\ pc[p] \in Steps /\ ret[p] \in Steps /\ mem[p] \in WorkflowState
  BY DEF TypeOK
<1>1. CASE Acquire(p)
  <2>1. TypeOK' BY <1>1 DEF TypeOK, Acquire, Goto, Steps, Locked
  <2>2. OperationsOnly' BY <1>1, <2>1 DEF TypeOK, OperationsOnly, Acquire, Goto, OpSteps
  <2> QED BY <2>1, <2>2
<1>2. CASE AcquireTimeout(p)
  <2>1. TypeOK' BY <1>2 DEF TypeOK, AcquireTimeout, Goto, Steps, world, signals
  <2>2. OperationsOnly'
    BY <1>2, <2>1 DEF TypeOK, OperationsOnly, AcquireTimeout, Goto, OpSteps, world, signals
  <2> QED BY <2>1, <2>2
<1>3. CASE Read(p)
  <2>1. TypeOK'
    BY <1>3, <1>a DEF TypeOK, Read, Goto, Leave, Steps, Locked, world, signals
  <2>2. OperationsOnly'
    BY <1>3, <2>1, <1>a
       DEF TypeOK, OperationsOnly, Read, Goto, Leave, OpSteps, Ops, AllCommands, world, signals
  <2> QED BY <2>1, <2>2
<1>4. CASE WriteBack(p)
  <2>0. Leave(p) \in Steps /\ Leave(p) \notin OpSteps /\ Leave(p) \notin {"idle", "writing"}
    BY DEF Leave, Steps, Locked, OpSteps
  <2>1. CASE Record(p, mem[p], Leave(p))
    <3>1. TypeOK' BY <1>4, <2>1, <2>0, <1>a, RecordType DEF TypeOK, WriteBack, signals
    <3>2. OperationsOnly'
      BY <1>4, <2>1, <2>0, RecordOperationsOnly DEF WriteBack, signals
    <3> QED BY <3>1, <3>2
  <2>2. CASE Goto(p, Leave(p)) /\ UNCHANGED <<mem, file, writers, ret>>
    <3>1. TypeOK' BY <1>4, <2>2, <2>0 DEF TypeOK, WriteBack, Goto, signals
    <3>2. OperationsOnly'
      BY <1>4, <2>2, <2>0, <3>1, GotoOperationsOnly DEF WriteBack, signals, TypeOK
    <3> QED BY <3>1, <3>2
  <2> QED BY <1>4, <2>1, <2>2 DEF WriteBack
<1>5. CASE ReconcileLocalVMState(p)
  <2>0. Stopped \in WorkflowState /\ "deciding" \in Steps /\ cmd[p] \in Ops
    BY <1>5, StatesAreStates DEF Steps, Locked, OperationsOnly, ReconcileLocalVMState, OpSteps
  <2>1. CASE Record(p, Stopped, "deciding")
    <3>1. TypeOK' BY <1>5, <2>1, <2>0, RecordType DEF TypeOK, ReconcileLocalVMState, signals
    <3>2. OperationsOnly'
      BY <1>5, <2>1, <2>0, RecordOperationsOnly DEF ReconcileLocalVMState, signals
    <3> QED BY <3>1, <3>2
  <2>2. CASE (Goto(p, "unlocking") \/ Goto(p, "deciding")) /\ UNCHANGED <<mem, file, writers, ret>>
    <3>1. TypeOK'
      BY <1>5, <2>2 DEF TypeOK, ReconcileLocalVMState, Goto, signals, Steps, Locked
    <3>2. OperationsOnly'
      BY <1>5, <2>2, <2>0, <3>1
         DEF ReconcileLocalVMState, signals, TypeOK, OperationsOnly, Goto, OpSteps
    <3> QED BY <3>1, <3>2
  <2> QED BY <1>5, <2>1, <2>2 DEF ReconcileLocalVMState
<1>6. CASE Decide(p)
  <2>1. TypeOK'
    BY <1>6, <1>a DEF TypeOK, Decide, Goto, Steps, Locked, world, signals
  <2>2. OperationsOnly'
    BY <1>6, <1>a, <2>1 DEF TypeOK, OperationsOnly, Decide, Goto, OpSteps, world, signals
  <2> QED BY <2>1, <2>2
<1>7. CASE MarkInProgress(p)
  <2>0. OperationInProgress(cmd[p]) \in WorkflowState /\ "registering" \in Steps /\ cmd[p] \in Ops
    BY <1>7, StatesAreStates DEF Steps, Locked, OperationsOnly, MarkInProgress, OpSteps
  <2>1. TypeOK' BY <1>7, <2>0, RecordType DEF TypeOK, MarkInProgress, signals
  <2>2. OperationsOnly' BY <1>7, <2>0, RecordOperationsOnly DEF MarkInProgress, signals
  <2> QED BY <2>1, <2>2
<1>8. CASE RegisterHandler(p)
  <2>1. TypeOK'
    BY <1>8, <1>a DEF TypeOK, RegisterHandler, Goto, Steps, Locked, world, signals
  <2>2. OperationsOnly'
    BY <1>8, <1>a, <2>1 DEF TypeOK, OperationsOnly, RegisterHandler, Goto, OpSteps, world, signals
  <2> QED BY <2>1, <2>2
<1>9. CASE ManifestUnreadable(p)
  <2>1. TypeOK'
    BY <1>9, <1>a DEF TypeOK, ManifestUnreadable, Goto, Steps, Locked, world, signals
  <2>2. OperationsOnly'
    BY <1>9, <1>a, <2>1 DEF TypeOK, OperationsOnly, ManifestUnreadable, Goto, OpSteps, world, signals
  <2> QED BY <2>1, <2>2
<1>10. CASE StartTool(p)
  <2>0. cmd[p] \in Ops
    BY <1>10 DEF OperationsOnly, StartTool, OpSteps
  <2>1. TypeOK'
    BY <1>10, <2>0 DEF TypeOK, StartTool, Goto, Steps, Locked, world, signals
  <2>2. OperationsOnly'
    BY <1>10, <1>a, <2>1 DEF TypeOK, OperationsOnly, StartTool, Goto, OpSteps, world, signals
  <2> QED BY <2>1, <2>2
<1>12. CASE BackendFails(p)
  <2>1. TypeOK'
    BY <1>12, <1>a DEF TypeOK, BackendFails, Goto, Steps, Locked, world, signals
  <2>2. OperationsOnly'
    BY <1>12, <1>a, <2>1 DEF TypeOK, OperationsOnly, BackendFails, Goto, OpSteps, world, signals
  <2> QED BY <2>1, <2>2
<1>13. CASE PortUnavailable(p)
  <2>1. TypeOK'
    BY <1>13, <1>a DEF TypeOK, PortUnavailable, Goto, Steps, Locked, world, signals
  <2>2. OperationsOnly'
    BY <1>13, <1>a, <2>1 DEF TypeOK, OperationsOnly, PortUnavailable, Goto, OpSteps, world, signals
  <2> QED BY <2>1, <2>2
<1>14. CASE UnregisterHandler(p)
  <2>1. TypeOK'
    BY <1>14, <1>a DEF TypeOK, UnregisterHandler, Goto, Steps, Locked, world, signals
  <2>2. OperationsOnly'
    BY <1>14, <1>a, <2>1 DEF TypeOK, OperationsOnly, UnregisterHandler, Goto, OpSteps, world, signals
  <2> QED BY <2>1, <2>2
<1>11. CASE ToolEnds(p)
  <2>0. PICK to \in {"unregistering", "backend", "blocked"} : Goto(p, to)
    BY <1>11 DEF ToolEnds, Resume
  <2>1. resources' \in {"absent", "partial", "stopped", "running"}
    BY <1>11, ResourcesType DEF ToolEnds
  <2>2. TypeOK'
    BY <1>11, <2>0, <2>1 DEF TypeOK, ToolEnds, Goto, Steps, Locked, signals
  <2>3. OperationsOnly'
    BY <1>11, <2>0, <2>2 DEF TypeOK, OperationsOnly, ToolEnds, Goto, OpSteps, signals
  <2> QED BY <2>2, <2>3
<1>15. CASE RecordSuccess(p)
  <2>0. cmd[p] \in Ops
    BY <1>15 DEF OperationsOnly, RecordSuccess, OpSteps
  <2>1. PICK state \in WorkflowState, to \in Steps \cap {"activating", "unlocking"} : Record(p, state, to)
    BY <1>15, <2>0, StatesAreStates DEF RecordSuccess, Steps, Locked
  <2>2. TypeOK' BY <1>15, <2>1, RecordType DEF TypeOK, RecordSuccess, signals
  <2>3. OperationsOnly' BY <1>15, <2>0, <2>1, RecordOperationsOnly DEF RecordSuccess, signals
  <2> QED BY <2>2, <2>3
<1>16. CASE SidecarStateRemains(p)
  <2>1. TypeOK'
    BY <1>16, <1>a DEF TypeOK, SidecarStateRemains, Goto, Steps, Locked, world, signals
  <2>2. OperationsOnly'
    BY <1>16, <1>a, <2>1 DEF TypeOK, OperationsOnly, SidecarStateRemains, Goto, OpSteps, world, signals
  <2> QED BY <2>1, <2>2
<1>17. CASE RecordFailure(p)
  <2>0. cmd[p] \in Ops
    BY <1>17 DEF OperationsOnly, RecordFailure, OpSteps
  <2>1. PICK state \in WorkflowState, to \in Steps \cap {"unlocking"} : Record(p, state, to)
    BY <1>17, <2>0, StatesAreStates DEF RecordFailure, Steps, Locked
  <2>2. TypeOK' BY <1>17, <2>1, RecordType DEF TypeOK, RecordFailure, signals
  <2>3. OperationsOnly' BY <1>17, <2>0, <2>1, RecordOperationsOnly DEF RecordFailure, signals
  <2> QED BY <2>2, <2>3
<1>18. CASE RestoreAfterPort(p)
  <2>0. cmd[p] \in Ops
    BY <1>18 DEF OperationsOnly, RestoreAfterPort, OpSteps
  <2>1. PICK state \in WorkflowState, to \in Steps \cap {"unlocking"} : Record(p, state, to)
    BY <1>18, <2>0, StatesAreStates DEF RestoreAfterPort, Steps, Locked
  <2>2. TypeOK' BY <1>18, <2>1, RecordType DEF TypeOK, RestoreAfterPort, signals
  <2>3. OperationsOnly' BY <1>18, <2>0, <2>1, RecordOperationsOnly DEF RestoreAfterPort, signals
  <2> QED BY <2>2, <2>3
<1>19. CASE RestoreLocalState(p)
  <2>0. cmd[p] \in Ops
    BY <1>19 DEF OperationsOnly, RestoreLocalState, OpSteps
  <2>1. CASE \E state \in {Interrupted(cmd[p]), Stopped} :
                Record(p, state, "unlocking") /\ UNCHANGED tool
    <3>1. PICK state \in WorkflowState : Record(p, state, "unlocking") /\ UNCHANGED tool
      BY <2>0, <2>1, StatesAreStates
    <3>2. "unlocking" \in Steps
      BY DEF Steps, Locked
    <3>3. TypeOK' BY <1>19, <3>1, <3>2, RecordType DEF TypeOK, RestoreLocalState, signals
    <3>4. OperationsOnly'
      BY <1>19, <2>0, <3>1, <3>2, RecordOperationsOnly DEF RestoreLocalState, signals
    <3> QED BY <3>3, <3>4
  <2>2. CASE /\ tool' = [tool EXCEPT ![p] = "stop"]
             /\ Goto(p, "cleaning")
             /\ UNCHANGED <<mem, file, writers, ret>>
    <3>1. TypeOK'
      BY <1>19, <2>2 DEF TypeOK, RestoreLocalState, Goto, Steps, Locked, Ops, signals
    <3>2. OperationsOnly'
      BY <1>19, <2>0, <2>2, <3>1 DEF TypeOK, OperationsOnly, RestoreLocalState, Goto, OpSteps, signals
    <3> QED BY <3>1, <3>2
  <2> QED BY <1>19, <2>1, <2>2 DEF RestoreLocalState
<1>20. CASE CleanupEnds(p)
  <2>0. cmd[p] \in Ops
    BY <1>20 DEF OperationsOnly, CleanupEnds, OpSteps
  <2>1. PICK state \in WorkflowState, to \in Steps \cap {"unlocking"} : Record(p, state, to)
    BY <1>20, <2>0, StatesAreStates DEF CleanupEnds, Steps, Locked
  <2>2. resources' \in {"absent", "partial", "stopped", "running"}
    BY <1>20, ResourcesType DEF CleanupEnds
  <2>3. TypeOK' BY <1>20, <2>1, <2>2, RecordType DEF TypeOK, CleanupEnds, signals
  <2>4. OperationsOnly' BY <1>20, <2>0, <2>1, RecordOperationsOnly DEF CleanupEnds, signals
  <2> QED BY <2>3, <2>4
<1>21. CASE ActivateCustomSLCs(p)
  <2>0. "unlocking" \in Steps /\ "unlocking" \notin OpSteps /\ file \in WorkflowState
    BY DEF Steps, Locked, OpSteps, TypeOK
  <2>1. CASE Record(p, file, "unlocking")
    <3>1. TypeOK' BY <1>21, <2>1, <2>0, RecordType DEF TypeOK, ActivateCustomSLCs, signals
    <3>2. OperationsOnly'
      BY <1>21, <2>1, <2>0, RecordOperationsOnly DEF ActivateCustomSLCs, signals
    <3> QED BY <3>1, <3>2
  <2>2. CASE Goto(p, "unlocking") /\ UNCHANGED <<mem, file, writers, ret>>
    <3>1. TypeOK' BY <1>21, <2>2, <2>0 DEF TypeOK, ActivateCustomSLCs, Goto, signals
    <3>2. OperationsOnly'
      BY <1>21, <2>2, <2>0, <3>1, GotoOperationsOnly DEF ActivateCustomSLCs, signals, TypeOK
    <3> QED BY <3>1, <3>2
  <2> QED BY <1>21, <2>1, <2>2 DEF ActivateCustomSLCs
<1>22. CASE Written(p)
  <2>1. TypeOK'
    BY <1>22, <1>a, StatesAreStates DEF TypeOK, Written, Goto, Steps, Locked, world, signals, EndWrite
  <2>2. OperationsOnly'
    BY <1>22, <1>a, <2>1 DEF TypeOK, OperationsOnly, Written, Goto, OpSteps, world, signals
  <2> QED BY <2>1, <2>2
<1>23. CASE WriteFails(p)
  <2>1. TypeOK'
    BY <1>23, <1>a DEF TypeOK, WriteFails, Goto, Steps, Locked, world, signals
  <2>2. OperationsOnly'
    BY <1>23, <1>a, <2>1 DEF TypeOK, OperationsOnly, WriteFails, Goto, OpSteps, world, signals
  <2> QED BY <2>1, <2>2
<1>24. CASE Unlock(p)
  <2>1. TypeOK'
    BY <1>24, <1>a DEF TypeOK, Unlock, Goto, Steps, Locked, world, signals
  <2>2. OperationsOnly'
    BY <1>24, <1>a, <2>1 DEF TypeOK, OperationsOnly, Unlock, Goto, OpSteps, world, signals
  <2> QED BY <2>1, <2>2
<1>25. CASE Return(p)
  <2>1. TypeOK'
    BY <1>25, <1>a DEF TypeOK, Return, Goto, Steps, Locked, world, signals, Gone
  <2>2. OperationsOnly'
    BY <1>25, <1>a, <2>1 DEF TypeOK, OperationsOnly, Return, Goto, OpSteps, world, signals, Gone
  <2> QED BY <2>1, <2>2
<1> QED
  BY <1>1, <1>2, <1>3, <1>4, <1>5, <1>6, <1>7, <1>8, <1>9, <1>10, <1>11, <1>12, <1>13,
     <1>14, <1>15, <1>16, <1>17, <1>18, <1>19, <1>20, <1>21, <1>22, <1>23, <1>24, <1>25
     DEF Main

\* Every step of the signal handler keeps the types.
LEMMA HandlerTInv ==
    ASSUME TInv, NEW p \in Procs, Handler(p)
    PROVE  TInv'
<1> USE DEF TInv
<1>1. CASE CallStateHandler(p)
  <2>1. cmd[p] \in Ops /\ pc[p] # "idle"
    BY <1>1 DEF OperationsOnly, CallStateHandler
  <2>2. TypeOK'
    BY <1>1, <2>1, StatesAreStates DEF TypeOK, CallStateHandler, BeginWrite, main
  <2>3. OperationsOnly'
    BY <1>1, <2>2 DEF TypeOK, OperationsOnly, CallStateHandler, main
  <2> QED BY <2>2, <2>3
<1>2. CASE StateHandlerReturns(p)
  <2>1. TypeOK'
    BY <1>2, StatesAreStates DEF TypeOK, StateHandlerReturns, EndWrite, main
  <2>2. OperationsOnly'
    BY <1>2, <2>1 DEF TypeOK, OperationsOnly, StateHandlerReturns, main
  <2> QED BY <2>1, <2>2
<1>3. CASE CallLockHandler(p) \/ InterruptChildren(p) \/ WaitForChildren(p)
  <2>0. caught' \in [Procs -> BOOLEAN]
    <3>1. CASE InterruptChildren(p)
      <4>1. CASE tool[p] = "none" BY <3>1, <4>1 DEF InterruptChildren, TypeOK
      <4>2. CASE tool[p] # "none" BY <3>1, <4>2 DEF InterruptChildren, TypeOK
      <4> QED BY <4>1, <4>2
    <3>2. CASE UNCHANGED caught BY <3>2 DEF TypeOK
    <3> QED BY <1>3, <3>1, <3>2 DEF CallLockHandler, WaitForChildren
  <2>1. TypeOK'
    BY <1>3, <2>0 DEF TypeOK, CallLockHandler, InterruptChildren, WaitForChildren, main, world
  <2>2. \A q \in Procs : handlers'[q] = handlers[q] /\ todo'[q] \subseteq todo[q]
    BY <1>3 DEF TypeOK, CallLockHandler, InterruptChildren, WaitForChildren
  <2>3. UNCHANGED <<pc, ret, cmd>>
    BY <1>3 DEF CallLockHandler, InterruptChildren, WaitForChildren, main
  <2>4. OperationsOnly'
    BY <2>2, <2>3 DEF OperationsOnly
  <2> QED BY <2>1, <2>4
<1>4. CASE Exit(p)
  <2>1. TypeOK' BY <1>4 DEF TypeOK, Exit, Gone, Goto, Steps
  <2>2. OperationsOnly' BY <1>4, <2>1 DEF TypeOK, OperationsOnly, Exit, Gone, Goto, OpSteps
  <2> QED BY <2>1, <2>2
<1> QED BY <1>1, <1>2, <1>3, <1>4 DEF Handler

\* Every step keeps the types.
LEMMA NextTInv == TInv /\ [Next]_vars => TInv'
<1> SUFFICES ASSUME TInv, [Next]_vars PROVE TInv'
  OBVIOUS
<1>1. ASSUME NEW p \in Procs, NEW c \in Commands, Begin(p, c) PROVE TInv'
  <2>0. c \in AllCommands
    BY <1>1, LifecycleAssumption
  <2>1. TypeOK' BY <1>1, <2>0 DEF TInv, TypeOK, Begin, Goto, Steps, Locked
  <2>2. OperationsOnly' BY <1>1, <2>1 DEF TInv, TypeOK, OperationsOnly, Begin, Goto, OpSteps
  <2> QED BY <2>1, <2>2 DEF TInv
<1>2. ASSUME NEW p \in Procs, Signal(p) PROVE TInv'
  <2>1. TypeOK' BY <1>2 DEF TInv, TypeOK, Signal, main, world
  <2>2. OperationsOnly' BY <1>2, <2>1 DEF TInv, TypeOK, OperationsOnly, Signal, main, world
  <2> QED BY <2>1, <2>2 DEF TInv
<1>3. ASSUME NEW p \in Procs, Crash(p) PROVE TInv'
  <2>1. TypeOK' BY <1>3 DEF TInv, TypeOK, Crash, Gone, Goto, Steps
  <2>2. OperationsOnly' BY <1>3, <2>1 DEF TInv, TypeOK, OperationsOnly, Crash, Gone, Goto, OpSteps
  <2> QED BY <2>1, <2>2 DEF TInv
<1>4. ASSUME NEW p \in Procs, OrphanEnds(p) PROVE TInv'
  <2>1. resources' \in {"absent", "partial", "stopped", "running"}
    BY <1>4, ResourcesType DEF OrphanEnds, TInv
  <2>2. TypeOK' BY <1>4, <2>1 DEF TInv, TypeOK, OrphanEnds, main, signals
  <2>3. OperationsOnly' BY <1>4, <2>2 DEF TInv, TypeOK, OperationsOnly, OrphanEnds, main, signals
  <2> QED BY <2>2, <2>3 DEF TInv
<1>5. CASE ForceUnlock \/ Outage
  <2>1. TypeOK' BY <1>5 DEF TInv, TypeOK, ForceUnlock, Outage, main, signals
  <2>2. OperationsOnly' BY <1>5, <2>1 DEF TInv, TypeOK, OperationsOnly, ForceUnlock, Outage, main, signals
  <2> QED BY <2>1, <2>2 DEF TInv
<1>6. CASE UNCHANGED vars
  <2>1. TypeOK' BY <1>6 DEF TInv, TypeOK, vars, main, signals, world
  <2>2. OperationsOnly' BY <1>6, <2>1 DEF TInv, TypeOK, OperationsOnly, vars, main, signals, world
  <2> QED BY <2>1, <2>2 DEF TInv
<1> QED BY <1>1, <1>2, <1>3, <1>4, <1>5, <1>6, MainTInv, HandlerTInv DEF Next

\* The variables keep their types in every behaviour, faults included: a workflow
\* state names an operation the launcher has, wherever it is recorded.
THEOREM LifecycleTypeCorrect == Spec => []TypeOK
<1>1. TInv => TypeOK
  BY DEF TInv
<1> QED BY <1>1, InitTInv, NextTInv, PTL DEF Spec

-----------------------------------------------------------------------------
(* Mutual exclusion *)

\* The launchers are neither signalled nor killed, and every command takes the lock.
Undisturbed == "signal" \notin Faults /\ "crash" \notin Faults /\ "backfill" \notin Commands

\* Why they exclude each other: the lock has one owner, a command is inside it from
\* its first read to its unlock, and both the tools and the writes of a command
\* lie in between.
LockInv ==
    /\ \A p, q \in lock : p = q
    /\ \A p \in Procs :
        /\ pc[p] \in Locked => p \in lock
        /\ tool[p] # "none" => pc[p] \in {"tool", "cleaning"}
        /\ sig[p] = "listening"
        /\ cmd[p] # "backfill"
        /\ <<p, "main">> \in writers => pc[p] = "writing"
        /\ <<p, "signal">> \notin writers

\* A step inside the lock that keeps the lock keeps the invariant, if its tool and
\* its write are where they belong afterwards.
LEMMA InsideLock ==
    ASSUME TypeOK, LockInv, NEW p \in Procs, NEW to, pc[p] \in Locked, Goto(p, to),
           lock' = lock, sig' = sig, cmd' = cmd,
           \A q \in Procs : q # p => tool'[q] = tool[q],
           tool'[p] # "none" => to \in {"tool", "cleaning"},
           \A q \in Procs : q # p => (<<q, "main">> \in writers' => <<q, "main">> \in writers),
           \A q \in Procs : <<q, "signal">> \notin writers',
           <<p, "main">> \in writers' => to = "writing"
    PROVE  LockInv'
  BY DEF TypeOK, LockInv, Goto

\* A command inside the lock that records a state.
LEMMA RecordInsideLock ==
    ASSUME TypeOK, LockInv, NEW p \in Procs, NEW state, NEW to, pc[p] \in Locked,
           Record(p, state, to), lock' = lock, sig' = sig, cmd' = cmd,
           \A q \in Procs : q # p => tool'[q] = tool[q],
           tool'[p] = "none"
    PROVE  LockInv'
<1>1. \A q \in Procs : q # p => (<<q, "main">> \in writers' => <<q, "main">> \in writers)
  BY DEF Record, BeginWrite
<1>2. \A q \in Procs : <<q, "signal">> \notin writers'
  BY DEF Record, BeginWrite, LockInv
<1>3. Goto(p, "writing")
  BY DEF Record
<1> QED BY <1>1, <1>2, <1>3, InsideLock

\* Every step of the main goroutine keeps the invariant.
LEMMA MainLockInv ==
    ASSUME Undisturbed, TypeOK, LockInv, NEW p \in Procs, Main(p)
    PROVE  LockInv'
<1>a. /\ cmd[p] # "backfill"
      /\ tool[p] # "none" => pc[p] \in {"tool", "cleaning"}
      /\ <<p, "main">> \in writers => pc[p] = "writing"
      /\ \A q \in Procs : <<q, "signal">> \notin writers
  BY DEF LockInv
<1>1. CASE Acquire(p)
  BY <1>1 DEF Acquire, LockFree, TypeOK, LockInv, Goto, Locked
<1>2. CASE AcquireTimeout(p)
  BY <1>2 DEF AcquireTimeout, TypeOK, LockInv, Goto, Locked, world, signals
<1>3. CASE Read(p)
  <2>1. PICK to : Goto(p, to)
    BY <1>3 DEF Read
  <2> QED BY <1>3, <1>a, <2>1, InsideLock DEF Read, Locked, world, signals
<1>4. CASE WriteBack(p)
  <2>1. CASE Record(p, mem[p], Leave(p))
    BY <1>4, <1>a, <2>1, RecordInsideLock DEF WriteBack, Locked, signals
  <2>2. CASE Goto(p, Leave(p)) /\ UNCHANGED <<mem, file, writers, ret>>
    BY <1>4, <1>a, <2>2, InsideLock DEF WriteBack, Locked, signals
  <2> QED BY <1>4, <2>1, <2>2 DEF WriteBack
<1>5. CASE ReconcileLocalVMState(p)
  <2>1. CASE Record(p, Stopped, "deciding")
    BY <1>5, <1>a, <2>1, RecordInsideLock DEF ReconcileLocalVMState, Locked, signals
  <2>2. CASE \E to : Goto(p, to) /\ UNCHANGED <<mem, file, writers, ret>>
    BY <1>5, <1>a, <2>2, InsideLock DEF ReconcileLocalVMState, Locked, signals
  <2> QED BY <1>5, <2>1, <2>2 DEF ReconcileLocalVMState
<1>6. CASE Decide(p) \/ RegisterHandler(p) \/ ManifestUnreadable(p) \/ BackendFails(p)
           \/ PortUnavailable(p) \/ UnregisterHandler(p) \/ SidecarStateRemains(p)
  <2>1. pc[p] \in Locked \ {"tool", "cleaning", "writing"}
    BY <1>6 DEF Decide, RegisterHandler, ManifestUnreadable, BackendFails, PortUnavailable,
                UnregisterHandler, SidecarStateRemains, Locked
  <2>2. UNCHANGED <<world, cmd, tool, sig>>
    BY <1>6 DEF Decide, RegisterHandler, ManifestUnreadable, BackendFails, PortUnavailable,
                UnregisterHandler, SidecarStateRemains, signals
  <2>3. PICK to : Goto(p, to)
    BY <1>6 DEF Decide, RegisterHandler, ManifestUnreadable, BackendFails, PortUnavailable,
                UnregisterHandler, SidecarStateRemains
  <2> QED BY <1>a, <2>1, <2>2, <2>3, InsideLock DEF world
<1>7. CASE MarkInProgress(p) \/ RecordSuccess(p) \/ RecordFailure(p) \/ RestoreAfterPort(p)
  <2>1. pc[p] \in Locked \ {"tool", "cleaning", "writing"}
    BY <1>7 DEF MarkInProgress, RecordSuccess, RecordFailure, RestoreAfterPort, Locked
  <2>2. PICK state, to : Record(p, state, to)
    BY <1>7 DEF MarkInProgress, RecordSuccess, RecordFailure, RestoreAfterPort
  <2>3. UNCHANGED <<lock, cmd, tool, sig>>
    BY <1>7 DEF MarkInProgress, RecordSuccess, RecordFailure, RestoreAfterPort, signals
  <2> QED BY <1>a, <2>1, <2>2, <2>3, RecordInsideLock
<1>8. CASE StartTool(p)
  BY <1>8, <1>a, InsideLock DEF StartTool, TypeOK, Locked, world, signals
<1>9. CASE ToolEnds(p)
  <2>1. PICK to : Goto(p, to)
    BY <1>9 DEF ToolEnds
  <2> QED BY <1>9, <1>a, <2>1, InsideLock DEF ToolEnds, TypeOK, Locked, signals
<1>10. CASE RestoreLocalState(p)
  <2>1. CASE \E state : Record(p, state, "unlocking") /\ UNCHANGED tool
    BY <1>10, <1>a, <2>1, RecordInsideLock DEF RestoreLocalState, Locked, signals
  <2>2. CASE /\ tool' = [tool EXCEPT ![p] = "stop"]
             /\ Goto(p, "cleaning")
             /\ UNCHANGED <<mem, file, writers, ret>>
    BY <1>10, <1>a, <2>2, InsideLock DEF RestoreLocalState, TypeOK, Locked, signals
  <2> QED BY <1>10, <2>1, <2>2 DEF RestoreLocalState
<1>11. CASE CleanupEnds(p)
  <2>1. PICK state : Record(p, state, "unlocking")
    BY <1>11 DEF CleanupEnds
  <2>2. tool'[p] = "none" /\ \A q \in Procs : q # p => tool'[q] = tool[q]
    BY <1>11 DEF CleanupEnds, TypeOK
  <2>3. pc[p] \in Locked /\ UNCHANGED <<lock, cmd, sig>>
    BY <1>11 DEF CleanupEnds, Locked, signals
  <2> QED BY <2>1, <2>2, <2>3, RecordInsideLock
<1>12. CASE ActivateCustomSLCs(p)
  <2>1. CASE Record(p, file, "unlocking")
    BY <1>12, <1>a, <2>1, RecordInsideLock DEF ActivateCustomSLCs, Locked, signals
  <2>2. CASE Goto(p, "unlocking") /\ UNCHANGED <<mem, file, writers, ret>>
    BY <1>12, <1>a, <2>2, InsideLock DEF ActivateCustomSLCs, Locked, signals
  <2> QED BY <1>12, <2>1, <2>2 DEF ActivateCustomSLCs
<1>13. CASE Written(p) \/ WriteFails(p)
  <2>1. PICK to : Goto(p, to)
    BY <1>13 DEF Written, WriteFails
  <2>2. writers' = writers \ {<<p, "main">>}
    BY <1>13 DEF Written, WriteFails, EndWrite
  <2>3. pc[p] = "writing" /\ UNCHANGED <<lock, cmd, tool, sig>>
    BY <1>13 DEF Written, WriteFails, signals
  <2>4. /\ \A q \in Procs : q # p => (<<q, "main">> \in writers' => <<q, "main">> \in writers)
        /\ \A q \in Procs : <<q, "signal">> \notin writers'
        /\ <<p, "main">> \notin writers'
    BY <1>a, <2>2
  <2>5. pc[p] \in Locked /\ tool'[p] = "none" /\ \A q \in Procs : tool'[q] = tool[q]
    BY <1>a, <2>3 DEF Locked
  <2> QED BY <2>1, <2>3, <2>4, <2>5, InsideLock
<1>14. CASE Unlock(p)
  BY <1>14 DEF Unlock, TypeOK, LockInv, Goto, Locked
<1>15. CASE Return(p)
  BY <1>15 DEF Return, Gone, TypeOK, LockInv, Goto, Locked
<1> QED BY <1>1, <1>2, <1>3, <1>4, <1>5, <1>6, <1>7, <1>8, <1>9, <1>10, <1>11, <1>12, <1>13,
           <1>14, <1>15 DEF Main

\* Every step keeps the invariant.
LEMMA NextLockInv ==
    ASSUME Undisturbed PROVE TypeOK /\ LockInv /\ [Next]_vars => LockInv'
<1> SUFFICES ASSUME TypeOK, LockInv, [Next]_vars PROVE LockInv'
  OBVIOUS
<1>1. ASSUME NEW p \in Procs, NEW c \in Commands, Begin(p, c) PROVE LockInv'
  BY <1>1 DEF Undisturbed, Begin, TypeOK, LockInv, Goto, Locked
<1>2. ASSUME NEW p \in Procs, Handler(p) PROVE FALSE
  BY <1>2 DEF LockInv, Handler, CallStateHandler, StateHandlerReturns, CallLockHandler,
              InterruptChildren, WaitForChildren, Exit
<1>3. ASSUME NEW p \in Procs, Signal(p) \/ Crash(p) PROVE FALSE
  BY <1>3 DEF Undisturbed, Signal, Crash
<1>4. ASSUME NEW p \in Procs, OrphanEnds(p) PROVE FALSE
  BY <1>4 DEF LockInv, OrphanEnds
<1>5. CASE ForceUnlock \/ Outage
  BY <1>5 DEF LockInv, ForceUnlock, Outage, main, signals
<1>6. CASE UNCHANGED vars
  BY <1>6 DEF LockInv, vars, main, signals, world
<1> QED BY <1>1, <1>2, <1>3, <1>4, <1>5, <1>6, MainLockInv DEF Next

\* Undisturbed commands run one backend tool at a time, however many launchers
\* there are and whatever fails inside them.
THEOREM OneToolAtATime == ASSUME Undisturbed PROVE Spec => []OneTool
<1>1. Init => LockInv
  BY DEF Init, LockInv, Locked
<1>2. TypeOK /\ LockInv => OneTool
  BY DEF LockInv, OneTool, Locked
<1>3. TypeOK /\ LockInv /\ [Next]_vars => LockInv'
  BY NextLockInv
<1> QED BY <1>1, <1>2, <1>3, LifecycleTypeCorrect, PTL DEF Spec

-----------------------------------------------------------------------------
(* Guidance *)

\* The states that the commands record: an operation that is in progress or was
\* interrupted is named.
Nameable ==
    {Initialized, DeploymentFailed, Running, Stopped}
        \cup {OperationInProgress(op) : op \in Ops} \cup {Interrupted(op) : op \in Ops}

NInv ==
    /\ file \in Nameable \cup {Unreadable}
    /\ \A p \in Procs : mem[p] \in Nameable

\* What the commands record is such a state.
LEMMA RecordedAreNameable ==
    /\ {Initialized, DeploymentFailed, Running, Stopped} \subseteq Nameable
    /\ \A op \in Ops : /\ OperationInProgress(op) \in Nameable /\ Interrupted(op) \in Nameable
                       /\ FailureState(op) \in Nameable /\ Final(op) \in Nameable
  BY DEF Nameable, FailureState, Final

\* What a step of the main goroutine does to the state file and its copy.
LEMMA MainWrites ==
    ASSUME TInv, NInv, NEW p \in Procs, Main(p)
    PROVE  \/ UNCHANGED <<file, mem>>
           \/ \E state \in Nameable : BeginWrite(p, "main", state)
           \/ file # Unreadable /\ mem' = [mem EXCEPT ![p] = file] /\ UNCHANGED file
           \/ UNCHANGED mem /\ file' \in {mem[p], Unreadable}
<1> USE RecordedAreNameable
<1>1. CASE Acquire(p) \/ AcquireTimeout(p) \/ Decide(p) \/ RegisterHandler(p) \/ ManifestUnreadable(p)
           \/ StartTool(p) \/ ToolEnds(p) \/ BackendFails(p) \/ PortUnavailable(p)
           \/ UnregisterHandler(p) \/ SidecarStateRemains(p) \/ WriteFails(p) \/ Unlock(p) \/ Return(p)
  BY <1>1 DEF Acquire, AcquireTimeout, Decide, RegisterHandler, ManifestUnreadable, StartTool, ToolEnds,
     BackendFails, PortUnavailable, UnregisterHandler, SidecarStateRemains, WriteFails, Unlock, Return,
     Gone, world
<1>2. CASE Read(p)
  BY <1>2 DEF Read, world
<1>3. CASE Written(p)
  BY <1>3 DEF Written, EndWrite
<1>4. CASE WriteBack(p) \/ ReconcileLocalVMState(p)
  BY <1>4 DEF WriteBack, ReconcileLocalVMState, Record, NInv
<1>5. CASE ActivateCustomSLCs(p)
  BY <1>5 DEF ActivateCustomSLCs, Record, NInv
<1>6. CASE MarkInProgress(p) \/ RecordSuccess(p) \/ RecordFailure(p) \/ RestoreAfterPort(p)
           \/ RestoreLocalState(p) \/ CleanupEnds(p)
  <2>1. cmd[p] \in Ops
    BY <1>6 DEF TInv, OperationsOnly, OpSteps, MarkInProgress, RecordSuccess, RecordFailure,
       RestoreAfterPort, RestoreLocalState, CleanupEnds
  <2>2. CASE MarkInProgress(p) \/ RecordSuccess(p) \/ RecordFailure(p) \/ RestoreAfterPort(p)
    BY <2>1, <2>2 DEF MarkInProgress, RecordSuccess, RecordFailure, RestoreAfterPort, Record
  <2>3. CASE RestoreLocalState(p) \/ CleanupEnds(p)
    BY <2>1, <2>3 DEF RestoreLocalState, CleanupEnds, Record
  <2> QED BY <1>6, <2>2, <2>3
<1> QED BY <1>1, <1>2, <1>3, <1>4, <1>5, <1>6 DEF Main

\* Every step keeps that only such states are recorded.
LEMMA NextNInv == TInv /\ NInv /\ [Next]_vars => NInv'
<1> SUFFICES ASSUME TInv, NInv, [Next]_vars PROVE NInv'
  OBVIOUS
<1>0. mem \in [Procs -> WorkflowState]
  BY DEF TInv, TypeOK
<1>1. ASSUME NEW p \in Procs, Main(p) PROVE NInv'
  <2>1. CASE UNCHANGED <<file, mem>>
    BY <2>1 DEF NInv
  <2>2. CASE \E state \in Nameable : BeginWrite(p, "main", state)
    BY <1>0, <2>2 DEF NInv, BeginWrite
  <2>3. CASE file # Unreadable /\ mem' = [mem EXCEPT ![p] = file] /\ UNCHANGED file
    BY <1>0, <2>3 DEF NInv
  <2>4. CASE UNCHANGED mem /\ file' \in {mem[p], Unreadable}
    BY <2>4 DEF NInv
  <2> QED BY <1>1, <2>1, <2>2, <2>3, <2>4, MainWrites
<1>2. ASSUME NEW p \in Procs, Handler(p) PROVE NInv'
  <2>1. CASE CallStateHandler(p)
    <3>1. cmd[p] \in Ops
      BY <2>1 DEF TInv, OperationsOnly, CallStateHandler
    <3> QED BY <1>0, <2>1, <3>1, RecordedAreNameable DEF NInv, CallStateHandler, BeginWrite
  <2>2. CASE StateHandlerReturns(p)
    BY <2>2 DEF NInv, StateHandlerReturns, EndWrite
  <2>3. CASE CallLockHandler(p) \/ InterruptChildren(p) \/ WaitForChildren(p) \/ Exit(p)
    BY <2>3 DEF NInv, CallLockHandler, InterruptChildren, WaitForChildren, Exit, Gone, world
  <2> QED BY <1>2, <2>1, <2>2, <2>3 DEF Handler
<1>3. ASSUME NEW p \in Procs,
             (\E c \in Commands : Begin(p, c)) \/ Signal(p) \/ Crash(p) \/ OrphanEnds(p)
      PROVE  NInv'
  BY <1>3 DEF NInv, Begin, Signal, Crash, Gone, OrphanEnds, world
<1>4. CASE ForceUnlock \/ Outage \/ UNCHANGED vars
  BY <1>4 DEF NInv, ForceUnlock, Outage, vars, world
<1> QED BY <1>1, <1>2, <1>3, <1>4 DEF Next

\* The types and the names of the states hold at all times.
LEMMA NInvariance == Spec => [](TInv /\ NInv)
<1>1. Init => NInv
  BY RecordedAreNameable DEF Init, NInv
<1> QED BY <1>1, InitTInv, NextTInv, NextNInv, PTL DEF Spec

\* Whatever fails, is killed, is interrupted or writes without the lock, and whatever the
\* runtime answers, the state permits each command that `status` recommends: what it shows,
\* what a command makes of the same answer and what it permits agree on every state that the
\* commands record, though not on every state that they know.
THEOREM GuidanceAlwaysRunnable == Spec => []GuidanceRunnable
<1>1. NInv => GuidanceRunnable
  <2> SUFFICES ASSUME NInv, NEW answer \in Probes, NEW op \in Guidance(file, answer)
               PROVE  Permits(op, Reconciled(file, answer))
    BY DEF GuidanceRunnable
  <2> USE DEF Guidance, Reconciled, Permits, PermitsDeploy, PermitsStart, PermitsStop
  <2>1. CASE file \in {Initialized, DeploymentFailed, Stopped, Unreadable}
    BY <2>1 DEF Plain, Initialized, DeploymentFailed, Running, Stopped, Unreadable
  <2>2. CASE file = Running
    BY <2>2 DEF Plain, Running, Stopped
  <2>3. ASSUME NEW o \in Ops, file = OperationInProgress(o)
        PROVE  Permits(op, Reconciled(file, answer))
    BY <2>3 DEF OperationInProgress, Plain, Running, Ops
  <2>4. ASSUME NEW o \in Ops, file = Interrupted(o)
        PROVE  Permits(op, Reconciled(file, answer))
    BY <2>4 DEF Interrupted, Plain, Running, Ops
  <2> QED BY <2>1, <2>2, <2>3, <2>4 DEF NInv, Nameable
<1> QED BY <1>1, NInvariance, PTL

-----------------------------------------------------------------------------
(* Signals *)

\* The program points of an operation before its signal handler is registered.
Before == {"acquiring", "reading", "probing", "deciding", "checking", "marking", "registering"}

\* While the backend works, the main goroutine leaves the copy of the state alone: what
\* the handler has put there stays.  A goroutine whose OpenTofu was interrupted does not
\* go on, and the process does not end before that OpenTofu has.
SigOK(p) ==
    /\ pc[p] = "idle" => sig[p] = "listening"
    /\ tool[p] # "none" => pc[p] \in {"tool", "idle"}
    /\ pc[p] = "writing" => ret[p] \notin {"writing", "starting", "backend", "tool", "blocked"}
    /\ told[p] \/ "state" \in handlers[p] \cup todo[p] =>
          pc[p] \notin Before /\ (pc[p] = "writing" => ret[p] \notin Before)
    /\ told[p] /\ (pc[p] \in {"starting", "backend", "tool", "blocked"} \/ caught[p])
          => mem[p] = Interrupted(cmd[p])
    /\ caught[p] => /\ pc[p] \in {"tool", "blocked", "idle"}
                    /\ pc[p] # "idle" => sig[p] \in {"stopping", "exiting"}
                    /\ sig[p] = "exiting" => tool[p] = "none"
                    /\ pc[p] = "idle" /\ "crash" \notin Faults => tool[p] = "none"

SigInv == \A p \in Procs : SigOK(p)

\* A process is not affected by the steps of others.
LEMMA SigOthers ==
    ASSUME TInv, SigInv, NEW p \in Procs, SigOK(p)',
           \A q \in Procs \ {p} :
              /\ pc'[q] = pc[q] /\ ret'[q] = ret[q] /\ cmd'[q] = cmd[q] /\ mem'[q] = mem[q]
              /\ tool'[q] = tool[q] /\ sig'[q] = sig[q] /\ handlers'[q] = handlers[q]
              /\ todo'[q] = todo[q] /\ told'[q] = told[q] /\ caught'[q] = caught[q]
    PROVE  SigInv'
  BY DEF SigInv, SigOK, Interrupted

\* The main goroutine goes on outside the backend.
LEMMA SigMove ==
    ASSUME TInv, SigInv, NEW p \in Procs, NEW to \in Steps \ {"idle", "tool"}, Goto(p, to),
           pc[p] \notin {"idle", "tool", "blocked"},
           UNCHANGED <<cmd, sig, todo, told, caught>>,
           \A q \in Procs \ {p} : ret'[q] = ret[q] /\ mem'[q] = mem[q] /\ tool'[q] = tool[q]
                                 /\ handlers'[q] = handlers[q],
           tool'[p] = "none",
           to = "writing" => ret'[p] \notin {"writing", "starting", "backend", "tool", "blocked"},
           "state" \in handlers'[p] => "state" \in handlers[p] \/ to \notin Before \cup {"writing"},
           \/ pc[p] \in Before
           \/ to \notin Before /\ (to = "writing" => ret'[p] \notin Before),
           to \in {"starting", "backend", "blocked"} => pc[p] \in Before \/ UNCHANGED mem,
           to \in {"starting", "backend", "blocked"} =>
              pc[p] \in Before \cup {"starting", "backend"}
    PROVE  SigInv'
<1>1. pc'[p] = to /\ \A q \in Procs \ {p} : pc'[q] = pc[q]
  BY DEF Goto, TInv, TypeOK
<1>2. ~caught[p] /\ SigOK(p)
  BY DEF SigInv, SigOK
<1>3. pc[p] \in Before => ~told[p] /\ "state" \notin handlers[p] \cup todo[p]
  BY DEF SigInv, SigOK
<1>4. SigOK(p)'
  BY <1>1, <1>2, <1>3 DEF SigOK, Interrupted
<1> QED BY <1>1, <1>4, SigOthers

\* It records a state.
LEMMA SigRecord ==
    ASSUME TInv, SigInv, NEW p \in Procs, NEW state, NEW to, Record(p, state, to),
           pc[p] \notin {"idle", "tool", "blocked", "writing"},
           UNCHANGED <<cmd, sig, handlers, todo, told, caught>>,
           \A q \in Procs \ {p} : tool'[q] = tool[q], tool'[p] = "none",
           to \notin {"writing", "starting", "backend", "tool", "blocked"},
           pc[p] \in Before \/ to \notin Before
    PROVE  SigInv'
<1>1. Goto(p, "writing") /\ "writing" \in Steps \ {"idle", "tool"}
  BY DEF Record, Steps, Locked
<1>2. ret'[p] = to /\ \A q \in Procs \ {p} : ret'[q] = ret[q] /\ mem'[q] = mem[q]
  BY DEF Record, BeginWrite, TInv, TypeOK
<1>3. "writing" \notin Before
  BY DEF Before
<1> QED BY <1>1, <1>2, <1>3, SigMove

\* Every step of the main goroutine of a deployment that OpenTofu manages.
LEMMA MainSigInv == ASSUME ~Local, TInv, SigInv, NEW p \in Procs, Main(p) PROVE SigInv'
<1>0. /\ pc[p] \notin {"tool", "idle"} => tool[p] = "none"
      /\ TypeOK /\ OperationsOnly
  BY DEF SigInv, SigOK, TInv
<1> USE DEF Steps, Locked, Before
<1>1. CASE Acquire(p)
  <2>1. "state" \notin handlers'[p] /\ \A q \in Procs \ {p} : handlers'[q] = handlers[q]
    BY <1>0, <1>1 DEF Acquire, TypeOK
  <2> QED BY <1>0, <1>1, <2>1, SigMove DEF Acquire
<1>2. CASE AcquireTimeout(p)
  BY <1>0, <1>2, SigMove DEF AcquireTimeout, signals
<1>3. CASE Read(p)
  <2>1. PICK to \in {"returning", "unlocking", "checking", "marking", "probing", "deciding"} : Goto(p, to)
    BY <1>3 DEF Read, Leave
  <2>2. \A q \in Procs \ {p} : mem'[q] = mem[q]
    BY <1>0, <1>3 DEF Read, TypeOK
  <2> QED BY <1>0, <1>3, <2>1, <2>2, SigMove DEF Read, signals
<1>4. CASE WriteBack(p)
  <2>0. Leave(p) \in {"returning", "unlocking"}
    BY DEF Leave
  <2>1. CASE Record(p, mem[p], Leave(p))
    BY <1>0, <1>4, <2>0, <2>1, SigRecord DEF WriteBack, signals
  <2>2. CASE Goto(p, Leave(p)) /\ UNCHANGED <<mem, file, writers, ret>>
    BY <1>0, <1>4, <2>0, <2>2, SigMove DEF WriteBack, signals
  <2> QED BY <1>4, <2>1, <2>2 DEF WriteBack
<1>5. CASE ReconcileLocalVMState(p)
  <2>1. CASE Record(p, Stopped, "deciding")
    BY <1>0, <1>5, <2>1, SigRecord DEF ReconcileLocalVMState, signals
  <2>2. CASE \E to \in {"unlocking", "deciding"} : Goto(p, to) /\ UNCHANGED <<mem, file, writers, ret>>
    BY <1>0, <1>5, <2>2, SigMove DEF ReconcileLocalVMState, signals
  <2> QED BY <1>5, <2>1, <2>2 DEF ReconcileLocalVMState
<1>6. CASE Decide(p)
  <2>1. PICK to \in {"marking", "unlocking"} : Goto(p, to)
    BY <1>6 DEF Decide
  <2> QED BY <1>0, <1>6, <2>1, SigMove DEF Decide, signals
<1>7. CASE MarkInProgress(p)
  BY <1>0, <1>7, SigRecord DEF MarkInProgress, signals
<1>8. CASE RegisterHandler(p)
  <2>1. \A q \in Procs \ {p} : handlers'[q] = handlers[q]
    BY <1>0, <1>8 DEF RegisterHandler, TypeOK
  <2> QED BY <1>0, <1>8, <2>1, SigMove DEF RegisterHandler
<1>9. CASE ManifestUnreadable(p)
  <2>1. PICK to \in {"unlocking", "recording"} : Goto(p, to)
    BY <1>9 DEF ManifestUnreadable
  <2> QED BY <1>0, <1>9, <2>1, SigMove DEF ManifestUnreadable, signals
<1>10. CASE StartTool(p)
  <2>1. /\ pc'[p] = "tool" /\ \A q \in Procs \ {p} : pc'[q] = pc[q] /\ tool'[q] = tool[q]
        /\ UNCHANGED <<ret, cmd, mem, sig, handlers, todo, told, caught>>
        /\ pc[p] \in {"starting", "backend"}
    BY <1>0, <1>10 DEF StartTool, Goto, signals, TypeOK
  <2>2. ~caught[p] /\ SigOK(p)
    BY <2>1 DEF SigInv, SigOK
  <2>3. SigOK(p)'
    BY <2>1, <2>2 DEF SigOK, Interrupted
  <2> QED BY <2>1, <2>3, SigOthers
<1>11. CASE ToolEnds(p)
  <2>1. /\ UNCHANGED <<ret, cmd, mem, sig, handlers, todo, told, caught>> /\ pc[p] = "tool"
        /\ tool'[p] = "none" /\ \A q \in Procs \ {p} : pc'[q] = pc[q] /\ tool'[q] = tool[q]
    BY <1>0, <1>11 DEF ToolEnds, Goto, signals, TypeOK
  <2>2. /\ pc'[p] \in {"unregistering", "backend", "blocked"}
        /\ sig[p] \in {"stopping", "exiting"} => pc'[p] = "blocked"
    BY <1>0, <1>11 DEF ToolEnds, Goto, Resume, ChildrenInterrupted, TypeOK
  <2>3. SigOK(p)
    BY DEF SigInv
  <2>4. SigOK(p)'
    BY <2>1, <2>2, <2>3 DEF SigOK, Interrupted
  <2> QED BY <2>1, <2>4, SigOthers
<1>12. CASE BackendFails(p) \/ PortUnavailable(p)
  BY <1>0, <1>12, SigMove DEF BackendFails, PortUnavailable, signals
<1>13. CASE UnregisterHandler(p)
  <2>1. "state" \notin handlers'[p] /\ \A q \in Procs \ {p} : handlers'[q] = handlers[q]
    BY <1>0, <1>13 DEF UnregisterHandler, TypeOK
  <2> QED BY <1>0, <1>13, <2>1, SigMove DEF UnregisterHandler
<1>14. CASE RecordSuccess(p)
  <2>1. PICK to \in {"activating", "unlocking"} : Record(p, Final(cmd[p]), to)
    BY <1>14 DEF RecordSuccess
  <2> QED BY <1>0, <1>14, <2>1, SigRecord DEF RecordSuccess, signals
<1>15. CASE SidecarStateRemains(p)
  BY <1>0, <1>15, SigMove DEF SidecarStateRemains, signals
<1>16. CASE RecordFailure(p)
  BY <1>0, <1>16, SigRecord DEF RecordFailure, signals
<1>17. CASE RestoreAfterPort(p)
  <2>1. PICK state : Record(p, state, "unlocking")
    BY <1>17 DEF RestoreAfterPort
  <2> QED BY <1>0, <1>17, <2>1, SigRecord DEF RestoreAfterPort, signals
<1>18. CASE RestoreLocalState(p)
  BY <1>18 DEF RestoreLocalState
<1>19. CASE CleanupEnds(p)
  <2>1. PICK state : Record(p, state, "unlocking")
    BY <1>19 DEF CleanupEnds
  <2>2. tool'[p] = "none" /\ \A q \in Procs \ {p} : tool'[q] = tool[q]
    BY <1>0, <1>19 DEF CleanupEnds, TypeOK
  <2> QED BY <1>0, <1>19, <2>1, <2>2, SigRecord DEF CleanupEnds, signals
<1>20. CASE ActivateCustomSLCs(p)
  <2>1. CASE Record(p, file, "unlocking")
    BY <1>0, <1>20, <2>1, SigRecord DEF ActivateCustomSLCs, signals
  <2>2. CASE Goto(p, "unlocking") /\ UNCHANGED <<mem, file, writers, ret>>
    BY <1>0, <1>20, <2>2, SigMove DEF ActivateCustomSLCs, signals
  <2> QED BY <1>20, <2>1, <2>2 DEF ActivateCustomSLCs
<1>21. CASE Written(p) \/ WriteFails(p)
  <2>1. PICK to \in {ret[p], "unlocking"} : Goto(p, to)
    BY <1>21 DEF Written, WriteFails
  <2>2. pc[p] = "writing" /\ UNCHANGED <<ret, cmd, mem, tool, sig, handlers, todo, told, caught>>
    BY <1>21 DEF Written, WriteFails, signals
  <2>3. SigOK(p) /\ ret[p] # "idle" /\ ret[p] \in Steps
    BY <1>0, <2>2 DEF SigInv, OperationsOnly, TypeOK
  <2>4. to \in Steps \ {"idle", "tool", "writing", "starting", "backend", "blocked"}
    BY <2>1, <2>2, <2>3 DEF SigOK
  <2>5. /\ pc'[p] = to /\ \A q \in Procs \ {p} : pc'[q] = pc[q]
    BY <1>0, <2>1 DEF Goto, TypeOK
  <2>6. SigOK(p)'
    BY <2>1, <2>2, <2>3, <2>4, <2>5 DEF SigOK, Interrupted
  <2> QED BY <2>2, <2>5, <2>6, SigOthers
<1>22. CASE Unlock(p)
  <2>1. "state" \notin handlers'[p] /\ \A q \in Procs \ {p} : handlers'[q] = handlers[q]
    BY <1>0, <1>22 DEF Unlock, TypeOK
  <2> QED BY <1>0, <1>22, <2>1, SigMove DEF Unlock
<1>23. CASE Return(p)
  <2>1. /\ pc[p] = "returning" /\ pc'[p] = "idle" /\ sig'[p] = "listening"
        /\ handlers'[p] = {} /\ todo'[p] = {} /\ UNCHANGED <<ret, cmd, mem, tool, told, caught>>
        /\ \A q \in Procs \ {p} : /\ pc'[q] = pc[q] /\ sig'[q] = sig[q]
                                  /\ handlers'[q] = handlers[q] /\ todo'[q] = todo[q]
    BY <1>0, <1>23 DEF Return, Gone, Goto, TypeOK
  <2>2. SigOK(p)
    BY DEF SigInv
  <2>3. SigOK(p)'
    BY <2>1, <2>2 DEF SigOK, Interrupted
  <2> QED BY <2>1, <2>3, SigOthers
<1> QED BY <1>1, <1>2, <1>3, <1>4, <1>5, <1>6, <1>7, <1>8, <1>9, <1>10, <1>11, <1>12, <1>13,
           <1>14, <1>15, <1>16, <1>17, <1>18, <1>19, <1>20, <1>21, <1>22, <1>23 DEF Main

\* A process ends, by a signal or by a kill.
LEMMA GoneSigInv ==
    ASSUME TInv, SigInv, NEW p \in Procs, Gone(p), pc[p] # "idle",
           caught[p] => sig[p] = "exiting" \/ "crash" \in Faults
    PROVE  SigInv'
<1>1. /\ pc'[p] = "idle" /\ sig'[p] = "listening" /\ handlers'[p] = {} /\ todo'[p] = {}
      /\ UNCHANGED <<ret, cmd, mem, tool, told, caught>>
      /\ \A q \in Procs \ {p} : /\ pc'[q] = pc[q] /\ sig'[q] = sig[q]
                                /\ handlers'[q] = handlers[q] /\ todo'[q] = todo[q]
  BY DEF Gone, Goto, TInv, TypeOK
<1>2. SigOK(p)
  BY DEF SigInv
<1>3. SigOK(p)'
  BY <1>1, <1>2 DEF SigOK, Interrupted, Before
<1> QED BY <1>1, <1>3, SigOthers

\* Every step of the signal handler.
LEMMA HandlerSigInv == ASSUME ~Local, TInv, SigInv, NEW p \in Procs, Handler(p) PROVE SigInv'
<1>0. SigOK(p) /\ TypeOK
  BY DEF SigInv, TInv
<1>1. CASE CallStateHandler(p)
  <2>1. /\ UNCHANGED <<pc, ret, cmd, tool, handlers, caught>> /\ sig[p] = "handling"
        /\ sig'[p] = "writing" /\ told'[p] = TRUE /\ mem'[p] = Interrupted(cmd[p])
        /\ todo'[p] \subseteq todo[p] /\ "state" \in todo[p]
        /\ \A q \in Procs \ {p} : /\ sig'[q] = sig[q] /\ told'[q] = told[q] /\ mem'[q] = mem[q]
                                  /\ todo'[q] = todo[q]
    BY <1>0, <1>1 DEF CallStateHandler, BeginWrite, TypeOK, main
  <2>2. ~caught[p] /\ pc[p] # "idle"
    BY <1>0, <2>1 DEF SigOK
  <2>3. SigOK(p)'
    BY <1>0, <2>1, <2>2 DEF SigOK, Interrupted
  <2> QED BY <2>1, <2>3, SigOthers
<1>2. CASE StateHandlerReturns(p)
  <2>1. /\ UNCHANGED <<pc, ret, cmd, mem, tool, handlers, todo, told, caught>> /\ sig[p] = "writing"
        /\ sig'[p] = "handling" /\ \A q \in Procs \ {p} : sig'[q] = sig[q]
    BY <1>0, <1>2 DEF StateHandlerReturns, TypeOK, main
  <2>2. SigOK(p)'
    BY <1>0, <2>1 DEF SigOK, Interrupted
  <2> QED BY <2>1, <2>2, SigOthers
<1>3. CASE CallLockHandler(p)
  <2>1. /\ UNCHANGED <<pc, ret, cmd, mem, tool, sig, handlers, told, caught>>
        /\ todo'[p] \subseteq todo[p] /\ \A q \in Procs \ {p} : todo'[q] = todo[q]
    BY <1>0, <1>3 DEF CallLockHandler, TypeOK, main
  <2>2. SigOK(p)'
    BY <1>0, <2>1 DEF SigOK, Interrupted
  <2> QED BY <2>1, <2>2, SigOthers
<1>4. CASE InterruptChildren(p)
  <2>1. /\ UNCHANGED <<pc, ret, cmd, mem, tool, handlers, todo, told>> /\ sig[p] = "handling"
        /\ sig'[p] = "stopping"
        /\ \A q \in Procs \ {p} : sig'[q] = sig[q] /\ caught'[q] = caught[q]
    BY <1>0, <1>4 DEF InterruptChildren, TypeOK, main
  <2>2. caught'[p] = (tool[p] # "none")
    BY <1>0, <1>4, Zenon DEF InterruptChildren, TypeOK
  <2>3. pc[p] # "idle" /\ (tool[p] # "none" => pc[p] = "tool")
    BY <1>0, <2>1 DEF SigOK
  <2>4. SigOK(p)'
    <3>1. CASE tool[p] = "none"
      <4>1. ~caught'[p]
        BY <2>2, <3>1
      <4> QED BY <1>0, <2>1, <2>3, <3>1, <4>1 DEF SigOK, Interrupted
    <3>2. CASE tool[p] # "none"
      BY <1>0, <2>1, <2>3, <3>2 DEF SigOK, Interrupted
    <3> QED BY <3>1, <3>2
  <2> QED BY <2>1, <2>4, SigOthers
<1>5. CASE WaitForChildren(p)
  <2>1. /\ UNCHANGED <<pc, ret, cmd, mem, tool, handlers, todo, told, caught>> /\ sig[p] = "stopping"
        /\ sig'[p] = "exiting" /\ tool[p] = "none" /\ \A q \in Procs \ {p} : sig'[q] = sig[q]
    BY <1>0, <1>5 DEF WaitForChildren, ChildrenStopped, TypeOK, main
  <2>2. SigOK(p)'
    BY <1>0, <2>1 DEF SigOK, Interrupted
  <2> QED BY <2>1, <2>2, SigOthers
<1>6. CASE Exit(p)
  <2>1. pc[p] # "idle"
    BY <1>0, <1>6 DEF Exit, SigOK
  <2> QED BY <1>6, <2>1, GoneSigInv DEF Exit
<1> QED BY <1>1, <1>2, <1>3, <1>4, <1>5, <1>6 DEF Handler

\* Every step.
LEMMA NextSigInv == ASSUME ~Local PROVE TInv /\ SigInv /\ [Next]_vars => SigInv'
<1> SUFFICES ASSUME TInv, SigInv, [Next]_vars PROVE SigInv'
  OBVIOUS
<1>1. ASSUME NEW p \in Procs, NEW c \in Commands, Begin(p, c) PROVE SigInv'
  <2>1. /\ UNCHANGED <<ret, mem, tool, sig, handlers, todo>> /\ pc[p] = "idle" /\ tool[p] = "none"
        /\ pc'[p] \in {"reading", "acquiring"} /\ told'[p] = FALSE /\ caught'[p] = FALSE
        /\ \A q \in Procs \ {p} : /\ pc'[q] = pc[q] /\ cmd'[q] = cmd[q] /\ told'[q] = told[q]
                                  /\ caught'[q] = caught[q]
    BY <1>1 DEF Begin, Goto, TInv, TypeOK
  <2>2. "state" \notin handlers[p] \cup todo[p]
    BY <2>1 DEF TInv, OperationsOnly
  <2>3. SigOK(p)'
    BY <2>1, <2>2 DEF SigOK, Interrupted
  <2> QED BY <2>1, <2>3, SigOthers
<1>2. ASSUME NEW p \in Procs, Signal(p) PROVE SigInv'
  <2>1. /\ UNCHANGED <<pc, ret, cmd, mem, tool, told, caught>> /\ pc[p] # "idle"
        /\ sig[p] = "listening" /\ sig'[p] = "handling" /\ handlers'[p] = {} /\ todo'[p] = handlers[p]
        /\ \A q \in Procs \ {p} : /\ sig'[q] = sig[q] /\ handlers'[q] = handlers[q]
                                  /\ todo'[q] = todo[q]
    BY <1>2 DEF Signal, main, TInv, TypeOK
  <2>2. SigOK(p)
    BY DEF SigInv
  <2>3. SigOK(p)'
    BY <2>1, <2>2 DEF SigOK, Interrupted
  <2> QED BY <2>1, <2>3, SigOthers
<1>3. ASSUME NEW p \in Procs, Crash(p) PROVE SigInv'
  BY <1>3, GoneSigInv DEF Crash
<1>4. ASSUME NEW p \in Procs, OrphanEnds(p) PROVE SigInv'
  <2>1. /\ UNCHANGED <<pc, ret, cmd, mem, sig, handlers, todo, told, caught>>
        /\ tool'[p] = "none" /\ \A q \in Procs \ {p} : tool'[q] = tool[q]
    BY <1>4 DEF OrphanEnds, main, signals, TInv, TypeOK
  <2>2. SigOK(p)
    BY DEF SigInv
  <2>3. SigOK(p)'
    BY <2>1, <2>2 DEF SigOK, Interrupted
  <2> QED BY <2>1, <2>3, SigOthers
<1>5. CASE ForceUnlock \/ Outage \/ UNCHANGED vars
  <2>1. UNCHANGED <<pc, ret, cmd, mem, tool, sig, handlers, todo, told, caught>>
    BY <1>5 DEF ForceUnlock, Outage, vars, main, signals
  <2> QED BY <2>1 DEF SigInv, SigOK, Interrupted
<1> QED BY <1>1, <1>2, <1>3, <1>4, <1>5, MainSigInv, HandlerSigInv DEF Next

\* It holds at all times.
LEMMA SigInvariance == ASSUME ~Local PROVE Spec => []SigInv
<1>1. Init => SigInv
  BY DEF Init, SigInv, SigOK, Before
<1>2. TInv /\ SigInv /\ [Next]_vars => SigInv'
  BY NextSigInv
<1> QED BY <1>1, <1>2, InitTInv, NextTInv, PTL DEF Spec

\* A launcher whose OpenTofu was running when the signal came never replaces the
\* interruption that its handler recorded, for any number of launchers and all faults
\* (RunInterruptible does not return to its caller).
THEOREM CaughtNeverResumes == ASSUME ~Local PROVE Spec => []CaughtStaysInterrupted
<1>1. SigInv => CaughtStaysInterrupted
  BY DEF SigInv, SigOK, CaughtStaysInterrupted
<1> QED BY <1>1, SigInvariance, PTL

\* Its OpenTofu has ended before the launcher exits, unless the launcher is killed
\* (WaitForChildProcesses).
THEOREM InterruptedToolEnds ==
    ASSUME ~Local, "crash" \notin Faults PROVE Spec => []CaughtToolStops
<1>1. SigInv => CaughtToolStops
  BY DEF SigInv, SigOK, CaughtToolStops
<1> QED BY <1>1, SigInvariance, PTL

-----------------------------------------------------------------------------
(* The truth of the recorded state *)

\* One launcher at a time, which may be signalled and killed.
Alone == \A p, q \in Procs : p = q

\* A local runtime answers, and its ports are free.
Calm == ~Local \/ ("port" \notin Faults /\ "probe" \notin Faults)

\* The states that say something of the resources, and what they say.
Settled == {Initialized, Running, Stopped}

Fits(state) ==
    /\ state = Initialized => resources = "absent"
    /\ state = Running /\ ~(Local /\ "outage" \in Faults) => resources = "running"
    /\ state = Stopped => resources # "running"

\* Program points where the resources may differ from what they were.
Working == {"registering", "starting", "backend", "tool", "blocked", "unregistering",
            "recording", "cleaning"}

\* Program points that follow the writing of the state.
Returns == {"deciding", "registering", "activating", "unlocking", "returning"}

\* While the resources are worked on, neither the file nor its copy says anything of them;
\* what a command has read or is about to record is true.
FitsOK(p) ==
    /\ Alone \/ pc[p] \in Locked \ {"reading", "unlocking"} => Fits(mem[p])
    /\ pc[p] \in Working \/ (pc[p] = "writing" /\ ret[p] = "registering") \/ tool[p] # "none" =>
          file \notin Settled /\ mem[p] \notin Settled
    /\ pc[p] \in {"unregistering", "recording"} =>
          outcome[p] # "port" /\ (outcome[p] = "ok" => Fits(Final(cmd[p])))
    /\ tool[p] # "none" => pc[p] \in {"tool", "cleaning", "idle"}
    /\ pc[p] = "writing" => ret[p] \in Returns

FitsInv == Fits(file) /\ \A p \in Procs : FitsOK(p)

\* The states are different, and those that name an operation say nothing.
LEMMA StatesDiffer ==
    /\ Initialized # Running /\ Initialized # Stopped /\ Running # Stopped
    /\ {Unreadable, DeploymentFailed} \cap Settled = {}
    /\ \A op \in Ops : /\ OperationInProgress(op) \notin Settled /\ Interrupted(op) \notin Settled
                       /\ FailureState(op) \notin Settled
    /\ Unreadable \notin Nameable
  BY DEF Initialized, DeploymentFailed, Running, Stopped, Unreadable, Plain, OperationInProgress,
         Interrupted, FailureState, Settled, Nameable, Ops

\* A state that says nothing is true, and what is true stays so while nothing changes, or
\* while a running deployment stops by itself.
LEMMA FitsFacts ==
    /\ \A state : state \notin Settled => Fits(state) /\ Fits(state)'
    /\ \A state : (resources' = resources \/ Outage) /\ Fits(state) => Fits(state)'
  BY StatesDiffer DEF Settled, Fits, Outage

\* The others wait while one is inside the lock.
Solo(p) == \A q \in Procs \ {p} : pc[q] \notin Locked /\ tool[q] = "none"

\* A step inside the lock.
LEMMA FitsStep ==
    ASSUME FitsInv, NEW p \in Procs, Solo(p), Fits(file)', FitsOK(p)',
           \A q \in Procs \ {p} : pc'[q] = pc[q] /\ tool'[q] = tool[q]
    PROVE  FitsInv'
<1>1. ASSUME NEW q \in Procs, q # p PROVE FitsOK(q)'
  <2>1. pc'[q] \notin Locked /\ tool'[q] = "none" /\ ~Alone
    BY <1>1 DEF Solo, Alone
  <2> QED BY <2>1 DEF FitsOK, Locked, Working
<1> QED BY <1>1 DEF FitsInv

\* A step that leaves the file, its copies and the resources alone.
LEMMA FitsQuiet ==
    ASSUME FitsInv, NEW p \in Procs, UNCHANGED <<file, resources, mem>>, FitsOK(p)',
           \A q \in Procs \ {p} : /\ pc'[q] = pc[q] /\ tool'[q] = tool[q] /\ ret'[q] = ret[q]
                                 /\ outcome'[q] = outcome[q] /\ cmd'[q] = cmd[q]
    PROVE  FitsInv'
<1>1. ASSUME NEW q \in Procs, q # p PROVE FitsOK(q)'
  BY <1>1 DEF FitsInv, FitsOK, Fits, Final
<1>2. Fits(file)'
  BY DEF FitsInv, Fits
<1> QED BY <1>1, <1>2 DEF FitsInv

\* A command goes on inside the lock, and leaves the state alone.
LEMMA FitsMove ==
    ASSUME TInv, FitsInv, NEW p \in Procs, Goto(p, pc'[p]),
           UNCHANGED <<file, resources, ret, cmd, mem>>,
           tool' = tool, tool[p] = "none", pc[p] # "idle",
           \A q \in Procs \ {p} : outcome'[q] = outcome[q],
           pc'[p] \in Working => pc[p] \in Working,
           pc'[p] \in Locked \ {"reading", "unlocking"} =>
              pc[p] \in Locked \ {"reading", "unlocking"},
           pc'[p] # "writing",
           pc'[p] \in {"unregistering", "recording"} =>
              outcome'[p] = "failed" \/ (outcome'[p] = outcome[p] /\ pc[p] = "unregistering")
    PROVE  FitsInv'
<1>1. \A q \in Procs \ {p} : pc'[q] = pc[q]
  BY DEF Goto, TInv, TypeOK
<1>2. FitsOK(p)'
  <2>1. FitsOK(p)
    BY DEF FitsInv
  <2> QED BY <2>1 DEF FitsOK, Fits, Final
<1> QED BY <1>1, <1>2, FitsQuiet

\* It records a state that is true.
LEMMA FitsRecord ==
    ASSUME TInv, FitsInv, NEW p \in Procs, Solo(p), NEW state, NEW to \in Returns,
           Record(p, state, to), Fits(state)', to = "registering" => state \notin Settled,
           tool'[p] = "none", \A q \in Procs \ {p} : tool'[q] = tool[q]
    PROVE  FitsInv'
<1>1. /\ file' = Unreadable /\ mem'[p] = state /\ pc'[p] = "writing" /\ ret'[p] = to
      /\ \A q \in Procs \ {p} : pc'[q] = pc[q]
  BY DEF Record, BeginWrite, Goto, TInv, TypeOK
<1>2. Unreadable \notin Settled
  BY StatesDiffer
<1>3. Fits(file)'
  BY <1>1, <1>2, FitsFacts DEF Fits
<1>4. Fits(mem[p])'
  BY <1>1 DEF Fits
<1>5. FitsOK(p)'
  BY <1>1, <1>2, <1>4 DEF FitsOK, Working
<1> QED BY <1>1, <1>3, <1>5, FitsStep

\* Each step of the main goroutine.
LEMMA MainFits ==
    ASSUME Calm, TInv, FitsInv, NEW p \in Procs, pc[p] \in Locked => Solo(p), Main(p)
    PROVE  FitsInv'
<1>0. /\ TypeOK /\ OperationsOnly /\ FitsOK(p) /\ Fits(file)
      /\ pc[p] \notin {"tool", "cleaning", "idle"} => tool[p] = "none"
  BY DEF TInv, FitsInv, FitsOK
<1>a. \A to : Goto(p, to) => pc'[p] = to
  BY <1>0 DEF Goto, TypeOK
<1>b. resources' = resources => \A state : Fits(state) => Fits(state)'
  BY FitsFacts
<1>c. \A state : state \notin Settled => Fits(state) /\ Fits(state)'
  BY FitsFacts
<1>d. pc[p] \in OpSteps => cmd[p] \in Ops
  BY <1>0 DEF OperationsOnly
<1> USE DEF Locked, Working
<1>1. CASE Acquire(p) \/ AcquireTimeout(p) \/ Decide(p) \/ RegisterHandler(p) \/ ManifestUnreadable(p)
           \/ BackendFails(p) \/ UnregisterHandler(p) \/ SidecarStateRemains(p) \/ Unlock(p)
  <2>1. UNCHANGED <<file, resources, ret, cmd, mem, tool>> /\ pc[p] \notin {"tool", "cleaning", "idle"}
    BY <1>1 DEF Acquire, AcquireTimeout, Decide, RegisterHandler, ManifestUnreadable, BackendFails,
       UnregisterHandler, SidecarStateRemains, Unlock, world
  <2>2. CASE Acquire(p) \/ AcquireTimeout(p) \/ Unlock(p)
    <3>1. PICK to \in {"reading", "returning"} : Goto(p, to) /\ UNCHANGED outcome
      BY <2>2 DEF Acquire, AcquireTimeout, Unlock
    <3> QED BY <1>0, <1>a, <2>1, <3>1, FitsMove
  <2>3. CASE Decide(p)
    <3>1. PICK to \in {"marking", "unlocking"} : Goto(p, to) /\ UNCHANGED outcome /\ pc[p] = "deciding"
      BY <2>3 DEF Decide
    <3> QED BY <1>0, <1>a, <2>1, <3>1, FitsMove
  <2>4. CASE RegisterHandler(p)
    BY <1>0, <1>a, <2>1, <2>4, FitsMove DEF RegisterHandler
  <2>5. CASE ManifestUnreadable(p)
    <3>1. PICK to \in {"unlocking", "recording"} : Goto(p, to) /\ pc[p] = "starting"
            /\ (to = "recording" => outcome'[p] = "failed")
            /\ \A q \in Procs \ {p} : outcome'[q] = outcome[q]
      BY <1>0, <2>5 DEF ManifestUnreadable, TypeOK
    <3> QED BY <1>0, <1>a, <2>1, <3>1, FitsMove
  <2>6. CASE BackendFails(p)
    <3>1. outcome'[p] = "failed" /\ \A q \in Procs \ {p} : outcome'[q] = outcome[q]
      BY <1>0, <2>6 DEF BackendFails, TypeOK
    <3> QED BY <1>0, <1>a, <2>1, <2>6, <3>1, FitsMove DEF BackendFails
  <2>7. CASE UnregisterHandler(p)
    BY <1>0, <1>a, <2>1, <2>7, FitsMove DEF UnregisterHandler
  <2>8. CASE SidecarStateRemains(p)
    BY <1>0, <1>a, <2>1, <2>8, FitsMove DEF SidecarStateRemains
  <2> QED BY <1>1, <2>2, <2>3, <2>4, <2>5, <2>6, <2>7, <2>8
<1>2. CASE Read(p)
  <2>1. /\ UNCHANGED <<file, resources, ret, cmd, outcome, tool>> /\ pc[p] = "reading" /\ Solo(p)
        /\ mem'[p] \in {mem[p], file} /\ \A q \in Procs \ {p} : pc'[q] = pc[q]
        /\ pc'[p] \in {"returning", "unlocking"} \/ mem'[p] = file
        /\ pc'[p] \in {"returning", "unlocking", "checking", "marking", "probing", "deciding"}
    BY <1>0, <1>2 DEF Read, Leave, Goto, world, TypeOK
  <2>2. Fits(file)'
    BY <1>0, <1>b, <2>1 DEF Fits
  <2>3. FitsOK(p)'
    BY <1>0, <2>1, <2>2 DEF FitsOK, Fits
  <2> QED BY <2>1, <2>2, <2>3, FitsStep
<1>3. CASE WriteBack(p)
  <2>0. Leave(p) \in {"returning", "unlocking"} /\ pc[p] = "checking" /\ UNCHANGED <<resources, tool>>
        /\ UNCHANGED <<cmd, outcome>>
    BY <1>3 DEF Leave, WriteBack
  <2>1. CASE Record(p, mem[p], Leave(p))
    <3>1. Fits(mem[p]) /\ \A state : Fits(state) => Fits(state)'
      BY <1>0, <1>b, <2>0 DEF FitsOK
    <3>2. PICK state : state = mem[p]
      OBVIOUS
    <3>3. Record(p, state, Leave(p)) /\ Fits(state)'
      BY <2>1, <3>1, <3>2
    <3> QED BY <1>0, <2>0, <3>3, FitsRecord DEF Returns
  <2>2. CASE Goto(p, Leave(p)) /\ UNCHANGED <<mem, file, writers, ret>>
    BY <1>0, <1>a, <2>0, <2>2, FitsMove
  <2> QED BY <1>3, <2>1, <2>2 DEF WriteBack
<1>4. CASE ReconcileLocalVMState(p)
  <2>0. pc[p] = "probing" /\ UNCHANGED <<resources, tool, cmd, outcome>>
    BY <1>4 DEF ReconcileLocalVMState
  <2>1. CASE "stopped" \in Probes /\ Record(p, Stopped, "deciding")
    <3>1. Local => Fits(Stopped)'
      BY <2>0, <2>1, StatesDiffer DEF Calm, Probes, Fits
    <3>2. CASE Local
      BY <1>0, <2>0, <2>1, <3>1, <3>2, FitsRecord DEF Returns
    <3>3. CASE ~Local
      <4>1. Fits(Stopped)'
        BY <2>0, <2>1, StatesDiffer DEF Probes, Fits
      <4> QED BY <1>0, <2>0, <2>1, <4>1, FitsRecord DEF Returns
    <3> QED BY <3>2, <3>3
  <2>2. CASE \E to \in {"unlocking", "deciding"} : Goto(p, to) /\ UNCHANGED <<mem, file, writers, ret>>
    BY <1>0, <1>a, <2>0, <2>2, FitsMove
  <2> QED BY <1>4, <2>1, <2>2 DEF ReconcileLocalVMState
<1>5. CASE MarkInProgress(p)
  <2>1. PICK state : state = OperationInProgress(cmd[p])
    OBVIOUS
  <2>2. pc[p] = "marking" /\ Record(p, state, "registering") /\ UNCHANGED tool
    BY <1>5, <2>1 DEF MarkInProgress
  <2>3. state \notin Settled
    BY <1>d, <2>1, <2>2, StatesDiffer DEF OpSteps
  <2>4. Fits(state)'
    BY <1>c, <2>3
  <2> QED BY <1>0, <2>2, <2>3, <2>4, FitsRecord DEF Returns
<1>6. CASE StartTool(p)
  <2>1. /\ pc[p] \in {"starting", "backend"} /\ pc'[p] = "tool"
        /\ UNCHANGED <<file, resources, mem, ret, cmd, outcome>>
        /\ \A q \in Procs \ {p} : pc'[q] = pc[q] /\ tool'[q] = tool[q]
    BY <1>0, <1>6 DEF StartTool, Goto, TypeOK, world
  <2>2. FitsOK(p)'
    BY <1>0, <2>1 DEF FitsOK, Fits
  <2> QED BY <2>1, <2>2, FitsQuiet
<1>7. CASE ToolEnds(p)
  <2>1. /\ pc[p] = "tool" /\ UNCHANGED <<file, mem, cmd, ret>> /\ tool'[p] = "none" /\ Solo(p)
        /\ pc'[p] \in {"unregistering", "backend", "blocked"}
        /\ \A q \in Procs \ {p} : pc'[q] = pc[q] /\ tool'[q] = tool[q]
    BY <1>0, <1>7 DEF ToolEnds, Resume, Goto, TypeOK
  <2>2. pc'[p] = "unregistering" => outcome'[p] = "ok" /\ resources' \in Achieved(cmd[p])
    BY <1>0, <1>7 DEF ToolEnds, Resume, Goto, TypeOK
  <2>3. file \notin Settled /\ mem[p] \notin Settled
    BY <1>0, <2>1 DEF FitsOK
  <2>4. Fits(file)' /\ Fits(mem[p])'
    BY <2>1, <2>3, <1>c DEF Fits
  <2>5. resources' \in Achieved(cmd[p]) => Fits(Final(cmd[p]))'
    <3>1. cmd[p] \in Ops
      BY <1>d, <2>1 DEF OpSteps
    <3> QED BY <2>1, <3>1, StatesDiffer DEF Fits, Final, Achieved, Ops
  <2>6. FitsOK(p)'
    BY <2>1, <2>2, <2>3, <2>4, <2>5 DEF FitsOK
  <2> QED BY <2>1, <2>4, <2>6, FitsStep
<1>8. CASE PortUnavailable(p) \/ RestoreAfterPort(p)
  BY <1>0, <1>8 DEF PortUnavailable, RestoreAfterPort, Calm, FitsOK
<1>9. CASE RecordSuccess(p)
  <2>1. PICK state : state = Final(cmd[p])
    OBVIOUS
  <2>2. PICK to \in {"activating", "unlocking"} : Record(p, state, to)
    BY <1>9, <2>1 DEF RecordSuccess
  <2>3. pc[p] = "recording" /\ outcome[p] = "ok" /\ UNCHANGED <<resources, tool>>
    BY <1>9 DEF RecordSuccess
  <2>4. Fits(state)'
    BY <1>0, <1>b, <2>1, <2>3 DEF FitsOK
  <2> QED BY <1>0, <2>2, <2>3, <2>4, FitsRecord DEF Returns
<1>10. CASE RecordFailure(p)
  <2>1. PICK state : state = FailureState(cmd[p])
    OBVIOUS
  <2>2. pc[p] = "recording" /\ Record(p, state, "unlocking") /\ UNCHANGED tool
    BY <1>10, <2>1 DEF RecordFailure
  <2>3. Fits(state)'
    BY <1>c, <1>d, <2>1, <2>2, StatesDiffer DEF OpSteps
  <2> QED BY <1>0, <2>2, <2>3, FitsRecord DEF Returns
<1>11. CASE RestoreLocalState(p)
  <2>0. pc[p] = "recording" /\ UNCHANGED <<resources, cmd, outcome>>
        /\ Probes = {IF resources = "running" THEN "running" ELSE "stopped"}
    BY <1>11 DEF RestoreLocalState, Probes, Calm
  <2>1. CASE resources # "running" /\ Record(p, Stopped, "unlocking") /\ UNCHANGED tool
    <3>1. Fits(Stopped)'
      BY <2>0, <2>1, StatesDiffer DEF Fits
    <3> QED BY <1>0, <2>0, <2>1, <3>1, FitsRecord DEF Returns
  <2>2. CASE /\ tool' = [tool EXCEPT ![p] = "stop"]
             /\ Goto(p, "cleaning")
             /\ UNCHANGED <<mem, file, writers, ret>>
    <3>1. pc'[p] = "cleaning" /\ \A q \in Procs \ {p} : pc'[q] = pc[q] /\ tool'[q] = tool[q]
      BY <1>0, <2>2 DEF Goto, TypeOK
    <3>2. FitsOK(p)'
      BY <1>0, <2>0, <2>2, <3>1 DEF FitsOK, Fits
    <3> QED BY <2>0, <2>2, <3>1, <3>2, FitsQuiet
  <2> QED BY <1>11, <2>0, <2>1, <2>2 DEF RestoreLocalState
<1>12. CASE CleanupEnds(p)
  <2>0. pc[p] = "cleaning" /\ tool'[p] = "none" /\ \A q \in Procs \ {p} : tool'[q] = tool[q]
    BY <1>0, <1>12 DEF CleanupEnds, TypeOK
  <2>1. CASE resources' \in Achieved("stop") /\ Record(p, Stopped, "unlocking")
    <3>1. Fits(Stopped)'
      BY <2>1, StatesDiffer DEF Fits, Achieved
    <3> QED BY <1>0, <2>0, <2>1, <3>1, FitsRecord DEF Returns
  <2>2. CASE Record(p, Interrupted(cmd[p]), "unlocking")
    <3>1. PICK state : state = Interrupted(cmd[p])
      OBVIOUS
    <3>2. Fits(state)'
      BY <1>c, <1>d, <2>0, <3>1, StatesDiffer DEF OpSteps
    <3> QED BY <1>0, <2>0, <2>2, <3>1, <3>2, FitsRecord DEF Returns
  <2> QED BY <1>12, <2>1, <2>2 DEF CleanupEnds
<1>13. CASE ActivateCustomSLCs(p)
  <2>0. pc[p] = "activating" /\ UNCHANGED <<resources, tool, cmd, outcome>>
    BY <1>13 DEF ActivateCustomSLCs
  <2>1. CASE Record(p, file, "unlocking")
    <3>1. PICK state : state = file
      OBVIOUS
    <3>2. Fits(state)'
      BY <1>0, <1>b, <2>0, <3>1
    <3> QED BY <1>0, <2>0, <2>1, <3>1, <3>2, FitsRecord DEF Returns
  <2>2. CASE Goto(p, "unlocking") /\ UNCHANGED <<mem, file, writers, ret>>
    BY <1>0, <1>a, <2>0, <2>2, FitsMove
  <2> QED BY <1>13, <2>1, <2>2 DEF ActivateCustomSLCs
<1>14. CASE Written(p)
  <2>1. /\ pc[p] = "writing" /\ UNCHANGED <<resources, ret, cmd, outcome, mem, tool>> /\ Solo(p)
        /\ file' \in {mem[p], Unreadable} /\ pc'[p] = ret[p] /\ ret[p] \in Returns
        /\ \A q \in Procs \ {p} : pc'[q] = pc[q]
    BY <1>0, <1>14 DEF Written, EndWrite, Goto, TypeOK, FitsOK
  <2>2. Fits(mem[p])'
    BY <1>0, <2>1 DEF FitsOK, Fits
  <2>3. Fits(file)'
    BY <1>c, <2>1, <2>2, StatesDiffer DEF Fits
  <2>4. FitsOK(p)'
    BY <1>0, <2>1, <2>2, StatesDiffer DEF FitsOK, Returns
  <2> QED BY <2>1, <2>3, <2>4, FitsStep
<1>15. CASE WriteFails(p)
  <2>1. /\ pc[p] = "writing" /\ UNCHANGED <<file, resources, ret, cmd, outcome, mem, tool>>
        /\ pc'[p] \in {"unlocking", ret[p]} /\ \A q \in Procs \ {p} : pc'[q] = pc[q]
    BY <1>0, <1>15 DEF WriteFails, Goto, TypeOK
  <2>2. FitsOK(p)'
    BY <1>0, <2>1 DEF FitsOK, Fits, Returns
  <2> QED BY <2>1, <2>2, FitsQuiet
<1>16. CASE Return(p)
  BY <1>0, <1>16, FitsQuiet DEF Return, Gone, Goto, TypeOK, FitsOK, Fits
<1> QED BY <1>1, <1>2, <1>3, <1>4, <1>5, <1>6, <1>7, <1>8, <1>9, <1>10, <1>11, <1>12, <1>13, <1>14,
           <1>15, <1>16 DEF Main

\* Each step of the signal handler of the one launcher.
LEMMA HandlerFits ==
    ASSUME Alone, TInv, FitsInv, NEW p \in Procs, Handler(p)
    PROVE  FitsInv'
<1>0. TypeOK /\ OperationsOnly /\ FitsOK(p) /\ Fits(file) /\ Solo(p)
  BY DEF TInv, FitsInv, Solo, Alone
<1>a. \A state : state \notin Settled => Fits(state) /\ Fits(state)'
  BY FitsFacts
<1>1. CASE CallStateHandler(p)
  <2>1. /\ cmd[p] \in Ops /\ file' = Unreadable /\ mem'[p] = Interrupted(cmd[p])
        /\ UNCHANGED <<resources, pc, ret, cmd, outcome, tool>>
    BY <1>0, <1>1 DEF CallStateHandler, BeginWrite, OperationsOnly, TypeOK, main
  <2>2. file' \notin Settled /\ mem'[p] \notin Settled
    BY <2>1, StatesDiffer
  <2>3. Fits(file)' /\ Fits(mem[p])'
    BY <2>2 DEF Fits, Settled
  <2>4. FitsOK(p)'
    BY <1>0, <2>1, <2>2, <2>3 DEF FitsOK, Fits
  <2> QED BY <1>0, <2>1, <2>3, <2>4, FitsStep
<1>2. CASE StateHandlerReturns(p)
  <2>1. file' \in {mem[p], Unreadable} /\ UNCHANGED <<mem, resources, pc, ret, cmd, outcome, tool>>
    BY <1>2 DEF StateHandlerReturns, EndWrite, main
  <2>2. Fits(mem[p])'
    BY <1>0, <2>1 DEF FitsOK, Fits
  <2>3. Fits(file)'
    BY <1>a, <2>1, <2>2, StatesDiffer DEF Fits
  <2>4. FitsOK(p)'
    BY <1>0, <2>1, <2>2, StatesDiffer DEF FitsOK, Fits
  <2> QED BY <1>0, <2>1, <2>3, <2>4, FitsStep
<1>3. CASE CallLockHandler(p) \/ InterruptChildren(p) \/ WaitForChildren(p)
  BY <1>0, <1>3, FitsQuiet DEF CallLockHandler, InterruptChildren, WaitForChildren, main, world,
     FitsOK, Fits
<1>4. CASE Exit(p)
  BY <1>0, <1>4, FitsQuiet DEF Exit, Gone, Goto, TypeOK, FitsOK, Fits, Locked, Working
<1> QED BY <1>1, <1>2, <1>3, <1>4 DEF Handler

\* Every step keeps the recorded state true, of one launcher that may be signalled and killed
\* or of many that are not.
LEMMA NextFits ==
    ASSUME Calm, Alone \/ Undisturbed
    PROVE  TInv /\ (Undisturbed => LockInv) /\ FitsInv /\ [Next]_vars => FitsInv'
<1> SUFFICES ASSUME TInv, Undisturbed => LockInv, FitsInv, [Next]_vars PROVE FitsInv'
  OBVIOUS
<1>0. TypeOK /\ Fits(file) /\ \A p \in Procs : FitsOK(p)
  BY DEF TInv, FitsInv
<1>1. ASSUME NEW p \in Procs, Main(p) PROVE FitsInv'
  <2>1. pc[p] \in Locked => Solo(p)
    <3>1. CASE Alone
      BY <3>1 DEF Alone, Solo
    <3>2. CASE Undisturbed
      BY <3>2 DEF LockInv, Solo, Locked
    <3> QED BY <3>1, <3>2
  <2> QED BY <1>1, <2>1, MainFits
<1>2. ASSUME NEW p \in Procs, Handler(p) PROVE FitsInv'
  <2>1. ~Undisturbed
    BY <1>2 DEF LockInv, Handler, CallStateHandler, StateHandlerReturns, CallLockHandler,
                InterruptChildren, WaitForChildren, Exit
  <2> QED BY <1>2, <2>1, HandlerFits
<1>3. ASSUME NEW p \in Procs, NEW c \in Commands, Begin(p, c) PROVE FitsInv'
  <2>1. /\ UNCHANGED <<file, resources, mem, tool, ret>> /\ tool[p] = "none"
        /\ pc'[p] \in {"reading", "acquiring"}
        /\ \A q \in Procs \ {p} : pc'[q] = pc[q] /\ outcome'[q] = outcome[q] /\ cmd'[q] = cmd[q]
    BY <1>0, <1>3 DEF Begin, Goto, TypeOK
  <2>2. FitsOK(p)'
    BY <1>0, <2>1 DEF FitsOK, Fits, Working, Locked
  <2> QED BY <2>1, <2>2, FitsQuiet
<1>4. ASSUME NEW p \in Procs, Signal(p) PROVE FitsInv'
  BY <1>0, <1>4, FitsQuiet DEF Signal, main, world, FitsOK, Fits
<1>5. ASSUME NEW p \in Procs, Crash(p) PROVE FitsInv'
  BY <1>0, <1>5, FitsQuiet DEF Crash, Gone, Goto, TypeOK, FitsOK, Fits, Locked, Working
<1>6. ASSUME NEW p \in Procs, OrphanEnds(p) PROVE FitsInv'
  <2>1. Alone
    BY <1>6 DEF LockInv, OrphanEnds
  <2>2. Solo(p)
    BY <2>1 DEF Alone, Solo
  <2>3. /\ pc[p] = "idle" /\ tool[p] # "none" /\ tool'[p] = "none"
        /\ UNCHANGED <<file, mem, pc, ret, cmd, outcome>>
        /\ \A q \in Procs \ {p} : tool'[q] = tool[q]
    BY <1>0, <1>6 DEF OrphanEnds, main, TypeOK
  <2>4. file \notin Settled /\ mem[p] \notin Settled
    BY <1>0, <2>3 DEF FitsOK
  <2>5. Fits(file)' /\ Fits(mem[p])'
    BY <2>3, <2>4, FitsFacts DEF Fits
  <2>6. FitsOK(p)'
    BY <2>3, <2>4, <2>5 DEF FitsOK, Locked, Working
  <2> QED BY <2>2, <2>3, <2>5, <2>6, FitsStep
<1>7. CASE Outage
  <2>1. UNCHANGED <<file, mem, pc, ret, cmd, outcome, tool>>
    BY <1>7 DEF Outage, main
  <2>2. \A state : Fits(state) => Fits(state)'
    BY <1>7, FitsFacts
  <2>3. Fits(file)'
    BY <1>0, <2>1, <2>2 DEF Fits
  <2>4. ASSUME NEW p \in Procs PROVE FitsOK(p)'
    <3>1. Fits(mem[p]) => Fits(mem[p])'
      BY <2>1, <2>2 DEF Fits
    <3>2. Fits(Final(cmd[p])) => Fits(Final(cmd[p]))'
      BY <2>1, <2>2 DEF Fits, Final
    <3> QED BY <1>0, <2>1, <3>1, <3>2 DEF FitsOK
  <2> QED BY <2>3, <2>4 DEF FitsInv
<1>8. CASE ForceUnlock \/ UNCHANGED vars
  BY <1>8 DEF ForceUnlock, vars, main, world, FitsInv, FitsOK, Fits, Final
<1> QED BY <1>1, <1>2, <1>3, <1>4, <1>5, <1>6, <1>7, <1>8 DEF Next

\* The recorded state stays true.
LEMMA FitsInvariance ==
    ASSUME Calm, Alone \/ Undisturbed PROVE Spec => []FitsInv
<1>1. Init => FitsInv /\ LockInv
  BY StatesDiffer DEF Init, FitsInv, FitsOK, Fits, LockInv, Locked, Working
<1>2. CASE Undisturbed
  <2>1. TInv /\ LockInv /\ [Next]_vars => LockInv'
    BY <1>2, NextLockInv DEF TInv
  <2>2. TInv /\ LockInv /\ FitsInv /\ [Next]_vars => FitsInv'
    BY NextFits
  <2> QED BY <1>1, <2>1, <2>2, InitTInv, NextTInv, PTL DEF Spec
<1>3. CASE ~Undisturbed
  <2>1. TInv /\ FitsInv /\ [Next]_vars => FitsInv'
    BY <1>3, NextFits
  <2> QED BY <1>1, <2>1, InitTInv, NextTInv, PTL DEF Spec
<1> QED BY <1>2, <1>3

\* Between commands the recorded state is true of the resources, however many commands fail
\* and wherever: of one launcher, which may be signalled and killed and leave its tool behind,
\* or of many that compete for the lock.
THEOREM RecordedStateIsTrue ==
    ASSUME Calm, Alone \/ Undisturbed, ~(Local /\ "outage" \in Faults)
    PROVE  Spec => []StateMatchesResources
<1>1. FitsInv => StateMatchesResources
  BY DEF FitsInv, Fits, StateMatchesResources
<1> QED BY <1>1, FitsInvariance, PTL

\* The same of a local deployment whose runtime may also stop by itself: what is recorded as
\* stopped does not run and what is recorded as initialized does not exist.
THEOREM LocalRecordIsTrue ==
    ASSUME Calm, Alone \/ Undisturbed PROVE Spec => []LocalStateTrue
<1>1. FitsInv => LocalStateTrue
  BY DEF FitsInv, Fits, LocalStateTrue, StoppedMeansNotRunning, InitializedMeansAbsent
<1> QED BY <1>1, FitsInvariance, PTL

-----------------------------------------------------------------------------
(* A state that the next command can use *)

\* Program points of an operation that is recorded as in progress.
Underway == Working \ {"blocked"}

InProgress(state) == state.name = "operationInProgress"

\* Only the start of an operation records it as in progress: the version check, which writes
\* back what it has read, has not read that.
RestOK(p) ==
    /\ pc[p] = "writing" => <<p, "main">> \in writers /\ ret[p] \in Returns
    /\ pc[p] = "writing" /\ InProgress(mem[p]) => ret[p] = "registering"
    /\ pc[p] = "checking" => ~InProgress(mem[p])

\* A file that cannot be read is being written, and an operation that is recorded as in
\* progress is under way.
RestInv ==
    /\ file = Unreadable => \E p \in Procs : pc[p] = "writing"
    /\ InProgress(file) => \E p \in Procs : pc[p] \in Underway
    /\ \A p \in Procs : RestOK(p)

\* Which states are in progress.
LEMMA OnlyOneInProgress ==
    /\ \A state \in {Initialized, DeploymentFailed, Running, Stopped, Unreadable} : ~InProgress(state)
    /\ \A op : ~InProgress(Interrupted(op)) /\ ~InProgress(FailureState(op)) /\ ~InProgress(Final(op))
  BY DEF InProgress, Initialized, DeploymentFailed, Running, Stopped, Unreadable, Plain, Interrupted,
         FailureState, Final

\* A step that leaves the file alone and does not end an operation.
LEMMA RestMove ==
    ASSUME TInv, RestInv, NEW p \in Procs, Goto(p, pc'[p]), UNCHANGED <<file, writers, ret>>,
           \A q \in Procs \ {p} : mem'[q] = mem[q],
           pc[p] # "writing", pc'[p] # "writing", pc[p] \in Underway => pc'[p] \in Underway,
           pc'[p] = "checking" => ~InProgress(mem[p])'
    PROVE  RestInv'
<1>1. \A q \in Procs \ {p} : pc'[q] = pc[q]
  BY DEF Goto, TInv, TypeOK
<1>2. ASSUME NEW q \in Procs PROVE RestOK(q)'
  BY <1>1 DEF RestInv, RestOK, InProgress
<1>3. (file = Unreadable)' => \E q \in Procs : pc'[q] = "writing"
  BY <1>1 DEF RestInv, Unreadable, Plain
<1>4. InProgress(file)' => \E q \in Procs : pc'[q] \in Underway
  BY <1>1 DEF RestInv, InProgress
<1> QED BY <1>2, <1>3, <1>4 DEF RestInv

\* A command records a state, and the operation in progress only before it starts.
LEMMA RestRecord ==
    ASSUME TInv, RestInv, NEW p \in Procs, NEW state, NEW to \in Returns, Record(p, state, to),
           InProgress(state) => to = "registering"
    PROVE  RestInv'
<1>1. /\ file' = Unreadable /\ mem'[p] = state /\ pc'[p] = "writing" /\ ret'[p] = to
      /\ <<p, "main">> \in writers' /\ writers \subseteq writers'
      /\ \A q \in Procs \ {p} : pc'[q] = pc[q] /\ mem'[q] = mem[q] /\ ret'[q] = ret[q]
  BY DEF Record, BeginWrite, Goto, TInv, TypeOK
<1>2. ASSUME NEW q \in Procs PROVE RestOK(q)'
  BY <1>1 DEF RestInv, RestOK, InProgress
<1>3. ~InProgress(file)'
  BY <1>1, OnlyOneInProgress DEF InProgress
<1> QED BY <1>1, <1>2, <1>3 DEF RestInv

\* Each step of the main goroutine.
LEMMA MainRest ==
    ASSUME Undisturbed, "io" \notin Faults, TInv, NInv, LockInv, RestInv, NEW p \in Procs, Main(p)
    PROVE  RestInv'
<1>0. TypeOK /\ OperationsOnly /\ RestOK(p) /\ sig[p] = "listening"
  BY DEF TInv, RestInv, LockInv
<1>a. \A to : Goto(p, to) => pc'[p] = to
  BY <1>0 DEF Goto, TypeOK
<1>b. pc[p] \in Locked => \A q \in Procs \ {p} : pc[q] \notin Locked
  BY DEF LockInv
<1>c. pc[p] \in Locked /\ pc[p] \notin Underway => ~InProgress(file)
  BY <1>b DEF RestInv, Underway, Working, Locked
<1> USE DEF Working, Underway
<1>1. CASE Acquire(p) \/ AcquireTimeout(p) \/ Decide(p) \/ Unlock(p)
  <2>1. PICK to \in {"reading", "returning", "marking", "unlocking"} :
            Goto(p, to) /\ UNCHANGED <<file, writers, ret, mem>>
            /\ pc[p] \in {"acquiring", "deciding", "unlocking"}
    BY <1>1 DEF Acquire, AcquireTimeout, Decide, Unlock, world
  <2> QED BY <1>a, <2>1, RestMove
<1>2. CASE RegisterHandler(p) \/ StartTool(p) \/ BackendFails(p) \/ PortUnavailable(p)
           \/ UnregisterHandler(p) \/ ToolEnds(p)
  <2>1. PICK to \in {"starting", "tool", "unregistering", "recording", "backend"} :
            Goto(p, to) /\ UNCHANGED <<file, writers, ret, mem>>
            /\ pc[p] \in {"registering", "starting", "backend", "unregistering", "tool"}
    BY <1>0, <1>2 DEF RegisterHandler, StartTool, BackendFails, PortUnavailable, UnregisterHandler,
       ToolEnds, Resume, ChildrenInterrupted, world
  <2> QED BY <1>a, <2>1, RestMove
<1>3. CASE ManifestUnreadable(p) \/ SidecarStateRemains(p) \/ WriteFails(p)
  BY <1>3 DEF ManifestUnreadable, SidecarStateRemains, WriteFails
<1>4. CASE Read(p)
  <2>1. /\ UNCHANGED <<file, writers, ret>> /\ pc[p] = "reading"
        /\ \A q \in Procs \ {p} : mem'[q] = mem[q]
        /\ pc'[p] = "checking" => mem'[p] = file
        /\ Goto(p, pc'[p])
        /\ pc'[p] \in {"returning", "unlocking", "checking", "marking", "probing", "deciding"}
    BY <1>0, <1>a, <1>4 DEF Read, Leave, world, TypeOK
  <2>2. pc'[p] = "checking" => ~InProgress(mem[p])'
    BY <1>c, <2>1 DEF InProgress, Locked
  <2> QED BY <2>1, <2>2, RestMove
<1>5. CASE WriteBack(p)
  <2>0. Leave(p) \in {"returning", "unlocking"} /\ pc[p] = "checking" /\ ~InProgress(mem[p])
    BY <1>0, <1>5 DEF Leave, WriteBack, RestOK
  <2>1. CASE Record(p, mem[p], Leave(p))
    BY <2>0, <2>1, RestRecord DEF Returns
  <2>2. CASE Goto(p, Leave(p)) /\ UNCHANGED <<mem, file, writers, ret>>
    BY <1>a, <2>0, <2>2, RestMove
  <2> QED BY <1>5, <2>1, <2>2 DEF WriteBack
<1>6. CASE ReconcileLocalVMState(p)
  <2>1. CASE Record(p, Stopped, "deciding")
    BY <2>1, RestRecord, OnlyOneInProgress DEF Returns
  <2>2. CASE \E to \in {"unlocking", "deciding"} : Goto(p, to) /\ UNCHANGED <<mem, file, writers, ret>>
    BY <1>6, <1>a, <2>2, RestMove DEF ReconcileLocalVMState
  <2> QED BY <1>6, <2>1, <2>2 DEF ReconcileLocalVMState
<1>7. CASE MarkInProgress(p)
  BY <1>7, RestRecord DEF MarkInProgress, Returns
<1>8. CASE RecordSuccess(p) \/ RecordFailure(p) \/ RestoreAfterPort(p) \/ CleanupEnds(p)
  <2>1. CASE RecordSuccess(p)
    BY <2>1, OnlyOneInProgress, RestRecord DEF RecordSuccess, Returns
  <2>2. CASE RecordFailure(p)
    BY <2>2, OnlyOneInProgress, RestRecord DEF RecordFailure, Returns
  <2>3. CASE RestoreAfterPort(p)
    BY <2>3, OnlyOneInProgress, RestRecord DEF RestoreAfterPort, Returns
  <2>4. CASE CleanupEnds(p)
    BY <2>4, OnlyOneInProgress, RestRecord DEF CleanupEnds, Returns
  <2> QED BY <1>8, <2>1, <2>2, <2>3, <2>4
<1>9. CASE RestoreLocalState(p)
  <2>1. CASE \E state : Record(p, state, "unlocking") /\ ~InProgress(state)
    BY <2>1, RestRecord DEF Returns
  <2>2. CASE Goto(p, "cleaning") /\ UNCHANGED <<mem, file, writers, ret>>
    BY <1>9, <1>a, <2>2, RestMove DEF RestoreLocalState
  <2> QED BY <1>9, <2>1, <2>2, OnlyOneInProgress DEF RestoreLocalState
<1>10. CASE ActivateCustomSLCs(p)
  <2>0. pc[p] = "activating" /\ ~InProgress(file)
    BY <1>10, <1>c DEF ActivateCustomSLCs, Locked
  <2>1. CASE Record(p, file, "unlocking")
    BY <2>0, <2>1, RestRecord DEF Returns
  <2>2. CASE Goto(p, "unlocking") /\ UNCHANGED <<mem, file, writers, ret>>
    BY <1>a, <2>0, <2>2, RestMove
  <2> QED BY <1>10, <2>1, <2>2 DEF ActivateCustomSLCs
<1>11. CASE Written(p)
  <2>1. /\ pc[p] = "writing" /\ UNCHANGED <<ret, mem>> /\ writers' = writers \ {<<p, "main">>}
        /\ pc'[p] = ret[p] /\ ret[p] \in Returns
        /\ \A q \in Procs \ {p} : pc'[q] = pc[q] /\ pc[q] \notin Locked
    BY <1>0, <1>b, <1>11 DEF Written, EndWrite, Goto, TypeOK, RestOK, Locked
  <2>2. file' = mem[p] /\ mem[p] # Unreadable
    BY <1>11, StatesDiffer DEF Written, EndWrite, LockInv, NInv
  <2>3. ASSUME NEW q \in Procs PROVE RestOK(q)'
    BY <2>1 DEF RestInv, RestOK, InProgress, Locked, Returns
  <2>4. InProgress(file)' => pc'[p] \in Underway
    BY <1>0, <2>1, <2>2 DEF RestOK, InProgress
  <2>5. file' # Unreadable
    BY <2>2
  <2> QED BY <2>3, <2>4, <2>5 DEF RestInv, Unreadable, Plain
<1>12. CASE Return(p)
  <2>1. pc[p] = "returning" /\ pc'[p] = "idle" /\ UNCHANGED <<file, mem, ret>>
        /\ \A q \in Procs \ {p} : pc'[q] = pc[q] /\ (<<q, "main">> \in writers => <<q, "main">> \in writers')
    BY <1>0, <1>12 DEF Return, Gone, Goto, TypeOK
  <2>2. ASSUME NEW q \in Procs PROVE RestOK(q)'
    BY <2>1 DEF RestInv, RestOK, InProgress
  <2> QED BY <2>1, <2>2 DEF RestInv, InProgress, Unreadable, Plain
<1> QED BY <1>1, <1>2, <1>3, <1>4, <1>5, <1>6, <1>7, <1>8, <1>9, <1>10, <1>11, <1>12 DEF Main

\* Every step keeps the invariant.
LEMMA NextRest ==
    ASSUME Undisturbed, "io" \notin Faults
    PROVE  TInv /\ NInv /\ LockInv /\ RestInv /\ [Next]_vars => RestInv'
<1> SUFFICES ASSUME TInv, NInv, LockInv, RestInv, [Next]_vars PROVE RestInv'
  OBVIOUS
<1>1. ASSUME NEW p \in Procs, NEW c \in Commands, Begin(p, c) PROVE RestInv'
  <2>1. PICK to \in {"reading", "acquiring"} :
            Goto(p, to) /\ pc[p] = "idle" /\ UNCHANGED <<file, writers, ret, mem>>
    BY <1>1 DEF Begin
  <2>2. pc'[p] = to
    BY <2>1 DEF Goto, TInv, TypeOK
  <2> QED BY <2>1, <2>2, RestMove DEF Working, Underway
<1>2. ASSUME NEW p \in Procs, Handler(p) PROVE FALSE
  BY <1>2 DEF LockInv, Handler, CallStateHandler, StateHandlerReturns, CallLockHandler,
              InterruptChildren, WaitForChildren, Exit
<1>3. ASSUME NEW p \in Procs, Signal(p) \/ Crash(p) \/ OrphanEnds(p) PROVE FALSE
  BY <1>3 DEF Undisturbed, Signal, Crash, OrphanEnds, LockInv
<1>4. CASE ForceUnlock \/ Outage \/ UNCHANGED vars
  <2>1. UNCHANGED <<file, writers, pc, ret, mem>>
    BY <1>4 DEF ForceUnlock, Outage, vars, main, world
  <2> QED BY <2>1 DEF RestInv, RestOK, InProgress, Unreadable, Plain
<1> QED BY <1>1, <1>2, <1>3, <1>4, MainRest DEF Next

\* However many launchers compete and whatever their tools, ports and probes do, the next command
\* finds a state file it can read, and one that names no operation that nobody performs: while
\* no launcher is signalled or killed, no command writes without the lock, and files can be
\* written and read.
THEOREM NextCommandCanStart ==
    ASSUME Undisturbed, "io" \notin Faults PROVE Spec => []AtRestUsable
<1>1. Init => LockInv
  BY DEF Init, LockInv, Locked
<1>2. TInv /\ LockInv /\ [Next]_vars => LockInv'
  BY NextLockInv DEF TInv
<1>3. Init => RestInv
  <2>1. Initialized # Unreadable
    BY StatesDiffer, RecordedAreNameable
  <2> QED BY <2>1, OnlyOneInProgress DEF Init, RestInv, RestOK
<1>4. TInv /\ NInv /\ LockInv /\ RestInv /\ [Next]_vars => RestInv'
  BY NextRest
<1>5. RestInv => AtRestUsable
  BY DEF RestInv, RestOK, AtRestUsable, StateReadable, NotStuckInProgress, Quiet, InProgress, Working,
         Underway
<1> QED BY <1>1, <1>2, <1>3, <1>4, <1>5, InitTInv, NextTInv, NInvariance, PTL DEF Spec

-----------------------------------------------------------------------------
(* What is recorded while a tool works *)

\* The file names the operation of this command, or could not be written.
Announced(op) == file = OperationInProgress(op) \/ (file = Unreadable /\ "io" \in Faults)

\* The operation is announced wherever a command may work on the resources, and is about to
\* be while it writes the state that leads there.
AnnouncedOK(p) ==
    /\ pc[p] \in Underway => Announced(cmd[p])
    /\ pc[p] = "writing" => ret[p] \in Returns
    /\ pc[p] = "writing" /\ ret[p] = "registering" =>
          mem[p] = OperationInProgress(cmd[p]) /\ file = Unreadable

AnnouncedInv == \A p \in Procs : AnnouncedOK(p)

\* A step of one process: it changes the file only inside the lock, where the others are not.
LEMMA AnnouncedStep ==
    ASSUME LockInv, AnnouncedInv, NEW p \in Procs, AnnouncedOK(p)',
           file' = file \/ pc[p] \in Locked,
           \A q \in Procs \ {p} : /\ pc'[q] = pc[q] /\ ret'[q] = ret[q]
                                 /\ mem'[q] = mem[q] /\ cmd'[q] = cmd[q]
    PROVE  AnnouncedInv'
<1>1. ASSUME NEW q \in Procs, q # p PROVE AnnouncedOK(q)'
  <2>1. AnnouncedOK(q)
    BY DEF AnnouncedInv
  <2>2. CASE file' = file
    BY <1>1, <2>1, <2>2 DEF AnnouncedOK, Announced, OperationInProgress, Unreadable, Plain
  <2>3. CASE pc[p] \in Locked
    <3>1. pc[q] \notin Locked
      BY <1>1, <2>3 DEF LockInv
    <3> QED BY <1>1, <3>1 DEF AnnouncedOK, Underway, Working, Locked
  <2> QED BY <2>2, <2>3
<1> QED BY <1>1 DEF AnnouncedInv

\* A command goes on and leaves the file alone.
LEMMA AnnouncedMove ==
    ASSUME TInv, LockInv, AnnouncedInv, NEW p \in Procs, Goto(p, pc'[p]),
           UNCHANGED <<file, ret, cmd>>, \A q \in Procs \ {p} : mem'[q] = mem[q],
           pc'[p] # "writing", pc'[p] \in Underway => pc[p] \in Underway
    PROVE  AnnouncedInv'
<1>1. \A q \in Procs \ {p} : pc'[q] = pc[q]
  BY DEF Goto, TInv, TypeOK
<1>2. AnnouncedOK(p)'
  BY DEF AnnouncedInv, AnnouncedOK, Announced, OperationInProgress, Unreadable, Plain
<1> QED BY <1>1, <1>2, AnnouncedStep

\* A command records a state; before its operation, that it is in progress.
LEMMA AnnouncedRecord ==
    ASSUME TInv, LockInv, AnnouncedInv, NEW p \in Procs, NEW state, NEW to \in Returns,
           Record(p, state, to), pc[p] \in Locked, UNCHANGED cmd,
           to = "registering" => state = OperationInProgress(cmd[p])
    PROVE  AnnouncedInv'
<1>1. /\ file' = Unreadable /\ mem'[p] = state /\ pc'[p] = "writing" /\ ret'[p] = to
      /\ \A q \in Procs \ {p} : pc'[q] = pc[q] /\ mem'[q] = mem[q] /\ ret'[q] = ret[q]
  BY DEF Record, BeginWrite, Goto, TInv, TypeOK
<1>2. AnnouncedOK(p)'
  BY <1>1 DEF AnnouncedOK, Underway, Working, OperationInProgress, Unreadable, Plain
<1> QED BY <1>1, <1>2, AnnouncedStep

\* Each step of the main goroutine.
LEMMA MainAnnounced ==
    ASSUME Undisturbed, TInv, LockInv, AnnouncedInv, NEW p \in Procs, Main(p)
    PROVE  AnnouncedInv'
<1>0. TypeOK /\ AnnouncedOK(p) /\ sig[p] = "listening" /\ cmd[p] # "backfill"
  BY DEF TInv, AnnouncedInv, LockInv
<1>a. \A to : Goto(p, to) => pc'[p] = to
  BY <1>0 DEF Goto, TypeOK
<1> USE DEF Working, Underway
<1>1. CASE Acquire(p) \/ AcquireTimeout(p) \/ Decide(p) \/ Unlock(p)
           \/ ManifestUnreadable(p) \/ SidecarStateRemains(p)
  <2>1. PICK to \in {"reading", "returning", "marking", "unlocking", "recording"} :
            /\ Goto(p, to) /\ UNCHANGED <<file, ret, cmd, mem>>
            /\ to = "recording" => pc[p] = "starting"
    BY <1>1 DEF Acquire, AcquireTimeout, Decide, Unlock, ManifestUnreadable, SidecarStateRemains, world
  <2> QED BY <1>a, <2>1, AnnouncedMove
<1>2. CASE RegisterHandler(p) \/ StartTool(p) \/ BackendFails(p) \/ PortUnavailable(p)
           \/ UnregisterHandler(p) \/ ToolEnds(p)
  <2>1. PICK to \in {"starting", "tool", "unregistering", "recording", "backend"} :
            Goto(p, to) /\ UNCHANGED <<file, ret, cmd, mem>>
            /\ pc[p] \in {"registering", "starting", "backend", "unregistering", "tool"}
    BY <1>0, <1>2 DEF RegisterHandler, StartTool, BackendFails, PortUnavailable, UnregisterHandler,
       ToolEnds, Resume, ChildrenInterrupted, world
  <2> QED BY <1>a, <2>1, AnnouncedMove
<1>3. CASE Read(p)
  <2>1. /\ UNCHANGED <<file, ret, cmd>> /\ Goto(p, pc'[p])
        /\ \A q \in Procs \ {p} : mem'[q] = mem[q]
        /\ pc'[p] \in {"returning", "unlocking", "checking", "marking", "probing", "deciding"}
    BY <1>0, <1>a, <1>3 DEF Read, Leave, world, TypeOK
  <2> QED BY <2>1, AnnouncedMove
<1>4. CASE WriteBack(p)
  <2>0. Leave(p) = "unlocking" /\ pc[p] \in Locked
    BY <1>0, <1>4 DEF Leave, WriteBack, Locked
  <2>1. CASE Record(p, mem[p], Leave(p))
    BY <1>4, <2>0, <2>1, AnnouncedRecord DEF WriteBack, Returns
  <2>2. CASE Goto(p, Leave(p)) /\ UNCHANGED <<mem, file, writers, ret>>
    BY <1>a, <1>4, <2>0, <2>2, AnnouncedMove DEF WriteBack
  <2> QED BY <1>4, <2>1, <2>2 DEF WriteBack
<1>5. CASE ReconcileLocalVMState(p)
  <2>1. CASE Record(p, Stopped, "deciding")
    BY <1>5, <2>1, AnnouncedRecord DEF ReconcileLocalVMState, Returns, Locked
  <2>2. CASE \E to \in {"unlocking", "deciding"} : Goto(p, to) /\ UNCHANGED <<mem, file, writers, ret>>
    BY <1>5, <1>a, <2>2, AnnouncedMove DEF ReconcileLocalVMState
  <2> QED BY <1>5, <2>1, <2>2 DEF ReconcileLocalVMState
<1>6. CASE MarkInProgress(p)
  BY <1>6, AnnouncedRecord DEF MarkInProgress, Returns, Locked
<1>7. CASE RecordSuccess(p) \/ RecordFailure(p) \/ RestoreAfterPort(p) \/ CleanupEnds(p)
  <2>1. \E state : Record(p, state, "unlocking") \/ Record(p, state, "activating")
    <3>1. CASE RecordSuccess(p)
      BY <3>1 DEF RecordSuccess
    <3>2. CASE RecordFailure(p)
      BY <3>2 DEF RecordFailure
    <3>3. CASE RestoreAfterPort(p)
      BY <3>3 DEF RestoreAfterPort
    <3>4. CASE CleanupEnds(p)
      BY <3>4 DEF CleanupEnds
    <3> QED BY <1>7, <3>1, <3>2, <3>3, <3>4
  <2>2. pc[p] \in Locked /\ UNCHANGED cmd
    BY <1>7 DEF RecordSuccess, RecordFailure, RestoreAfterPort, CleanupEnds, Locked
  <2> QED BY <2>1, <2>2, AnnouncedRecord DEF Returns
<1>8. CASE RestoreLocalState(p)
  <2>1. CASE \E state : Record(p, state, "unlocking")
    BY <1>8, <2>1, AnnouncedRecord DEF RestoreLocalState, Returns, Locked
  <2>2. CASE Goto(p, "cleaning") /\ UNCHANGED <<mem, file, writers, ret>>
    BY <1>8, <1>a, <2>2, AnnouncedMove DEF RestoreLocalState
  <2> QED BY <1>8, <2>1, <2>2 DEF RestoreLocalState
<1>9. CASE ActivateCustomSLCs(p)
  <2>1. CASE Record(p, file, "unlocking")
    BY <1>9, <2>1, AnnouncedRecord DEF ActivateCustomSLCs, Returns, Locked
  <2>2. CASE Goto(p, "unlocking") /\ UNCHANGED <<mem, file, writers, ret>>
    BY <1>9, <1>a, <2>2, AnnouncedMove DEF ActivateCustomSLCs
  <2> QED BY <1>9, <2>1, <2>2 DEF ActivateCustomSLCs
<1>10. CASE Written(p) \/ WriteFails(p)
  <2>1. /\ pc[p] = "writing" /\ pc[p] \in Locked /\ UNCHANGED <<ret, cmd, mem>>
        /\ pc'[p] = ret[p] \/ pc'[p] = "unlocking"
        /\ ret[p] \in Returns /\ \A q \in Procs \ {p} : pc'[q] = pc[q]
    BY <1>0, <1>10 DEF Written, WriteFails, Goto, TypeOK, AnnouncedOK, Locked
  <2>2. file' = mem[p] \/ (file' = file /\ "io" \in Faults)
    BY <1>10 DEF Written, WriteFails, EndWrite, LockInv
  <2>3. pc'[p] \in Underway => pc'[p] = "registering" /\ ret[p] = "registering"
    BY <2>1 DEF Returns
  <2>4. pc'[p] # "writing"
    BY <2>1 DEF Returns
  <2>5. ret[p] = "registering" => mem[p] = OperationInProgress(cmd[p]) /\ file = Unreadable
    BY <1>0, <2>1 DEF AnnouncedOK
  <2>6. pc'[p] \in Underway => Announced(cmd[p])'
    BY <2>1, <2>2, <2>3, <2>5 DEF Announced, OperationInProgress, Unreadable, Plain
  <2>7. AnnouncedOK(p)'
    BY <2>4, <2>6 DEF AnnouncedOK
  <2> QED BY <2>1, <2>7, AnnouncedStep
<1>11. CASE Return(p)
  <2>1. /\ pc'[p] = "idle" /\ UNCHANGED <<file, mem, ret, cmd>> /\ Goto(p, pc'[p])
    BY <1>a, <1>11 DEF Return, Gone
  <2> QED BY <2>1, AnnouncedMove
<1> QED BY <1>1, <1>2, <1>3, <1>4, <1>5, <1>6, <1>7, <1>8, <1>9, <1>10, <1>11 DEF Main

\* Every step keeps the invariant.
LEMMA NextAnnounced ==
    ASSUME Undisturbed PROVE TInv /\ LockInv /\ AnnouncedInv /\ [Next]_vars => AnnouncedInv'
<1> SUFFICES ASSUME TInv, LockInv, AnnouncedInv, [Next]_vars PROVE AnnouncedInv'
  OBVIOUS
<1>1. ASSUME NEW p \in Procs, NEW c \in Commands, Begin(p, c) PROVE AnnouncedInv'
  <2>1. /\ UNCHANGED <<file, ret, mem>> /\ pc'[p] \in {"reading", "acquiring"}
        /\ \A q \in Procs \ {p} : pc'[q] = pc[q] /\ cmd'[q] = cmd[q]
    BY <1>1 DEF Begin, Goto, TInv, TypeOK
  <2>2. AnnouncedOK(p)'
    BY <2>1 DEF AnnouncedOK, Underway, Working
  <2> QED BY <2>1, <2>2, AnnouncedStep
<1>2. ASSUME NEW p \in Procs, Handler(p) PROVE FALSE
  BY <1>2 DEF LockInv, Handler, CallStateHandler, StateHandlerReturns, CallLockHandler,
              InterruptChildren, WaitForChildren, Exit
<1>3. ASSUME NEW p \in Procs, Signal(p) \/ Crash(p) \/ OrphanEnds(p) PROVE FALSE
  BY <1>3 DEF Undisturbed, Signal, Crash, OrphanEnds, LockInv
<1>4. CASE ForceUnlock \/ Outage \/ UNCHANGED vars
  <2>1. UNCHANGED <<file, pc, ret, mem, cmd>>
    BY <1>4 DEF ForceUnlock, Outage, vars, main, world
  <2> QED BY <2>1 DEF AnnouncedInv, AnnouncedOK, Announced, OperationInProgress, Unreadable, Plain
<1> QED BY <1>1, <1>2, <1>3, <1>4, MainAnnounced DEF Next

\* While a tool works on the resources the state file names its operation, or could not be
\* written, however many launchers compete and whatever fails: while no launcher is
\* signalled or killed and no command writes without the lock.
THEOREM WorkIsAnnounced == ASSUME Undisturbed PROVE Spec => []ToolIsAnnounced
<1>1. Init => LockInv /\ AnnouncedInv
  BY DEF Init, LockInv, Locked, AnnouncedInv, AnnouncedOK, Underway, Working
<1>2. TInv /\ LockInv /\ [Next]_vars => LockInv'
  BY NextLockInv DEF TInv
<1>3. TInv /\ LockInv /\ AnnouncedInv /\ [Next]_vars => AnnouncedInv'
  BY NextAnnounced
<1>4. LockInv /\ AnnouncedInv => ToolIsAnnounced
  BY DEF LockInv, AnnouncedInv, AnnouncedOK, Announced, Underway, Working, ToolIsAnnounced
<1> QED BY <1>1, <1>2, <1>3, <1>4, InitTInv, NextTInv, PTL DEF Spec

=============================================================================
