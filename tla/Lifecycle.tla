------------------------------ MODULE Lifecycle ------------------------------
(***************************************************************************)
(* The lifecycle commands of internal/deploy (deploy, start, stop,         *)
(* destroy), the launcher-state file they share, and what a signal does to *)
(* a command that is under way (internal/util, cmd/exasol/main.go).        *)
(*                                                                         *)
(* Each process is one run of the launcher with two goroutines: the main   *)
(* one, at pc[p], and the signal handler, at sig[p].  The deployment lock  *)
(* is an exclusive lock here: that is what DirectoryMutex provides, by     *)
(* theorem ExclusiveImplementsRWLock, to processes that ask for it in that *)
(* mode.  Acquiring it and registering its signal handler are one step, as *)
(* are unregistering and releasing: DirectoryMutex takes them apart.       *)
(*                                                                         *)
(* What the tools of a backend (OpenTofu, Podman, Docker) do to the        *)
(* resources of the deployment is external.                                *)
(***************************************************************************)
EXTENDS Naturals

CONSTANTS
    Procs,          \* slots for launcher processes
    Local,          \* the deployment's backend: local, or OpenTofu
    Commands,       \* the commands users run
    Faults,         \* what may go wrong around them
    MaxCommands     \* bound: commands run in one behaviour

Ops == {"deploy", "start", "stop", "destroy"}

AllCommands == Ops \cup {"versionCheck", "backfill"}

AllFaults == {"signal", "crash", "io", "port", "probe", "outage"}

ASSUME LifecycleAssumption ==
    /\ Local \in BOOLEAN
    /\ Commands \subseteq AllCommands
    /\ Faults \subseteq AllFaults
    /\ MaxCommands \in Nat

VARIABLES
    file,       \* the workflow state in .exasolLauncherState.json
    writers,    \* goroutines that have truncated the file and not written it yet
    lock,       \* the process that owns the deployment lock, if any
    stale,      \* the lock's owner is gone
    resources,  \* what exists outside: containers, cloud resources
    pc,         \* main goroutine
    ret,        \* where it goes on after writing the state file
    cmd,        \* its command
    mem,        \* its copy of the workflow state, shared with its signal handler
    outcome,    \* how the backend operation ended
    tool,       \* the backend tool it has started; outlives the process
    sig,        \* signal handler goroutine
    handlers,   \* registered once-handlers
    todo,       \* once-handlers handleSignal has taken and not called yet
    told,       \* the handler that records the interruption has been called
    caught,     \* a tool was running when the children were interrupted
    count       \* commands run so far

world == <<file, writers, lock, stale, resources, count>>
main == <<pc, ret, cmd, outcome>>
signals == <<sig, handlers, todo, told, caught>>
vars == <<world, main, mem, tool, signals>>

-----------------------------------------------------------------------------
(* Workflow states *)

Plain(name) == [name |-> name, op |-> "none"]
Initialized == Plain("initialized")
DeploymentFailed == Plain("deploymentFailed")
Running == Plain("running")
Stopped == Plain("stopped")
OperationInProgress(op) == [name |-> "operationInProgress", op |-> op]

\* Mutant: the interrupted operation is not named.
InterruptedUnnamed(op) == [name |-> "interrupted", op |-> ""]

Interrupted(op) == [name |-> "interrupted", op |-> op]

\* A truncated or partly written file, or one that names no workflow state.
Unreadable == Plain("unreadable")

WorkflowState ==
    [name : {"initialized", "deploymentFailed", "running", "stopped",
             "operationInProgress", "interrupted", "unreadable"},
     op : Ops \cup {"none"}]

\* Program points between taking the lock and releasing it.
Locked == {"reading", "probing", "deciding", "checking", "marking", "registering",
           "starting", "backend", "tool", "unregistering", "recording", "cleaning", "activating",
           "writing", "blocked", "unlocking"}

Steps == Locked \cup {"idle", "acquiring", "returning"}

TypeOK ==
    /\ file \in WorkflowState
    /\ writers \subseteq Procs \X {"main", "signal"}
    /\ lock \subseteq Procs
    /\ stale \in BOOLEAN
    /\ resources \in {"absent", "partial", "stopped", "running"}
    /\ pc \in [Procs -> Steps]
    /\ ret \in [Procs -> Steps]
    /\ cmd \in [Procs -> AllCommands]
    /\ mem \in [Procs -> WorkflowState]
    /\ outcome \in [Procs -> {"none", "ok", "failed", "port"}]
    /\ tool \in [Procs -> Ops \cup {"none"}]
    /\ sig \in [Procs -> {"listening", "handling", "writing", "stopping", "exiting"}]
    /\ handlers \in [Procs -> SUBSET {"state", "lock"}]
    /\ todo \in [Procs -> SUBSET {"state", "lock"}]
    /\ told \in [Procs -> BOOLEAN]
    /\ caught \in [Procs -> BOOLEAN]
    /\ count \in Nat

\* A directory that `init` has completed.
Init ==
    /\ file = Initialized
    /\ writers = {}
    /\ lock = {}
    /\ stale = FALSE
    /\ resources = "absent"
    /\ pc = [p \in Procs |-> "idle"]
    /\ ret = [p \in Procs |-> "idle"]
    /\ cmd = [p \in Procs |-> "deploy"]
    /\ mem = [p \in Procs |-> Initialized]
    /\ outcome = [p \in Procs |-> "none"]
    /\ tool = [p \in Procs |-> "none"]
    /\ sig = [p \in Procs |-> "listening"]
    /\ handlers = [p \in Procs |-> {}]
    /\ todo = [p \in Procs |-> {}]
    /\ told = [p \in Procs |-> FALSE]
    /\ caught = [p \in Procs |-> FALSE]
    /\ count = 0

-----------------------------------------------------------------------------
(* The rules that decide which command a state permits *)

\* WorkflowStatePermitsDeploy
PermitsDeploy(state) ==
    \/ state.name \in {"initialized", "deploymentFailed", "running"}
    \/ state.name \in {"operationInProgress", "interrupted"} /\ state.op = "deploy"

\* workflowStatePermitsStart.  A running deployment is only checked and reported.
PermitsStart(state) ==
    \/ state.name = "stopped"
    \/ state.name = "operationInProgress" /\ state.op = "start"
    \/ state.name = "interrupted" /\ state.op \in {"start", "stop"}

\* Mutant: an interrupted start has to be started again before it can be stopped.
PermitsStopNotStart(state) ==
    \/ state.name = "running"
    \/ state.name = "operationInProgress" /\ state.op = "stop"
    \/ state.name = "interrupted" /\ state.op \in {"stop", "destroy"}

\* workflowStatePermitsStop
PermitsStop(state) ==
    \/ state.name = "running"
    \/ state.name = "operationInProgress" /\ state.op = "stop"
    \/ state.name = "interrupted" /\ state.op \in {"start", "stop", "destroy"}

\* destroyLocked asks nothing of the state.
Permits(op, state) ==
    CASE op = "deploy" -> PermitsDeploy(state)
      [] op = "start" -> PermitsStart(state)
      [] op = "stop" -> PermitsStop(state)
      [] OTHER -> op = "destroy"

\* The commands that `status` tells the user to run, when the runtime of a deployment that
\* is recorded as running gives this answer.  A local one that has stopped is shown as
\* stopped; `stop` is for a database that does not answer.  `remove`, the last resort
\* after a stale destroy, is a command of module Directory.
Guidance(state, answer) ==
    CASE state.name = "initialized" -> {"deploy"}
      [] state.name = "deploymentFailed" -> {"deploy", "destroy"}
      [] state.name = "stopped" -> {"start", "destroy"}
      [] state.name = "interrupted" ->
            IF state.op \in {"deploy", "destroy"} THEN {state.op} ELSE {"start", "stop"}
      [] state.name = "operationInProgress" ->
            IF state.op = "deploy" THEN {"deploy", "destroy"} ELSE {state.op}
      [] state.name = "running" ->
            IF Local /\ answer = "stopped" THEN {"start", "destroy"}
            ELSE IF Local /\ answer = "unreachable" THEN {} ELSE {"stop"}
      [] OTHER -> {}

-----------------------------------------------------------------------------
(* The state file *)

Goto(p, to) == pc' = [pc EXCEPT ![p] = to]

\* SetWorkflowStateAndWrite up to the truncating open of writeConfig.
BeginWrite(p, goroutine, state) ==
    /\ mem' = [mem EXCEPT ![p] = state]
    /\ file' = Unreadable
    /\ writers' = writers \cup {<<p, goroutine>>}

\* ... and the rest of it: marshal the copy in memory, write it, close.  The
\* document starts at offset 0 and readers decode one document only, so that
\* the remains of a longer one do no harm.  While the other goroutine of the
\* process assigns the copy, the document may hold none of its states.
EndWrite(p, goroutine) ==
    LET clash == {<<p, "main">>, <<p, "signal">>} \subseteq writers IN
    /\ writers' = writers \ {<<p, goroutine>>}
    /\ file' \in {mem[p]} \cup (IF clash THEN {Unreadable} ELSE {})

\* The main goroutine records a state and goes on at `to`.
Record(p, state, to) ==
    /\ BeginWrite(p, "main", state)
    /\ Goto(p, "writing")
    /\ ret' = [ret EXCEPT ![p] = to]

\* A command whose state file has been written goes on.
Written(p) ==
    /\ pc[p] = "writing"
    /\ EndWrite(p, "main")
    /\ Goto(p, ret[p])
    /\ UNCHANGED <<lock, stale, resources, count, ret, cmd, outcome, mem, tool, signals>>

\* The disk is full: the file stays truncated.  Most commands log that and go on
\* all the same; reconciliation and the end of deploy return the error.
WriteFails(p) ==
    /\ "io" \in Faults
    /\ pc[p] = "writing"
    /\ writers' = writers \ {<<p, "main">>}
    /\ Goto(p, IF ret[p] = "deciding" \/ (ret[p] = "activating" /\ cmd[p] = "deploy")
               THEN "unlocking" ELSE ret[p])
    /\ UNCHANGED <<file, lock, stale, resources, count, ret, cmd, outcome, mem, tool, signals>>

-----------------------------------------------------------------------------
(* A command up to its backend operation *)

\* Mutant: the version check writes the file back without the lock too.
BeginVersionCheckUnlocked(p, c) ==
    /\ pc[p] = "idle" /\ tool[p] = "none"
    /\ count < MaxCommands
    /\ count' = count + 1
    /\ Goto(p, IF c \in {"backfill", "versionCheck"} THEN "reading" ELSE "acquiring")
    /\ cmd' = [cmd EXCEPT ![p] = c]
    /\ outcome' = [outcome EXCEPT ![p] = "none"]
    /\ told' = [told EXCEPT ![p] = FALSE]
    /\ caught' = [caught EXCEPT ![p] = FALSE]
    /\ UNCHANGED <<file, writers, lock, stale, resources, ret, mem, tool, sig, handlers, todo>>

\* A user runs a command.  The preset check of `init` on an initialized
\* directory takes no lock.
Begin(p, c) ==
    /\ pc[p] = "idle" /\ tool[p] = "none"
    /\ count < MaxCommands
    /\ count' = count + 1
    /\ Goto(p, IF c = "backfill" THEN "reading" ELSE "acquiring")
    /\ cmd' = [cmd EXCEPT ![p] = c]
    /\ outcome' = [outcome EXCEPT ![p] = "none"]
    /\ told' = [told EXCEPT ![p] = FALSE]
    /\ caught' = [caught EXCEPT ![p] = FALSE]
    /\ UNCHANGED <<file, writers, lock, stale, resources, ret, mem, tool, sig, handlers, todo>>

\* Mutant: a lock that somebody holds does not stop anyone.
LockFreeAlways == stale \in BOOLEAN

LockFree == lock = {} /\ ~stale

\* withDeploymentExclusiveLock
Acquire(p) ==
    /\ pc[p] = "acquiring"
    /\ LockFree
    /\ lock' = {p}
    /\ handlers' = [handlers EXCEPT ![p] = {"lock"}]
    /\ Goto(p, "reading")
    /\ UNCHANGED <<file, writers, stale, resources, count, ret, cmd, outcome, mem, tool,
                   sig, todo, told, caught>>

\* ErrDeploymentDirectoryLocked
AcquireTimeout(p) ==
    /\ pc[p] = "acquiring"
    /\ ~LockFree
    /\ Goto(p, "returning")
    /\ UNCHANGED <<world, ret, cmd, outcome, mem, tool, signals>>

\* A command that holds the lock ends by releasing it, the backfill just ends.
Leave(p) == IF cmd[p] = "backfill" THEN "returning" ELSE "unlocking"

\* ReadExasolPersonalState, and where each command goes from there.
Read(p) ==
    /\ pc[p] = "reading"
    /\ IF file = Unreadable
       THEN Goto(p, Leave(p)) /\ UNCHANGED mem
       ELSE /\ mem' = [mem EXCEPT ![p] = file]
            /\ Goto(p, IF cmd[p] \in {"versionCheck", "backfill"} THEN "checking"
                       ELSE IF cmd[p] = "destroy" THEN "marking"
                       ELSE IF cmd[p] # "deploy" /\ Local /\ file = Running THEN "probing"
                       ELSE "deciding")
    /\ UNCHANGED <<world, ret, cmd, outcome, tool, signals>>

\* The copy of the state is written back with a new field: the time of the
\* version check, the preset identity.  Neither is always due.
WriteBack(p) ==
    /\ pc[p] = "checking"
    /\ \/ Record(p, mem[p], Leave(p))
       \/ Goto(p, Leave(p)) /\ UNCHANGED <<mem, file, writers, ret>>
    /\ UNCHANGED <<lock, stale, resources, count, cmd, outcome, tool, signals>>

\* probeLocalRuntimeLivenessWithCause: the answers the runtime may give.
Probes ==
    {IF resources = "running" THEN "running" ELSE "stopped"}
        \cup (IF "probe" \in Faults THEN {"unknown", "unreachable"} ELSE {})

\* The state that start and stop go by, after the runtime gave this answer.
Reconciled(state, answer) ==
    IF Local /\ state = Running /\ answer = "stopped" THEN Stopped ELSE state

\* reconcileLocalVMState: a running deployment whose runtime is gone is stopped.
ReconcileLocalVMState(p) ==
    /\ pc[p] = "probing"
    /\ \E answer \in Probes :
        \/ answer = "stopped" /\ Record(p, Stopped, "deciding")
        \/ /\ answer # "stopped"
           /\ Goto(p, IF answer = "unreachable" THEN "unlocking" ELSE "deciding")
           /\ UNCHANGED <<mem, file, writers, ret>>
    /\ UNCHANGED <<lock, stale, resources, count, cmd, outcome, tool, signals>>

\* The permission check and, for deploy and start, everything that can still be
\* refused without a trace: the manifest, the options, backend.Prepare.
Decide(p) ==
    /\ pc[p] = "deciding"
    /\ \/ Permits(cmd[p], mem[p]) /\ Goto(p, "marking")
       \/ (Permits(cmd[p], mem[p]) => cmd[p] # "stop") /\ Goto(p, "unlocking")
    /\ UNCHANGED <<world, ret, cmd, outcome, mem, tool, signals>>

\* The operation is recorded as in progress.
MarkInProgress(p) ==
    /\ pc[p] = "marking"
    /\ Record(p, OperationInProgress(cmd[p]), "registering")
    /\ UNCHANGED <<lock, stale, resources, count, cmd, outcome, tool, signals>>

\* run<Op>Backend: register the handler that records an interruption.
RegisterHandler(p) ==
    /\ pc[p] = "registering"
    /\ handlers' = [handlers EXCEPT ![p] = @ \cup {"state"}]
    /\ Goto(p, "starting")
    /\ UNCHANGED <<world, ret, cmd, outcome, mem, tool, sig, todo, told, caught>>

\* A manifest cannot be read after that.  Deploy and stop return, destroy
\* records an interruption; start has read its manifest before.
ManifestUnreadable(p) ==
    /\ "io" \in Faults
    /\ pc[p] = "starting"
    /\ \/ cmd[p] \in {"deploy", "stop"} /\ Goto(p, "unlocking") /\ UNCHANGED outcome
       \/ /\ cmd[p] = "destroy"
          /\ Goto(p, "recording")
          /\ outcome' = [outcome EXCEPT ![p] = "failed"]
    /\ UNCHANGED <<world, ret, cmd, mem, tool, signals>>
-----------------------------------------------------------------------------
(* The backend operation and its end *)

\* What a tool leaves behind when it ends well, and what it may leave behind
\* when it fails, is stopped, or is one of several the operation runs.  A local
\* deploy or start whose password check fails stops the runtime again.
Achieved(op) ==
    IF op \in {"deploy", "start"} THEN {"running"}
    ELSE IF op = "destroy" THEN {"absent"}
    ELSE IF resources = "running" THEN {"stopped"} ELSE {resources, "stopped"}

Attempted(op) ==
    {resources} \cup (IF Local /\ op \in {"deploy", "start"} THEN {"stopped"} ELSE {})
                \cup (IF op = "deploy" THEN {"partial", "running"}
                      ELSE IF op = "destroy" THEN {"partial", "absent"}
                      ELSE IF op = "start" THEN {"running"} ELSE {"stopped"})

\* An OpenTofu or container-engine command is started.  After the children
\* were interrupted an OpenTofu command still starts, and is interrupted at once.
StartTool(p) ==
    /\ pc[p] \in {"starting", "backend"}
    /\ tool' = [tool EXCEPT ![p] = cmd[p]]
    /\ Goto(p, "tool")
    /\ UNCHANGED <<world, ret, cmd, outcome, mem, signals>>

\* The children of this process have been interrupted.
ChildrenInterrupted(p) == sig[p] \in {"stopping", "exiting"}

\* Mutant: RunInterruptible returns to its caller after the interrupt too.
NeverBlocks(p, to) == to

\* RunInterruptible never returns once the children have been interrupted; the
\* container engines are not run by it.
Resume(p, to) == IF ~Local /\ ChildrenInterrupted(p) THEN "blocked" ELSE to

\* The tool of a live process ends: the operation has succeeded, or it runs
\* another tool, or it has failed.
ToolEnds(p) ==
    /\ pc[p] = "tool"
    /\ tool' = [tool EXCEPT ![p] = "none"]
    /\ \/ /\ resources' \in Achieved(cmd[p])
          /\ outcome' = [outcome EXCEPT ![p] = "ok"]
          /\ Goto(p, Resume(p, "unregistering"))
       \/ /\ resources' \in Attempted(cmd[p])
          /\ outcome' = outcome
          /\ Goto(p, Resume(p, "backend"))
    /\ UNCHANGED <<file, writers, lock, stale, count, ret, cmd, mem, signals>>

\* The operation fails between tools: the last one failed, an installation task
\* did, or the database did not become ready.
BackendFails(p) ==
    /\ pc[p] \in {"starting", "backend"}
    /\ outcome' = [outcome EXCEPT ![p] = "failed"]
    /\ Goto(p, "unregistering")
    /\ UNCHANGED <<world, ret, cmd, mem, tool, signals>>

\* A local runtime that is not running finds one of its ports taken, and leaves
\* everything as it was.
PortUnavailable(p) ==
    /\ Local /\ "port" \in Faults
    /\ pc[p] = "starting" /\ cmd[p] \in {"deploy", "start"} /\ resources # "running"
    /\ outcome' = [outcome EXCEPT ![p] = "port"]
    /\ Goto(p, "unregistering")
    /\ UNCHANGED <<world, ret, cmd, mem, tool, signals>>

\* unregister(): nobody looks at its result, which says whether the handler ran.
UnregisterHandler(p) ==
    /\ pc[p] = "unregistering"
    /\ handlers' = [handlers EXCEPT ![p] = @ \ {"state"}]
    /\ Goto(p, "recording")
    /\ UNCHANGED <<world, ret, cmd, outcome, mem, tool, sig, todo, told, caught>>

Final(op) ==
    IF op \in {"deploy", "start"} THEN Running
    ELSE IF op = "stop" THEN Stopped ELSE Initialized

\* The operation has succeeded.
RecordSuccess(p) ==
    /\ pc[p] = "recording" /\ outcome[p] = "ok"
    /\ Record(p, Final(cmd[p]),
              IF Local /\ cmd[p] \in {"deploy", "start"} THEN "activating" ELSE "unlocking")
    /\ UNCHANGED <<lock, stale, resources, count, cmd, outcome, tool, signals>>

\* removeSidecarState fails after a successful destroy: nothing is recorded.
SidecarStateRemains(p) ==
    /\ "io" \in Faults
    /\ pc[p] = "recording" /\ outcome[p] = "ok" /\ cmd[p] = "destroy"
    /\ Goto(p, "unlocking")
    /\ UNCHANGED <<world, ret, cmd, outcome, mem, tool, signals>>

\* Mutant: a failed operation is taken to have left the deployment stopped.
FailureStateStopped(op) == IF op = "deploy" THEN DeploymentFailed ELSE Stopped

\* recordDeployFailure and markOperationInterrupted
FailureState(op) == IF op = "deploy" THEN DeploymentFailed ELSE Interrupted(op)

\* Mutant: the failure is returned and not recorded.
RecordFailureNot(p) ==
    /\ pc[p] = "recording" /\ outcome[p] = "failed"
    /\ ~Local \/ cmd[p] \in {"deploy", "destroy"}
    /\ Goto(p, "unlocking")
    /\ UNCHANGED <<world, ret, cmd, outcome, mem, tool, signals>>

\* The operation has failed, and neither a taken port nor the recovery of a
\* local start or stop applies.
RecordFailure(p) ==
    /\ pc[p] = "recording" /\ outcome[p] = "failed"
    /\ ~Local \/ cmd[p] \in {"deploy", "destroy"}
    /\ Record(p, FailureState(cmd[p]), "unlocking")
    /\ UNCHANGED <<lock, stale, resources, count, cmd, outcome, tool, signals>>

\* restoreStateAfterUnavailableLocalPort
RestoreAfterPort(p) ==
    /\ pc[p] = "recording" /\ outcome[p] = "port"
    /\ Record(p, IF cmd[p] = "deploy" THEN Initialized ELSE Stopped, "unlocking")
    /\ UNCHANGED <<lock, stale, resources, count, cmd, outcome, tool, signals>>

\* Mutant: a runtime that still runs is not stopped.
RestoreLocalStateOnly(p) ==
    /\ pc[p] = "recording" /\ outcome[p] = "failed"
    /\ Local /\ cmd[p] \in {"start", "stop"}
    /\ Record(p, Stopped, "unlocking")
    /\ UNCHANGED <<lock, stale, resources, count, cmd, outcome, tool, signals>>

\* restoreLocalStateAfterFailure, up to the stop of a runtime that still runs.
RestoreLocalState(p) ==
    /\ pc[p] = "recording" /\ outcome[p] = "failed"
    /\ Local /\ cmd[p] \in {"start", "stop"}
    /\ \E answer \in Probes :
        \/ /\ answer = "unreachable"
           /\ Record(p, Interrupted(cmd[p]), "unlocking")
           /\ UNCHANGED tool
        \/ /\ answer = "running"
           /\ tool' = [tool EXCEPT ![p] = "stop"]
           /\ Goto(p, "cleaning")
           /\ UNCHANGED <<mem, file, writers, ret>>
        \/ /\ answer \in {"stopped", "unknown"}
           /\ Record(p, Stopped, "unlocking")
           /\ UNCHANGED tool
    /\ UNCHANGED <<lock, stale, resources, count, cmd, outcome, signals>>

\* stopLocalRuntimeAfterFailure has succeeded, or failed.
CleanupEnds(p) ==
    /\ pc[p] = "cleaning"
    /\ tool' = [tool EXCEPT ![p] = "none"]
    /\ \/ resources' \in Achieved("stop") /\ Record(p, Stopped, "unlocking")
       \/ resources' \in Attempted("stop") /\ Record(p, Interrupted(cmd[p]), "unlocking")
    /\ UNCHANGED <<lock, stale, count, cmd, outcome, signals>>

\* reconcileCustomSLCsAfterStart: read the state again, activate what is
\* pending in the database, write the state back if anything was.
ActivateCustomSLCs(p) ==
    /\ pc[p] = "activating"
    /\ \/ file # Unreadable /\ Record(p, file, "unlocking")
       \/ Goto(p, "unlocking") /\ UNCHANGED <<mem, file, writers, ret>>
    /\ UNCHANGED <<lock, stale, resources, count, cmd, outcome, tool, signals>>

\* The deferred unregister of the operation, then releaseOnce: the lock is
\* released unless its signal handler has been taken.
Unlock(p) ==
    /\ pc[p] = "unlocking"
    /\ lock' = IF "lock" \in handlers[p] THEN lock \ {p} ELSE lock
    /\ handlers' = [handlers EXCEPT ![p] = {}]
    /\ Goto(p, "returning")
    /\ UNCHANGED <<file, writers, stale, resources, count, ret, cmd, outcome, mem, tool,
                   sig, todo, told, caught>>

\* The process ends, whatever its goroutines are doing.  A lock it still owns
\* stays behind, and so does a tool that is running.
Gone(p) ==
    /\ Goto(p, "idle")
    /\ writers' = writers \ {<<p, "main">>, <<p, "signal">>}
    /\ stale' = (stale \/ p \in lock)
    /\ lock' = lock \ {p}
    /\ sig' = [sig EXCEPT ![p] = "listening"]
    /\ handlers' = [handlers EXCEPT ![p] = {}]
    /\ todo' = [todo EXCEPT ![p] = {}]
    /\ UNCHANGED <<file, resources, count, ret, cmd, outcome, mem, tool, told, caught>>

\* main returns.
Return(p) == pc[p] = "returning" /\ Gone(p)

-----------------------------------------------------------------------------
(* Signals *)

\* SIGINT or SIGTERM: handleSignal takes all once-handlers.
Signal(p) ==
    /\ "signal" \in Faults
    /\ pc[p] # "idle" /\ sig[p] = "listening"
    /\ sig' = [sig EXCEPT ![p] = "handling"]
    /\ todo' = [todo EXCEPT ![p] = handlers[p]]
    /\ handlers' = [handlers EXCEPT ![p] = {}]
    /\ UNCHANGED <<world, main, mem, tool, told, caught>>

\* They are called in the order of a Go map, which is any order: the one that
\* records the interruption ...
CallStateHandler(p) ==
    /\ sig[p] = "handling" /\ "state" \in todo[p]
    /\ BeginWrite(p, "signal", Interrupted(cmd[p]))
    /\ sig' = [sig EXCEPT ![p] = "writing"]
    /\ todo' = [todo EXCEPT ![p] = @ \ {"state"}]
    /\ told' = [told EXCEPT ![p] = TRUE]
    /\ UNCHANGED <<lock, stale, resources, count, main, tool, handlers, caught>>

StateHandlerReturns(p) ==
    /\ sig[p] = "writing"
    /\ EndWrite(p, "signal")
    /\ sig' = [sig EXCEPT ![p] = "handling"]
    /\ UNCHANGED <<lock, stale, resources, count, main, mem, tool, handlers, todo, told, caught>>

\* ... and the one that releases the lock.
CallLockHandler(p) ==
    /\ sig[p] = "handling" /\ "lock" \in todo[p]
    /\ lock' = lock \ {p}
    /\ todo' = [todo EXCEPT ![p] = @ \ {"lock"}]
    /\ UNCHANGED <<file, writers, stale, resources, count, main, mem, tool, sig, handlers,
                   told, caught>>

\* The final handler: InterruptChildProcesses ...
InterruptChildren(p) ==
    /\ sig[p] = "handling" /\ todo[p] = {}
    /\ sig' = [sig EXCEPT ![p] = "stopping"]
    /\ caught' = [caught EXCEPT ![p] = tool[p] # "none"]
    /\ UNCHANGED <<world, main, mem, tool, handlers, todo, told>>

\* Mutant: the launcher does not wait for OpenTofu.
NoChildrenToWaitFor(p) == tool[p] \in Ops \cup {"none"}

\* Mutant: it waits for the caller of OpenTofu too, which does not resume.
CallersReturned(p) == tool[p] = "none" /\ pc[p] # "blocked"

\* Only the OpenTofu commands are tracked.
ChildrenStopped(p) == Local \/ tool[p] = "none"

\* ... WaitForChildProcesses ...
WaitForChildren(p) ==
    /\ sig[p] = "stopping"
    /\ ChildrenStopped(p)
    /\ sig' = [sig EXCEPT ![p] = "exiting"]
    /\ UNCHANGED <<world, main, mem, tool, handlers, todo, told, caught>>

\* ... os.Exit.
Exit(p) == sig[p] = "exiting" /\ Gone(p)

-----------------------------------------------------------------------------
(* The environment *)

\* The process is killed, or the machine loses power.
Crash(p) == "crash" \in Faults /\ pc[p] # "idle" /\ Gone(p)

\* A tool that has lost its launcher runs to its own end.
OrphanEnds(p) ==
    /\ pc[p] = "idle" /\ tool[p] # "none"
    /\ tool' = [tool EXCEPT ![p] = "none"]
    /\ resources' \in Achieved(cmd[p]) \cup Attempted(cmd[p])
    /\ UNCHANGED <<file, writers, lock, stale, count, main, mem, signals>>

\* `exasol diag unlock`, used as documented: no other launcher runs.
ForceUnlock ==
    /\ stale
    /\ \A p \in Procs : pc[p] = "idle"
    /\ stale' = FALSE
    /\ UNCHANGED <<file, writers, lock, resources, count, main, mem, tool, signals>>

\* A local runtime stops behind the launcher's back: a reboot, say.
Outage ==
    /\ "outage" \in Faults /\ Local
    /\ resources = "running"
    /\ resources' = "stopped"
    /\ UNCHANGED <<file, writers, lock, stale, count, main, mem, tool, signals>>

Main(p) ==
    \/ Acquire(p) \/ AcquireTimeout(p) \/ Read(p) \/ WriteBack(p)
    \/ ReconcileLocalVMState(p) \/ Decide(p) \/ MarkInProgress(p) \/ RegisterHandler(p)
    \/ ManifestUnreadable(p) \/ StartTool(p) \/ ToolEnds(p) \/ BackendFails(p)
    \/ PortUnavailable(p) \/ UnregisterHandler(p) \/ RecordSuccess(p)
    \/ SidecarStateRemains(p) \/ RecordFailure(p) \/ RestoreAfterPort(p)
    \/ RestoreLocalState(p) \/ CleanupEnds(p) \/ ActivateCustomSLCs(p)
    \/ Written(p) \/ WriteFails(p) \/ Unlock(p) \/ Return(p)

Handler(p) ==
    \/ CallStateHandler(p) \/ StateHandlerReturns(p) \/ CallLockHandler(p)
    \/ InterruptChildren(p) \/ WaitForChildren(p) \/ Exit(p)

Next ==
    \/ \E p \in Procs :
        \/ \E c \in Commands : Begin(p, c)
        \/ Main(p) \/ Handler(p)
        \/ Signal(p) \/ Crash(p) \/ OrphanEnds(p)
    \/ ForceUnlock
    \/ Outage

Spec == Init /\ [][Next]_vars

\* Goroutines are scheduled, a tool ends, in particular one that was asked to.
FairSpec ==
    /\ Spec
    /\ \A p \in Procs : WF_vars(Handler(p)) /\ WF_vars(ToolEnds(p))

-----------------------------------------------------------------------------
(* Properties *)

\* No launcher runs and no tool of one does.
Quiet == \A p \in Procs : pc[p] = "idle" /\ tool[p] = "none"

\* At most one backend tool works on the resources of a deployment: two lifecycle
\* commands are kept apart by the lock they hold while their tools run.
OneTool == \A p, q \in Procs : tool[p] # "none" /\ tool[q] # "none" => p = q

\* While a backend tool of a live launcher works on the resources, the state file names the
\* operation it works for, so that a later command knows what was cut short: the operation
\* is recorded before its first tool starts, nothing replaces that until the last one has
\* ended, and no other command writes what it read before over it.  A disk that is full may
\* leave a truncated file: the failure to record is logged, and the tool started.  Signals
\* are left out: the handler records the interruption and releases the lock while the tool
\* still runs; and so is the backfill, which writes without the lock.
ToolIsAnnounced ==
    \A p \in Procs : tool[p] # "none" =>
        \/ file = OperationInProgress(cmd[p])
        \/ file = Unreadable /\ "io" \in Faults

\* The state file can be read whenever no command is in the middle of writing it.
StateReadable == writers = {} => file # Unreadable

\* Once all commands have returned, no operation is recorded as in progress: each
\* way out of a lifecycle command leaves the state it was in for another one.
NotStuckInProgress == Quiet => file.name # "operationInProgress"

\* Between commands the next one finds a state file it can read, and one that does not
\* name an operation nobody performs, whichever tool, task or check of the operation before
\* it failed.  This is a promise about operations that fail by themselves: a launcher that
\* is signalled or killed, a disk that is full, a manifest that cannot be read once the
\* operation is recorded, and a backfill without the lock all break it.
AtRestUsable == StateReadable /\ NotStuckInProgress

\* Between commands the recorded state is true of the resources: nothing exists
\* while the state is initialized, the deployment runs when it is running, and
\* does not when it is stopped.
StateMatchesResources ==
    Quiet =>
        /\ file = Initialized => resources = "absent"
        /\ file = Running => resources = "running"
        /\ file = Stopped => resources # "running"

\* The same for the initialized state alone, from which `deploy` creates a
\* deployment and `remove` deletes the directory.
InitializedMeansAbsent == Quiet /\ file = Initialized => resources = "absent"

\* The same for the stopped state alone, which permits `config set`.
StoppedMeansNotRunning == Quiet /\ file = Stopped => resources # "running"

\* What is recorded of a local deployment is true of its runtime after failed and
\* repeated operations, also when the runtime stopped by itself.
LocalStateTrue == StoppedMeansNotRunning /\ InitializedMeansAbsent

\* Every lifecycle command that `status` recommends, for the recorded state and the answer
\* it got from the runtime, is one that the state permits once the command has reconciled
\* it with the same answer: what `status` shows, what a command makes of the state and
\* what it permits are decided in three places of the code.
GuidanceRunnable ==
    \A answer \in Probes : \A op \in Guidance(file, answer) :
        Permits(op, Reconciled(file, answer))

\* A command that has been told of a signal while OpenTofu ran never replaces the
\* interruption it recorded: its main goroutine does not resume.
CaughtStaysInterrupted ==
    \A p \in Procs : told[p] /\ caught[p] => mem[p] = Interrupted(cmd[p])

\* A tool that was running when the children were interrupted has ended before
\* the launcher exits.
CaughtToolStops ==
    \A p \in Procs : pc[p] = "idle" /\ caught[p] => tool[p] = "none"

\* A signal ends the launcher, however the goroutines interleave: nobody waits for
\* a tool that no one stops.
SignalEndsProcess == \A p \in Procs : sig[p] # "listening" ~> pc[p] = "idle"

=============================================================================
