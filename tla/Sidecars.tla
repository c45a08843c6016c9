------------------------------ MODULE Sidecars ------------------------------
(***************************************************************************)
(* Sidecar services of a local deployment: `exasol sidecar enable`,        *)
(* `disable`, `disable --remove` and `status`, and the reconciliation that *)
(* deploy, start, stop and destroy run (internal/deploy/sidecars.go,       *)
(* sidecar_health.go, internal/localinstall/sidecars.go and                *)
(* sidecar_network.go).                                                    *)
(*                                                                         *)
(* Every command holds the exclusive deployment lock, so one command runs  *)
(* at a time: cmd is that command.  Between two of its steps the container *)
(* engine, the host and the containers move on their own, any call can     *)
(* fail, and the launcher can be killed.  A sidecar's definition is        *)
(* reduced to a version (two versions differ in their fingerprint); every  *)
(* sidecar publishes one port.                                             *)
(***************************************************************************)
EXTENDS Naturals, FiniteSetsExt

CONSTANTS
    Names,          \* the sidecar names: a set of positive numbers, in name order
    Catalog,        \* those the embedded catalog offers for this architecture
    Runtimes,       \* the local runtimes considered: "host", "vm"
    Window,         \* the polls that fit in a readiness probe's window
    Delay,          \* those before its initial delay has passed
    MaxTrouble      \* bound on failed calls, hand edits, crashes and deaths

ASSUME SidecarsAssumption ==
    /\ Names \subseteq Nat \ {0} /\ Catalog \subseteq Names
    /\ Runtimes \subseteq {"host", "vm"}
    /\ Window \in Nat \ {0} /\ Delay \in 0..Window /\ MaxTrouble \in Nat

VARIABLES
    runtime,    \* which local runtime the deployment has
    workflow,   \* the workflow state in the launcher's state file
    saved,      \* sidecars.yaml: "none", "disabled" or "enabled" per name
    docFile,    \* whether that file is there and parses
    version,    \* the version of the definition that is saved per name
    failures,   \* the names sidecars-state.json holds a diagnostic for
    stateFile,  \* whether that file is there
    host,       \* the container host (the engine, the VM) runs
    db,         \* the database container runs
    attach,     \* how the database container is attached to a network
    ctr,        \* the container per name
    fwd,        \* the VM's forward per name: the guest port, 0 when there is none
    cmd,        \* the command that holds the lock
    trouble

document == <<saved, docFile, version>>
records == <<failures, stateFile>>
machine == <<host, db, attach>>
vars == <<runtime, workflow, document, records, machine, ctr, fwd, cmd, trouble>>

NoCtr == [is |-> "none", version |-> 0, port |-> 0]
GuestPorts == IF runtime = "vm" THEN 1..2 ELSE {1}

NoCmd == [pc |-> "idle", op |-> "none", name |-> 0, desired |-> {}, todo |-> {},
          fails |-> {}, applied |-> FALSE, err |-> "none", rec |-> "unknown",
          waited |-> 0, age |-> 0]

\* The operations that change what is wanted, and the ones that reconcile.
Mutations == {"enable", "disable", "remove"}
Cleanups == {"stop", "clean", "failstop", "destroy"}
Reconciles == {"deploy", "start", "sync"} \cup Cleanups

TypeOK ==
    /\ runtime \in Runtimes
    /\ workflow \in {"initialized", "deploying", "failed", "running", "stopped", "starting",
                     "stopping", "destroying", "int_start", "int_stop", "int_destroy"}
    /\ saved \in [Names -> {"none", "disabled", "enabled"}]
    /\ docFile \in {"missing", "good", "bad"}
    /\ version \in [Names -> 1..2]
    /\ failures \subseteq Names
    /\ stateFile \in BOOLEAN /\ host \in BOOLEAN /\ db \in BOOLEAN
    /\ attach \in {"absent", "legacy", "lacking", "bridged", "joined"}
    /\ ctr \in [Names -> [is : {"none", "up", "down"}, version : 0..2, port : 0..2]]
    /\ fwd \in [Names -> 0..2]
    /\ cmd.pc \in {"idle", "apply", "ensure", "prune", "publish", "record", "finish",
                   "status", "verify", "await"}
    /\ trouble \in 0..MaxTrouble

-----------------------------------------------------------------------------
(* What the code reads *)

\* ReadSidecars: a document that does not parse is read as empty, with an error.
ReadSidecars == IF docFile = "bad" THEN [n \in Names |-> "none"] ELSE saved

\* Document.Containers: the enabled sidecars.
Containers == {n \in Names : ReadSidecars[n] = "enabled"}

\* mutationDeferred: a deployment that is not running only records what is wanted.
MutationAllowed == workflow \in {"initialized", "stopped", "running"}
Deferred == workflow \in {"initialized", "stopped"}

\* serviceNetworkSupported: a database container without the network refuses enable.
ServiceNetworkSupported == host => attach # "lacking"

\* Mutant: any running container matches.
MatchesRunning(n) == ctr[n].is = "up"

\* SidecarRuntime.Matches: running, with the fingerprint of the saved definition.
Matches(n) == ctr[n].is = "up" /\ ctr[n].version = version[n]

\* sidecarEndpoints and endpointsMatch: a running container serves the declared
\* address when the engine binds it on the user's machine or a forward is open; a
\* container behind the VM boundary without a forward shows its guest port instead.
EndpointsMatch(n) == runtime = "host" \/ fwd[n] # 0

\* DatabaseRestartRequired
RestartRequired == attach = "legacy"

\* reconciliation, over what inspectSidecars observes.  Endpoints are only
\* observed on a running container.
Reconciliation(n) ==
    IF ReadSidecars[n] # "enabled" \/ ~db
    THEN IF ctr[n].is = "none" THEN "complete" ELSE "pending"
    ELSE IF ~RestartRequired /\ Matches(n) /\ EndpointsMatch(n)
         THEN "complete" ELSE "pending"

\* boundContainerPorts and the ports publish asks the runtime to open.
WantedForwards(desired) ==
    [n \in Names |-> IF n \in desired /\ ctr[n].is = "up" THEN ctr[n].port ELSE 0]

\* A call of the container engine, the runner or the file system goes wrong.  A
\* host that does not run answers nothing.
Works == host /\ UNCHANGED trouble
Trouble == trouble < MaxTrouble /\ trouble' = trouble + 1
Fails == IF host THEN Trouble ELSE UNCHANGED trouble

Goto(pc) == cmd' = [cmd EXCEPT !.pc = pc]
Return == cmd' = NoCmd

-----------------------------------------------------------------------------
(* The commands *)

\* enableSidecarTemplate up to the write of sidecars.yaml.  A name that is not
\* saved is taken from the catalog.
EnableSidecar(n) ==
    /\ cmd.pc = "idle" /\ MutationAllowed /\ docFile # "bad"
    /\ ~Deferred => ServiceNetworkSupported
    /\ saved[n] # "none" \/ n \in Catalog
    /\ saved' = [saved EXCEPT ![n] = "enabled"]
    /\ docFile' = "good"
    /\ version' = IF saved[n] = "none" THEN [version EXCEPT ![n] = 1] ELSE version
    /\ cmd' = [NoCmd EXCEPT !.pc = IF Deferred THEN "status" ELSE "apply",
                            !.op = "enable", !.name = n]
    /\ UNCHANGED <<runtime, workflow, records, machine, ctr, fwd, trouble>>

\* disable up to the write.  With nothing to remove it returns at once.
DisableSidecar(n, op) ==
    /\ cmd.pc = "idle" /\ MutationAllowed /\ docFile # "bad"
    /\ \/ saved[n] = "enabled"
       \/ saved[n] = "disabled" /\ op = "remove"
       \/ n \in failures
    /\ saved' = [saved EXCEPT ![n] = IF op = "remove" \/ @ = "none" THEN "none" ELSE "disabled"]
    /\ docFile' = "good"
    /\ cmd' = [NoCmd EXCEPT !.pc = IF Deferred THEN "status" ELSE "apply", !.op = op, !.name = n]
    /\ UNCHANGED <<runtime, workflow, version, records, machine, ctr, fwd, trouble>>

\* GetSidecarStatus, for a name knownName accepts.
GetSidecarStatus(n) ==
    /\ cmd.pc = "idle" /\ docFile # "bad"
    /\ saved[n] # "none" \/ n \in failures \cup Catalog
    /\ cmd' = [NoCmd EXCEPT !.pc = "status", !.op = "status", !.name = n]
    /\ UNCHANGED <<runtime, workflow, document, records, machine, ctr, fwd, trouble>>

\* GetAllSidecarStatus goes through the saved names.
GetAllSidecarStatus ==
    /\ cmd.pc = "idle" /\ docFile # "bad"
    /\ \E names \in {{n \in Names : saved[n] # "none"}} :
          /\ names # {}
          /\ cmd' = [NoCmd EXCEPT !.pc = "status", !.op = "status", !.name = Min(names),
                                  !.todo = names \ {Min(names)}]
    /\ UNCHANGED <<runtime, workflow, document, records, machine, ctr, fwd, trouble>>

\* The runtime has started for deploy or start (startLocalRuntimeAndWait up to the
\* reconciliation of the sidecars).  A new database container joins the service
\* network, or runs without it where Podman cannot set it up.  A running
\* deployment whose database is gone is first corrected to stopped.
StartRuntime(op) ==
    /\ cmd.pc = "idle"
    /\ CASE op = "deploy" -> workflow \in {"initialized", "failed", "deploying", "running"}
         [] OTHER -> \/ workflow \in {"stopped", "starting", "int_start", "int_stop"}
                     \/ workflow = "running" /\ ~db
    /\ \/ /\ host' = TRUE /\ db' = TRUE
          /\ IF db THEN UNCHANGED attach ELSE attach' \in {"joined", "lacking"}
          /\ workflow' = IF op = "deploy" THEN "deploying" ELSE "starting"
          /\ cmd' = [NoCmd EXCEPT !.pc = "apply", !.op = op]
          /\ UNCHANGED trouble
       \/ /\ ~db /\ Trouble
          /\ workflow' = IF op = "deploy" THEN "failed" ELSE "stopped"
          /\ UNCHANGED <<machine, cmd>>
    /\ UNCHANGED <<runtime, document, records, ctr, fwd>>

\* startLocked and stopLocked where there is nothing to start or stop: the
\* sidecars are still reconciled, or cleaned up.
ReconcileOnly(op) ==
    /\ cmd.pc = "idle"
    /\ \/ op = "sync" /\ workflow = "running" /\ db /\ UNCHANGED workflow
       \/ op = "clean" /\ workflow = "stopped" /\ UNCHANGED workflow
       \/ op = "clean" /\ workflow = "running" /\ ~db /\ workflow' = "stopped"
    /\ cmd' = [NoCmd EXCEPT !.pc = "apply", !.op = op]
    /\ UNCHANGED <<runtime, document, records, machine, ctr, fwd, trouble>>

\* stopLocalRuntime and destroyLocalRuntime clean the sidecars up first.
StopRuntime(op) ==
    /\ cmd.pc = "idle"
    /\ \/ op = "stop" /\ workflow = "running" /\ db
       \/ op = "stop" /\ workflow \in {"stopping", "int_start", "int_stop", "int_destroy"}
       \/ op = "destroy"
    /\ workflow' = IF op = "stop" THEN "stopping" ELSE "destroying"
    /\ cmd' = [NoCmd EXCEPT !.pc = "apply", !.op = op]
    /\ UNCHANGED <<runtime, document, records, machine, ctr, fwd, trouble>>

-----------------------------------------------------------------------------
(* applySidecars *)

\* The head of applyAndReport and reconcile: what is wanted is read.  Commands
\* that never touched a sidecar leave everything alone.
ReadFails == docFile = "bad" /\ cmd.op \notin Cleanups
Untouched == docFile = "missing" /\ ~stateFile

\* applySidecars up to the first container: the host, the database's network and
\* the secrets.  A deployment whose sidecars are all going needs no network.
ApplySidecars ==
    /\ cmd.pc = "apply"
    /\ \E desired \in {IF cmd.op \in Cleanups THEN {} ELSE Containers} :
          \/ /\ cmd.op \in Reconciles /\ Untouched
             /\ Goto("finish") /\ UNCHANGED <<attach, trouble>>
          \/ /\ ReadFails
             /\ cmd' = [cmd EXCEPT !.err = "failed",
                                   !.pc = IF cmd.op \in Mutations THEN "status" ELSE "finish"]
             /\ UNCHANGED <<attach, trouble>>
          \/ /\ ~ReadFails /\ ~(cmd.op \in Reconciles /\ Untouched)
             /\ \/ ~host /\ Goto("record") /\ UNCHANGED <<attach, trouble>>
                \/ /\ host /\ Trouble
                   /\ cmd' = [cmd EXCEPT !.err = "failed", !.pc = "record"]
                   /\ UNCHANGED attach
                \/ /\ Works /\ desired # {} /\ RestartRequired
                   /\ cmd' = [cmd EXCEPT !.err = "restart", !.pc = "record"]
                   /\ UNCHANGED attach
                \/ /\ Works /\ desired # {} /\ attach = "lacking"
                   /\ cmd' = [cmd EXCEPT !.applied = TRUE, !.fails = desired,
                                         !.desired = desired, !.pc = "prune"]
                   /\ UNCHANGED attach
                \/ /\ Works /\ (desired # {} => attach \notin {"legacy", "lacking"})
                   /\ attach' = IF desired # {} /\ attach = "bridged" THEN "joined" ELSE attach
                   /\ cmd' = [cmd EXCEPT !.applied = TRUE, !.desired = desired,
                                         !.todo = desired, !.pc = "ensure"]
    /\ UNCHANGED <<runtime, workflow, document, records, host, db, ctr, fwd>>

\* SidecarRuntime.converge: a container that matches stays, any other is removed.
Converge(n) == IF Matches(n) THEN ctr ELSE [ctr EXCEPT ![n] = NoCtr]

\* createSpec and the engine's create: the definition's fingerprint is a label of it.
Create(n, port) == [is |-> "up", version |-> version[n], port |-> port]

\* SidecarRuntime.Ensure for the next wanted sidecar: a container that matches
\* stays, any other is removed and created again.  A failure can leave the old
\* container, none, or one that was created and never started.
Ensure ==
    /\ cmd.pc = "ensure" /\ cmd.todo # {}
    /\ \E n \in {Min(cmd.todo)} :
          \/ /\ Works
             /\ \E port \in GuestPorts :
                   ctr' = IF Matches(n) THEN Converge(n)
                          ELSE [Converge(n) EXCEPT ![n] = Create(n, port)]
             /\ cmd' = [cmd EXCEPT !.todo = @ \ {n}]
          \/ /\ Fails
             /\ \/ UNCHANGED ctr
                \/ host /\ ctr' = Converge(n)
                \/ /\ host /\ ~Matches(n)
                   /\ ctr' = [Converge(n) EXCEPT ![n] = [Create(n, 0) EXCEPT !.is = "down"]]
             /\ cmd' = [cmd EXCEPT !.todo = @ \ {n}, !.fails = @ \cup {n}]
    /\ UNCHANGED <<runtime, workflow, document, records, machine, fwd>>

EnsureDone ==
    /\ cmd.pc = "ensure" /\ cmd.todo = {}
    /\ Goto("prune")
    /\ UNCHANGED <<runtime, workflow, document, records, machine, ctr, fwd, trouble>>

\* ownedNames without the wanted ones.
Unwanted == {n \in Names : ctr[n].is # "none" /\ n \notin cmd.desired}

\* SidecarRuntime.Remove
Remove(names) == [n \in Names |-> IF n \in names THEN NoCtr ELSE ctr[n]]

\* removeUndesired: every container that is not wanted is removed; the listing can
\* fail, and so can each removal.
RemoveUndesired ==
    /\ cmd.pc = "prune"
    /\ \/ /\ Fails
          /\ cmd' = [cmd EXCEPT !.err = "failed", !.pc = "record"]
          /\ UNCHANGED ctr
       \/ \E kept \in SUBSET Unwanted :
             /\ host /\ IF kept = {} THEN UNCHANGED trouble ELSE Trouble
             /\ ctr' = Remove(Unwanted \ kept)
             /\ cmd' = [cmd EXCEPT !.fails = @ \cup kept, !.pc = "publish"]
    /\ UNCHANGED <<runtime, workflow, document, records, machine, fwd>>

\* macForwards.open: forwards that differ are withdrawn, then the wanted ones added.
\* HostRuntime opens nothing.
OpenPorts(wanted) == IF runtime = "vm" THEN fwd' = wanted ELSE UNCHANGED fwd

\* macForwards.open stops at the first update that fails, in name order.
OpenPortsFails(wanted) ==
    \E last \in Names \cup {0} :
       \/ fwd' = [n \in Names |-> IF fwd[n] # wanted[n] /\ n <= last THEN 0 ELSE fwd[n]]
       \/ fwd' = [n \in Names |-> IF fwd[n] = wanted[n] \/ n <= last THEN wanted[n] ELSE 0]

\* publish
Publish ==
    /\ cmd.pc = "publish"
    /\ \E wanted \in {WantedForwards(cmd.desired)} :
          \/ Works /\ OpenPorts(wanted) /\ Goto("record")
          \/ /\ Fails
             /\ cmd' = [cmd EXCEPT !.err = "failed", !.pc = "record"]
             /\ UNCHANGED fwd
          \/ /\ runtime = "vm" /\ host /\ Trouble /\ OpenPortsFails(wanted)
             /\ cmd' = [cmd EXCEPT !.err = "failed", !.pc = "record"]
    /\ UNCHANGED <<runtime, workflow, document, records, machine, ctr>>

\* WriteSidecarState: the file is replaced in one step.
WriteSidecarState(names) == failures' = names /\ stateFile' = TRUE

\* recordFailures replaces the recorded set.
RecordFailures(names) == WriteSidecarState(names)

\* apply, for a command that changes what is wanted.  A restart that is needed is
\* no error; what was not applied leaves the record alone.
RecordApply ==
    /\ cmd.pc = "record" /\ cmd.op \in Mutations
    /\ IF cmd.applied THEN RecordFailures(cmd.fails) ELSE UNCHANGED records
    /\ cmd' = [cmd EXCEPT !.pc = "status",
                          !.err = IF @ = "failed" \/ cmd.fails # {} THEN "failed" ELSE "none"]
    /\ UNCHANGED <<runtime, workflow, document, machine, ctr, fwd, trouble>>

\* The end of reconcile, and recordDefinitionFailures.
RecordReconcile ==
    /\ cmd.pc = "record" /\ cmd.op \in Reconciles
    /\ IF cmd.err # "none"
       THEN IF Containers # {} THEN RecordFailures(Containers) ELSE UNCHANGED records
       ELSE IF cmd.applied THEN RecordFailures(cmd.fails) ELSE UNCHANGED records
    /\ cmd' = [cmd EXCEPT !.pc = "finish",
                          !.err = IF @ # "none" \/ cmd.fails # {} THEN "failed" ELSE "none"]
    /\ UNCHANGED <<runtime, workflow, document, machine, ctr, fwd, trouble>>

-----------------------------------------------------------------------------
(* status, the check after disable, and the wait of enable *)

\* status and describe: an inspection that is not possible, or fails, is unknown; a
\* verified outcome clears the recorded failure.
Inspect(n, rec) ==
    /\ \/ /\ rec = "unknown"
          /\ \/ (workflow = "initialized" \/ ~host \/ docFile = "bad") /\ UNCHANGED trouble
             \/ workflow # "initialized" /\ host /\ Trouble
       \/ /\ workflow # "initialized" /\ docFile # "bad" /\ Works
          /\ rec = Reconciliation(n)
    /\ IF rec = "complete" /\ n \in failures
       THEN WriteSidecarState(failures \ {n})
       ELSE UNCHANGED records

Outcomes == {"unknown", "pending", "complete"}

\* The status that ends enable, disable and status itself.  enable waits while the
\* container runs and its readiness probe is still within its window.
Status ==
    /\ cmd.pc = "status"
    /\ \E rec \in Outcomes :
          /\ Inspect(cmd.name, rec)
          /\ CASE cmd.op \in {"disable", "remove"} ->
                     cmd' = [cmd EXCEPT !.pc = "verify", !.rec = rec,
                                        !.err = IF docFile = "bad" THEN "failed" ELSE @]
               [] cmd.op = "enable" ->
                     \/ Return
                     \/ /\ cmd.err = "none" /\ rec # "unknown" /\ ctr[cmd.name].is = "up"
                        /\ \E age \in 0..(Window - 1) :
                              cmd' = [cmd EXCEPT !.pc = "await", !.age = age]
               [] cmd.op = "status" /\ cmd.todo # {} /\ docFile # "bad" ->
                     cmd' = [cmd EXCEPT !.name = Min(cmd.todo), !.todo = @ \ {Min(@)}]
               [] OTHER -> Return
    /\ UNCHANGED <<runtime, workflow, document, machine, ctr, fwd>>

\* Mutant: the outcome of the cleanup is not looked at.
VerifiedUnchecked == Deferred \/ cmd.err = "none"

\* The cleanup counts as done where it is deferred, or nothing went wrong and the
\* inspection found nothing left.
Verified == Deferred \/ (cmd.err = "none" /\ cmd.rec = "complete")

\* The end of disable: a cleanup that could not be verified is recorded.
VerifyDisable ==
    /\ cmd.pc = "verify"
    /\ IF Verified
       THEN UNCHANGED records ELSE RecordFailures(failures \cup {cmd.name})
    /\ Return
    /\ UNCHANGED <<runtime, workflow, document, machine, ctr, fwd, trouble>>

\* probeSidecar after `age` polls of the container's life.
ProbeSidecar(age, ok) ==
    IF age < Delay THEN "starting"
    ELSE IF ok THEN "serving" ELSE IF age < Window THEN "starting" ELSE "failing"

\* Mutant: the deadline runs from the start of the container.
WaitOverByAge(waited, age) == age >= Window

\* The deadline of awaitHealth runs from the first poll.
WaitOver(waited, age) == waited >= Window

\* awaitHealth: one pause and one status.  A container that crashed has been
\* restarted by its policy and starts its window again.
AwaitHealth ==
    /\ cmd.pc = "await"
    /\ IF WaitOver(cmd.waited, cmd.age)
       THEN Return /\ UNCHANGED <<records, trouble>>
       ELSE \E rec \in Outcomes, ok \in BOOLEAN, restarted \in BOOLEAN :
              /\ Inspect(cmd.name, rec)
              /\ \E age \in {IF restarted THEN 0 ELSE Min({cmd.age + 1, Window})} :
                    IF rec # "unknown" /\ ctr[cmd.name].is = "up"
                          /\ ProbeSidecar(age, ok) = "starting"
                    THEN cmd' = [cmd EXCEPT !.age = age, !.waited = Min({@ + 1, Window})]
                    ELSE Return
    /\ UNCHANGED <<runtime, workflow, document, machine, ctr, fwd>>

-----------------------------------------------------------------------------
(* The end of the lifecycle commands *)

\* Stopping needs an engine that answers; a VM that is down has nothing to stop.
CanStop == runtime = "vm" \/ host
StopWorks == CanStop /\ UNCHANGED trouble
StopFails == IF CanStop THEN Trouble ELSE UNCHANGED trouble

\* runtime.Stop: the database container is removed; the VM stops with all it runs.
RuntimeStops ==
    /\ db' = FALSE /\ attach' = "absent"
    /\ IF runtime = "vm"
       THEN /\ host' = FALSE
            /\ ctr' = [n \in Names |-> IF ctr[n].is = "up" THEN [ctr[n] EXCEPT !.is = "down"]
                                       ELSE ctr[n]]
       ELSE UNCHANGED <<host, ctr>>

\* runtime.Destroy: the VM goes with its containers and forwards.
RuntimeDestroyed ==
    /\ db' = FALSE /\ attach' = "absent"
    /\ IF runtime = "vm"
       THEN /\ host' = FALSE
            /\ ctr' = [n \in Names |-> NoCtr]
            /\ fwd' = [n \in Names |-> 0]
       ELSE UNCHANGED <<host, ctr, fwd>>

\* deploy and start: the database has answered, or has not.  A start that failed
\* stops the runtime again.
FinishStart ==
    /\ cmd.pc = "finish" /\ cmd.op \in {"deploy", "start"}
    /\ \/ UNCHANGED trouble /\ workflow' = "running" /\ Return
       \/ /\ Trouble
          /\ IF cmd.op = "deploy"
             THEN workflow' = "failed" /\ Return
             ELSE /\ UNCHANGED workflow
                  /\ cmd' = [NoCmd EXCEPT !.pc = "apply", !.op = "failstop"]
    /\ UNCHANGED <<runtime, document, records, machine, ctr, fwd>>

FinishReconcile ==
    /\ cmd.pc = "finish" /\ cmd.op \in {"sync", "clean"}
    /\ Return
    /\ UNCHANGED <<runtime, workflow, document, records, machine, ctr, fwd, trouble>>

\* runStopBackend: a failed stop is tried once more by restoreLocalStateAfterFailure.
FinishStop ==
    /\ cmd.pc = "finish" /\ cmd.op = "stop"
    /\ \/ /\ StopWorks /\ RuntimeStops
          /\ workflow' = "stopped" /\ Return
       \/ /\ StopFails /\ UNCHANGED <<machine, ctr>>
          /\ IF db
             THEN /\ UNCHANGED workflow
                  /\ cmd' = [NoCmd EXCEPT !.pc = "apply", !.op = "failstop"]
             ELSE workflow' = "stopped" /\ Return
    /\ UNCHANGED <<runtime, document, records, fwd>>

\* stopLocalRuntimeAfterFailure: a sidecar that could not be cleaned up leaves the
\* operation interrupted, like a runtime that does not stop.
FinishFailstop ==
    /\ cmd.pc = "finish" /\ cmd.op = "failstop"
    /\ \/ /\ StopWorks /\ RuntimeStops
          /\ workflow' = IF cmd.err = "none" THEN "stopped"
                         ELSE IF workflow = "starting" THEN "int_start" ELSE "int_stop"
       \/ /\ StopFails /\ UNCHANGED <<machine, ctr>>
          /\ workflow' = IF workflow = "starting" THEN "int_start" ELSE "int_stop"
    /\ Return
    /\ UNCHANGED <<runtime, document, records, fwd>>

\* Mutant: destroy looks at the runtime alone.
SidecarsCleanedIgnored == TRUE

\* What destroyLocalRuntime asks of the cleanup.
SidecarsCleaned == cmd.err = "none"

\* destroyLocalRuntime and the end of destroyLocked: the record of failures goes,
\* the saved definitions stay.
FinishDestroy ==
    /\ cmd.pc = "finish" /\ cmd.op = "destroy"
    /\ \/ /\ StopFails /\ workflow' = "int_destroy"
          /\ UNCHANGED <<machine, ctr, fwd, records>>
       \/ /\ StopWorks /\ RuntimeDestroyed
          /\ IF SidecarsCleaned
             THEN /\ workflow' = "initialized"
                  /\ failures' = {} /\ stateFile' = FALSE
             ELSE workflow' = "int_destroy" /\ UNCHANGED records
    /\ Return
    /\ UNCHANGED <<runtime, document>>

-----------------------------------------------------------------------------
(* What happens around the launcher *)

\* The launcher is killed.
Crash ==
    /\ cmd.pc # "idle" /\ Trouble /\ Return
    /\ UNCHANGED <<runtime, workflow, document, records, machine, ctr, fwd>>

\* The user edits sidecars.yaml between two commands.
HandEdit ==
    /\ cmd.pc = "idle" /\ Trouble
    /\ \/ /\ docFile = "good" /\ docFile' = "bad" /\ UNCHANGED <<saved, version>>
       \/ \E n \in Names, wish \in {"none", "disabled", "enabled"}, v \in 1..2 :
             /\ docFile' = "good"
             /\ saved' = [saved EXCEPT ![n] = wish]
             /\ version' = [version EXCEPT ![n] = v]
    /\ UNCHANGED <<runtime, workflow, records, machine, ctr, fwd, cmd>>

\* A sidecar's process ends, or its restart policy starts it again.
ContainerEnds(n) ==
    /\ ctr[n].is = "up" /\ Trouble
    /\ ctr' = [ctr EXCEPT ![n].is = "down"]
    /\ UNCHANGED <<runtime, workflow, document, records, machine, fwd, cmd>>

ContainerRestarts(n) ==
    /\ ctr[n].is = "down" /\ ctr[n].port # 0 /\ host
    /\ ctr' = [ctr EXCEPT ![n].is = "up"]
    /\ UNCHANGED <<runtime, workflow, document, records, machine, fwd, cmd, trouble>>

\* The container host is stopped behind the launcher's back.
HostStops ==
    /\ host /\ Trouble
    /\ host' = FALSE /\ db' = FALSE /\ UNCHANGED attach
    /\ ctr' = [n \in Names |-> IF ctr[n].is = "up" THEN [ctr[n] EXCEPT !.is = "down"] ELSE ctr[n]]
    /\ UNCHANGED <<runtime, workflow, document, records, fwd, cmd>>

\* The user, or the next command's EnsureQueryable, starts the engine again.
HostReturns ==
    /\ cmd.pc = "idle" /\ ~host /\ runtime = "host"
    /\ host' = TRUE
    /\ UNCHANGED <<runtime, workflow, document, records, db, attach, ctr, fwd, cmd, trouble>>

-----------------------------------------------------------------------------

\* A new deployment, or one that an older launcher left running with its database
\* outside the service network.
Init ==
    /\ runtime \in Runtimes
    /\ saved = [n \in Names |-> "none"] /\ docFile = "missing"
    /\ version = [n \in Names |-> 1]
    /\ failures = {} /\ stateFile = FALSE
    /\ \/ workflow = "initialized" /\ db = FALSE /\ attach = "absent" /\ host = (runtime = "host")
       \/ workflow = "running" /\ host = TRUE /\ db = TRUE /\ attach \in {"legacy", "bridged"}
    /\ ctr = [n \in Names |-> NoCtr] /\ fwd = [n \in Names |-> 0]
    /\ cmd = NoCmd /\ trouble = 0

Step ==
    \/ ApplySidecars \/ Ensure \/ EnsureDone \/ RemoveUndesired \/ Publish
    \/ RecordApply \/ RecordReconcile \/ Status \/ VerifyDisable \/ AwaitHealth
    \/ FinishStart \/ FinishReconcile \/ FinishStop \/ FinishFailstop \/ FinishDestroy

Command ==
    \/ \E n \in Names : EnableSidecar(n) \/ GetSidecarStatus(n)
    \/ \E n \in Names, op \in {"disable", "remove"} : DisableSidecar(n, op)
    \/ GetAllSidecarStatus
    \/ \E op \in {"deploy", "start"} : StartRuntime(op)
    \/ \E op \in {"sync", "clean"} : ReconcileOnly(op)
    \/ \E op \in {"stop", "destroy"} : StopRuntime(op)

Environment ==
    \/ Crash \/ HandEdit \/ HostStops \/ HostReturns
    \/ \E n \in Names : ContainerEnds(n) \/ ContainerRestarts(n)

Next == Step \/ Command \/ Environment

\* The launcher does not stop in the middle of a command on its own.
Spec == Init /\ [][Next]_vars /\ WF_vars(Step)

-----------------------------------------------------------------------------
(* Properties *)

\* A reconciliation that reports no failure, and a change that was applied without
\* one, have converged: every wanted sidecar has a container of its saved definition,
\* nothing else is left, and in a VM no forward leads to a port that is not its
\* sidecar's.
Converged ==
    /\ cmd.pc = "finish" \/ (cmd.pc = "status" /\ cmd.op \in Mutations)
    /\ cmd.applied /\ cmd.err = "none"
    => \A n \in Names :
          /\ n \in cmd.desired => ctr[n].is # "none" /\ ctr[n].version = version[n]
          /\ n \notin cmd.desired => ctr[n].is = "none"
          /\ fwd[n] \in {0, ctr[n].port}

\* A disable on a running deployment that returns without an error has removed the
\* container, whatever failed or ended meanwhile.
DisabledIsGone ==
    [][/\ cmd.pc = "verify" /\ cmd'.pc = "idle" /\ trouble' = trouble
       /\ ~Deferred /\ cmd.name \notin failures'
       => ctr[cmd.name].is = "none"]_vars

\* A deployment that destroy has returned to initialized has no sidecar container
\* and no forward left, whichever step of its cleanup failed before.
InitializedIsEmpty ==
    workflow = "initialized" => \A n \in Names : ctr[n].is = "none" /\ fwd[n] = 0

\* Every command ends, also the enable that waits for a sidecar whose container
\* keeps being restarted.
CommandsEnd == cmd.pc # "idle" ~> cmd.pc = "idle"

=============================================================================
