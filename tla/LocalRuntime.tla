---------------------------- MODULE LocalRuntime ----------------------------
(***************************************************************************)
(* The local runtimes: how deploy, start, stop and destroy prepare the     *)
(* host or the macOS VM, migrate data of earlier layouts, install the Nano *)
(* database container, choose its first password and verify it             *)
(* (internal/localruntime, internal/localinstall/podman_*.go and           *)
(* internal/deploy/local_runtime.go, local_credentials.go).                *)
(*                                                                         *)
(* A command holds the deployment lock, so cmd is the only one.  Between   *)
(* two of its steps Nano moves on its own; any outside call may fail, the  *)
(* launcher may be interrupted by a signal (its handlers run) or killed.   *)
(* A data directory is reduced to what is in it, a password to a number.   *)
(***************************************************************************)
EXTENDS Integers, FiniteSets

CONSTANTS
    Scenarios,      \* which deployments exist at first, see Init
    Careful,        \* while the data are only inside a container, neither stop nor a
                    \* change of engine is issued
    Downgrades,     \* the resolved runner may also become older
    MaxRunner,      \* bound on the versions of the runner
    MaxCommands,    \* bound on the commands issued
    MaxTrouble      \* bound on failed calls, deaths, signals and kills

ASSUME LocalRuntimeAssumption ==
    /\ Scenarios \subseteq {"mac", "macLegacy", "host", "overlay", "overlayUp"}
    /\ Careful \in BOOLEAN /\ Downgrades \in BOOLEAN
    /\ MaxRunner \in Nat \ {0, 1} /\ MaxCommands \in Nat /\ MaxTrouble \in Nat

VARIABLES
    mac,        \* the VM runtime, not the direct-host one
    wf,         \* the workflow state: <<state, operation>>
    fs,         \* what each data place holds
    layout,     \* the places that hold the host-layout marker
    box,        \* the Nano container
    vm,         \* the VM runs
    guest,      \* [dir: the VM directory is there, ver: the runner its guest is from]
    runner,     \* the version of the resolved runner
    recorded,   \* the recorded runner version, 0 without a record
    engine,     \* [rec: the recorded container engine, cfg: the configured one]
    up,         \* the container host runs
    sec,        \* the password in secrets.json, NoPw without one
    cred,       \* the credential marker
    boot,       \* the password in the bootstrap file, NoPw without one
    dbPw,       \* the password of the database being created or created in target
    newest,     \* the user's newest data
    wrecked,    \* a destroy has begun since the last complete one
    killed,     \* a kill may have left the bootstrap file behind
    cmd,        \* the running command
    count       \* [commands, trouble, pw: the passwords generated]

files == <<fs, layout, newest>>
host == <<vm, guest, runner, recorded, engine, up>>
secrets == <<sec, cred, boot, dbPw, killed>>
others == <<mac, wf, files, box, host, secrets, wrecked>>
vars == <<others, cmd, count>>

Places == {"overlay", "source", "staging", "target", "backup", "quarantine"}
\* A place is absent, empty, holds an initial create in progress, a part of a copy,
\* or a complete database: the one of an earlier layout or a fresh one, New once the
\* user has worked with it.
Legacy == {"legacy", "legacyNew"}
Complete == Legacy \cup {"fresh", "freshNew"}
Contents == {"absent", "empty", "creating", "partial"} \cup Complete
Populated(place) == fs[place] \notin {"absent", "empty"}
MarkerMatches(place) == place \in layout

NoPw == -1
DefaultPw == 0

NoBox == [st |-> "none", name |-> "current", data |-> "target", once |-> FALSE,
          engine |-> "podman"]
\* readLocalCredentialMarker: a marker that is not there reads as neither.
NoCred == [gen |-> FALSE, ver |-> FALSE]
NoCmd == [pc |-> "idle", op |-> "none", err |-> "none", fresh |-> FALSE, ret |-> "idle",
          engine |-> "podman", running |-> FALSE]

TypeOK ==
    /\ mac \in BOOLEAN /\ vm \in BOOLEAN /\ up \in BOOLEAN
    /\ wf[1] \in {"initialized", "failed", "running", "stopped", "inProgress", "interrupted"}
    /\ fs \in [Places -> Contents] /\ layout \subseteq {"staging", "target"}
    /\ box \in [st : {"none", "running", "exited"}, name : {"current", "legacy"},
                data : {"overlay", "source", "target"}, once : BOOLEAN,
                engine : {"podman", "docker"}]
    /\ guest \in [dir : BOOLEAN, ver : 0..MaxRunner]
    /\ runner \in 1..MaxRunner /\ recorded \in 0..MaxRunner
    /\ engine \in [rec : {"none", "podman", "docker"}, cfg : {"auto", "podman", "docker"}]
    /\ cred \in [gen : BOOLEAN, ver : BOOLEAN]
    /\ {sec, boot, dbPw} \subseteq {NoPw} \cup 0..count.pw
    /\ newest \in {"none"} \cup Complete
    /\ count.commands \in 0..MaxCommands /\ count.trouble \in 0..MaxTrouble

Nothing == [p \in Places |-> "absent"]

\* A deployment that is only initialised, or one that an earlier release deployed:
\* on macOS with its data inside the guest and a stopped container under the old
\* name, on a host with its data inside the container itself.
Init ==
    /\ \E s \in Scenarios :
        /\ mac = (s \in {"mac", "macLegacy"})
        /\ wf = CASE s \in {"mac", "host"} -> <<"initialized", "none">>
                  [] s = "overlayUp" -> <<"running", "none">>
                  [] OTHER -> <<"stopped", "none">>
        /\ fs = CASE s = "macLegacy" -> [Nothing EXCEPT !["source"] = "legacy"]
                  [] s \in {"overlay", "overlayUp"} ->
                        [Nothing EXCEPT !["overlay"] = "legacy"]
                  [] OTHER -> Nothing
        /\ box = CASE s = "macLegacy" -> [NoBox EXCEPT !.st = "exited", !.name = "legacy",
                                                        !.data = "source"]
                   [] s = "overlay" -> [NoBox EXCEPT !.st = "exited", !.data = "overlay"]
                   [] s = "overlayUp" -> [NoBox EXCEPT !.st = "running", !.data = "overlay"]
                   [] OTHER -> NoBox
        /\ guest = [dir |-> s = "macLegacy", ver |-> IF s = "macLegacy" THEN 1 ELSE 0]
        /\ sec = (IF s \in {"mac", "host"} THEN NoPw ELSE DefaultPw)
        /\ newest = (IF s \in {"mac", "host"} THEN "none" ELSE "legacy")
    /\ layout = {} /\ vm = FALSE /\ runner \in 1..MaxRunner /\ recorded = 0
    /\ engine = [rec |-> "none", cfg |-> "auto"] /\ up = TRUE
    /\ cred = NoCred /\ boot = NoPw /\ dbPw = NoPw
    /\ wrecked = FALSE /\ killed = FALSE /\ cmd = NoCmd
    /\ count = [commands |-> 0, trouble |-> 0, pw |-> 0]

-----------------------------------------------------------------------------
(* Control *)

At(pc) == cmd.pc = pc
Goto(pc) == cmd' = [cmd EXCEPT !.pc = pc]
Trouble == count.trouble < MaxTrouble /\ count' = [count EXCEPT !.trouble = @ + 1]
Err(pc) == cmd' = [cmd EXCEPT !.pc = pc, !.err = IF @ = "none" THEN "fail" ELSE @]
\* An outside call fails, and control goes to pc with an error.
Fails(pc) == Trouble /\ Err(pc)
\* stopAfterStartFailure on macOS; on a host Start only returns the error.
Abort == IF mac THEN "abort" ELSE "started"

\* RecordedContainerEngine: data without a record were created with Podman.
RecordedEngine ==
    IF engine.rec # "none" THEN engine.rec
    ELSE IF fs["target"] # "absent" THEN "podman" ELSE "none"

\* localContainerEngine and DetectContainerEngine, on a host where Podman is installed.
ContainerEngine ==
    IF RecordedEngine # "none" THEN RecordedEngine
    ELSE IF engine.cfg = "auto" THEN "podman" ELSE engine.cfg

\* The containers that List can show: the engine is asked through the VM on macOS.
Reachable == IF mac THEN vm ELSE up
Seen == box.st # "none" /\ box.engine = cmd.engine
Exists(name) == Seen /\ box.name = name

\* The container goes, and what is inside it.
Removed == box' = NoBox /\ fs' = [fs EXCEPT !["overlay"] = "absent"]
Stopped == [box EXCEPT !.st = IF @ = "running" THEN "exited" ELSE @]

\* waitForDaemonExit: the VM is gone when its daemon is, and its containers with it.
VMExits == vm' = FALSE /\ box' = Stopped

\* NanoInstall.Stop: `rm --force` of the current name.
RemoveCurrent ==
    IF Exists("current") THEN Removed ELSE UNCHANGED <<box, fs>>

\* What the probe behind recordLifecycleFailure and reconcileLocalVMState answers.
Alive == Exists("current") /\ box.st = "running" /\ Reachable

\* The steps that ask the engine, and where each fallible step returns to.
EngineSteps == {"prepStop", "adopt", "overlay", "ovStop", "ovCopy", "ovRemove", "recStop",
                "image", "create", "rtStop", "dBox"}
PrepareSteps == {"prepare", "guestStop", "guestInit", "guestDone", "guestMark", "record"}
MigrationSteps == {"prep", "prepStop", "reset", "copy", "copied", "mark", "publish",
                   "publishRename"}
InstallSteps == {"adopt", "overlay", "ovStop", "ovCopied", "ovInstall", "ovRename", "ovRemove",
                 "recover", "recStop", "recRename", "recMkdir", "data", "image",
                 "pwSecret", "pwMark", "pwFile"}
WaitSteps == {"artifacts", "finMark", "finRetire"}
DestroySteps == {"dBox", "dVM", "dFiles", "dSecrets"}
FailTarget ==
    CASE At("clear") -> "result"
      [] cmd.pc \in MigrationSteps \cup InstallSteps -> Abort
      [] cmd.pc \in WaitSteps \cup {"abort"} -> "started"
      [] cmd.pc \in {"verify", "verified"} -> "unverified"
      [] cmd.pc \in {"rtStop", "rtVM"} ->
            IF cmd.ret = "restored" THEN "giveUp" ELSE cmd.ret
      [] cmd.pc \in DestroySteps -> "giveUp"
      [] At("artifactState") -> "result"
Fallible == {"clear", "abort", "verify", "verified", "rtStop", "rtVM", "artifactState"}
            \cup MigrationSteps \cup InstallSteps \cup WaitSteps \cup DestroySteps

\* A call fails and the function returns the error.  A failing Prepare leaves the
\* workflow state alone.
CallFails ==
    \/ /\ cmd.pc \in Fallible
       /\ \/ Fails(FailTarget)
          \/ cmd.pc \in EngineSteps /\ ~Reachable /\ Err(FailTarget) /\ UNCHANGED count
       /\ UNCHANGED others
    \/ cmd.pc \in PrepareSteps /\ Trouble /\ cmd' = NoCmd /\ UNCHANGED others

-----------------------------------------------------------------------------
(* The commands *)

\* WorkflowStatePermitsDeploy, workflowStatePermitsStart and workflowStatePermitsStop
PermitsDeploy(state) ==
    \/ state[1] \in {"initialized", "failed", "running"}
    \/ state[1] \in {"inProgress", "interrupted"} /\ state[2] = "deploy"
PermitsStart(state) ==
    \/ state[1] = "stopped" \/ state = <<"inProgress", "start">>
    \/ state[1] = "interrupted" /\ state[2] \in {"start", "stop"}
PermitsStop(state) ==
    \/ state[1] = "running" \/ state = <<"inProgress", "stop">>
    \/ state[1] = "interrupted" /\ state[2] \in {"start", "stop", "destroy"}

CommandEngine == IF mac THEN "podman" ELSE ContainerEngine
New(op, pc) == [NoCmd EXCEPT !.op = op, !.pc = pc, !.engine = CommandEngine]
Issue == At("idle") /\ count.commands < MaxCommands
         /\ count' = [count EXCEPT !.commands = @ + 1]
RunsNow == box.st = "running" /\ box.name = "current" /\ box.engine = CommandEngine

\* EnsureMachineRunning creates or starts the Podman machine.
EnsureMachineRunning == up' = TRUE
\* requireDockerLinuxEngine only asks the daemon.
RequireDockerEngine == up' = up
\* EnsureStartable of the two preparers: without up' it returns an error.
EnsureStartable(e) == IF e = "docker" THEN RequireDockerEngine ELSE EnsureMachineRunning
\* EnsureReady also installs Podman once the user approves; declining ends the command
\* as a failed call does.
EnsureReady(e) == EnsureStartable(e)

\* EnsureQueryable, asked only of a deployment that is recorded as running
Queryable == IF wf[1] = "running" THEN EnsureStartable(CommandEngine) ELSE UNCHANGED up

\* reconcileLocalVMState: a deployment recorded as running that is not becomes stopped.
Reconciled ==
    IF wf[1] = "running" /\ ~(RunsNow /\ (mac => vm)) THEN <<"stopped", "none">> ELSE wf

BeginDeploy ==
    /\ Issue /\ PermitsDeploy(wf)
    /\ cmd' = New("deploy", "prepare") /\ UNCHANGED others

BeginStart ==
    /\ Issue /\ Queryable /\ (up' \/ wf[1] # "running")
    /\ wf' = Reconciled
    /\ cmd' = IF PermitsStart(Reconciled) THEN New("start", "prepare") ELSE NoCmd
    /\ UNCHANGED <<mac, files, box, vm, guest, runner, recorded, engine, secrets, wrecked>>

BeginStop ==
    /\ Issue /\ Queryable /\ (up' \/ wf[1] # "running")
    /\ Careful => fs["overlay"] = "absent"
    /\ IF PermitsStop(Reconciled)
       THEN /\ wf' = <<"inProgress", "stop">>
            /\ cmd' = [New("stop", "rtStop") EXCEPT !.ret = "artifactState"]
       ELSE wf' = Reconciled /\ cmd' = NoCmd
    /\ UNCHANGED <<mac, files, box, vm, guest, runner, recorded, engine, secrets, wrecked>>

BeginDestroy ==
    /\ Issue /\ wf' = <<"inProgress", "destroy">> /\ wrecked' = TRUE
    /\ cmd' = New("destroy", "dBox")
    /\ UNCHANGED <<mac, files, box, host, secrets>>

\* Configure with rejectRecordedContainerEngineChange
ConfigureEngine(choice) ==
    /\ Issue /\ ~mac /\ wf[1] \in {"initialized", "stopped"}
    /\ Careful => fs["overlay"] = "absent"
    /\ choice # "auto" => RecordedEngine \in {"none", choice}
    /\ engine' = [engine EXCEPT !.cfg = choice]
    /\ UNCHANGED <<mac, wf, files, box, vm, guest, runner, recorded, up, secrets, wrecked, cmd>>

-----------------------------------------------------------------------------
(* Prepare *)

\* reconcileRunnerVersion: a runner below version 2 is refused; a guest without a
\* record, or from another runner, is stale.
GuestStale == recorded # runner

\* Mutant: the marker is written before the guest is replaced.
PrepareVMMarksFirst ==
    /\ At("prepare") /\ mac /\ recorded' = runner
    /\ Goto(IF guest.dir /\ ~GuestStale THEN "busy"
            ELSE IF guest.dir /\ vm THEN "guestStop" ELSE "guestInit")
    /\ UNCHANGED <<mac, wf, files, box, vm, guest, runner, engine, up, secrets, wrecked, count>>

\* initializeVM starts here: nothing to do, stop the VM first, or init.
PrepareVM ==
    /\ At("prepare") /\ mac
    /\ Goto(IF guest.dir /\ ~GuestStale THEN "guestMark"
            ELSE IF guest.dir /\ vm THEN "guestStop" ELSE "guestInit")
    /\ UNCHANGED <<others, count>>

\* stopVMBeforeGuestReplacement
StopVMBeforeGuestReplacement ==
    /\ At("guestStop") /\ VMExits /\ Goto("guestInit")
    /\ UNCHANGED <<mac, wf, files, guest, runner, recorded, engine, up, secrets, wrecked, count>>

\* The runner's init rewrites the guest in place, so it is broken until it is done.
GuestInit ==
    /\ At("guestInit") /\ guest' = [dir |-> TRUE, ver |-> 0] /\ Goto("guestDone")
    /\ UNCHANGED <<mac, wf, files, box, vm, runner, recorded, engine, up, secrets, wrecked, count>>

GuestDone ==
    /\ At("guestDone") /\ guest' = [guest EXCEPT !.ver = runner] /\ Goto("guestMark")
    /\ UNCHANGED <<mac, wf, files, box, vm, runner, recorded, engine, up, secrets, wrecked, count>>

\* writeRunnerVersionMarker, last
WriteRunnerVersionMarker ==
    /\ At("guestMark") /\ recorded' = runner /\ Goto("busy")
    /\ UNCHANGED <<mac, wf, files, box, vm, guest, runner, engine, up, secrets, wrecked, count>>

\* HostRuntime.Prepare
PrepareHost ==
    /\ At("prepare") /\ ~mac
    /\ EnsureReady(cmd.engine)
    /\ IF up' THEN Goto("record") ELSE cmd' = NoCmd
    /\ UNCHANGED <<mac, wf, files, box, vm, guest, runner, recorded, engine, secrets, wrecked,
                   count>>

\* recordContainerEngine: the first one is kept.
RecordContainerEngine ==
    /\ At("record") /\ Goto("busy")
    /\ engine' = [engine EXCEPT !.rec = IF @ = "none" THEN cmd.engine ELSE @]
    /\ UNCHANGED <<mac, wf, files, box, vm, guest, runner, recorded, up, secrets, wrecked, count>>

\* The operation is recorded as in progress only now.
MarkInProgress ==
    /\ At("busy") /\ wf' = <<"inProgress", cmd.op>> /\ Goto("clear")
    /\ UNCHANGED <<mac, files, box, host, secrets, wrecked, count>>

-----------------------------------------------------------------------------
(* Start, up to the container *)

\* startPreparedLocalRuntime removes what an earlier kill left, and on a host checks
\* the container host again.
ClearBootstrap ==
    /\ At("clear") /\ boot' = NoPw /\ killed' = FALSE
    /\ IF mac THEN Goto("vm") /\ UNCHANGED up
       ELSE /\ EnsureStartable(cmd.engine)
            /\ IF up' THEN Goto("adopt") ELSE Err("started")
    /\ UNCHANGED <<mac, wf, files, box, vm, guest, runner, recorded, engine, sec, cred, dbPw,
                   wrecked, count>>

\* The runner starts the VM; a container that may restart does so or not.  It may also
\* fail: with an endpoint reported the VM stays, on a taken port it is stopped.
StartVM ==
    /\ At("vm")
    /\ \/ /\ vm' = TRUE /\ Goto("prep") /\ UNCHANGED count
          /\ \/ UNCHANGED box
             \/ /\ ~vm /\ box.st = "exited" /\ box.name = "current" /\ ~box.once
                /\ box' = [box EXCEPT !.st = "running"]
       \/ Trouble /\ Err("started") /\ vm' \in BOOLEAN /\ (vm => vm') /\ UNCHANGED box
       \/ /\ Trouble /\ vm' = FALSE /\ box' = Stopped
          /\ cmd' = [cmd EXCEPT !.pc = "started", !.err = "port"]
    /\ UNCHANGED <<mac, wf, files, guest, runner, recorded, engine, up, secrets, wrecked>>

\* macDataMigration.prepare: the marker, both populated, nothing to migrate, or stop
\* Nano and copy.
MigrationPrepare ==
    /\ At("prep")
    /\ IF ~MarkerMatches("target") /\ Populated("source") /\ Populated("target")
       THEN Err("abort")
       ELSE Goto(IF fs["source"] = "absent" THEN "adopt" ELSE "prepStop")
    /\ UNCHANGED <<others, count>>

MigrationStopNano ==
    /\ At("prepStop") /\ Reachable /\ RemoveCurrent
    /\ Goto(IF MarkerMatches("target") \/ ~Populated("source") THEN "adopt" ELSE "reset")
    /\ UNCHANGED <<mac, wf, layout, newest, host, secrets, wrecked, count>>

\* Mutant: a staging directory is published whether or not it is marked.
ResumeUnmarkedStaging ==
    /\ At("reset") /\ Goto(IF fs["staging"] # "absent" THEN "publish" ELSE "copy")
    /\ UNCHANGED <<others, count>>

\* resetOrResumeStaging: only a marked staging directory is published as it is.
ResetOrResumeStaging ==
    /\ At("reset")
    /\ IF fs["staging"] # "absent" /\ MarkerMatches("staging")
       THEN Goto("publish") /\ UNCHANGED fs
       ELSE Goto("copy") /\ fs' = [fs EXCEPT !["staging"] = "absent"]
    /\ UNCHANGED <<mac, wf, layout, newest, box, host, secrets, wrecked, count>>

\* copyAndPublish: the copy is there in part before it is there in full.
CopySource ==
    /\ At("copy")
    /\ fs' = [fs EXCEPT !["staging"] = "partial"] /\ Goto("copied")
    /\ UNCHANGED <<mac, wf, layout, newest, box, host, secrets, wrecked, count>>

CopiedSource ==
    /\ At("copied")
    /\ fs' = [fs EXCEPT !["staging"] = fs["source"]] /\ Goto("mark")
    /\ UNCHANGED <<mac, wf, layout, newest, box, host, secrets, wrecked, count>>

MarkStaging ==
    /\ At("mark") /\ layout' = layout \cup {"staging"} /\ Goto("publish")
    /\ UNCHANGED <<mac, wf, fs, newest, box, host, secrets, wrecked, count>>

\* publish: a populated target is refused, an empty one is removed, then the rename.
Publish ==
    /\ At("publish")
    /\ IF Populated("target") THEN Err("abort") /\ UNCHANGED fs
       ELSE fs' = [fs EXCEPT !["target"] = "absent"] /\ Goto("publishRename")
    /\ UNCHANGED <<mac, wf, layout, newest, box, host, secrets, wrecked, count>>

PublishRename ==
    /\ At("publishRename")
    /\ fs' = [fs EXCEPT !["target"] = fs["staging"], !["staging"] = "absent"]
    /\ layout' = IF MarkerMatches("staging") THEN {"target"} ELSE layout
    /\ Goto("adopt")
    /\ UNCHANGED <<mac, wf, newest, box, host, secrets, wrecked, count>>

-----------------------------------------------------------------------------
(* NanoInstall.Start *)

\* adoptLegacyContainerName: an old name becomes the current one if that is free.
AdoptLegacyContainerName ==
    /\ At("adopt") /\ Reachable /\ Goto("overlay")
    /\ box' = IF mac /\ Seen /\ box.name = "legacy"
              THEN [box EXCEPT !.name = "current"] ELSE box
    /\ UNCHANGED <<mac, wf, files, host, secrets, wrecked, count>>

\* migrateOverlayDataIfNeeded: only a container without a bind mount is migrated, and
\* only into a directory without data.  The container's status is read once, here.
MigrateOverlayDataIfNeeded ==
    /\ At("overlay") /\ Reachable
    /\ IF ~Exists("current") \/ box.data # "overlay"
       THEN cmd' = [cmd EXCEPT !.pc = "recover", !.running = Alive]
       ELSE IF Populated("target") THEN Err(Abort)
       ELSE Goto("ovStop")
    /\ UNCHANGED <<others, count>>

\* Mutant: the container is stopped the way NanoInstall.Stop does it.
OverlayStopRemoves ==
    /\ At("ovStop") /\ Reachable /\ RemoveCurrent /\ Goto("ovCopy")
    /\ UNCHANGED <<mac, wf, layout, newest, host, secrets, wrecked, count>>

OverlayStop ==
    /\ At("ovStop") /\ Reachable /\ box' = Stopped /\ Goto("ovCopy")
    /\ UNCHANGED <<mac, wf, files, host, secrets, wrecked, count>>

\* MkdirTemp and CopyFrom; a failing copy removes the staging directory and keeps the
\* container.
OverlayCopy ==
    /\ At("ovCopy")
    /\ \/ /\ Reachable /\ UNCHANGED count
          /\ fs' = [fs EXCEPT !["staging"] = "partial"] /\ Goto("ovCopied")
       \/ /\ Fails(Abort) \/ (~Reachable /\ Err(Abort) /\ UNCHANGED count)
          /\ fs' = [fs EXCEPT !["staging"] = "absent"]
    /\ UNCHANGED <<mac, wf, layout, newest, box, host, secrets, wrecked>>

OverlayCopied ==
    /\ At("ovCopied")
    /\ fs' = [fs EXCEPT !["staging"] = fs["overlay"]] /\ Goto("ovInstall")
    /\ UNCHANGED <<mac, wf, layout, newest, box, host, secrets, wrecked, count>>

\* installOverlayDataAtomically: the empty directory goes, the staged one is renamed;
\* a failing rename puts an empty directory back.
InstallOverlayData ==
    /\ At("ovInstall")
    /\ IF Populated("target") THEN Err(Abort) /\ UNCHANGED fs
       ELSE fs' = [fs EXCEPT !["target"] = "absent"] /\ Goto("ovRename")
    /\ UNCHANGED <<mac, wf, layout, newest, box, host, secrets, wrecked, count>>

OverlayRename ==
    /\ At("ovRename")
    /\ \/ /\ fs' = [fs EXCEPT !["target"] = fs["staging"], !["staging"] = "absent"]
          /\ Goto("ovRemove") /\ UNCHANGED count
       \/ Fails(Abort) /\ fs' = [fs EXCEPT !["target"] = "empty"]
    /\ UNCHANGED <<mac, wf, layout, newest, box, host, secrets, wrecked>>

OverlayRemove ==
    /\ At("ovRemove") /\ Reachable /\ Removed /\ Goto("recover")
    /\ UNCHANGED <<mac, wf, layout, newest, host, secrets, wrecked, count>>

\* recoverIncompleteInitialCreate: an initial create that did not finish is stopped,
\* removed and set aside.  Otherwise a running container is all Start wants.
RecoverIncompleteInitialCreate ==
    /\ At("recover")
    /\ Goto(IF fs["target"] = "creating" THEN "recStop"
            ELSE IF cmd.running THEN "artifacts" ELSE "data")
    /\ UNCHANGED <<others, count>>

RecoverStop ==
    /\ At("recStop") /\ Reachable /\ RemoveCurrent /\ Goto("recRename")
    /\ UNCHANGED <<mac, wf, layout, newest, host, secrets, wrecked, count>>

RecoverRename ==
    /\ At("recRename") /\ Goto("recMkdir")
    /\ fs' = [fs EXCEPT !["quarantine"] = fs["target"], !["target"] = "absent"]
    /\ UNCHANGED <<mac, wf, layout, newest, box, host, secrets, wrecked, count>>

RecoverMkdir ==
    /\ At("recMkdir") /\ Goto("data") /\ fs' = [fs EXCEPT !["target"] = "empty"]
    /\ UNCHANGED <<mac, wf, layout, newest, box, host, secrets, wrecked, count>>

\* prepareDataDir and isFreshDeployment
PrepareDataDir ==
    /\ At("data")
    /\ fs' = [fs EXCEPT !["target"] = IF @ = "absent" THEN "empty" ELSE @]
    /\ cmd' = [cmd EXCEPT !.pc = "image", !.fresh = fs["target"] \notin Complete]
    /\ UNCHANGED <<mac, wf, layout, newest, box, host, secrets, wrecked, count>>

\* The image, the script language containers, sync and the network; a fresh database
\* then needs its first password: the stored one if it was generated here.
LoadImage ==
    /\ At("image") /\ Reachable
    /\ Goto(IF ~cmd.fresh THEN "create"
            ELSE IF cred.gen /\ sec # NoPw THEN "pwFile" ELSE "pwSecret")
    /\ UNCHANGED <<others, count>>

\* resolveLocalInitialPassword: secrets.json first, then the marker.
StorePassword ==
    /\ At("pwSecret") /\ Goto("pwMark")
    /\ sec' = count.pw + 1 /\ count' = [count EXCEPT !.pw = @ + 1]
    /\ UNCHANGED <<mac, wf, files, box, host, cred, boot, dbPw, killed, wrecked>>

MarkPasswordGenerated ==
    /\ At("pwMark") /\ Goto("pwFile") /\ cred' = [gen |-> TRUE, ver |-> FALSE]
    /\ UNCHANGED <<mac, wf, files, box, host, sec, boot, dbPw, killed, wrecked, count>>

\* writeBootstrapPassword
WriteBootstrapPassword ==
    /\ At("pwFile") /\ Goto("create") /\ boot' = sec
    /\ UNCHANGED <<mac, wf, files, box, host, sec, cred, dbPw, killed, wrecked, count>>

\* nanoRunSpec: a restart would replay the arguments, so the container that gets the
\* initial password must not restart.
NanoRunSpec == [st |-> "running", name |-> "current", data |-> "target", once |-> cmd.fresh,
                engine |-> cmd.engine]

\* Create with Replace.  A failing create removes the password file; a taken port is told apart on a host.
CreateContainer ==
    /\ At("create")
    /\ \/ /\ Reachable /\ Goto("artifacts")
          /\ box' = NanoRunSpec
          /\ fs' = [fs EXCEPT !["overlay"] = "absent"]
          /\ UNCHANGED <<boot, count>>
       \/ /\ \/ Fails(Abort)
             \/ ~Reachable /\ Err(Abort) /\ UNCHANGED count
             \/ ~mac /\ Trouble /\ cmd' = [cmd EXCEPT !.pc = "started", !.err = "port"]
          /\ boot' = IF cmd.fresh THEN NoPw ELSE boot
          /\ UNCHANGED <<box, fs>>
    /\ UNCHANGED <<mac, wf, layout, newest, host, sec, cred, dbPw, killed, wrecked>>

\* stopAfterStartFailure
AbortStart ==
    /\ At("abort") /\ VMExits /\ Goto("started")
    /\ UNCHANGED <<mac, wf, files, guest, runner, recorded, engine, up, secrets, wrecked, count>>

-----------------------------------------------------------------------------
(* startPreparedLocalRuntime, after Start *)

\* writeLocalDeploymentArtifacts and ensureLocalSecrets: a missing password is replaced
\* by the default one only if none was generated.
WriteArtifacts ==
    /\ At("artifacts")
    /\ IF sec = NoPw /\ cred.gen THEN Err("started") /\ UNCHANGED sec
       ELSE Goto("wait") /\ sec' = IF sec = NoPw THEN DefaultPw ELSE sec
    /\ UNCHANGED <<mac, wf, files, box, host, cred, boot, dbPw, killed, wrecked, count>>

\* The database answers, with its password.
Ready == Exists("current") /\ box.st = "running" /\ Reachable /\ fs[box.data] \in Complete
DbPassword == IF fs[box.data] \in Legacy THEN DefaultPw ELSE dbPw

\* Mutant: the wait has no bound.
WaitForever ==
    /\ At("wait") /\ Ready /\ Goto(IF mac THEN "finMark" ELSE "started")
    /\ UNCHANGED <<others, count>>

\* WaitForLocalDatabaseStarted, bounded by its timeout
WaitForDatabase ==
    /\ At("wait")
    /\ \/ Ready /\ Goto(IF mac THEN "finMark" ELSE "started") /\ UNCHANGED count
       \/ Trouble /\ Err("started")
       \/ ~Ready /\ Err("started") /\ UNCHANGED count
    /\ UNCHANGED others

\* macDataMigration.finalize: the target is marked, the guest's directory retired.
FinalizeMark ==
    /\ At("finMark") /\ Goto("finRetire") /\ layout' = layout \cup {"target"}
    /\ UNCHANGED <<mac, wf, fs, newest, box, host, secrets, wrecked, count>>

FinalizeRetire ==
    /\ At("finRetire")
    /\ IF fs["source"] # "absent" /\ fs["backup"] # "absent"
       THEN Err("started") /\ UNCHANGED fs
       ELSE /\ Goto("started")
            /\ fs' = IF fs["source"] = "absent" THEN fs
                     ELSE [fs EXCEPT !["backup"] = fs["source"], !["source"] = "absent"]
    /\ UNCHANGED <<mac, wf, layout, newest, box, host, secrets, wrecked, count>>

VerificationPending == cred.gen /\ ~cred.ver

\* Mutant: a database that is up is taken as verified.
StartedUnverified ==
    /\ At("started") /\ Goto("unboot") /\ UNCHANGED <<others, count>>

\* localCredentialVerificationPending is read after the start.
AfterStart ==
    /\ At("started")
    /\ Goto(IF ~VerificationPending THEN "unboot"
            ELSE IF cmd.err = "none" THEN "verify" ELSE "unverified")
    /\ UNCHANGED <<others, count>>

\* verifyLocalStoredCredential
VerifyStoredCredential ==
    /\ At("verify")
    /\ IF Ready /\ sec = DbPassword THEN Goto("verified") ELSE Err("unverified")
    /\ UNCHANGED <<others, count>>

MarkPasswordVerified ==
    /\ At("verified") /\ Goto("unboot") /\ cred' = [gen |-> TRUE, ver |-> TRUE]
    /\ UNCHANGED <<mac, wf, files, box, host, sec, boot, dbPw, killed, wrecked, count>>

\* An unverified database is stopped, so that a retry starts from the stored password.
StopUnverified ==
    /\ At("unverified") /\ cmd' = [cmd EXCEPT !.pc = "rtStop", !.ret = "unboot"]
    /\ UNCHANGED <<others, count>>

RemoveBootstrap ==
    /\ At("unboot") /\ boot' = NoPw /\ Goto("result")
    /\ UNCHANGED <<mac, wf, files, box, host, sec, cred, dbPw, killed, wrecked, count>>

\* Runtime.Stop: the container is removed if the VM or the host runs, then the VM stops.
RuntimeStop ==
    /\ At("rtStop") /\ (~mac => Reachable)
    /\ IF mac /\ ~vm THEN UNCHANGED <<box, fs>> ELSE RemoveCurrent
    /\ Goto(IF mac THEN "rtVM" ELSE cmd.ret)
    /\ UNCHANGED <<mac, wf, layout, newest, host, secrets, wrecked, count>>

RuntimeStopVM ==
    /\ At("rtVM") /\ VMExits /\ Goto(cmd.ret)
    /\ UNCHANGED <<mac, wf, files, guest, runner, recorded, engine, up, secrets, wrecked, count>>

\* updateLocalDeploymentArtifactState after a stop
UpdateArtifactState ==
    /\ At("artifactState") /\ Goto("result") /\ UNCHANGED <<others, count>>

End(state) == wf' = state /\ cmd' = NoCmd

\* The end of runDeployBackend, runStartBackend and runStopBackend, with
\* recordDeployFailure and recordLifecycleFailure.
Result ==
    /\ At("result")
    /\ CASE cmd.err = "none" ->
              End(<<IF cmd.op = "stop" THEN "stopped" ELSE "running", "none">>)
         [] cmd.op = "deploy" /\ cmd.err = "port" -> End(<<"initialized", "none">>)
         [] cmd.op = "deploy" /\ cmd.err = "fail" -> End(<<"failed", "none">>)
         [] cmd.op # "deploy" /\ cmd.err = "port" -> End(<<"stopped", "none">>)
         [] cmd.op # "deploy" /\ cmd.err = "fail" -> Goto("probe") /\ UNCHANGED wf
    /\ UNCHANGED <<mac, files, box, host, secrets, wrecked, count>>

\* restoreLocalStateAfterFailure: a Docker that does not answer leaves the operation
\* interrupted; a runtime that still runs is stopped; a probe that fails counts as not
\* running.
ProbeAfterFailure ==
    /\ At("probe")
    /\ EnsureStartable(cmd.engine)
    /\ \/ ~mac /\ ~up' /\ End(<<"interrupted", cmd.op>>) /\ UNCHANGED count
       \/ /\ (mac \/ up') /\ UNCHANGED count
          /\ IF Alive
             THEN cmd' = [cmd EXCEPT !.pc = "rtStop", !.ret = "restored"] /\ UNCHANGED wf
             ELSE End(<<"stopped", "none">>)
       \/ (mac \/ up') /\ Trouble /\ End(<<"stopped", "none">>)
    /\ UNCHANGED <<mac, files, box, vm, guest, runner, recorded, engine, secrets, wrecked>>

\* stopLocalRuntimeAfterFailure succeeded, or did not; a failed destroy ends the same way.
RestoreState ==
    /\ \/ At("restored") /\ End(<<"stopped", "none">>)
       \/ At("giveUp") /\ End(<<"interrupted", cmd.op>>)
    /\ UNCHANGED <<mac, files, box, host, secrets, wrecked, count>>

-----------------------------------------------------------------------------
(* Destroy *)

\* MacVMRuntime.cleanupBeforeDestroy and NanoInstall.Destroy
DestroyContainer ==
    /\ At("dBox")
    /\ IF mac /\ ~(guest.dir /\ vm) THEN Goto("dFiles") /\ UNCHANGED <<box, fs>>
       ELSE Reachable /\ RemoveCurrent /\ Goto(IF mac THEN "dVM" ELSE "dFiles")
    /\ UNCHANGED <<mac, wf, layout, newest, host, secrets, wrecked, count>>

DestroyStopVM ==
    /\ At("dVM") /\ VMExits /\ Goto("dFiles")
    /\ UNCHANGED <<mac, wf, files, guest, runner, recorded, engine, up, secrets, wrecked, count>>

\* HostQuarantinedDataDirs: what recovery has set aside.
QuarantinedDataDirs == {i \in {"quarantine"} : fs[i] # "absent"}

\* What is left under the runtime's directory.
Left ==
    QuarantinedDataDirs \cup {i \in {"target", "staging"} : fs[i] # "absent"}
    \cup {i \in {"vm"} : guest.dir} \cup {i \in {"boot"} : boot # NoPw}
    \cup {i \in {"cred"} : cred # NoCred} \cup {i \in {"version"} : recorded # 0}
    \cup {i \in {"engine"} : engine.rec # "none"}

\* removeNanoData, then removeRuntimeFiles with the engine record last; on macOS the
\* whole directory, in the order the file system lists it.
Removable ==
    IF mac THEN Left
    ELSE IF (Left \cap {"target"}) \cup QuarantinedDataDirs # {}
         THEN (Left \cap {"target"}) \cup QuarantinedDataDirs
    ELSE IF Left # {"engine"} THEN Left \ {"engine"} ELSE Left

RemoveItem(i) ==
    /\ At("dFiles") /\ i \in Removable
    /\ fs' = [p \in Places |->
                IF p = i \/ (i = "vm" /\ p \in {"source", "backup", "overlay"})
                THEN "absent" ELSE fs[p]]
    /\ layout' = layout \ {i}
    /\ guest' = IF i = "vm" THEN [dir |-> FALSE, ver |-> 0] ELSE guest
    /\ box' = IF i = "vm" THEN NoBox ELSE box
    /\ boot' = IF i = "boot" THEN NoPw ELSE boot
    /\ cred' = IF i = "cred" THEN NoCred ELSE cred
    /\ recorded' = IF i = "version" THEN 0 ELSE recorded
    /\ engine' = IF i = "engine" THEN [engine EXCEPT !.rec = "none"] ELSE engine
    /\ UNCHANGED <<mac, wf, newest, vm, runner, up, sec, dbPw, killed, wrecked, cmd, count>>

RemovedAll ==
    /\ At("dFiles") /\ Left = {} /\ Goto("dSecrets") /\ UNCHANGED <<others, count>>

\* destroyLocalRuntime removes secrets.json; runDestroyBackend commits the state.
RemoveSecrets ==
    /\ At("dSecrets") /\ sec' = NoPw /\ Goto("dDone")
    /\ UNCHANGED <<mac, wf, files, box, host, cred, boot, dbPw, killed, wrecked, count>>

DestroyDone ==
    /\ At("dDone") /\ End(<<"initialized", "none">>) /\ wrecked' = FALSE /\ newest' = "none"
    /\ UNCHANGED <<mac, fs, layout, box, host, secrets, count>>

-----------------------------------------------------------------------------
(* What moves outside the launcher *)

Serving == box.st = "running" /\ box.data = "target" /\ (IF mac THEN vm ELSE up)

\* Nano creates a database in an empty directory, with the password it is given; when
\* the file is gone it gives up or uses the default one.
NanoCreates ==
    /\ Serving /\ fs["target"] = "empty"
    /\ fs' = [fs EXCEPT !["target"] = "creating"]
    /\ dbPw' = IF box.once /\ boot # NoPw THEN boot ELSE DefaultPw
    /\ UNCHANGED <<mac, wf, layout, newest, box, host, sec, cred, boot, killed, wrecked, cmd,
                   count>>

NanoCreated ==
    /\ Serving /\ fs["target"] = "creating" /\ fs' = [fs EXCEPT !["target"] = "fresh"]
    /\ UNCHANGED <<mac, wf, layout, newest, box, host, secrets, wrecked, cmd, count>>

\* A container that may restart is restarted.
NanoDies ==
    /\ Trouble /\ Serving /\ box.once /\ box' = Stopped
    /\ UNCHANGED <<mac, wf, files, host, secrets, wrecked, cmd>>

\* The user works with the database once a command has said that it is ready.
UserWrites ==
    /\ Serving /\ At("idle") /\ wf[1] = "running"
    /\ fs["target"] \in {"legacy", "fresh"}
    /\ newest' = (IF fs["target"] = "legacy" THEN "legacyNew" ELSE "freshNew")
    /\ fs' = [fs EXCEPT !["target"] = newest']
    /\ UNCHANGED <<mac, wf, layout, box, host, secrets, wrecked, cmd, count>>

\* The Podman machine or the VM stops outside the launcher; Docker only stops answering.
HostStops ==
    /\ Trouble
    /\ IF mac THEN vm /\ vm' = FALSE /\ UNCHANGED up
       ELSE up /\ up' = FALSE /\ UNCHANGED vm
    /\ box' = IF mac \/ box.engine = "podman" THEN Stopped ELSE box
    /\ UNCHANGED <<mac, wf, files, guest, runner, recorded, engine, secrets, wrecked, cmd>>

\* Another launcher, or another runner override, between two commands.
RunnerChanges ==
    /\ mac /\ At("idle") /\ count.commands < MaxCommands
    /\ runner' \in 1..MaxRunner /\ (IF Downgrades THEN runner' # runner ELSE runner' > runner)
    /\ UNCHANGED <<mac, wf, files, box, vm, guest, recorded, engine, up, secrets, wrecked, cmd,
                   count>>

\* A signal while a handler is registered: the state is recorded as interrupted, and
\* deploy and start remove the password file.
Registered ==
    cmd.pc \notin PrepareSteps \cup {"idle", "busy", "result", "probe", "restored", "giveUp",
                                     "dDone"}
    /\ ~(cmd.pc \in {"rtStop", "rtVM"} /\ cmd.ret = "restored")
Interrupt ==
    /\ Trouble /\ Registered /\ End(<<"interrupted", cmd.op>>)
    /\ boot' = IF cmd.op \in {"deploy", "start"} /\ ~At("clear") THEN NoPw ELSE boot
    /\ UNCHANGED <<mac, files, box, host, sec, cred, dbPw, killed, wrecked>>

Kill ==
    /\ Trouble /\ ~At("idle") /\ cmd' = NoCmd /\ killed' = TRUE
    /\ UNCHANGED <<mac, wf, files, box, host, sec, cred, boot, dbPw, wrecked>>

Prepare ==
    \/ PrepareVM \/ StopVMBeforeGuestReplacement \/ GuestInit \/ GuestDone
    \/ WriteRunnerVersionMarker \/ PrepareHost \/ RecordContainerEngine \/ MarkInProgress
Migrate ==
    \/ MigrationPrepare \/ MigrationStopNano \/ ResetOrResumeStaging \/ CopySource
    \/ CopiedSource \/ MarkStaging \/ Publish \/ PublishRename
Install ==
    \/ AdoptLegacyContainerName \/ MigrateOverlayDataIfNeeded \/ OverlayStop \/ OverlayCopy
    \/ OverlayCopied \/ InstallOverlayData \/ OverlayRename \/ OverlayRemove
    \/ RecoverIncompleteInitialCreate \/ RecoverStop \/ RecoverRename \/ RecoverMkdir
    \/ PrepareDataDir \/ LoadImage \/ StorePassword \/ MarkPasswordGenerated
    \/ WriteBootstrapPassword \/ CreateContainer
Finish ==
    \/ AbortStart \/ WriteArtifacts \/ WaitForDatabase \/ FinalizeMark \/ FinalizeRetire
    \/ AfterStart \/ VerifyStoredCredential \/ MarkPasswordVerified \/ StopUnverified
    \/ RemoveBootstrap \/ RuntimeStop \/ RuntimeStopVM \/ UpdateArtifactState \/ Result
    \/ ProbeAfterFailure \/ RestoreState
Destroy ==
    \/ DestroyContainer \/ DestroyStopVM \/ RemovedAll \/ RemoveSecrets \/ DestroyDone
    \/ \E i \in Left : RemoveItem(i)
Launcher ==
    Prepare \/ ClearBootstrap \/ StartVM \/ Migrate \/ Install \/ Finish \/ Destroy \/ CallFails
Commands ==
    \/ BeginDeploy \/ BeginStart \/ BeginStop \/ BeginDestroy
    \/ \E choice \in {"auto", "podman", "docker"} : ConfigureEngine(choice)
Outside ==
    \/ NanoCreates \/ NanoCreated \/ NanoDies \/ UserWrites \/ HostStops \/ RunnerChanges
    \/ Interrupt \/ Kill

Next == Launcher \/ Commands \/ Outside

\* The launcher's process and Nano take their steps.
Spec == Init /\ [][Next]_vars /\ WF_vars(Launcher) /\ WF_vars(NanoCreates \/ NanoCreated)

-----------------------------------------------------------------------------
(* Properties *)

\* Whatever fails, is interrupted or is killed, the user's newest data are complete in
\* some place until a destroy is asked for: no migration step removes a place before
\* the copy of it is installed, and nothing replaces the database that is in use.
DataKept == newest # "none" /\ ~wrecked => \E p \in Places : fs[p] = newest

\* A database that is started on the data directory is the user's: a fresh one is
\* never created beside the data of an earlier layout, and an old copy never replaces
\* what the user has changed since the migration, and a part of a copy is never used.
ServedIsNewest ==
    Serving /\ ~wrecked =>
        /\ fs["target"] # "partial"
        /\ fs["target"] \in Complete => newest \in {"none", fs["target"]}

\* After a deploy or start that reports success the stored password opens the database,
\* also after failed, interrupted and killed first initialisations.
CredentialMatches ==
    At("idle") /\ wf[1] = "running" /\ Serving /\ fs["target"] \in Complete /\ ~wrecked =>
        sec = DbPassword

\* A command that ends by itself or by a signal leaves no file with the password but
\* secrets.json; one that is killed is cleaned up after by the next start.
BootstrapGone == At("idle") /\ ~killed => boot = NoPw

\* The password of the database is in secrets.json and nowhere else.
PasswordsKept == CredentialMatches /\ BootstrapGone

\* The VM never runs while its guest is rewritten, and it runs the guest that the
\* recorded runner completed.  A destroy that stopped between the VM directory and the
\* version record leaves a record without a guest, which a later start takes for one.
GuestIntact == vm /\ ~wrecked => guest.ver # 0 /\ guest.ver = recorded

\* The container is with the engine that every later command will ask, so that stop,
\* start and destroy find it.
EngineKept == ~mac /\ box.st # "none" => box.engine = ContainerEngine

\* The records beside the runtime are true of it: the runner version of the guest, the
\* engine of the container.
RecordsTrue == GuestIntact /\ EngineKept

\* Every command ends.
CommandsEnd == []<>At("idle")

=============================================================================
