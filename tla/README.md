# Verification of the Exasol Personal launcher

TLA+ specifications of the `exasol` launcher and of the maintenance tool beside
it: the cross-process directory lock, the deployment directory with its
configuration, the deployment lifecycle with its state file and its signal
handling, the local runtimes with their data migrations and passwords, sidecar
services, script language containers, the per-user artifact cache, and the tool
that removes cloud resources left by tests. TLC checks them on small instances;
TLAPS proves every invariant and action property that they check, for every number of
processes, commands and failures, under the assumptions each theorem states. All paths
below are relative to the repository.

## 1. The system

The launcher is a Go command-line program. Each command is a short-lived
process; there is no daemon. What several processes share is on the disk: the
deployment directory (lock marker, launcher-state file, OpenTofu files, secrets)
and the per-user artifact cache (lock marker, `index.json`, artifacts), besides
the resources a deployment consists of: cloud machines that OpenTofu manages, or
a local container or VM.

| Component | State | Operations | Interactions |
|---|---|---|---|
| Directory mutex, `internal/directorymutex` | the name of a marker file: exclusive, or shared with a count | `WithShared`, `WithExclusive`, `ClearLock`, `Status` | used by every command on a deployment directory (`deploy/locking.go`) and by the cache (`cache_core.go`); registers a signal handler |
| Launcher state, `internal/config` | `.exasolLauncherState.json`: workflow state, versions, preset identity, installed SLCs | read, `SetWorkflowStateAndWrite`, `WriteExasolPersonalState` | read and written by all commands |
| Lifecycle commands, `internal/deploy` | workflow state in memory, backend outcome | deploy, start, stop, destroy, version check, preset backfill | lock, state file, backends, signal handlers |
| Signals and children, `internal/util`, `cmd/exasol/main.go` | registered once-handlers, running OpenTofu commands | `RegisterOnceSignalHandler`, `handleSignal`, `RunInterruptible`, interrupt and wait | handlers of the lock, of the operation, of atomic writes and of the bootstrap password |
| Init, remove, configuration, compatibility, `init.go`, `remove.go`, `configuration.go`, `configure.go`, `local_ports.go`, `internal/compatibility` | the files of the deployment directory | init, install, config get/set/reset, remove, destroy --remove | lock, presets, state file, backends |
| OpenTofu backend, `internal/tofu`, `tofu_backend.go` | variables, plan and state files | configure, prepare, deploy, start, stop, destroy | external program |
| Local runtimes, `local_runtime.go`, `local_credentials.go`, `internal/localruntime`, `internal/localinstall` | container or VM, data directories, engine and version records, passwords | start, stop, migrate, recover, destroy | container engines, VM runner |
| Sidecars, `sidecars.go`, `sidecar_health.go` | `sidecars.yaml`, `sidecars-state.json`, containers, VM forwards | enable, disable, status, reconcile | lock, container engine |
| Script language containers, `slc.go`, `custom_slc.go`, `podman_slc.go` | lists in the state file, staged packages, images, `SCRIPT_LANGUAGES` in the database | install, update, remove, activate after start | lock, state file, engine, database |
| Artifact cache, `internal/runtimeartifacts` | index, fetched files, unpacked trees | `Get`, `Clean`, `Unlock`, list, diagnose | network, Git, embedded data; callers use the paths after the lock is released |
| Cleanup tool, `tools/cleanup` | cloud accounts | discover, show, run | the APIs of four clouds |
| Readiness, task runner, read-only commands (status, info, diag, connect, shell, MCP) | none | | database, SSH, shared lock |

What is hard about it:

- *Interleavings of processes.* The lock reads a directory and then acts on what
  it read; several users of a deployment or of the cache race; some commands read
  before they lock, or give the lock up in the middle.
- *Interleavings of goroutines.* A signal handler runs beside the main goroutine,
  shares its copy of the state, writes the same file and releases the same lock.
- *Failure in the middle.* An operation consists of several tool runs, each of
  which can fail, and is bracketed by two writes of a state file. A cleanup
  removes files before it updates the index; a change of configuration is two
  files; an engine call follows the write of what it is to achieve.
- *Kills and restarts.* A marker, a truncated state file, half an archive, half a
  migrated data directory or a running OpenTofu is left behind.
- *Stale knowledge.* A state says running after the machine was rebooted; a cache
  path is used after the lock is released; a copy of the state read without the
  lock, or before a restart, is written back.
- *Termination.* Waiting for children, for the lock, for a blocked goroutine, for
  a container that keeps being restarted, for a cloud that is slow.

`PROJECT.json` lists these hazards one by one, at the line where they bite, with
the properties that cover them.

## 2. Modules

| Module | What it is |
|---|---|
| `RWLock` | abstract readers-writer lock: sets of readers and writers, atomic acquire and release |
| `DirectoryMutex` | the marker-file protocol, one action per file-system call, shown to implement `RWLock` for exclusive users |
| `Lifecycle` | the lifecycle commands over state file, lock, resources and signals; uses the lock as the atomic one that `ExclusiveImplementsRWLock` justifies |
| `Configuration` | pure operators: overrides, validation, choice of ports |
| `Directory` | the files of a deployment directory under init, config, remove and lifecycle commands of several launcher versions; extends `Configuration`, and has the lock as its markers |
| `LocalRuntime` | start, stop and destroy of the local runtimes: data, passwords, engine, guest |
| `Sidecars` | sidecar commands and reconciliation against a container engine |
| `SLC` | official and custom script language containers |
| `ArtifactCache` | `Get` and `Clean` over index, files and trees |
| `CleanupProviders` | pure operators: what each cloud provider finds, its phases, its handlers |
| `Cleanup` | the processes of the cleanup tool; extends `CleanupProviders` |
| `DirectoryMutexProofs`, `LifecycleProofs`, `DirectoryProofs`, `LocalRuntimeProofs`, `SidecarsProofs`, `SLCProofs`, `ArtifactCacheProofs`, `CleanupProofs` | the theorems, each module about the one it extends |
| `MC*` | model values, instances and symmetry for TLC |

The modules share the lock and the workflow state and cut the rest between them:
`Lifecycle` has signals, goroutines and the bytes of the state file; `Directory`,
`Sidecars`, `SLC` and `LocalRuntime` take deploy, start, stop and destroy as the
steps they make on the state of that module, with their failures.

Operators whose comment starts with "Mutant" are deliberately wrong variants of the
definition after them. No specification uses them; replacing the definition by its
variant makes the property named in `PROJECT.json` fail, which shows that the
property depends on that piece of code.

### DirectoryMutex

`markers` is the set of marker files; a name is 0 (exclusive) or the number of
shared holders. `pc` follows `withLock`: `AcquireFind` is `findMarker` inside
`acquire`, `TryAcquire` the create or rename that acts on its result (`seen`),
`CallbackBegins`/`CallbackReturns` the callback, `ReleaseFind`, `TryRelease`,
`ReleaseRetry` and `ReleaseTimeout` the release loop, `ClearLockFind` and
`ClearLock` the `unlock` command. `Interrupt` and `FinalHandler` are the lock's
own signal handler followed by the end of the process, `InterruptExit` a signal
that arrives while the lock has no handler. A process that dies with the lock is
`orphaned` and counts as its holder. A listing is an instantaneous snapshot,
which is the best case for the protocol.

### Lifecycle

A process is a main goroutine (`pc`) and a signal handler (`sig`) that share
`mem`, the copy of the workflow state. `Begin`, `Acquire`, `Read`,
`ReconcileLocalVMState`, `Decide`, `MarkInProgress`, `RegisterHandler`,
`StartTool`, `ToolEnds`, `UnregisterHandler`, `Record...`, `Unlock`, `Return` is
the path of `Deploy`, `Start`, `Stop` and `Destroy` through their `...Locked` and
`run...Backend` functions. Writing the state file is two steps
(`BeginWrite` truncates, `EndWrite` writes), as in `writeConfig`. Permissions
(`PermitsDeploy`, `PermitsStart`, `PermitsStop`) and the guidance of `status`
(`Guidance`, which also asks a local runtime) are the tables in the code;
`Reconciled` is what start and stop make of the runtime's answer. `Local` selects the backend: a local failed start or
stop probes its runtime and stops it (`RestoreLocalState`, `CleanupEnds`), an
OpenTofu failure is recorded as interrupted. `Signal`, `CallStateHandler`,
`CallLockHandler`, `InterruptChildren`, `WaitForChildren`, `Exit` are
`handleSignal` with its once-handlers in map order, then the final handler of
`main`. What tools do to resources (`Achieved`, `Attempted`), kills, outages and
orphaned tools are external.

### Configuration and Directory

`Configuration` has the three kinds of deployment (OpenTofu, containers on the
host, macOS VM), one variable for those of a preset, the local options ports,
engine and memory, and how overrides are patched, refused and normalised
(`patchConfigurationValues`, `EngineAccepted`, `LocalPortsNeedNormalization`, the
port allocator).

`Directory` keeps each file on its own: `infra` and `inst` are absent, partly
extracted or complete, and their variables files absent, torn or good; `state`
and `marker` are the state file and the version marker; `engine` is the recorded
container engine; `lock` holds the markers of the mutex. A process goes through
the compatibility check (`SeeState`), the checks before the lock
(`EnsureDeploymentDirReady`, `MatchPresets`, `BackfillIdentity`, `CheckRemoval`),
`Acquire` or `AcquireTimeout`, and one action per file it writes or removes; each
of these can fail or be the last before a kill. `Prepare`, `Operate`, `Finish` is
a lifecycle command, as far as the configuration is concerned; it writes the copy of the
state that it read in `Prepare`. `live` and
`chosen` record what the resources were made with and what the user asked for;
`lost` that the unlocked backfill has written back an old state.

### LocalRuntime

`fs` says what each data place holds (inside the container, the source of an
earlier layout, staging, target, backup, quarantine): nothing, a database being
created, part of a copy, or a complete database, old or changed by the user. A
command's `pc` goes through the preparation of VM or engine, the bootstrap
password, the macOS data migration (`MigrationPrepare`, `ResetOrResumeStaging`,
`CopySource`, `MarkStaging`, `Publish`, `PublishRename`, `FinalizeMark`,
`FinalizeRetire`) or the Podman one, the start of Nano, the check of the stored
password, or through the parts of destroy in their order. Nano, the user, the
host and the runner move by themselves (`Outside`), calls fail, `Interrupt` runs
the registered handler and ends the process, `Kill` only ends it.

### Sidecars

`saved` and `version` are `sidecars.yaml`, `failures` is `sidecars-state.json`,
`ctr`, `fwd`, `db`, `attach`, `host` what the engine and the VM have. A command
is `EnableSidecar`, `DisableSidecar`, a status or a lifecycle command, followed by
`ApplySidecars`, `Ensure` for each wanted sidecar, `RemoveUndesired`, `Publish`,
the records, `Status`, `VerifyDisable` and `AwaitHealth`. Two definitions of a
sidecar are told apart by a version, which stands for the fingerprint.

### SLC

`file` is the state file, written as the whole of a copy that was read earlier.
`langs` is `SCRIPT_LANGUAGES`, `store` the images, `packages` the staged
packages, `available` what the last start mounted. Two variables only remember:
`wiped` which recorded containers a destroy has taken the database and the package
from, `half` which a removal has deactivated in the database while the record is
still there. Custom commands run under the
lock; official ones read and write without it; both give it up for the restart
(`StopBegin` to `StartCommit`), after which the custom ones are activated
(`ReconcileCustomSLCs`, `ActivateWrite`) and checked (`VerifyCustom`).

### ArtifactCache

For each key there is the fetched file (`artifact`), the unpacked tree (`files`:
which versions have files in it; `whole`: the version that is there completely)
and the index entry, whose last use is `fresh` or `old`. `Get` is `Resolve`,
`Fetch`, `Verify`, `Extract`, `RecordEntry`, then the cleanup that may be due
(`PlanAfterGet`, `RemoveEntry`, `Removed`) and `WriteIndex`; `Clean` is
`PlanClean` and the same steps, with `RemoveIndex` for a full cleanup. Each step
can fail, and a process can end in the middle of one (`CutShort`). After `Unlock`
the caller uses the path (`using`), and `handed` remembers what it led to.

### CleanupProviders and Cleanup

`Info` is what a cloud knows of a resource (provider, location, type, labels,
times), `cloud` its condition. `CleanupProviders` has, per provider, what the
collectors find with which calls failing, the phases, and what each handler makes
of the cloud's answer: gone, refused because something is attached, still
terminating. `Cleanup` is a process: `BuildPlan`, `CollectLookupIndex` per target,
`LoadDeployment`, `DeleteAction` or `DeleteFails` per action in the order of the
phases, `EndProcess` with its exit code. `TerminationCompletes` is the cloud.
`time` is what a provider tells of a resource, `tagTime` its CreatedAt label, which is
the time of init; `Created`, of which the property about `--older-than` speaks, is the
earliest of both, as it is for the tool. A deployment of exoscale or stackit of which a
failed lookup leaves no time counts as old (`Undated`).

## 3. Runs

| Run | Question | Result |
|---|---|---|
| `mutex_exclusive` | Do exclusive users get the lock of `RWLock`, one at a time, and is the directory always freed again? | yes |
| `mutex_mixed` | With shared users, signals, kills and `unlock`: can anything change a directory with two markers? | no, `unlock` included |
| `lifecycle_local` | For a local deployment that may stop by itself, whichever tool, task or check of an operation fails: can the next command go on, does one tool run at a time, does the state file name its operation, are `stopped` and `initialized` true of the runtime? | yes; the run has no signal, kill, failing write or unlocked backfill, which break it (section 5) |
| `lifecycle_faults` | With kills, full disks, taken ports and unanswered probes, and with the unlocked backfill, is the guidance of `status` runnable? | yes |
| `lifecycle_signal` | OpenTofu commands with failures and signals: is the state true of the resources, a signal recorded, OpenTofu stopped and the process ended? | yes |
| `directory` | Do options keep their values, do all files belong together, is a live deployment never reconfigured, and can one go on after rejected input? | yes |
| `local_runtime` | Are the user's data kept and served, does the stored password open the database, are the records true, does every command end? | yes, but see the next run |
| `local_overlay_stop` | Does a stop keep the data of a deployment whose data are still inside its container? | no (finding) |
| `sidecars` | Has a clean reconciliation converged, is a disabled sidecar gone, does a destroyed deployment keep nothing, does every command end? | yes |
| `slc` | Are aliases disjoint, recorded containers importable, available ones resolvable, successes active, and deferred changes applied by the next start? | yes, but for a removal cut short and a start that finds the database running (section 5) |
| `cache_shared` | Does the cache hand out existing, genuine artifacts and keep them while used? | yes, unless a removal was cut short |
| `cleanup` | Are reports and exit code true, do the phases suffice, do failed listings do no harm, does every process end? | yes |

Several properties are conjunctions of named parts (`AtRestUsable`,
`LocalStateTrue`, `HandedSound`, `ReportsTrue`, `LostListingsHarmless`,
`PasswordsKept`, `RecordsTrue`, `ConfigurationConsistent`); each part has its own
comment. `TypeOK` of every module holds in its run as well; the runs of the modules
whose types are proved list it.

Bounds. `Procs` has three processes for the mutex: a race of two needs a third to
observe or to repair it. Two launchers suffice for the lifecycle, the directory,
the containers and the cache, whose steps under the lock do not depend on how many
are waiting; the proofs of section 4 cover any number. `MaxShared` is 3,
so that counters go up and down through rename. `MaxCommands` is 4 where failures
only are considered (deploy, stop, start, destroy in a row) and 3 with faults;
`MaxCalls` is 3 for the cache (fetch, cleanup, use). `MaxVersion` is 2: genuine and
changed. The cache run has one key of each of three kinds: downloaded with a
checksum and unpacked, embedded and kept as a file, and a local archive; an artifact
without identity and a Git repository are in the specification and in no run.
The proofs (section 4) have corrected two properties that held in the runs because a
bound was too small for their counterexample.
`lifecycle_signal` has one launcher, since its question is about the two goroutines
of one process.

`directory`: one process runs init, config and remove of a launcher of version 2, the
other lifecycle commands and config of version 3, on a directory that does not exist,
has the layout of an early release, or was written by version 1 or 4; one service that is known and one that is not, two
ports, free or both taken, and one kill or failed write. `MaxId` is 2, so that a
deployment can be removed and made again. `local_runtime`: four commands (deploy,
stop, start, destroy) and three things that go wrong, so that a recovery can be cut
short again; two runner versions. `sidecars`: commands are not bounded; one sidecar
of the catalog and one added by hand, a readiness window of two polls, two things
that go wrong. `slc`: three commands of two processes, one failure, two catalog
releases, and three requests that collide in their aliases. `cleanup`: a resource of
every type of every provider, two processes and one failing call, so that the second
process repairs what the first left; young deployments on AWS and Exoscale, which
`--older-than` has to spare; `MaxAttempts` 2 stands for loops of 10 to 60.

What the runs leave out on purpose: `Careful` (`local_runtime`) keeps stop and a
change of engine away from data that are only inside a container, the case of
`local_overlay_stop`; `Downgrades = FALSE` keeps the runner from going back to the
version that is recorded, `OfficialAlone = TRUE` two official SLC commands from
running at the same time, one region per provider and one initialising process the
races of section 5. In each of these cases the code behaves as section 5 says.

Symmetry is over processes, and is not used with liveness properties. Deadlock is
checked where no bound on commands stops the system (`mutex_exclusive`, `sidecars`).

Fairness. `DirectoryMutex`: weak fairness of each process' own steps; a process
inside a call keeps running, since every loop of the code polls and sleeps, and
users' calls are not fair. `Lifecycle`: weak fairness of the signal handler's
steps (the Go scheduler) and of the end of a running tool (OpenTofu terminates on
an interrupt). `Sidecars`, `SLC`, `Cleanup`: weak fairness of the running command's
steps; an outside call returns or fails, as each has a time limit. `LocalRuntime`: the
same, and of Nano creating its database. `Directory` has safety properties only.
Nothing is assumed of the user, of signals, of the cloud or of containers.

## 4. Proofs

TLAPS checks the following for any set of processes and any bounds. The assumptions on
the constants are the `ASSUME`s of the specifications, which TLC evaluates in every run;
where a theorem needs more (no signals, one user at a time) its statement says so, and
`MCDirectory` and `MCCleanup` have these hypotheses as `ASSUME`s of their instances. Each
theorem below rests on an invariant that is inductive, since the property alone is not.
TLC checked these invariants on the instances of section 3 before they were proved.

**The lock** (`DirectoryMutexProofs`)

- `TypeCorrect`: `Spec => []TypeOK`.
- `ExclusiveLockSafe`: without `unlock`, at most one process holds the exclusive
  lock, and its marker is there as long as one does; shared users, signals and
  kills included. `ExclusiveHeldByOne` alone is not inductive: a process about to
  rename or remove a marker acts on a listing, which might name the exclusive
  marker of another process. `ListingsFit` says that it cannot: who releases has
  seen a marker of its own mode, who acquires has not seen the exclusive one.
- `ExclusiveImplementsRWLock`: if all processes use the exclusive mode, each step
  of the protocol is an acquire, a release or a stutter of `RWLock`. It needs the
  same invariant and that nobody becomes a shared user.
- `TwoMarkersStay`: a directory with two markers is never changed again
  (`InvalidIsFinal`), whatever listing a process still holds.

**The lifecycle** (`LifecycleProofs`)

- `LifecycleTypeCorrect`, all faults included. Needs `OperationsOnly`: the program
  points that record an operation are reached only by the four lifecycle operations and
  not by the version check or the backfill, whose names are no operations.
- `OneToolAtATime` and `WorkIsAnnounced`, under `Undisturbed`: no signal, no kill,
  and no command without the lock. `LockInv` ties a tool and an open state file
  to a program point inside the lock, and those points to ownership; `AnnouncedInv`
  says of the second that the file names the operation from the write that announces it
  until the write that ends it, since nobody else writes in between. The assumption is
  needed: a signal releases the lock while OpenTofu still runs, a killed
  launcher leaves its tool running, and the backfill writes without the lock what it
  read before (section 5). Nothing is assumed of the disk: where the announcement cannot
  be written the code logs it and goes on, and the theorem says that the file is then
  unreadable.
- `GuidanceAlwaysRunnable`, all faults included: what `status` recommends, what a
  command makes of the runtime's answer and what it permits agree on every state that is
  ever recorded. They do not agree on every state that can be written down; `NInv` says
  which ones the commands record. The recommendation of `remove` after a stale destroy is
  not part of it: that command is in `Directory`.
- `CaughtNeverResumes` and `InterruptedToolEnds`, for OpenTofu deployments: `SigInv`
  follows the two goroutines of a process through the once-handlers, and says what the
  copy of the state is while the main goroutine is blocked. The second excludes kills.
- `RecordedStateIsTrue` and `LocalRecordIsTrue`: `FitsInv` says that while a tool may
  work on the resources neither the file nor a copy says anything of them, and that the
  copy of a command inside the lock is true. For `Undisturbed` launchers, or for one
  launcher (`Alone`) that may be signalled and killed; of a local runtime, if its ports
  are free and its probe answers (`Calm`). The first excludes a runtime that stops by
  itself. Section 5 has what happens otherwise.
- `NextCommandCanStart`: `AtRestUsable` of `Undisturbed` launchers whose files can be
  written and read. `RestInv`: an unreadable file is being written, and an operation in
  progress has a process that performs it. The theorem is about operations that fail by
  themselves, at whichever tool, task, port or probe; with a kill during a write, a full
  disk or a manifest that cannot be read the code does not keep it (section 5).

**The deployment directory** (`DirectoryProofs`)

`Base` is the types, which command is at which step, and who owns the markers of the lock;
`DirectoryTyped` follows from it. Above it there is an invariant for each question:

- `DirectoryRecoverable`, for any launchers: `Removal` says what a removal has left at each
  of its steps, and that who is in the middle of one will go on.
- `DirectoryEnginePinned`, for any launchers and failures.
- `DirectoryFilesAgree`: `Identity` says whose identity each launcher holds in memory and
  which files it may still write (`Owns`): the copies of the state that are to be written
  back agree with the files, and an initialisation works on a directory of its own.
- `DirectorySetsPersist`: `Values` says that the files hold what was chosen, also where a
  write of the other file is still to come, and that what a command is about to write
  keeps what it does not change (`Computes`).
- `DirectoryConfigurationConsistent`: `Ports` says that the ports of a local deployment are
  distinct where they are chosen, and chosen once it has been prepared, through start, stop
  and reset. It rests on `AllocateBetween`: the allocator returns distinct ports and keeps
  those that were given, by induction on the turns of its loop.
- `DirectoryLiveKeepsConfig`: `Workflow` says what the recorded state tells of the resources,
  and that who may still reconfigure has found a state that permits it.

All but the first two assume `OneInitializer`: at most one launcher runs init or install.
Two of them overwrite each other's deployment (section 5), and the run has one. Other
commands may be as many as one likes, of any versions.

**The local runtimes** (`LocalRuntimeProofs`)

`Base` is the types and which command is at which step; it is inductive by itself and
gives `RuntimeTypeCorrect`. Upon it:

- `DataAreKept` and `NewestIsServed`, from `DInv`. The property that some place holds the
  newest data is not inductive: whether a step may overwrite, rename or remove a place
  depends on what the steps before it have found in the others. `Kept` names the place
  for each kind of data, `Copies` what markers and program points say of a copy, `Served`
  that old data have been copied before anything serves the target, `Overlay` where the
  data inside a container can be, `Guest` and `Engine` which VM and engine hold them.
- `PasswordsAreKept`, from `DInv` and `PInv`: where the stored password may differ from
  the one of the database, a marker says so and the start is not reported as a success.
- `RecordsAreTrue`, from `DInv`, `Versions` and the property itself: between the stop of
  the old guest and the record of the new one the versions differ.

All but the first assume `Careful`, the last `~Downgrades` as well (section 3). Their
assumptions are those of the run; the run `local_overlay_stop` shows that `DataKept`
fails without the first.

**The sidecars** (`SidecarsProofs`)

`SidecarsTypeCorrect`, `ReconciliationConverges`, `DestroyLeavesNothing` and
`DisableRemoves`, without further assumptions and for any set of names. The names are
walked through in some order, which needs a well-founded one (`WellFoundedInduction`).
In `SInv`, `Progress` says what a reconciliation has achieved at each step except for the
names in `fails`, which are what its last step turns into an error; `Standing`, `Within`
and `Disabling` say what holds between commands, inside one, and inside a disable.

**Script language containers** (`SLCProofs`)

- `NoAliasTwice`, without further assumptions, although official commands overwrite each
  other's changes: `AInv` says that each copy of the state file that a command holds
  satisfies the checks that were made on it, so that it may be written at any time.
- `SLCTypeCorrect`, `PackagesKept`, `ListIsTrue`, `SuccessIsTrue` and `StartActivates`
  where no official command runs beside another one (`OfficialAlone`): `LInv` says what
  a command relies on between its steps, which the others leave alone since it holds the
  lock or runs alone. Without the assumption an update can be lost (section 5).
  `ListIsTrue` has two exceptions, a destroy (`wiped`) and a removal that was cut short
  between the database and the state file (`half`), of which it says what the alias
  resolves to instead. `StartActivates` is about a start that starts the database and
  could import every image (`mounted`): it mounts all that is recorded and activates it.
  A start that finds the container running does neither (section 5).

**The cache** (`ArtifactCacheProofs`)

`CacheTypeCorrect`, `GetIsSound`, `CleanAllIsFull` and `UsedArtifactsStay`, for any
artifacts and faults. `CInv` has three parts: what is on the disk (`Sound`), what the
holder of the lock relies on (`Work`: what is fetched is not listed, what will be handed
out has a fresh entry, a copy of the index is never older than the index), and what the
users of a path rely on, who hold no lock (`Use`).

**The cleanup tool** (`CleanupProofs`)

The proofs need little of the tables of `CleanupProviders`: in which phase a type is
(`PhasesOfAws` and its like), what holds a resource has an earlier phase (`HoldersFirst`),
what a handler makes of an answer (`HandleSays`), and that what a complete account shows is
shown as long as it is there (`AwsStill` and its like). Every step of `ExecuteActions` is a
`Turn` of one action. Upon this, and on `Shape` (what is planned is a
resource of the current deployment, where the search has looked):

- `CleanupTyped`, without hypotheses.
- `CleanupReportedSuccessTrue` and `CleanupReportsTrue`. `Clean` keeps the account: each
  resource of a deployment that is or was planned is gone, or a planned action covers it, or
  a failure has been recorded, which makes the exit code an error.
- `CleanupOrderSuffices`. `Waiting` says that what holds a planned resource is planned
  itself, or on its way, or has failed; `Kept` for what reasons a holder fails; `Present`
  that nothing disappears for which "not found" is an error; `Fades` that the cloud only
  becomes emptier.
- `CleanupLostListingsHarmless`. `Sound` says of each summary that its time is a time of the
  deployment (`Dated`) and that one that is called orphaned has no instance (`Orphan`), and
  of what is planned with `--older-than` that its summary is old (`Stale`).

Their hypotheses are about the accounts and are stated in `Cleanup`. `OneLocation` (all but
the first): AWS and Exoscale are searched in one location each. Without it a delete goes to
the wrong region and counts as done (section 5). `Visible` (`CleanupReportsTrue`,
`CleanupOrderSuffices`): in a complete account the plan without `--type` has every resource
of a deployment, which is what the labels and names of the presets are for; what no label
or name shows is left behind. `Settled` (`CleanupOrderSuffices`): at first only instances of
AWS are terminating, and a deployment has one resource group on Azure. `Recognisable`
(`CleanupLostListingsHarmless`): a deployment is of one provider, whose preset labels its
instances as the rest of it, with the time on AWS and Azure.

**What the proofs have changed.** Three properties were not true as first stated, and held
in their runs because the counterexample is longer than the bound of the run, or of an
account that the run did not have:

- `InUseKept` now speaks of artifacts that the index lists. With four calls instead of
  `MaxCalls = 3`, one uses a key, `clean --all` removes it, a `Get` that is killed before
  it writes the index puts it back, and another fetches it again (section 5).
- `GuestIntact` now ends with a destroy, as the data do: a destroy that is cut short, a
  stop, a failing start and a start are five commands with the deploy that comes first,
  and `MaxCommands` is 4 (section 5).

- `LostListingsHarmless` compares with the earliest time that the resources or their labels
  tell, and exempts exactly the deployments of exoscale and stackit without any time. The
  run now has a young deployment of exoscale.

Beside these, lifecycle commands in `Directory` write back the copy of the state that they
read, and not the file's present contents, as `deployLocked` and its like do; the backfill
of the preset identity fails if the directory is gone; and `MigrationStopNano` got the
guard that the VM is reachable, which the code needs to stop the container.

**Only model-checked.** The liveness properties (`AlwaysFreedAgain`, `SignalEndsProcess`,
`ProcessEnds`, `CommandsEnd` of two modules): TLAPS proves no liveness under fairness and
no `ENABLED`. And `DataKept` in `local_overlay_stop`, which is false there. No module has a
`RECURSIVE` operator. Induction is used where a set or a loop is walked through, as
well-foundedness of an order (`WellFoundedInduction`), since the induction theorems with an
operator parameter cannot be used.

## 5. Findings

`local_overlay_stop`: `NanoInstall.Stop` (`podman_install.go:419`) removes the
container by force. A deployment of an earlier release keeps its data inside that
container until the next start migrates them, so that a stop before that start, or
the stop after a failed one, destroys the database.

Behaviour met while modelling that no run is about. Each is a path of the
specification with the constants of section 3 chosen otherwise, or was met while
reading the code for it.

Lock and lifecycle:

- `directorymutex.go:233`. A shared and an exclusive acquire that both read an
  empty directory both create their marker and both enter; `directorymutex.md:46`
  calls the updates linearizable. The directory then has two markers and is refused
  for good, by `unlock` too (`InvalidIsFinal`).
- `directorymutex.go:467`. An unlock timeout is assigned to a variable that is not a
  named result, and is lost; `directorymutex.md:49` says that it is reported. It also
  says that retries are 500 ms apart; the code has 200 ms.
- A signal between acquiring the lock and registering its handler leaves the marker.
- `signal_handler.go:93`. The deployment lock is released by a once-handler, before
  OpenTofu is interrupted and waited for: another launcher can start a second
  OpenTofu on the same directory (`doc/launcher_state.md:69`).
- A signal after the last tool has ended: the main goroutine goes on and may
  overwrite the recorded interruption, or start another tool that outlives it.
- A launcher killed between truncating and writing the state file (`config.go:42`)
  leaves an empty one, which every command refuses; so does a disk that is full. This is
  why `AtRestUsable` is checked and proved without either.
- An unreadable manifest after the operation was recorded leaves deploy and stop in
  progress, until the command is repeated (`deploymentControl.go:616`); `AtRestUsable`
  excludes this as well.
- `deploy.go:187`, `destroy.go:41`, `deploymentControl.go:393` and `:580`. Where
  `operationInProgress` cannot be recorded the error is logged and the tools are
  started, with a file that may be truncated; `doc/launcher_state.md:74` says that it is
  set before external work. `ToolIsAnnounced` allows this one state.
- `preset_identity.go:65` and `configuration.go:306`. The backfill of the preset
  identity writes the whole state without the lock, and `config get` under the shared
  one, over what a lifecycle command has recorded since it read; `doc/launcher_state.md:90`
  says that operations that update the persistent state should use the lock. The official
  SLC commands (`slc.go:217`, `:311`, `:424`) write without it too. This is why
  `ToolIsAnnounced` and `AtRestUsable` exclude the backfill.
- `restoreLocalStateAfterFailure` records stopped when the probe fails for an
  unknown reason, although the runtime may run.
- A taken port during a repeated deploy sets the state back to initialized, also if
  an earlier attempt left something behind.

Deployment directory:

- `init.go:123`. Two inits at the same time both find the directory empty; the later
  one writes over the deployment of the first.
- A failed or killed extraction, or a removal killed after it has deleted the
  infrastructure, leaves a directory that neither init nor remove accepts. The lock of
  a killed init cannot be cleared by `diag unlock`, which asks for an initialised
  directory.
- A kill between the state file and the version marker (`init.go:201`): every command
  but remove refuses the directory, and the error advises init, which refuses it too.
- A command that a remove has overtaken makes the directory again, with only its log.
- An installation value is refused after the infrastructure's file was rewritten
  (`configure.go:103`). A truncated `tfvars` file is read as the defaults; a truncated
  `infrastructure.yaml` makes config fail.
- destroy --remove gives the lock up between its two halves.

Local runtimes:

- `mac_vm_runtime.go:151`. A runner that goes back to the recorded version after a
  replacement was cut short finds no mismatch, and the half-replaced guest is started.
- After a destroy that was cut short, a start may reuse the data with a stored
  password that is not checked.
- A destroy removes the VM's directory before the record of the runner's version. Cut
  short between the two, it leaves a record without a guest; the next start makes a new
  guest, and if that fails midway the start after it takes the record for a complete one.
- A kill between the rename of migrated data and the removal of the old container
  leaves a deployment that start refuses; the stop of the migration does not look for
  the container's earlier name; staging directories of failed starts stay.

Sidecars and script language containers:

- `sidecars.go:670`. The record of failures is replaced by the last reconciliation's:
  a sidecar whose removal failed can be forgotten, and `disable` then has nothing to
  remove (`user-docs/content/sidecars.md:62`).
- `sidecars.go:576`. `status` clears a failure although the VM's forward is still open
  (`sidecars.md:80`).
- `custom_slc.go:657`. `update --no-restart` followed by `remove` leaves the alias in
  the database (`local-slc-management/spec.md:506`).
- `custom_slc.go:739`. A destroy leaves containers recorded as active, which the next
  database does not have (`spec.md:483`).
- `deploymentControl.go:547`. `Stop` returns nil when the lock is held; an official
  install then reports a restart that did not happen (`slc.go:178`).
- Official SLC commands read and write the state without the lock; two of them, or one
  beside a lifecycle command, lose an update.
- A kill between the change of `SCRIPT_LANGUAGES` and the write of the state forgets
  which URI an alias had displaced.
- `custom_slc.go:662` to `:673`. A removal that is killed, or cannot write the state,
  after it has deactivated the alias leaves the container recorded as active: `slc list`
  still shows it as available (`local-slc-management/spec.md:483`), the alias resolves to
  nothing or to the built-in, and an install or update with the same content is left
  undone as unchanged. Repeating the removal, or an update with other content, repairs it.
- `podman_install.go:182`. A start that finds the container running, for example after an
  install with `--no-restart` and a stop that failed, returns before the containers are
  mounted: it succeeds, and what was recorded since the last mount stays inactive until
  a start after a real stop. `local-slc-management/spec.md:190-194` and `:384-396` promise
  it for the next start.

Cache:

- `manager.go:474`. A download that fails its checksum stays at the path the cache
  serves. With an index entry left over from a failed cleanup the next `Get` returns it.
- `cache clean --partial-downloads` cleans a directory that nothing writes to;
  temporary downloads are in the entry's directory.
- After `cache clean --all` a `Get` that is killed before it writes the index leaves a
  fetched artifact that the index does not list. The next `Get` fetches it again over the
  file that a third launcher may be using.
- A local archive is identified by its path: changed content is not unpacked again.
- Unpacking does not clear the tree of an earlier version; a removal that is cut
  short leaves part of a tree, which a later `Get` takes for the whole.
- `cache clean --invalid` also removes local archives and downloads without a
  checksum, for which there is nothing to compare.

Cleanup tool:

- `aws/handlers.go:34`, `exoscale/handlers.go:32`. Handlers are made for the first
  region; deletes of a later one go to the wrong region and count as done.
- `orchestration.go:93`. The status of a search target is written through a pointer
  into a slice that later appends have moved.
- A second page of a bucket, temporary credentials whose removal failed, and parts of an
  exoscale deployment that no label names are left behind.
- `cleanup run` exits with 0 when there is no provider it can search.

## 6. Not modelled

Listed with reasons in `PROJECT.json`. In short: terminal and database I/O (connect,
shell), the rendering of output, the parsing of presets and manifests, the arguments of
external programs, and assets that these programs run. Readiness polling and the task
runner have no state that outlives a call; their outcomes are in `Lifecycle` and
`LocalRuntime`. Inside modelled parts: wall-clock durations (a timeout may happen
whenever the wait is not over); `WriteFileAtomically`, which is one step; and, in
`ArtifactCache`, the window between the release of the lock by a signal and the end of
the process. Signals are in `DirectoryMutex`, `Lifecycle`, `ArtifactCache` and
`LocalRuntime`; in the other modules a process that ends early is one that is killed.

## 7. What could follow

1. That the use of the lock in `Lifecycle` and `Directory` implements `RWLock`.
2. `WriteFileAtomically` with `EnsureOnInterrupt`, and registration of handlers during
   a signal.
3. `CleanupReportsTrue` for several regions, once handlers are made for each.
4. A Git repository and an artifact without identity in a run of the cache.
