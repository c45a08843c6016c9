----------------------------- MODULE Directory -----------------------------
(***************************************************************************)
(* The deployment directory: what `init`, `install`, `config get`, `set`   *)
(* and `reset`, `remove` and `destroy --remove` read and write of it, file *)
(* by file, while several launcher processes use the same directory        *)
(* (internal/deploy/init.go, remove.go, configure.go, configuration.go,    *)
(* preset_identity.go, internal/compatibility and the commands).           *)
(*                                                                         *)
(* The directory mutex and the lifecycle commands have modules of their    *)
(* own.  Here the mutex is its markers (DirectoryMutex), and deploy,       *)
(* start, stop and destroy are what they do to the files this module       *)
(* tracks: Prepare, the state they record, the end (Lifecycle).  An        *)
(* operation that is in progress and one that was interrupted are told     *)
(* apart there, not here.                                                  *)
(***************************************************************************)
EXTENDS Configuration, FiniteSets

CONSTANTS
    Procs,          \* launcher processes
    Kinds,          \* the presets: kinds of deployment
    Commands,       \* the command lines each process may run
    Version,        \* the launcher version of each process
    Written,        \* the versions that may have written the directory it finds
    BusyPorts,      \* the sets of ports other programs may listen on
    MaxId,          \* bound on the deployments initialised
    MaxTrouble      \* bound on killed launchers and failed writes

CommandNames ==
    {"init", "install", "get", "set", "reset", "remove", "purge", "deploy", "start", "stop",
     "destroy"}

\* No option is given; an option that is not named has its default.
NoRaw == [names |-> {}, size |-> "s0", ports |-> AutoPorts, engine |-> "auto", memory |-> "m0",
          level |-> "l0"]
Options == {"size", "ports", "engine", "memory", "level"}

ASSUME DirectoryAssumption ==
    /\ "none" \notin Procs /\ "stale" \notin Procs
    /\ Kinds \subseteq {"cloud", "host", "vm"} 
    /\ \A p \in Procs : \A c \in Commands[p] :
          /\ c \in [cmd : CommandNames, kind : Kinds, raw : Raw]
          /\ \A o \in Options \ c.raw.names : c.raw[o] = NoRaw[o]
    /\ Version \in [Procs -> Nat \ {0}] /\ Written \subseteq Nat \ {0}
    /\ MaxId \in Nat \ {0} /\ MaxTrouble \in Nat

VARIABLES
    dir,        \* the directory, and its entries without content of interest
    infra,      \* infrastructure/: the preset and the configuration it holds
    inst,       \* installation/: the preset and its variables file
    state,      \* the launcher's state file
    marker,     \* the version marker: "none", NoVersion, EmptyMarker or a version
    engine,     \* the container engine recorded for the runtime
    lock,       \* the markers of the directory mutex
    live,       \* the resources of the deployment
    chosen,     \* the raw value last accepted for every option
    proc,       \* the command each process runs
    lost,       \* a write without the lock has overwritten another command's state
    nextId, trouble

files == <<dir, infra, inst, state, marker, engine>>
vars == <<files, lock, live, chosen, proc, lost, nextId, trouble>>

NoVersion == 0
EmptyMarker == -1
NoInfra == [is |-> "none", kind |-> "cloud", file |-> "none", id |-> 0, conf |-> RawDefaults]
NoInst == [is |-> "none", file |-> "none", id |-> 0, level |-> "l0"]
NoState == [is |-> "none", id |-> 0, ident |-> "blank", wf |-> "initialized"]
Anything == [size |-> "any", ports |-> AutoPorts, engine |-> "any", memory |-> "any",
             level |-> "any"]
Idle == [pc |-> "idle", cmd |-> "none", then |-> "none", kind |-> "cloud", raw |-> NoRaw,
         conf |-> RawDefaults, level |-> "l0", old |-> NoState, id |-> 0, ok |-> TRUE]

Lifecycle == {"deploy", "start", "stop", "destroy"}
Presence == {"none", "partial", "full"}
FileStates == {"none", "torn", "good"}

TypeOK ==
    /\ dir \in [root : BOOLEAN, shared : BOOLEAN, log : BOOLEAN, legacy : BOOLEAN]
    /\ infra.is \in Presence /\ infra.file \in FileStates /\ infra.id \in Nat
    /\ inst.is \in Presence /\ inst.file \in FileStates /\ inst.id \in Nat
    /\ inst.level \in {"l0", "l1"}
    /\ infra.conf.size \in {"s0", "s1"} /\ infra.conf.engine \in {"auto", "podman", "docker"}
    /\ infra.conf.memory \in {"m0", "m1"} /\ Parses(infra.conf.ports)
    /\ state.is \in FileStates /\ state.id \in Nat /\ state.ident \in Kinds \cup {"blank"}
    /\ state.wf \in {"initialized", "running", "stopped", "failed"} \cup Lifecycle
    /\ engine \in {"none", "podman", "docker"}
    /\ lock.ex \in Procs \cup {"none", "stale"} /\ lock.sh \subseteq Procs
    /\ lock.left \in BOOLEAN
    /\ live \in {"none", "some", "running", "stopped"}
    /\ \A p \in Procs : proc[p].pc = "idle" <=> proc[p].cmd = "none"
    /\ trouble \in 0..MaxTrouble

-----------------------------------------------------------------------------
(* What the code reads *)

\* config.HasExasolPersonalStateFile
Initialized == state.is # "none"

\* readConfig: a state file that is empty or cut short does not decode.
StateReadable == state.is = "good"

\* Check: a deployment of a newer launcher is refused; no command sets a lower bound.
Check(deploymentVersion, launcherVersion) == deploymentVersion <= launcherVersion

\* EnforceDeploymentDirectoryCompatibility: a state file wants a version marker that
\* is not newer than the launcher; without one only init and install go on.
Compatible(p, mayBeUninitialized) ==
    IF Initialized
    THEN marker \notin {NoVersion, EmptyMarker} /\ Check(marker, Version[p])
    ELSE ~dir.legacy /\ mayBeUninitialized

\* ensureDirectoryIsEmpty: a lock marker is an entry as well.
Empty ==
    /\ ~dir.shared /\ ~dir.log /\ ~dir.legacy /\ infra.is = "none" /\ inst.is = "none"
    /\ ~Initialized /\ marker = NoVersion /\ engine = "none"
    /\ lock.ex = "none" /\ lock.sh = {} /\ ~lock.left

\* ensureRemovableDeploymentDirectory
Removable ==
    /\ dir.root
    /\ \/ Initialized \/ marker # NoVersion \/ dir.legacy
       \/ infra.is = "full" /\ inst.is = "full"

\* WorkflowStatePermitsConfigure
PermitsConfigure ==
    \/ state.wf = "initialized"
    \/ infra.kind # "cloud" /\ state.wf = "stopped"

\* WorkflowStatePermitsDeploy, workflowStatePermitsStart and workflowStatePermitsStop.
Permits(op) ==
    CASE op = "deploy" -> state.wf \in {"initialized", "failed", "running", "deploy"}
      [] op = "start" -> state.wf \in {"stopped", "start", "stop"}
      [] op = "stop" -> state.wf \in {"running", "start", "stop", "destroy"}
      [] OTHER -> TRUE

\* readExtractedManifests and ReadConfiguration: an empty tfvars file reads as the
\* defaults, an empty infrastructure.yaml or variables file does not parse.
ManifestReadable == infra.is = "full" /\ (infra.kind # "cloud" => infra.file # "torn")
Readable == ManifestReadable /\ inst.is = "full" /\ inst.file # "torn"

\* loadCurrentTofuValues: the options the file gives; none before it is written.
Loaded == IF infra.file = "good" THEN DOMAIN infra.conf ELSE {}

\* tofuBackend.ReadConfiguration: an option the file does not give has its default.
TofuConfiguration ==
    [o \in DOMAIN RawDefaults |-> IF o \in Loaded THEN infra.conf[o] ELSE RawDefaults[o]]

\* localBackend.ReadConfiguration: the manifest always has a configuration.
LocalConfiguration == infra.conf

StoredInfra == IF infra.kind = "cloud" THEN TofuConfiguration ELSE LocalConfiguration
StoredLevel == IF inst.file = "good" THEN inst.level ELSE "l0"

\* resolvePresetIdentity: a state without an identity takes the manifests'.
Backfilled(s) == [s EXCEPT !.ident = IF @ = "blank" THEN infra.kind ELSE @]

-----------------------------------------------------------------------------
(* Steps of a command *)

Go(p, pc) == proc' = [proc EXCEPT ![p].pc = pc]
Return(p) == proc' = [proc EXCEPT ![p] = Idle]
At(p, pc) == proc[p].pc = pc
Error(p) ==
    proc' = [proc EXCEPT ![p] = [Idle EXCEPT !.pc = "unlock", !.cmd = proc[p].cmd, !.ok = FALSE]]

\* A write that fails; the launcher is killed or the disk is full.
Trouble == trouble < MaxTrouble /\ trouble' = trouble + 1

\* The command that follows: install goes on to deploy, destroy --remove to remove.
GoOn(p) ==
    proc' = [proc EXCEPT ![p] =
        CASE @.then = "deploy" -> [Idle EXCEPT !.pc = "log", !.cmd = "deploy"]
          [] @.then = "remove" -> [Idle EXCEPT !.pc = "check", !.cmd = "remove"]
          [] OTHER -> Idle]

\* init opens the deployment's log when it is done; install's deploy does.
Initialised(p) == IF proc[p].then = "none" THEN Go(p, "log") ELSE GoOn(p)

\* applyConfigurationReset: the named options take their defaults.
Defaults(raw) == [NoRaw EXCEPT !.names = raw.names]

\* The root command's PersistentPreRunE up to the compatibility check, which remove
\* does not ask for.  A command that is refused changes nothing.
Begin(p, cmd, kind, raw) ==
    /\ At(p, "idle")
    /\ IF cmd \in {"init", "install"} THEN nextId <= MaxId ELSE kind = infra.kind
    /\ raw.names \subseteq InfraOptions(kind) \cup {"level"}
    /\ cmd \notin {"init", "install", "set", "reset"} => raw = NoRaw
    /\ cmd \in {"set", "reset"} => raw.names # {}
    /\ cmd = "remove" \/ Compatible(p, cmd \in {"init", "install"})
    /\ proc' = [proc EXCEPT ![p] =
          [Idle EXCEPT
              !.cmd = CASE cmd = "install" -> "init" [] cmd = "purge" -> "destroy"
                        [] OTHER -> cmd,
              !.then = CASE cmd = "install" -> "deploy" [] cmd = "purge" -> "remove"
                         [] OTHER -> "none",
              !.pc = CASE cmd \in {"init", "install"} -> "seen" [] cmd = "remove" -> "check"
                       [] cmd = "purge" -> "lock" [] OTHER -> "log",
              !.kind = IF cmd \in {"init", "install"} THEN kind ELSE @,
              !.raw = raw]]
    /\ UNCHANGED <<files, lock, live, chosen, nextId, lost, trouble>>

\* setupDeploymentLogSession creates the directory when it is not there.
StartLog(p) ==
    /\ At(p, "log")
    /\ dir' = [dir EXCEPT !.root = TRUE, !.log = TRUE]
    /\ IF proc[p].cmd = "init" THEN Return(p) ELSE Go(p, "lock")
    /\ UNCHANGED <<infra, inst, state, marker, engine, lock, live, chosen, nextId, lost, trouble>>

\* validateInitRequest refuses before anything is written.
InitRequestValid(p) == MemoryAccepted(proc[p].kind, proc[p].raw)

\* initCmd and runInstallPreRun decide once whether the directory is initialised.
SeeState(p) ==
    /\ At(p, "seen")
    /\ IF Initialized THEN Go(p, "match")
       ELSE IF InitRequestValid(p) THEN Go(p, "ready") ELSE Return(p)
    /\ UNCHANGED <<files, lock, live, chosen, nextId, lost, trouble>>

\* ensureDeploymentDirReady, before the lock is taken.
EnsureDeploymentDirReady(p) ==
    /\ At(p, "ready")
    /\ dir' = [dir EXCEPT !.root = @ \/ ~Initialized]
    /\ IF Empty THEN Go(p, "lock") ELSE Return(p)
    /\ UNCHANGED <<infra, inst, state, marker, engine, lock, live, chosen, nextId, lost, trouble>>

\* applyConfigurationPatchIfProvided: the options that were given are set as config set
\* would; without any, the command goes on.
ApplyPatchIfProvided(p) ==
    IF proc[p].raw.names = {} THEN Initialised(p)
    ELSE proc' = [proc EXCEPT ![p].cmd = "set",
                              ![p].pc = IF proc[p].then = "none" THEN "log" ELSE "lock"]

\* The end of EnsureDeploymentPresetIdentityMatches: other presets are refused.
Matched(p, ident) == IF ident # proc[p].kind THEN Return(p) ELSE ApplyPatchIfProvided(p)

\* EnsureDeploymentPresetIdentityMatches reads the state without the lock.
MatchPresets(p) ==
    /\ At(p, "match")
    /\ IF ~StateReadable \/ (state.ident = "blank" /\ ~Readable) THEN Return(p)
       ELSE IF state.ident = "blank"
            THEN proc' = [proc EXCEPT ![p].pc = "backfill", ![p].old = Backfilled(state)]
            ELSE Matched(p, state.ident)
    /\ UNCHANGED <<files, lock, live, chosen, nextId, lost, trouble>>

\* Its write of a state without an identity: the copy it has read, and no lock.  The
\* file cannot be opened when the directory has been removed.
BackfillIdentity(p) ==
    /\ At(p, "backfill")
    /\ \/ dir.root /\ state' = proc[p].old /\ Matched(p, proc[p].old.ident) /\ UNCHANGED trouble
       \/ dir.root /\ Trouble /\ state' = [state EXCEPT !.is = "torn"] /\ Return(p)
       \/ ~dir.root /\ Return(p) /\ UNCHANGED <<state, trouble>>
    /\ lost' = (lost \/ (dir.root /\ [state EXCEPT !.ident = proc[p].old.ident] # proc[p].old))
    /\ UNCHANGED <<dir, infra, inst, marker, engine, lock, live, chosen, nextId>>

-----------------------------------------------------------------------------
(* The lock *)

FirstStep(cmd) ==
    CASE cmd = "init" -> "shared" [] cmd \in {"set", "reset"} -> "read"
      [] cmd = "get" -> "print" [] cmd = "remove" -> "recheck" [] OTHER -> "prepare"

\* Mutant: config set only wants the shared lock.
SharedAlsoSet(cmd) == cmd \in {"get", "set"}

\* withDeploymentSharedLock is what config get takes.
Shared(cmd) == cmd = "get"

Available(p) ==
    /\ lock.ex = "none"
    /\ Shared(proc[p].cmd) \/ (lock.sh = {} /\ ~lock.left)

\* withDeploymentLock: the marker is created in the directory, which has to exist.
Acquire(p) ==
    /\ At(p, "lock") /\ dir.root /\ Available(p)
    /\ lock' = IF Shared(proc[p].cmd) THEN [lock EXCEPT !.sh = @ \cup {p}]
               ELSE [lock EXCEPT !.ex = p]
    /\ Go(p, FirstStep(proc[p].cmd))
    /\ UNCHANGED <<files, live, chosen, nextId, lost, trouble>>

\* The lock is not free in time, or the directory is gone.
AcquireTimeout(p) ==
    /\ At(p, "lock") /\ ~(dir.root /\ Available(p))
    /\ Return(p)
    /\ UNCHANGED <<files, lock, live, chosen, nextId, lost, trouble>>

\* The callback returns: config set and reset print the configuration, which takes
\* the shared lock; remove goes on to the directory itself.
Release(p) ==
    /\ At(p, "unlock")
    /\ lock' = [lock EXCEPT !.ex = IF @ = p THEN "none" ELSE @, !.sh = @ \ {p}]
    /\ LET r == proc[p] IN
       CASE ~r.ok -> Return(p)
         [] r.ok /\ r.cmd \in {"set", "reset"} ->
               proc' = [proc EXCEPT ![p] =
                   [Idle EXCEPT !.cmd = "get", !.pc = "lock", !.then = r.then]]
         [] r.ok /\ r.cmd = "remove" -> Go(p, "rmdir")
         [] r.ok /\ r.cmd = "init" -> Initialised(p)
         [] OTHER -> GoOn(p)
    /\ UNCHANGED <<files, live, chosen, nextId, lost, trouble>>

-----------------------------------------------------------------------------
(* init: initializeDeploymentLocked *)

\* writeEmbeddedDir: the shared files, one by one; what is written stays.
WriteSharedDir == dir' = [dir EXCEPT !.shared = TRUE]

\* A new deployment id, and extractPresets: the shared files, then both presets.  A
\* copy that fails leaves a directory without its manifest.
ExtractShared(p) ==
    /\ At(p, "shared")
    /\ WriteSharedDir
    /\ nextId' = nextId + 1
    /\ \/ proc' = [proc EXCEPT ![p].pc = "infra", ![p].id = nextId] /\ UNCHANGED trouble
       \/ Trouble /\ Error(p)
    /\ UNCHANGED <<infra, inst, state, marker, engine, lock, live, chosen, lost>>

\* Mutant: the options are written before the installation preset is there.
ExtractInfraConfigure(p) ==
    /\ At(p, "infra")
    /\ infra' = [NoInfra EXCEPT !.is = "full", !.kind = proc[p].kind]
    /\ proc' = [proc EXCEPT ![p].pc = "configure",
                            ![p].conf = PatchConfigurationValues(RawDefaults, proc[p].raw)]
    /\ UNCHANGED <<dir, inst, state, marker, engine, lock, live, chosen, nextId, lost, trouble>>

ExtractInfra(p) ==
    /\ At(p, "infra")
    /\ \/ infra' = [NoInfra EXCEPT !.is = "full", !.kind = proc[p].kind]
          /\ Go(p, "inst") /\ UNCHANGED trouble
       \/ Trouble /\ Error(p) /\ infra' = [NoInfra EXCEPT !.is = "partial"]
    /\ UNCHANGED <<dir, inst, state, marker, engine, lock, live, chosen, nextId, lost>>

\* The installation preset, and newDeploymentConfigurationFromRaw: the options that
\* were given, on top of what the presets declare.
ExtractInst(p) ==
    /\ At(p, "inst")
    /\ LET r == proc[p] IN
       \/ /\ inst' = [NoInst EXCEPT !.is = "full"]
          /\ proc' = [proc EXCEPT ![p].pc = "configure",
                         ![p].conf = PatchConfigurationValues(RawDefaults, r.raw),
                         ![p].level = r.raw.level]
          /\ UNCHANGED trouble
       \/ Trouble /\ Error(p) /\ inst' = [NoInst EXCEPT !.is = "partial"]
    /\ UNCHANGED <<dir, infra, state, marker, engine, lock, live, chosen, nextId, lost>>

\* SetWorkflowStateAndWrite: a new deployment exists from here on.
WriteState(p) ==
    /\ At(p, "state")
    /\ \/ /\ state' = [is |-> "good", id |-> proc[p].id, ident |-> proc[p].kind,
                       wf |-> "initialized"]
          /\ live' = "none" /\ Go(p, "marker") /\ UNCHANGED trouble
       \/ Trouble /\ state' = [NoState EXCEPT !.is = "torn"] /\ Error(p) /\ UNCHANGED live
    /\ UNCHANGED <<dir, infra, inst, marker, engine, lock, chosen, nextId, lost>>

\* WriteDeploymentVersionMarker
WriteMarker(p) ==
    /\ At(p, "marker")
    /\ \/ marker' = Version[p] /\ Go(p, "unlock") /\ UNCHANGED trouble
       \/ Trouble /\ marker' = EmptyMarker /\ Error(p)
    /\ UNCHANGED <<dir, infra, inst, state, engine, lock, live, chosen, nextId, lost>>

-----------------------------------------------------------------------------
(* config *)

\* writeDeploymentConfigurationPatch up to the write: the stored values are read and
\* patched, and readDeploymentConfiguration fills in a missing identity.
Patch(p, raw) ==
    /\ state' = Backfilled(state)
    /\ proc' = [proc EXCEPT ![p].pc = "configure", ![p].raw = raw,
          ![p].conf = PatchConfigurationValues(StoredInfra, raw),
          ![p].level = IF "level" \in raw.names THEN raw.level ELSE StoredLevel]

\* Mutant: config set changes the configuration in any state.
SetInAnyState(p) ==
    /\ At(p, "read") /\ proc[p].cmd = "set"
    /\ IF ~StateReadable \/ ~Readable THEN Error(p) /\ UNCHANGED state
       ELSE Patch(p, proc[p].raw)
    /\ UNCHANGED <<dir, infra, inst, marker, engine, lock, live, chosen, nextId, lost, trouble>>

\* The callback of SetDeploymentConfiguration up to the write.
SetConfiguration(p) ==
    /\ At(p, "read") /\ proc[p].cmd = "set"
    /\ IF ~StateReadable \/ ~PermitsConfigure \/ ~Readable THEN Error(p) /\ UNCHANGED state
       ELSE Patch(p, proc[p].raw)
    /\ UNCHANGED <<dir, infra, inst, marker, engine, lock, live, chosen, nextId, lost, trouble>>

\* resetDeploymentConfigurationLocked up to the write.
ResetConfiguration(p) ==
    /\ At(p, "read") /\ proc[p].cmd = "reset"
    /\ IF ~StateReadable \/ ~PermitsConfigure \/ ~Readable THEN Error(p) /\ UNCHANGED state
       ELSE Patch(p, Defaults(proc[p].raw))
    /\ UNCHANGED <<dir, infra, inst, marker, engine, lock, live, chosen, nextId, lost, trouble>>

\* resolveDeploymentMetadata: the id both files are given, whatever the overrides say.
MetadataId(p) == IF proc[p].cmd = "init" THEN proc[p].id ELSE state.id

\* What a command's write does to the value last accepted for an option.
Accept(p, options) ==
    chosen' = [o \in DOMAIN chosen |->
        IF o \in options /\ (proc[p].cmd = "init" \/ o \in proc[p].raw.names)
        THEN IF o = "level" THEN proc[p].level ELSE proc[p].raw[o]
        ELSE chosen[o]]
Forget(options) ==
    chosen' = [o \in DOMAIN chosen |-> IF o \in options THEN Anything[o] ELSE chosen[o]]

\* tofuBackend.Configure: the tfvars file, with the deployment's id.
TofuConfigured(p) ==
    [infra EXCEPT !.file = "good", !.id = MetadataId(p),
                  !.conf = Stored("cloud", proc[p].conf, {})]

\* localBackend.Configure: the infrastructure manifest, with concrete ports.
LocalConfigured(p, busy) ==
    [infra EXCEPT !.file = "good", !.conf = Stored(infra.kind, proc[p].conf, busy)]

\* The file is rewritten.
Configured(p, busy) ==
    /\ infra' = IF infra.kind = "cloud" THEN TofuConfigured(p) ELSE LocalConfigured(p, busy)
    /\ Accept(p, InfraOptions(infra.kind))
    /\ Go(p, "variables") /\ UNCHANGED trouble

\* writeVarsFileWithOverrides: the file is truncated before it is written.
Truncated(p) ==
    /\ Trouble /\ infra' = [infra EXCEPT !.file = "torn"]
    /\ Forget(InfraOptions(infra.kind)) /\ Error(p)

\* writeDeploymentConfiguration: the backend checks the values before it writes.
ConfigureBackend(p) ==
    /\ At(p, "configure")
    /\ \E busy \in BusyPorts :
       IF InfraAccepted(infra.kind, proc[p].conf, engine, busy)
       THEN Configured(p, busy) \/ Truncated(p)
       ELSE Error(p) /\ UNCHANGED <<infra, chosen, trouble>>
    /\ UNCHANGED <<dir, inst, state, marker, engine, lock, live, nextId, lost>>

\* writeInstallationVariablesFile, after the backend's file has been written.
WriteInstallationVariables(p) ==
    /\ At(p, "variables")
    /\ LET r == proc[p] IN
       \/ /\ ~InstallAccepted(r.level)
          /\ Error(p) /\ UNCHANGED <<inst, chosen, trouble>>
       \/ /\ InstallAccepted(r.level)
          /\ inst' = [inst EXCEPT !.file = "good", !.id = MetadataId(p), !.level = r.level]
          /\ Accept(p, {"level"})
          /\ Go(p, IF r.cmd = "init" THEN "state" ELSE "unlock") /\ UNCHANGED trouble
       \/ /\ InstallAccepted(r.level)
          /\ Trouble /\ inst' = [inst EXCEPT !.file = "torn"]
          /\ Forget({"level"}) /\ Error(p)
    /\ UNCHANGED <<dir, infra, state, marker, engine, lock, live, nextId, lost>>

\* GetDeploymentConfiguration: under the shared lock, and yet it writes the state of
\* a deployment without an identity.
PrintConfiguration(p) ==
    /\ At(p, "print")
    /\ IF ~StateReadable \/ ~Readable THEN Error(p) /\ UNCHANGED state
       ELSE state' = Backfilled(state) /\ Go(p, "unlock")
    /\ UNCHANGED <<dir, infra, inst, marker, engine, lock, live, chosen, nextId, lost, trouble>>

-----------------------------------------------------------------------------
(* remove *)

\* ensureDeploymentDirectoryRemovalIsSafe, outside the lock.
CheckRemoval(p) ==
    /\ At(p, "check")
    /\ IF Removable THEN Go(p, "lock") ELSE Return(p)
    /\ UNCHANGED <<files, lock, live, chosen, nextId, lost, trouble>>

\* prepareDeploymentDirectoryRemoval checks again, then deletes entry by entry, in
\* the order os.ReadDir lists them; the lock markers stay.
RecheckRemoval(p) ==
    /\ At(p, "recheck")
    /\ IF Removable THEN Go(p, "delmarker") ELSE Error(p)
    /\ UNCHANGED <<files, lock, live, chosen, nextId, lost, trouble>>

RemoveEntry(p) ==
    /\ \/ /\ At(p, "delmarker") /\ marker' = NoVersion /\ Go(p, "delstate")
          /\ UNCHANGED <<dir, infra, inst, state, engine>>
       \/ /\ At(p, "delstate") /\ state' = NoState /\ Go(p, "delrest")
          /\ dir' = [dir EXCEPT !.legacy = FALSE]
          /\ UNCHANGED <<infra, inst, marker, engine>>
       \/ /\ At(p, "delrest") /\ engine' = "none" /\ Go(p, "delinfra")
          /\ dir' = [dir EXCEPT !.log = FALSE, !.shared = FALSE]
          /\ UNCHANGED <<infra, inst, state, marker>>
       \/ /\ At(p, "delinfra") /\ infra' = NoInfra /\ Go(p, "delinst")
          /\ UNCHANGED <<dir, inst, state, marker, engine>>
       \/ /\ At(p, "delinst") /\ inst' = NoInst /\ Go(p, "unlock")
          /\ UNCHANGED <<dir, infra, state, marker, engine>>
    /\ UNCHANGED <<lock, live, chosen, nextId, lost, trouble>>

\* An entry that cannot be deleted ends the removal.
RemoveEntryFails(p) ==
    /\ proc[p].pc \in {"delmarker", "delstate", "delrest", "delinfra", "delinst"}
    /\ Trouble /\ Error(p)
    /\ UNCHANGED <<files, lock, live, chosen, nextId, lost>>

\* removeDeploymentDirectoryRoot, after the lock is released: os.Remove refuses a
\* directory in which another command has left something.
RemoveRoot(p) ==
    /\ At(p, "rmdir") /\ Return(p)
    /\ dir' = [dir EXCEPT !.root = @ /\ ~Empty]
    /\ UNCHANGED <<infra, inst, state, marker, engine, lock, live, chosen, nextId, lost, trouble>>

-----------------------------------------------------------------------------
(* The lifecycle commands, as far as they use these files *)

\* localBackend.Prepare: automatic ports are made concrete and written, and the engine
\* is recorded, before the operation is recorded in the copy of the state read here.
Prepare(p) ==
    /\ At(p, "prepare")
    /\ LET op == proc[p].cmd
           local == infra.kind # "cloud"
           normalize == /\ local /\ op \in {"deploy", "start"}
                        /\ LocalPortsNeedNormalization(StoredInfra.ports)
       IN IF ~StateReadable \/ ~Permits(op) \/ (op # "destroy" /\ ~ManifestReadable)
          THEN Error(p) /\ UNCHANGED <<infra, engine>>
          ELSE \E busy \in BusyPorts :
             \/ /\ ~normalize \/ InfraAccepted(infra.kind, StoredInfra, engine, busy)
                /\ infra' = IF ~normalize THEN infra
                            ELSE [infra EXCEPT !.file = "good",
                                      !.conf = Stored(infra.kind, StoredInfra, busy)]
                /\ \E detected \in {"podman", "docker"} :
                   engine' = IF infra.kind # "host" \/ op \notin {"deploy", "start"}
                                \/ engine # "none" THEN engine
                             ELSE IF StoredInfra.engine = "auto" THEN detected
                             ELSE StoredInfra.engine
                /\ proc' = [proc EXCEPT ![p].pc = "operate", ![p].old = state]
             \/ /\ normalize /\ ~InfraAccepted(infra.kind, StoredInfra, engine, busy)
                /\ Error(p) /\ UNCHANGED <<infra, engine>>
    /\ UNCHANGED <<dir, inst, state, marker, lock, live, chosen, nextId, lost, trouble>>

\* The operation is recorded and runs.
Operate(p) ==
    /\ At(p, "operate") /\ Go(p, "finish")
    /\ state' = [proc[p].old EXCEPT !.wf = proc[p].cmd]
    /\ live' = IF live = "none" /\ proc[p].cmd \in {"stop", "destroy"} THEN "none" ELSE "some"
    /\ UNCHANGED <<dir, infra, inst, marker, engine, lock, chosen, nextId, lost, trouble>>

\* It ends: as it should, failed, or refused by the host for a port that is in use,
\* which takes a local deployment back to where it was.
Finish(p) ==
    /\ At(p, "finish")
    /\ LET op == proc[p].cmd
           before == proc[p].old.wf
           final == CASE op \in {"deploy", "start"} -> "running" [] op = "stop" -> "stopped"
                      [] OTHER -> "initialized"
       IN \/ /\ ManifestReadable
             /\ state' = [proc[p].old EXCEPT !.wf = final] /\ Go(p, "unlock")
             /\ live' = IF op = "destroy" \/ live = "none" THEN "none" ELSE final
             /\ engine' = IF op = "destroy" THEN "none" ELSE engine
             /\ UNCHANGED trouble
          \/ /\ IF ManifestReadable THEN Trouble ELSE UNCHANGED trouble
             /\ Error(p) /\ UNCHANGED <<live, engine>>
             /\ state' = [proc[p].old EXCEPT !.wf = IF op = "deploy" THEN "failed" ELSE op]
          \/ /\ Trouble /\ Error(p) /\ infra.kind # "cloud" /\ UNCHANGED engine
             /\ \/ op = "deploy" /\ before = "initialized" /\ live' = "none"
                \/ op = "start" /\ before = "stopped" /\ live' = "stopped"
             /\ state' = [proc[p].old EXCEPT !.wf = before]
    /\ UNCHANGED <<dir, infra, inst, marker, lock, chosen, nextId, lost>>

-----------------------------------------------------------------------------
(* The launcher is killed; the user clears the marker it left *)

Kill(p) ==
    /\ ~At(p, "idle") /\ Trouble /\ Return(p)
    /\ lock' = [ex |-> IF lock.ex = p THEN "stale" ELSE lock.ex, sh |-> lock.sh \ {p},
                left |-> lock.left \/ p \in lock.sh]
    /\ UNCHANGED <<files, live, chosen, nextId, lost>>

\* `exasol diag unlock`, run as its message asks: when no other launcher is running.
\* It wants an initialised directory as well.
Unlock(p) ==
    /\ lock.ex = "stale" \/ lock.left
    /\ Compatible(p, FALSE)
    /\ \A q \in Procs : At(q, "idle")
    /\ lock' = [ex |-> "none", sh |-> {}, left |-> FALSE]
    /\ UNCHANGED <<files, live, chosen, proc, nextId, lost, trouble>>

-----------------------------------------------------------------------------

\* No directory yet, one of a launcher that had no state file, or a deployment of
\* another launcher: an older one records no preset identity and leaves the ports of
\* the catalog's services automatic.
Found(kind, ports) ==
    /\ dir = [root |-> TRUE, shared |-> TRUE, log |-> TRUE, legacy |-> FALSE]
    /\ infra = [NoInfra EXCEPT !.is = "full", !.kind = kind, !.file = "good",
                               !.id = IF kind = "cloud" THEN 1 ELSE 0, !.conf.ports = ports]
    /\ inst = [NoInst EXCEPT !.is = "full", !.file = "good", !.id = 1]
    /\ state = [NoState EXCEPT !.is = "good", !.id = 1]
    /\ marker \in Written

Init ==
    /\ \/ /\ dir = [root |-> FALSE, shared |-> FALSE, log |-> FALSE, legacy |-> FALSE]
          /\ infra = NoInfra /\ inst = NoInst /\ state = NoState /\ marker = NoVersion
       \/ /\ dir = [root |-> TRUE, shared |-> TRUE, log |-> FALSE, legacy |-> TRUE]
          /\ infra = NoInfra /\ inst = NoInst /\ state = NoState /\ marker = NoVersion
       \/ \E kind \in Kinds : \E fixed \in SUBSET (IF kind = "cloud" THEN {} ELSE Unknown) :
             Found(kind, [s \in Services |-> IF s \in fixed THEN DefaultPort ELSE Unset])
    /\ engine = "none" /\ lock = [ex |-> "none", sh |-> {}, left |-> FALSE]
    /\ live = "none" /\ chosen = Anything /\ lost = FALSE
    /\ proc = [p \in Procs |-> Idle] /\ nextId = 2 /\ trouble = 0

Step(p) ==
    \/ StartLog(p) \/ SeeState(p) \/ EnsureDeploymentDirReady(p) \/ MatchPresets(p)
    \/ BackfillIdentity(p) \/ Acquire(p) \/ AcquireTimeout(p) \/ Release(p)
    \/ ExtractShared(p) \/ ExtractInfra(p) \/ ExtractInst(p) \/ WriteState(p)
    \/ WriteMarker(p) \/ SetConfiguration(p) \/ ResetConfiguration(p)
    \/ ConfigureBackend(p)
    \/ WriteInstallationVariables(p) \/ PrintConfiguration(p) \/ CheckRemoval(p)
    \/ RecheckRemoval(p) \/ RemoveEntry(p) \/ RemoveEntryFails(p) \/ RemoveRoot(p)
    \/ Prepare(p) \/ Operate(p) \/ Finish(p)

Next ==
    \/ \E p \in Procs : \/ \E c \in Commands[p] : Begin(p, c.cmd, c.kind, c.raw)
                       \/ Step(p) \/ Kill(p)
    \/ \E p \in Procs : Unlock(p)

Spec == Init /\ [][Next]_vars

-----------------------------------------------------------------------------
(* Properties *)

\* An option keeps the value a command last gave it, whatever other commands write the
\* same files: "omitted options keep their current effective values".  A file that a
\* failed write has truncated has lost them.
SetsPersist ==
    state.is = "good" =>
        /\ infra.is = "full" /\ infra.file = "good" =>
              /\ \A o \in InfraOptions(infra.kind) \ {"ports"} :
                    chosen[o] \in {"any", infra.conf[o]}
              /\ \A s \in Services : "ports" \in InfraOptions(infra.kind) /\ chosen.ports[s] > 0
                                      => infra.conf.ports[s] = chosen.ports[s]
        /\ inst.is = "full" /\ inst.file = "good" => chosen.level \in {"any", inst.level}

\* The files of a deployment are of one deployment: the id the infrastructure and the
\* installation are given is the launcher's, and the recorded preset is the extracted one.
FilesAgree ==
    state.is = "good" =>
        /\ infra.is = "full" => state.ident \in {"blank", infra.kind}
        /\ infra.is = "full" /\ infra.file = "good" => infra.id \in {0, state.id}
        /\ inst.is = "full" /\ inst.file = "good" => inst.id = state.id

\* A deployment with resources is not reconfigured, unless it is local and stopped
\* (WorkflowStatePermitsConfigure), however configuration and lifecycle commands are
\* interleaved, fail or are killed.  The unlocked backfill can bring an old state back;
\* what follows from that is not covered.
LiveKeepsConfig ==
    [][state.is = "good" /\ infra.is = "full" /\ ~lost /\ (infra'.conf # infra.conf \/ infra'.file # infra.file)
          => \/ live = "none" \/ infra'.is # "full"
             \/ infra.kind # "cloud" /\ live = "stopped"]_vars

\* The configured container engine never contradicts the recorded one, which holds
\* the data: it names it or leaves the choice to the launcher.
EnginePinned ==
    infra.is = "full" /\ engine # "none" => infra.conf.engine \in {"auto", engine}

\* A local deployment that has been started has a port of its own for every service.
LivePortsConcrete ==
    state.is = "good" /\ infra.is = "full" /\ infra.kind # "cloud" /\ live # "none"
       /\ infra.file = "good"
    => /\ \A s \in ToSet(Catalog) : infra.conf.ports[s] > 0
       /\ Distinct(infra.conf.ports)

\* The configuration agrees with everything else the directory records: the identity of
\* the deployment, the engine that has its data, the services that have been started.
ConfigurationConsistent == FilesAgree /\ EnginePinned /\ LivePortsConcrete

\* Where nothing has failed and nothing was killed, the commands always leave a
\* directory one can go on with: init accepts it (but for a log file that a command
\* overtaken by a removal has written) or remove does, rejected options included.
Recoverable ==
    trouble = 0 /\ (\A p \in Procs : At(p, "idle")) =>
        \/ ~dir.root \/ Removable
        \/ ~dir.shared /\ infra.is = "none" /\ inst.is = "none" /\ engine = "none"

-----------------------------------------------------------------------------
(* What some theorems suppose of the command lines *)

Initializes(p) == \E c \in Commands[p] : c.cmd \in {"init", "install"}

\* At most one launcher runs init or install on the directory: both look at the
\* directory before they have the lock.
OneInitializer == \A p, q \in Procs : Initializes(p) /\ Initializes(q) => p = q

=============================================================================
