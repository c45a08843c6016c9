-------------------------------- MODULE SLC --------------------------------
(***************************************************************************)
(* Script language containers of a local deployment: `exasol slc install`, *)
(* `update` and `remove` of official containers (internal/deploy/slc.go),  *)
(* `exasol slc custom install`, `update` and `remove`                      *)
(* (internal/deploy/custom_slc.go), the start that mounts them             *)
(* (internal/localinstall/podman_slc.go) and the activation of the custom  *)
(* ones in the database's SCRIPT_LANGUAGES.                                *)
(*                                                                         *)
(* Launcher processes run concurrently.  Custom commands, start, stop,     *)
(* deploy and destroy work under the deployment lock; the official         *)
(* commands read and write the state file without it, and every command    *)
(* that restarts the database gives the lock up before.  A write of the    *)
(* state file writes the whole of a copy that was read earlier.  Lengths,  *)
(* file names and digests are reduced to what is compared: a digest is a   *)
(* number, an image or a staged package is a name and a digest.            *)
(***************************************************************************)
EXTENDS Naturals, FiniteSets

CONSTANTS
    Procs,          \* the launcher processes
    Aliases,        \* the language aliases
    Builtins,       \* those the database maps to a built-in by itself
    RustAlias,      \* the alias `slc install rust` uses
    Catalog,        \* Catalog[r]: the official entries of launcher release r
    Requests,       \* what the user asks custom install and update for
    OfficialAlone,  \* TRUE: nobody runs an official command next to another one
    MaxCommands,    \* bound on the commands that are started
    MaxTrouble      \* bound on failures, kills and prunes by others

ASSUME SLCAssumption ==
    /\ {"free", "dead"} \cap Procs = {}
    /\ Builtins \subseteq Aliases /\ RustAlias \in Aliases
    /\ 1 \in DOMAIN Catalog
    /\ Requests \subseteq [alias : Aliases, digest : Nat, aliases : SUBSET Aliases,
                           language : {req.language : req \in Requests}]
    /\ OfficialAlone \in BOOLEAN /\ MaxCommands \in Nat /\ MaxTrouble \in Nat

VARIABLES
    release,    \* the launcher release that is installed
    file,       \* the state file: workflow state, official and custom containers
    lock,       \* the holder of the deployment lock, "free", or "dead": its holder was killed
    cmd,        \* what each process is doing
    up,         \* the database runs
    langs,      \* SCRIPT_LANGUAGES, kept in the database
    store,      \* the container images the engine has
    packages,   \* the staged packages
    available,  \* the images the status report of the last start calls available:
                \* the ones it mounted
    wiped,      \* aliases recorded when a destroy took the database and the packages
    half,       \* aliases that a removal has deactivated, with the record still there
    count, trouble

vars == <<release, file, lock, cmd, up, langs, store, packages, available, wiped, half,
          count, trouble>>
files == <<store, packages, available>>

NoSLC == [digest |-> 0, language |-> "", aliases |-> {}, activated |-> FALSE,
          displaced |-> FALSE]
NoURI == <<"none", "">>
BuiltinURI == <<"builtin", "">>

\* BuildActivationURI: the directory is named for the alias, not for the content.
BuildActivationURI(a, r) == <<a, r.language>>

\* Nano's own SCRIPT_LANGUAGES.
Default(a) == IF a \in Builtins THEN BuiltinURI ELSE NoURI

\* SetAlias and RemoveAlias leave every other entry of SCRIPT_LANGUAGES alone.
SetAlias(entries, a, uri) == [entries EXCEPT ![a] = uri]
RemoveAlias(entries, a) == [entries EXCEPT ![a] = NoURI]
IsBuiltinURI(uri) == uri = BuiltinURI

Recorded(f) == {a \in Aliases : f.cus[a] # NoSLC}

\* customSLCImage and customSLCPackageName
Image(a, r) == <<a, r.digest>>

NoRequest == [alias |-> RustAlias, digest |-> 0, language |-> "", aliases |-> {}]
Empty == [wf |-> "initialized", off |-> {}, cus |-> [a \in Aliases |-> NoSLC]]
NoCmd == [pc |-> "idle", op |-> "none", restart |-> FALSE, off |-> {}, image |-> <<"", 0>>,
          req |-> NoRequest, snap |-> Empty, mounted |-> FALSE]

Official == {"official", "unofficial"}

TypeOK ==
    /\ release \in DOMAIN Catalog
    /\ file.wf \in {"initialized", "deploying", "failed", "running", "stopped", "starting",
                    "stopping", "destroying", "interrupted"}
    /\ file.off \subseteq UNION {Catalog[r] : r \in DOMAIN Catalog}
    /\ DOMAIN file.cus = Aliases
    /\ lock \in Procs \cup {"free", "dead"}
    /\ \A p \in Procs : lock = p => cmd[p].pc \notin {"confirm", "apply", "stop", "start", "verify"}
    /\ up \in BOOLEAN /\ wiped \cup half \subseteq Recorded(file)
    /\ count \in 0..MaxCommands /\ trouble \in 0..MaxTrouble

-----------------------------------------------------------------------------
(* The checks *)

\* requireDeploymentPresent
Present(f) == f.wf # "initialized"

\* installedCustomSLCAliases with the launcher's own alias.
CustomAliases(f, a) == {a} \cup f.cus[a].aliases

\* checkOfficialAliasNotHeldByCustom
NotHeldByCustom(f, e) == \A a \in Recorded(f) : e.aliases \cap CustomAliases(f, a) = {}

\* Mutant: only the images are compared.
CheckInstallableSameImage(installed, e) == \A x \in installed : x.image # e.image

\* CheckInstallable: another flavor must not declare one of the aliases.
CheckInstallable(installed, e) ==
    \A x \in installed : x.flavor = e.flavor \/ x.aliases \cap e.aliases = {}

\* upsertInstalledSLC
Upsert(installed, e) == {x \in installed : x.flavor # e.flavor} \cup {e}

\* findInstalledSLC
FindInstalled(installed, ident) ==
    {x \in installed : x.language = ident \/ x.flavor = ident \/ ident \in x.aliases}

\* officialOwner
OfficialOwner(f, a) == {x \in f.off : a \in x.aliases}

\* The alias asked for, and the ones ReadAliases finds in the package.
ArchiveAliases(req) == {req.alias} \cup req.aliases

\* checkCustomSLCAliasConflicts: against every official and every other custom one.
NoAliasConflict(f, req) ==
    LET candidate == ArchiveAliases(req) IN
    /\ \A x \in f.off : x.aliases \cap candidate = {}
    /\ \A a \in Recorded(f) \ {req.alias} : CustomAliases(f, a) \cap candidate = {}

\* customSLCUnchanged
Unchanged(r, req) == r.activated /\ r.digest = req.digest /\ r.language = req.language

\* Mutant: the record alone is compared.
AppliedRecorded(r, req) == r.digest = req.digest /\ r.language = req.language

\* verifyCustomSLCApplied
Applied(r, req) == Unchanged(r, req)

-----------------------------------------------------------------------------
(* Steps *)

Trouble == trouble < MaxTrouble /\ trouble' = trouble + 1

Go(p, pc) == cmd' = [cmd EXCEPT ![p].pc = pc]
Done(p) == cmd' = [cmd EXCEPT ![p] = NoCmd]
Free == lock' = "free"

\* The user starts a command.
Begin(p, c) ==
    /\ cmd[p].pc = "idle"
    /\ count < MaxCommands /\ count' = count + 1
    /\ OfficialAlone =>
          \A q \in Procs \ {p} : cmd[q].pc = "idle" \/ (cmd[q].op \notin Official /\ c.op \notin Official)
    /\ cmd' = [cmd EXCEPT ![p] = c]

\* A command that takes the lock at once; one that does not get it ends without effect.
BeginLocked(p, c) == lock = "free" /\ lock' = p /\ Begin(p, [c EXCEPT !.snap = file])

(* ------------------------- official containers ------------------------- *)

\* InstallSLC up to the confirmation; the state it will write is decided here.
InstallSLC(p, e, restart) ==
    /\ Present(file) /\ NotHeldByCustom(file, e)
    /\ ~\E x \in file.off : x.image = e.image
    /\ CheckInstallable(file.off, e)
    /\ Begin(p, [NoCmd EXCEPT !.pc = "confirm", !.op = "official", !.restart = restart,
                    !.off = Upsert(file.off, e), !.image = e.image, !.snap = file])
    /\ UNCHANGED <<release, file, lock, up, langs, files, wiped, half, trouble>>

\* UpdateSLC: the entry may have moved to another flavor of the same language.
UpdateSLC(p, e, restart) ==
    /\ Present(file) /\ NotHeldByCustom(file, e)
    /\ ~\E x \in file.off : x.image = e.image
    /\ \E x \in FindInstalled(file.off, e.language) :
          /\ CheckInstallable(file.off \ {x}, e)
          /\ Begin(p, [NoCmd EXCEPT !.pc = "confirm", !.op = "official", !.restart = restart,
                          !.off = Upsert(file.off \ {x}, e), !.image = e.image, !.snap = file])
    /\ UNCHANGED <<release, file, lock, up, langs, files, wiped, half, trouble>>

\* RemoveSLC, for an alias IsCustomSLCAlias does not claim.
RemoveSLC(p, x, restart) ==
    /\ Present(file) /\ x \in file.off
    /\ Begin(p, [NoCmd EXCEPT !.pc = "confirm", !.op = "unofficial", !.restart = restart,
                    !.off = file.off \ {x}, !.snap = file])
    /\ UNCHANGED <<release, file, lock, up, langs, files, wiped, half, trouble>>

\* The confirmation, and the write of the copy that was read before it.
ConfirmOfficial(p) ==
    /\ cmd[p].pc = "confirm"
    /\ \/ /\ cmd[p].restart /\ up /\ Done(p) /\ UNCHANGED file
       \/ /\ file' = [cmd[p].snap EXCEPT !.off = cmd[p].off]
          /\ IF cmd[p].restart THEN Go(p, "apply") ELSE Done(p)
    /\ UNCHANGED <<release, lock, up, langs, files, wiped, half, count, trouble>>

\* applySLCChange: isLocalDeploymentRunning takes a probe that fails for stopped.
\* Removal starts nothing.
ApplySLCChange(p) ==
    /\ cmd[p].pc = "apply"
    /\ \/ up /\ Go(p, "stop") /\ UNCHANGED trouble
       \/ /\ IF up THEN Trouble ELSE UNCHANGED trouble
          /\ IF cmd[p].op = "unofficial" THEN Done(p) ELSE Go(p, "start")
    /\ UNCHANGED <<release, file, lock, up, langs, files, wiped, half, count>>

(* -------------------------- custom containers -------------------------- *)

\* What both staging operations go on with; the user has confirmed.
StageCustom(p, req, restart) ==
    /\ BeginLocked(p, [NoCmd EXCEPT !.pc = "fetch", !.op = "custom", !.restart = restart,
                          !.req = req])
    /\ UNCHANGED <<release, file, up, langs, files, wiped, half, trouble>>

\* stageCustomSLCInstall up to the download: an alias an official container owns is
\* refused.
InstallCustomSLC(p, req, restart) ==
    /\ Present(file)
    /\ req.alias \in Recorded(file) \/ OfficialOwner(file, req.alias) = {}
    /\ StageCustom(p, req, restart)

\* stageCustomSLCUpdate up to the download: the alias must be installed.
UpdateCustomSLC(p, req, restart) ==
    /\ Present(file) /\ req.alias \in Recorded(file)
    /\ StageCustom(p, req, restart)

\* InstallRustSLC: the latest release, under the fixed alias.
InstallRustSLC(p, restart) ==
    \E req \in Requests : req.alias = RustAlias /\ InstallCustomSLC(p, req, restart)

\* promoteCustomSLCPackage: the download gets its name in one step.
PromotePackage(req) == packages' = packages \cup {Image(req.alias, req)}

\* acquireCustomTarball, the checks on its content, and promoteCustomSLCPackage.
FetchCustom(p) ==
    /\ cmd[p].pc = "fetch"
    /\ LET f == cmd[p].snap
           req == cmd[p].req IN
       \/ /\ Trouble /\ Done(p) /\ Free /\ UNCHANGED packages
       \/ /\ Unchanged(f.cus[req.alias], req) \/ ~NoAliasConflict(f, req)
          /\ Done(p) /\ Free /\ UNCHANGED <<packages, trouble>>
       \/ /\ ~Unchanged(f.cus[req.alias], req) /\ NoAliasConflict(f, req)
          /\ PromotePackage(req)
          /\ Go(p, "record") /\ UNCHANGED <<lock, trouble>>
    /\ UNCHANGED <<release, file, up, langs, store, available, wiped, half, count>>

\* Mutant: an updated container keeps the mark of the one it replaces.
RecordCustomStillActive(p) ==
    /\ cmd[p].pc = "record"
    /\ LET f == cmd[p].snap
           req == cmd[p].req IN
       /\ file' = [f EXCEPT !.cus[req.alias] =
                     [@ EXCEPT !.digest = req.digest, !.language = req.language,
                               !.aliases = req.aliases]]
       /\ wiped' = wiped \ {req.alias} /\ half' = half \ {req.alias}
       /\ Go(p, "supersede") /\ UNCHANGED <<lock, trouble>>
    /\ UNCHANGED <<release, up, langs, files, count>>

\* recordCustomSLC: the new entry is not active and keeps what the old one displaced.
RecordCustom(p) ==
    /\ cmd[p].pc = "record"
    /\ LET f == cmd[p].snap
           req == cmd[p].req IN
       \/ /\ file' = [f EXCEPT !.cus[req.alias] =
                        [NoSLC EXCEPT !.digest = req.digest, !.language = req.language,
                                      !.aliases = req.aliases,
                                      !.displaced = f.cus[req.alias].displaced]]
          /\ wiped' = wiped \ {req.alias} /\ half' = half \ {req.alias}
          /\ Go(p, "supersede") /\ UNCHANGED <<lock, trouble>>
       \/ Trouble /\ Done(p) /\ Free /\ UNCHANGED <<file, wiped, half>>
    /\ UNCHANGED <<release, up, langs, files, count>>

\* Mutant: the package of the old entry goes whatever its name is.
SupersededAlways(p) == {Image(cmd[p].req.alias, cmd[p].snap.cus[cmd[p].req.alias])}

\* supersededCustomSLCPackage
Superseded(p) ==
    {Image(cmd[p].req.alias, cmd[p].snap.cus[cmd[p].req.alias])}
       \ {Image(cmd[p].req.alias, cmd[p].req)}

\* The end of recordCustomSLC; the lock is released before the change is applied.
SupersedeCustom(p) ==
    /\ cmd[p].pc = "supersede"
    /\ \/ packages' = packages \ Superseded(p) /\ UNCHANGED trouble
       \/ Trouble /\ UNCHANGED packages
    /\ IF cmd[p].restart THEN Go(p, "apply") ELSE Done(p)
    /\ Free
    /\ UNCHANGED <<release, file, up, langs, store, available, wiped, half, count>>

\* verifyCustomSLCApplied reads the state file without the lock.
VerifyCustom(p) ==
    /\ cmd[p].pc = "verify" /\ Done(p)
    /\ UNCHANGED <<release, file, lock, up, langs, files, wiped, half, count, trouble>>

\* IsCustomSLCAlias, by which `slc remove` chooses the kind.
IsCustomSLCAlias(a) == a \in Recorded(file)

\* removeCustomSLCLocked: an active container needs the database.
RemoveCustomSLC(p, a) ==
    /\ Present(file) /\ IsCustomSLCAlias(a)
    /\ file.cus[a].activated => up
    /\ BeginLocked(p, [NoCmd EXCEPT !.op = "uncustom", !.req.alias = a,
                          !.pc = IF file.cus[a].activated THEN "deactivate" ELSE "drop"])
    /\ UNCHANGED <<release, file, up, langs, files, wiped, half, trouble>>

\* deactivateCustomSLC
DeactivateCustom(p) ==
    /\ cmd[p].pc = "deactivate"
    /\ LET a == cmd[p].req.alias IN
       \/ /\ up /\ UNCHANGED <<lock, trouble>>
          /\ langs' = IF file.cus[a].displaced THEN SetAlias(langs, a, BuiltinURI)
                      ELSE RemoveAlias(langs, a)
          /\ half' = half \cup {a}
          /\ Go(p, "drop")
       \/ /\ IF up THEN Trouble ELSE UNCHANGED trouble
          /\ Done(p) /\ Free /\ UNCHANGED <<langs, half>>
    /\ UNCHANGED <<release, file, up, files, wiped, count>>

\* The record goes before the package.
DropCustom(p) ==
    /\ cmd[p].pc = "drop"
    /\ LET a == cmd[p].req.alias IN
       \/ /\ file' = [cmd[p].snap EXCEPT !.cus[a] = NoSLC]
          /\ wiped' = wiped \ {a} /\ half' = half \ {a}
          /\ Go(p, "unstage") /\ UNCHANGED <<lock, trouble>>
       \/ Trouble /\ Done(p) /\ Free /\ UNCHANGED <<file, wiped, half>>
    /\ UNCHANGED <<release, up, langs, files, count>>

\* removeCustomSLCPackage
UnstageCustom(p) ==
    /\ cmd[p].pc = "unstage"
    /\ LET a == cmd[p].req.alias IN
       \/ packages' = packages \ {Image(a, cmd[p].snap.cus[a])} /\ UNCHANGED trouble
       \/ Trouble /\ UNCHANGED packages
    /\ Done(p) /\ Free
    /\ UNCHANGED <<release, file, up, langs, store, available, wiped, half, count>>

(* ------------------------- stop, start, destroy ------------------------ *)

\* A start, a stop, a deploy or a destroy of the user.
BeginLifecycle(p, op) ==
    /\ CASE op = "deploy" -> file.wf \in {"initialized", "failed", "deploying"}
         [] op = "destroy" -> file.wf # "initialized"
         [] OTHER -> TRUE
    /\ IF op \in {"start", "stop"}
       THEN Begin(p, [NoCmd EXCEPT !.op = op, !.pc = op]) /\ UNCHANGED <<file, lock>>
       ELSE /\ BeginLocked(p, [NoCmd EXCEPT !.op = op,
                                  !.pc = IF op = "deploy" THEN "run" ELSE "destroy"])
            /\ file' = [file EXCEPT !.wf = IF op = "deploy" THEN "deploying" ELSE "destroying"]
    /\ UNCHANGED <<release, up, langs, files, wiped, half, trouble>>

\* Where a Stop that returned no error leads to.
AfterStop(p) == IF cmd[p].op = "stop" THEN Done(p) ELSE Go(p, "start")

\* Stop: where there is nothing to stop, and where another process holds the lock,
\* it returns without an error.
StopBegin(p) ==
    /\ cmd[p].pc = "stop"
    /\ \/ /\ lock \notin {p, "free"} /\ AfterStop(p) /\ UNCHANGED <<file, lock>>
       \/ /\ lock = "free"
          /\ IF \/ file.wf = "running" /\ up
                \/ file.wf \in {"stopping", "interrupted"}
             THEN /\ file' = [file EXCEPT !.wf = "stopping"]
                  /\ cmd' = [cmd EXCEPT ![p].pc = "stopping", ![p].snap = file]
                  /\ lock' = p
             ELSE /\ file' = IF file.wf = "running" THEN [file EXCEPT !.wf = "stopped"] ELSE file
                  /\ AfterStop(p) /\ UNCHANGED lock
    /\ UNCHANGED <<release, up, langs, files, wiped, half, count, trouble>>

StopEnd(p) ==
    /\ cmd[p].pc = "stopping" /\ Free
    /\ \/ /\ up' = FALSE /\ file' = [cmd[p].snap EXCEPT !.wf = "stopped"]
          /\ AfterStop(p) /\ UNCHANGED trouble
       \/ /\ Trouble /\ file' = [cmd[p].snap EXCEPT !.wf = "interrupted"]
          /\ Done(p) /\ UNCHANGED up
    /\ UNCHANGED <<release, langs, files, wiped, half, count>>

\* Where a Start that returned no error leads to.
AfterStart(p) == IF cmd[p].op = "custom" THEN Go(p, "verify") ELSE Done(p)

\* Start: a ready database is left alone; a lock that is held is an error.
StartBegin(p) ==
    /\ cmd[p].pc = "start"
    /\ \/ /\ lock \notin {p, "free"} /\ Done(p) /\ UNCHANGED <<file, lock>>
       \/ /\ lock = "free"
          /\ CASE file.wf \in {"stopped", "starting", "interrupted"}
                     \/ (file.wf = "running" /\ ~up) ->
                     /\ file' = [file EXCEPT !.wf = "starting"]
                     /\ cmd' = [cmd EXCEPT ![p].pc = "run", ![p].snap = file]
                     /\ lock' = p
               [] file.wf = "running" /\ up -> AfterStart(p) /\ UNCHANGED <<file, lock>>
               [] OTHER -> Done(p) /\ UNCHANGED <<file, lock>>
    /\ UNCHANGED <<release, up, langs, files, wiped, half, count, trouble>>

\* toLocalRuntimeConfig reads what is recorded now.
WantedOfficial == {x.image : x \in file.off}
WantedCustom == {Image(a, file.cus[a]) : a \in Recorded(file)}

\* materializeSLCs: official images are pulled; a custom one that the engine does not
\* have is imported from its package, and is left out where that fails.
Materialized(failed) ==
    WantedOfficial \cup ((WantedCustom \cap (store \cup packages)) \ failed)
Importable == (WantedCustom \cap packages) \ store

\* NanoInstall.Start: what is not wanted is pruned.  A container that runs is left
\* alone.
StartRun(p) ==
    /\ cmd[p].pc = "run"
    /\ \/ /\ up /\ cmd' = [cmd EXCEPT ![p].pc = "commit", ![p].mounted = FALSE]
          /\ UNCHANGED <<file, lock, up, files, trouble>>
       \/ /\ ~up /\ up' = TRUE
          /\ \E failed \in SUBSET Importable :
                /\ IF failed = {} THEN UNCHANGED trouble ELSE Trouble
                /\ available' = Materialized(failed)
                /\ store' = Materialized(failed)
                /\ cmd' = [cmd EXCEPT ![p].pc = "commit", ![p].mounted = failed = {}]
          /\ UNCHANGED <<file, lock, packages>>
       \/ /\ ~up /\ Trouble /\ Done(p) /\ Free
          /\ available' \in {available, Materialized({})}
          /\ \E wf \in IF cmd[p].op = "deploy" THEN {"failed"} ELSE {"stopped", "interrupted"} :
                file' = [cmd[p].snap EXCEPT !.wf = wf]
          /\ UNCHANGED <<up, store, packages>>
    /\ UNCHANGED <<release, langs, wiped, half, count>>

\* The final write of deploy and start comes before the activation, which reads the
\* state file again.
StartCommit(p) ==
    /\ cmd[p].pc = "commit"
    /\ file' = [cmd[p].snap EXCEPT !.wf = "running"]
    /\ Go(p, "reconcile")
    /\ UNCHANGED <<release, lock, up, langs, files, wiped, half, count, trouble>>

\* Mutant: a container that displaces a built-in again is taken for active.
PendingUndisplaced == {a \in Recorded(file) : /\ Image(a, file.cus[a]) \in available
                                              /\ ~file.cus[a].activated /\ ~file.cus[a].displaced}

\* The containers reconcileCustomSLCActivation activates.
Pending == {a \in Recorded(file) : /\ Image(a, file.cus[a]) \in available
                                   /\ ~file.cus[a].activated}

\* activatePendingCustomSLCs and applyScriptLanguages: all in one ALTER SYSTEM.  A
\* failure is only a warning.
ReconcileCustomSLCs(p) ==
    /\ cmd[p].pc = "reconcile"
    /\ \/ /\ Pending = {} /\ AfterStart(p) /\ Free /\ UNCHANGED <<langs, wiped, half, trouble>>
       \/ /\ Pending # {} /\ (IF up THEN Trouble ELSE UNCHANGED trouble)
          /\ AfterStart(p) /\ Free /\ UNCHANGED <<langs, wiped, half>>
       \/ /\ Pending # {} /\ up
          /\ langs' = [a \in Aliases |-> IF a \in Pending THEN BuildActivationURI(a, file.cus[a])
                                         ELSE langs[a]]
          /\ cmd' = [cmd EXCEPT ![p].pc = "activate",
                       ![p].snap = [file EXCEPT !.cus = [a \in Aliases |->
                          IF a \in Pending
                          THEN [file.cus[a] EXCEPT !.activated = TRUE,
                                                   !.displaced = @ \/ IsBuiltinURI(langs[a])]
                          ELSE file.cus[a]]]]
          /\ UNCHANGED <<lock, wiped, half, trouble>>
    /\ UNCHANGED <<release, file, up, files, count>>

ActivateWrite(p) ==
    /\ cmd[p].pc = "activate" /\ Free /\ AfterStart(p)
    /\ \/ file' = cmd[p].snap /\ UNCHANGED trouble
       \/ Trouble /\ UNCHANGED file
    /\ UNCHANGED <<release, up, langs, files, wiped, half, count>>

\* destroyLocked: the data, the staged packages and the report go; the images go with a
\* VM; the record of the installed containers stays.
DestroyRun(p) ==
    /\ cmd[p].pc = "destroy" /\ Done(p) /\ Free
    /\ \/ /\ UNCHANGED trouble
          /\ file' = [cmd[p].snap EXCEPT !.wf = "initialized"]
          /\ up' = FALSE /\ langs' = [a \in Aliases |-> Default(a)]
          /\ packages' = {} /\ available' = {} /\ store' \in {store, {}}
          /\ wiped' = Recorded(file) /\ half' = {}
       \/ /\ Trouble /\ file' = [cmd[p].snap EXCEPT !.wf = "interrupted"]
          /\ UNCHANGED <<up, langs, files, wiped, half>>
    /\ UNCHANGED <<release, count>>

\* CustomSLCStatuses: the containers `slc list` shows as available.
CustomSLCStatuses ==
    {a \in Recorded(file) : file.cus[a].activated /\ Image(a, file.cus[a]) \in available}

(* ------------------------------ the world ------------------------------ *)

\* A process is killed; its lock stays.
Crash(p) ==
    /\ cmd[p].pc # "idle" /\ Trouble /\ Done(p)
    /\ lock' = IF lock = p THEN "dead" ELSE lock
    /\ UNCHANGED <<release, file, up, langs, files, wiped, half, count>>

\* `exasol diag unlock` of a lock whose holder was killed.
Unlock ==
    /\ lock = "dead" /\ Free
    /\ UNCHANGED <<release, file, cmd, up, langs, files, wiped, half, count, trouble>>

\* Another deployment of the user shares the engine; its start prunes what is not in
\* use.
OtherPrunes ==
    /\ Trouble /\ \E gone \in SUBSET store : /\ gone # {} /\ up => gone \cap available = {}
                                             /\ store' = store \ gone
    /\ UNCHANGED <<release, file, lock, cmd, up, langs, packages, available, wiped, half, count>>

\* A newer launcher brings a newer catalog.
LauncherUpgraded ==
    /\ release + 1 \in DOMAIN Catalog /\ \A p \in Procs : cmd[p].pc = "idle"
    /\ release' = release + 1
    /\ UNCHANGED <<file, lock, cmd, up, langs, files, wiped, half, count, trouble>>

-----------------------------------------------------------------------------

Init ==
    /\ release = 1 /\ lock = "free" /\ cmd = [p \in Procs |-> NoCmd]
    /\ \/ file = Empty /\ up = FALSE
       \/ file = [Empty EXCEPT !.wf = "running"] /\ up = TRUE
    /\ langs = [a \in Aliases |-> Default(a)]
    /\ store = {} /\ packages = {} /\ available = {} /\ wiped = {} /\ half = {}
    /\ count = 0 /\ trouble = 0

Step(p) ==
    \/ ConfirmOfficial(p) \/ ApplySLCChange(p) \/ FetchCustom(p) \/ RecordCustom(p)
    \/ SupersedeCustom(p) \/ VerifyCustom(p) \/ DeactivateCustom(p) \/ DropCustom(p)
    \/ UnstageCustom(p) \/ StopBegin(p) \/ StopEnd(p) \/ StartBegin(p) \/ StartRun(p)
    \/ StartCommit(p) \/ ReconcileCustomSLCs(p) \/ ActivateWrite(p) \/ DestroyRun(p)

\* slc install, update and remove, for official containers and the Rust one.
OfficialCommand(p) ==
    \E restart \in BOOLEAN :
       \/ \E e \in Catalog[release] : InstallSLC(p, e, restart) \/ UpdateSLC(p, e, restart)
       \/ \E x \in file.off : RemoveSLC(p, x, restart)
       \/ InstallRustSLC(p, restart)

\* runSLCCustomInstall, runSLCCustomUpdate and runSLCCustomRemove
CustomCommand(p) ==
    \/ \E restart \in BOOLEAN, req \in Requests :
          InstallCustomSLC(p, req, restart) \/ UpdateCustomSLC(p, req, restart)
    \/ \E a \in Aliases : RemoveCustomSLC(p, a)

Command(p) ==
    \/ OfficialCommand(p) \/ CustomCommand(p)
    \/ \E op \in {"start", "stop", "deploy", "destroy"} : BeginLifecycle(p, op)

Next ==
    \/ \E p \in Procs : Step(p) \/ Command(p) \/ Crash(p)
    \/ Unlock \/ OtherPrunes \/ LauncherUpgraded

\* A process that runs goes on; the wait for the lock has a deadline.
Spec == Init /\ [][Next]_vars /\ \A p \in Procs : WF_vars(Step(p))

-----------------------------------------------------------------------------
(* Properties *)

\* No alias is provided by two installed containers, official or custom: the database
\* does not start with two official ones, and a custom one would shadow.
AliasesDisjoint ==
    /\ \A x, y \in file.off : x # y => x.aliases \cap y.aliases = {}
    /\ \A a \in Recorded(file) :
          /\ \A x \in file.off : x.aliases \cap CustomAliases(file, a) = {}
          /\ \A b \in Recorded(file) \ {a} : CustomAliases(file, a) \cap CustomAliases(file, b) = {}

\* What is recorded can be imported again, at whichever step a command was killed or
\* failed, also after another deployment has pruned the image: its package is staged.
\* Destroy alone takes packages from recorded containers.
RecordedHasPackage ==
    \A a \in Recorded(file) \ wiped : Image(a, file.cus[a]) \in packages

\* A custom install or update that reports success after a restart has its container
\* active and its alias resolves to it, whatever another process did between the
\* staging, the stop, the start and the check; only a removal or a destroy,
\* under way or cut short, may have undone it since.
SuccessIsActive ==
    [][\A p \in Procs :
         /\ cmd[p].pc = "verify" /\ cmd'[p].pc = "idle" /\ trouble' = trouble
         /\ Applied(file.cus[cmd[p].req.alias], cmd[p].req)
         => LET a == cmd[p].req.alias IN
            /\ file.cus[a].activated
            /\ a \in wiped \cup half \/ langs[a] = BuildActivationURI(a, cmd[p].req)]_vars

\* A change recorded with --no-restart takes effect on the next start that starts the
\* database: one that could import every image and meets no failure afterwards leaves no
\* recorded container inactive, whatever commands, failures and prunes came before it, but
\* for those whose packages a destroy has taken.  A start that finds the container running
\* mounts nothing, so that a container recorded since stays inactive.
DeferredTakesEffect ==
    [][\A p \in Procs :
         /\ cmd[p].pc \in {"reconcile", "activate"} /\ lock = p /\ lock' = "free"
         /\ cmd[p].mounted /\ trouble' = trouble /\ up
         => \A a \in Recorded(file') \ wiped : file'.cus[a].activated]_vars

\* What a removal puts in the place of a container in SCRIPT_LANGUAGES.
WithoutCustom(r) == IF r.displaced THEN BuiltinURI ELSE NoURI

\* A container that `slc list` shows as available is one its alias resolves to, with two
\* exceptions: a destroy has taken the database it was activated in, or a removal was
\* killed or failed between the database and the state file.  The alias then is as the
\* removal leaves it, and stays so until it is removed again or replaced.
AvailableResolves ==
    lock = "free" /\ up => \A a \in CustomSLCStatuses \ wiped :
       langs[a] = IF a \in half THEN WithoutCustom(file.cus[a])
                  ELSE BuildActivationURI(a, file.cus[a])

=============================================================================
