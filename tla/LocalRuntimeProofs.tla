------------------------- MODULE LocalRuntimeProofs -------------------------
(***************************************************************************)
(* Proofs about the local runtimes, for any number of commands, failures,  *)
(* kills, runner versions and generated passwords, on every platform the   *)
(* constants allow: the types (RuntimeTypeCorrect), that the newest data   *)
(* are kept (DataAreKept) and are the ones that are served                 *)
(* (NewestIsServed), that the stored password opens the database           *)
(* (PasswordsAreKept), and that the version and engine records are true    *)
(* (RecordsAreTrue).                                                       *)
(*                                                                         *)
(* The argument is layered.  Base, the types and which command is at which *)
(* step, is inductive by itself.  Beside Base, DInv says what the VM, the  *)
(* container, its engine and the copies of the data are at each step of a  *)
(* migration or recovery; Versions says how far a change of the runner     *)
(* has got; PInv says which passwords a step may find.  Each part has one  *)
(* lemma for every group of steps.                                         *)
(***************************************************************************)
EXTENDS LocalRuntime, TLAPS

-----------------------------------------------------------------------------
(* Types and control *)

\* The steps at which an older guest is replaced, data in a container are copied out, the VM's
\* data are copied, an incomplete create is recovered, and the password is checked.
RunnerSteps == {"guestStop", "guestInit", "guestDone", "guestMark"}
OverlaySteps == {"ovStop", "ovCopy", "ovCopied", "ovInstall", "ovRename", "ovRemove"}
CopySteps == {"reset", "copy", "copied", "mark", "publish", "publishRename"}
RecoverSteps == {"recover", "recStop", "recRename", "recMkdir", "data", "image", "pwSecret",
                 "pwMark", "pwFile", "create"}
CheckSteps == {"verify", "verified", "unverified"}
\* The steps of deploy and start alone.
StartSteps ==
    {"prepare", "record", "busy", "clear", "vm", "prep", "prepStop", "adopt", "overlay",
     "artifacts", "wait", "finMark", "finRetire", "abort", "started", "unboot"}
    \cup RunnerSteps \cup OverlaySteps \cup CopySteps \cup RecoverSteps \cup CheckSteps
\* Those after the operation is recorded as in progress.
RunSteps == StartSteps \ (PrepareSteps \cup {"busy"})
\* The ends of the commands, and what destroy removes last.
EndSteps == {"rtStop", "rtVM", "result", "artifactState", "probe", "restored", "giveUp"}
GoneSteps == {"dFiles", "dSecrets", "dDone"}
Steps == {"idle", "dBox", "dVM"} \cup StartSteps \cup EndSteps \cup GoneSteps
\* Steps of the VM runtime alone.
MacSteps == RunnerSteps \cup CopySteps
            \cup {"vm", "prep", "prepStop", "abort", "rtVM", "dVM", "finMark", "finRetire"}
Ops == {"none", "deploy", "start", "stop", "destroy"}
\* A complete database that this deployment created.
Fresh == {"fresh", "freshNew"}

\* The types: of the command and its recorded state, of the container and the data, of
\* the rest.
CmdType ==
    cmd \in [pc : Steps, op : Ops, err : {"none", "fail", "port"}, fresh : BOOLEAN,
             ret : {"idle", "unboot", "restored", "artifactState"},
             engine : {"podman", "docker"}, running : BOOLEAN]
CmdOK ==
    /\ CmdType
    /\ wf \in {"initialized", "failed", "running", "stopped", "inProgress", "interrupted"}
               \X Ops

Boxes == [st : {"none", "running", "exited"}, name : {"current", "legacy"},
          data : {"overlay", "source", "target"}, once : BOOLEAN,
          engine : {"podman", "docker"}]
StoreOK ==
    /\ box \in Boxes
    /\ fs \in [Places -> Contents] /\ layout \subseteq {"staging", "target"}
    /\ newest \in {"none"} \cup Complete

\* The other variables.
RestOK ==
    /\ mac \in BOOLEAN /\ vm \in BOOLEAN /\ up \in BOOLEAN
    /\ wrecked \in BOOLEAN /\ killed \in BOOLEAN
    /\ guest \in [dir : BOOLEAN, ver : 0..MaxRunner]
    /\ runner \in 1..MaxRunner /\ recorded \in 0..MaxRunner
    /\ engine \in [rec : {"none", "podman", "docker"}, cfg : {"auto", "podman", "docker"}]
    /\ cred \in [gen : BOOLEAN, ver : BOOLEAN]
    /\ count \in [commands : 0..MaxCommands, trouble : 0..MaxTrouble, pw : Nat]
    /\ {sec, boot, dbPw} \subseteq {NoPw} \cup 0..count.pw

\* Which command is at which step, on which platform.
Control ==
    /\ At("idle") => cmd = NoCmd
    /\ cmd.pc \in StartSteps => cmd.op \in {"deploy", "start"}
    /\ cmd.pc \in {"dBox", "dVM"} \cup GoneSteps => cmd.op = "destroy"
    /\ cmd.pc \in {"rtStop", "rtVM"} =>
        \/ cmd.ret = "unboot" /\ cmd.op \in {"deploy", "start"}
        \/ cmd.ret = "restored" /\ cmd.op \in {"start", "stop"}
        \/ cmd.ret = "artifactState" /\ cmd.op = "stop"
    /\ At("artifactState") => cmd.op = "stop"
    /\ At("result") => cmd.op \in {"deploy", "start", "stop"}
    /\ cmd.pc \in {"probe", "restored"} => cmd.op \in {"start", "stop"}
    /\ At("giveUp") => cmd.op \in {"start", "stop", "destroy"}
    /\ cmd.pc \in MacSteps => mac
    /\ At("record") => ~mac
    /\ cmd.op = "destroy" => wrecked
    /\ cmd.pc \notin PrepareSteps \cup {"idle", "busy"} => wf = <<"inProgress", cmd.op>>

Base == CmdOK /\ StoreOK /\ RestOK /\ Control

-----------------------------------------------------------------------------
(* The VM *)

\* The VM directory is there whenever something needs it, and is gone when destroy says so.
Guest ==
    /\ guest.dir => mac
    /\ vm => guest.dir
    /\ mac /\ cmd.pc \in StartSteps \ {"prepare", "guestStop", "guestInit", "unboot"} =>
        guest.dir
    /\ mac /\ ~guest.dir => box.st = "none"
    /\ ~guest.dir => fs["source"] = "absent" /\ fs["backup"] = "absent"
    /\ mac /\ cmd.pc \in GoneSteps => ~vm
    /\ cmd.pc \in {"dSecrets", "dDone"} => Left = {}

\* What holds of the versions when no runner becomes older.
Versions ==
    /\ recorded <= runner
    /\ cmd.pc \in {"guestInit", "guestDone"} => ~vm
    /\ mac /\ cmd.pc \in {"busy", "clear", "vm"} => recorded = runner
    /\ ~wrecked =>
        /\ recorded # 0 => guest.dir
        /\ guest.dir /\ recorded = runner => guest.ver = runner
        /\ cmd.pc \in {"guestStop", "guestInit", "guestDone"} => recorded # runner
        /\ At("guestMark") => guest.ver = runner

-----------------------------------------------------------------------------
(* The container and its engine *)

\* The container is with the engine that is recorded, and with Podman on macOS.
Engine ==
    /\ mac => box.data # "overlay" /\ box.engine = "podman" /\ cmd.engine = "podman"
    /\ ~mac => box.data # "source" /\ box.name = "current"
    /\ ~mac /\ ~At("idle") /\ engine.rec # "none" => cmd.engine = engine.rec
    /\ ~mac /\ cmd.pc \in StartSteps \ {"prepare", "record", "unboot"} =>
        engine.rec # "none"
    /\ ~mac /\ box.st # "none" /\ box.data # "overlay" =>
        engine.rec # "none" /\ box.engine = engine.rec
    /\ ~mac /\ cmd.pc \in GoneSteps => box.st = "none"

\* The data inside a container.
Overlay ==
    /\ fs["overlay"] \in {"absent", "legacy"}
    /\ fs["overlay"] # "absent" <=> box.data = "overlay"
    /\ fs["overlay"] # "absent" =>
        /\ ~mac /\ box.st # "none" /\ box.engine = "podman" /\ ~box.once
        /\ engine.rec \in {"none", "podman"} /\ engine.cfg = "auto"
        /\ cmd.engine = "podman"
        /\ ~cred.gen
        /\ cmd.pc \notin RecoverSteps \cup {"rtStop", "rtVM"}
        /\ box.st = "running" => cmd.op \notin {"start", "stop"} /\ ~PermitsStart(wf)
    /\ cmd.pc \in OverlaySteps => fs["overlay"] = "legacy"
    /\ cmd.pc \in CheckSteps => cred.gen
    /\ cmd.pc \in {"rtStop", "rtVM"} /\ cmd.ret = "unboot" => cred.gen

-----------------------------------------------------------------------------
(* The data *)

\* What a copy's steps and markers say of the places.
Copies ==
    /\ fs["source"] \in {"absent", "legacy"} /\ fs["backup"] \in {"absent", "legacy"}
    /\ fs["target"] # "partial"
    /\ layout # {} => mac
    /\ cmd.pc \in CopySteps \cup {"prepStop"} => fs["source"] = "legacy"
    /\ cmd.pc \in {"mark", "publish", "publishRename", "ovInstall", "ovRename"} =>
        fs["staging"] = "legacy"
    /\ "staging" \in layout => fs["staging"] = "legacy"
    /\ cmd.pc \in {"copy", "copied"} => "staging" \notin layout
    /\ cmd.pc \in {"publishRename", "ovRename", "recMkdir"} => fs["target"] = "absent"
    /\ cmd.pc \in {"recStop", "recRename"} => fs["target"] \in {"creating", "fresh"}
    /\ At("ovRemove") => fs["target"] = "legacy"

\* Where the newest data are.
Kept ==
    /\ newest # "fresh"
    /\ ~wrecked /\ newest \in {"legacyNew", "freshNew"} => fs["target"] = newest
    /\ ~wrecked /\ newest = "legacy" =>
        IF mac THEN "legacy" \in {fs["source"], fs["backup"]}
        ELSE "legacy" \in {fs["overlay"], fs["target"]}

\* The user's data are those of the earlier layout, as they were.
Untouched == ~wrecked /\ newest = "legacy"

\* While they are untouched, the target is their copy before anything may serve it.
Served ==
    Untouched =>
        /\ fs["target"] \in {"absent", "empty", "legacy"}
        /\ \/ cmd.pc \in RecoverSteps
           \/ mac /\ cmd.pc \in {"adopt", "overlay", "artifacts", "wait", "finMark", "finRetire"}
           \/ box.st # "none" /\ box.data = "target"
           \/ "target" \in layout
           \/ mac /\ fs["source"] = "absent"
           => fs["target"] = "legacy"

DInv == Guest /\ Engine /\ Overlay /\ Copies /\ Kept /\ Served

-----------------------------------------------------------------------------
(* The passwords *)

\* The steps between the writing of the first password's file and its removal.
BootSteps == {"create", "artifacts", "wait", "finMark", "finRetire", "abort", "started",
              "unboot"} \cup CheckSteps

\* The file with the first password is only there between them, but after a kill.
Bootstrap ==
    boot # NoPw /\ ~killed =>
        \/ cmd.pc \in BootSteps
        \/ cmd.pc \in {"rtStop", "rtVM"} /\ cmd.ret = "unboot"

\* A success is not reported before the generated password is verified.
Reported ==
    /\ cred.ver => cred.gen
    /\ wf[1] = "running" => ~VerificationPending
    /\ At("unverified") => cmd.err # "none"
    /\ cmd.pc \in {"rtStop", "rtVM"} /\ cmd.ret = "unboot" => cmd.err # "none"
    /\ cmd.pc \in {"unboot", "result"} /\ cmd.op # "stop" /\ cmd.err = "none" =>
        ~VerificationPending

\* A first password is being generated and stored.
FirstPassword ==
    \/ cmd.pc \in {"pwSecret", "pwMark", "pwFile"}
    \/ cmd.pc \in {"image", "create"} /\ cmd.fresh

\* Which password opens the database that is served, by where its data come from.
Password ==
    ~wrecked =>
        /\ newest \in Legacy => sec = DefaultPw /\ ~cred.gen
        /\ (\E p \in Places : fs[p] \in Legacy) => newest \in Legacy
        /\ FirstPassword => newest \notin Legacy /\ ~cred.ver
        /\ cmd.pc \in {"recStop", "recRename"} => ~cred.ver
        /\ cred.ver => fs["target"] \in Fresh /\ sec = dbPw
        /\ At("verified") => fs["target"] \in Fresh /\ sec = dbPw
        /\ fs["target"] \in {"creating"} \cup Fresh => cred.gen
        /\ box.st # "none" /\ box.data = "target" => cred.gen \/ fs["target"] \in Legacy
        /\ At("create") \/ (At("image") /\ ~cmd.fresh) => cred.gen \/ fs["target"] \in Legacy
        /\ At("pwFile") => cred.gen

PInv == Bootstrap /\ Reported /\ Password

-----------------------------------------------------------------------------
(* How the command moves *)

\* No command runs.
LEMMA NoCmdIs ==
    /\ NoCmd.pc = "idle" /\ NoCmd.op = "none" /\ NoCmd.err = "none" /\ NoCmd.engine = "podman"
    /\ NoCmd.fresh = FALSE /\ NoCmd.ret = "idle"
BY DEF NoCmd

\* A step that goes on, with or without an error, moves the program counter alone.
LEMMA Moves ==
    ASSUME CmdType, NEW p \in Steps, Goto(p) \/ Err(p)
    PROVE  /\ CmdType' /\ cmd'.pc = p
           /\ cmd'.op = cmd.op /\ cmd'.fresh = cmd.fresh /\ cmd'.ret = cmd.ret
           /\ cmd'.engine = cmd.engine /\ cmd'.running = cmd.running
           /\ Goto(p) => cmd'.err = cmd.err
           /\ Err(p) => cmd'.err # "none"
<1>1. Goto(p) => CmdType' /\ cmd' = [cmd EXCEPT !.pc = p]
  BY DEF CmdType, Goto
<1>2. Err(p) => CmdType' /\ cmd' = [cmd EXCEPT !.pc = p, !.err = IF @ = "none" THEN "fail" ELSE @]
  BY DEF CmdType, Err
<1> QED BY <1>1, <1>2 DEF CmdType

\* The same wherever it goes.
LEMMA Goes ==
    ASSUME CmdType, NEW p, Goto(p) \/ Err(p)
    PROVE  /\ cmd'.pc = p
           /\ cmd'.op = cmd.op /\ cmd'.fresh = cmd.fresh /\ cmd'.ret = cmd.ret
           /\ cmd'.engine = cmd.engine /\ cmd'.running = cmd.running
           /\ Goto(p) => cmd'.err = cmd.err
           /\ Err(p) => cmd'.err # "none"
<1>1. Goto(p) => cmd' = [cmd EXCEPT !.pc = p]
  BY DEF Goto
<1>2. Err(p) => cmd' = [cmd EXCEPT !.pc = p, !.err = IF @ = "none" THEN "fail" ELSE @]
  BY DEF Err
<1> QED BY <1>1, <1>2 DEF CmdType

\* The stop after a failure, or of an unverified database.
LEMMA StopMoves ==
    ASSUME CmdType, NEW r \in {"unboot", "restored"},
           cmd' = [cmd EXCEPT !.pc = "rtStop", !.ret = r]
    PROVE  /\ CmdType' /\ cmd'.pc = "rtStop" /\ cmd'.ret = r
           /\ cmd'.op = cmd.op /\ cmd'.err = cmd.err /\ cmd'.engine = cmd.engine
<1>1. "rtStop" \in Steps
  BY DEF Steps, EndSteps
<1> QED BY <1>1 DEF CmdType

\* A taken port ends the start.
LEMMA PortMoves ==
    ASSUME CmdType, cmd' = [cmd EXCEPT !.pc = "started", !.err = "port"]
    PROVE  /\ CmdType' /\ cmd'.pc = "started" /\ cmd'.err = "port"
           /\ cmd'.op = cmd.op /\ cmd'.ret = cmd.ret /\ cmd'.engine = cmd.engine
<1>1. "started" \in Steps
  BY DEF Steps, StartSteps
<1> QED BY <1>1 DEF CmdType

\* The container's status is kept for the steps after the recovery.
LEMMA RecoverMoves ==
    ASSUME CmdType, NEW r, cmd' = [cmd EXCEPT !.pc = "recover", !.running = r]
    PROVE  /\ cmd'.pc = "recover" /\ cmd'.op = cmd.op /\ cmd'.err = cmd.err
           /\ cmd'.ret = cmd.ret /\ cmd'.engine = cmd.engine
BY DEF CmdType

\* Whether the deployment is fresh is read with the data directory.
LEMMA DataMoves ==
    ASSUME CmdType, cmd' = [cmd EXCEPT !.pc = "image", !.fresh = fs["target"] \notin Complete]
    PROVE  /\ cmd'.pc = "image" /\ cmd'.op = cmd.op /\ cmd'.err = cmd.err
           /\ cmd'.ret = cmd.ret /\ cmd'.engine = cmd.engine
           /\ cmd'.fresh <=> fs["target"] \notin Complete
BY DEF CmdType

\* A step of deploy or start keeps the control facts when it goes to another one.
LEMMA RunMoves ==
    ASSUME CmdOK, Control, NEW p \in RunSteps \cup {"result"}, Goto(p) \/ Err(p),
           cmd.pc \in RunSteps, p \in MacSteps => mac, UNCHANGED <<mac, wf, wrecked>>
    PROVE  CmdOK' /\ Control'
<1> USE DEF Steps, StartSteps, RunSteps, RunnerSteps, OverlaySteps, CopySteps, RecoverSteps,
           CheckSteps, PrepareSteps
<1>1. CmdType /\ p \in Steps
  BY DEF CmdOK, EndSteps
<1>2. CmdType' /\ cmd'.pc = p /\ cmd'.op = cmd.op
  BY <1>1, Moves
<1>3. cmd.op \in {"deploy", "start"} /\ wf = <<"inProgress", cmd.op>>
  BY DEF Control
<1>4. CmdOK'
  BY <1>2 DEF CmdOK
<1>5. p \notin {"idle", "dBox", "dVM", "rtStop", "rtVM", "artifactState", "probe", "restored",
               "giveUp", "record"} \cup GoneSteps
  BY DEF GoneSteps
<1>6. (cmd.pc \in MacSteps => mac)'
  BY <1>2
<1>7. (At("idle") => cmd = NoCmd)'
  BY <1>2, <1>5 DEF At
<1>8. (cmd.pc \notin PrepareSteps \cup {"idle", "busy"} => wf = <<"inProgress", cmd.op>>)'
  BY <1>2, <1>3
<1> HIDE DEF Steps, StartSteps, RunSteps, RunnerSteps, OverlaySteps, CopySteps, RecoverSteps,
            CheckSteps, PrepareSteps, MacSteps
<1>9. cmd'.pc \notin {"dBox", "dVM"} \cup GoneSteps /\ cmd'.pc \notin {"rtStop", "rtVM"}
       /\ cmd'.pc # "artifactState"
       /\ cmd'.pc \notin {"probe", "restored"} /\ cmd'.pc # "giveUp" /\ cmd'.pc # "record"
  BY <1>2, <1>5
<1>10. cmd'.op = cmd.op /\ cmd.op \in {"deploy", "start"}
  BY <1>2, <1>3
<1> QED BY <1>4, <1>6, <1>7, <1>8, <1>9, <1>10 DEF Control, At

\* The steps of Prepare keep the control facts.
LEMMA PrepareControl ==
    ASSUME CmdOK, RestOK, Control, Prepare PROVE CmdOK' /\ Control'
<1> USE DEF RestOK, Control, At, others, files, host, secrets, StartSteps, RunSteps,
           RunnerSteps, OverlaySteps, CopySteps, RecoverSteps, CheckSteps, PrepareSteps,
           MacSteps
<1>1. CASE PrepareVM
  BY <1>1
     DEF PrepareVM, GuestStale, CmdOK, CmdType, Goto, Err, Trouble, Steps, EndSteps, GoneSteps,
         Ops
<1>2. CASE StopVMBeforeGuestReplacement
  BY <1>2
     DEF StopVMBeforeGuestReplacement, VMExits, Stopped, CmdOK, CmdType, Goto, Err, Trouble,
         Steps, EndSteps, GoneSteps, Ops
<1>3. CASE GuestInit
  BY <1>3 DEF GuestInit, CmdOK, CmdType, Goto, Err, Trouble, Steps, EndSteps, GoneSteps, Ops
<1>4. CASE GuestDone
  BY <1>4 DEF GuestDone, CmdOK, CmdType, Goto, Err, Trouble, Steps, EndSteps, GoneSteps, Ops
<1>5. CASE WriteRunnerVersionMarker
  BY <1>5
     DEF WriteRunnerVersionMarker, CmdOK, CmdType, Goto, Err, Trouble, Steps, EndSteps,
         GoneSteps, Ops
<1>6. CASE PrepareHost
  <2>1. cmd.pc = "prepare" /\ ~mac /\ (Goto("record") \/ cmd' = NoCmd)
    BY <1>6 DEF PrepareHost
  <2>2. CASE Goto("record")
    BY <1>6, <2>1, <2>2, Moves DEF PrepareHost, CmdOK, Steps, GoneSteps
  <2>3. CASE cmd' = NoCmd
    BY <1>6, <2>1, <2>3 DEF PrepareHost, CmdOK, CmdType, Steps, GoneSteps, NoCmd, Ops
  <2> QED BY <2>1, <2>2, <2>3
<1>7. CASE RecordContainerEngine
  BY <1>7
     DEF RecordContainerEngine, CmdOK, CmdType, Goto, Err, Trouble, Steps, EndSteps, GoneSteps,
         Ops
<1>8. CASE MarkInProgress
  BY <1>8 DEF MarkInProgress, CmdOK, CmdType, Goto, Err, Trouble, Steps, EndSteps, GoneSteps, Ops
<1> QED BY <1>1, <1>2, <1>3, <1>4, <1>5, <1>6, <1>7, <1>8 DEF Prepare

\* The steps of Migrate keep the control facts.
LEMMA MigrateControl ==
    ASSUME CmdOK, RestOK, Control, Migrate PROVE CmdOK' /\ Control'
<1> USE DEF RestOK, Control, At, others, files, host, secrets, StartSteps, RunSteps,
           RunnerSteps, OverlaySteps, CopySteps, RecoverSteps, CheckSteps, PrepareSteps,
           MacSteps
<1>1. CASE MigrationPrepare
  BY <1>1, RunMoves DEF MigrationPrepare
<1>2. CASE MigrationStopNano
  BY <1>2, RunMoves DEF MigrationStopNano
<1>3. CASE ResetOrResumeStaging
  BY <1>3, RunMoves DEF ResetOrResumeStaging
<1>4. CASE CopySource
  BY <1>4, RunMoves DEF CopySource
<1>5. CASE CopiedSource
  BY <1>5, RunMoves DEF CopiedSource
<1>6. CASE MarkStaging
  BY <1>6, RunMoves DEF MarkStaging
<1>7. CASE Publish
  BY <1>7, RunMoves DEF Publish
<1>8. CASE PublishRename
  BY <1>8, RunMoves DEF PublishRename
<1> QED BY <1>1, <1>2, <1>3, <1>4, <1>5, <1>6, <1>7, <1>8 DEF Migrate

\* The steps of Install keep the control facts.
LEMMA InstallControl ==
    ASSUME CmdOK, RestOK, Control, Install PROVE CmdOK' /\ Control'
<1> USE DEF RestOK, Control, At, others, files, host, secrets, StartSteps, RunSteps,
           RunnerSteps, OverlaySteps, CopySteps, RecoverSteps, CheckSteps, PrepareSteps,
           MacSteps
<1>1. CASE AdoptLegacyContainerName
  BY <1>1, RunMoves DEF AdoptLegacyContainerName
<1>2. CASE MigrateOverlayDataIfNeeded
  <2>1. CASE cmd' = [cmd EXCEPT !.pc = "recover", !.running = Alive]
    <3>1. Alive \in BOOLEAN
      BY DEF Alive, Exists, Seen
    <3>2. cmd.pc = "overlay" /\ UNCHANGED <<mac, wf, wrecked>>
      BY <1>2 DEF MigrateOverlayDataIfNeeded
    <3>3. "recover" \in Steps
      BY DEF Steps
    <3>4. CmdType' /\ cmd'.pc = "recover" /\ cmd'.op = cmd.op
      BY <2>1, <3>1, <3>3 DEF CmdOK, CmdType
    <3> QED BY <3>2, <3>4 DEF CmdOK, GoneSteps
  <2>2. CASE Err(Abort) \/ Goto("ovStop")
    BY <1>2, <2>2, RunMoves DEF MigrateOverlayDataIfNeeded, Abort
  <2> QED BY <1>2, <2>1, <2>2 DEF MigrateOverlayDataIfNeeded
<1>3. CASE OverlayStop
  BY <1>3, RunMoves DEF OverlayStop
<1>4. CASE OverlayCopy
  BY <1>4, RunMoves DEF OverlayCopy, Abort, Fails
<1>5. CASE OverlayCopied
  BY <1>5, RunMoves DEF OverlayCopied
<1>6. CASE InstallOverlayData
  BY <1>6, RunMoves DEF InstallOverlayData, Abort
<1>7. CASE OverlayRename
  BY <1>7, RunMoves DEF OverlayRename, Abort, Fails
<1>8. CASE OverlayRemove
  BY <1>8, RunMoves DEF OverlayRemove
<1>9. CASE RecoverIncompleteInitialCreate
  BY <1>9, RunMoves DEF RecoverIncompleteInitialCreate
<1>10. CASE RecoverStop
  BY <1>10, RunMoves DEF RecoverStop
<1>11. CASE RecoverRename
  BY <1>11, RunMoves DEF RecoverRename
<1>12. CASE RecoverMkdir
  BY <1>12, RunMoves DEF RecoverMkdir
<1>13. CASE PrepareDataDir
  <2>1. /\ cmd.pc = "data" /\ UNCHANGED <<mac, wf, wrecked>>
        /\ cmd' = [cmd EXCEPT !.pc = "image", !.fresh = fs["target"] \notin Complete]
    BY <1>13 DEF PrepareDataDir
  <2>2. PICK b \in BOOLEAN : cmd' = [cmd EXCEPT !.pc = "image", !.fresh = b]
    BY <2>1
  <2>3. "image" \in Steps
    BY DEF Steps
  <2>4. CmdType' /\ cmd'.pc = "image" /\ cmd'.op = cmd.op
    BY <2>2, <2>3 DEF CmdOK, CmdType
  <2> QED BY <2>1, <2>4 DEF CmdOK, GoneSteps
<1>14. CASE LoadImage
  BY <1>14, RunMoves DEF LoadImage
<1>15. CASE StorePassword
  BY <1>15, RunMoves DEF StorePassword
<1>16. CASE MarkPasswordGenerated
  BY <1>16, RunMoves DEF MarkPasswordGenerated
<1>17. CASE WriteBootstrapPassword
  BY <1>17, RunMoves DEF WriteBootstrapPassword
<1>18. CASE CreateContainer
  <2>1. CASE cmd' = [cmd EXCEPT !.pc = "started", !.err = "port"]
    <3>1. cmd.pc = "create" /\ UNCHANGED <<mac, wf, wrecked>>
      BY <1>18 DEF CreateContainer
    <3>2. /\ CmdType' /\ cmd'.pc = "started" /\ cmd'.op = cmd.op
          /\ cmd.op \in {"deploy", "start"} /\ wf = <<"inProgress", cmd.op>>
      BY <2>1, <3>1, PortMoves DEF CmdOK
    <3> QED BY <3>1, <3>2 DEF CmdOK, GoneSteps
  <2>2. CASE Err(Abort) \/ Goto("artifacts")
    BY <1>18, <2>2, RunMoves DEF CreateContainer, Abort
  <2> QED BY <1>18, <2>1, <2>2 DEF CreateContainer, Fails
<1> QED BY <1>1, <1>2, <1>3, <1>4, <1>5, <1>6, <1>7, <1>8, <1>9, <1>10, <1>11, <1>12, <1>13,
           <1>14, <1>15, <1>16, <1>17, <1>18 DEF Install

\* The steps of Finish keep the control facts.
LEMMA FinishControl ==
    ASSUME CmdOK, RestOK, Control, Finish PROVE CmdOK' /\ Control'
<1> USE DEF RestOK, Control, At, others, files, host, secrets, StartSteps, RunSteps,
           RunnerSteps, OverlaySteps, CopySteps, RecoverSteps, CheckSteps, PrepareSteps,
           MacSteps
<1>1. CASE AbortStart
  BY <1>1, RunMoves DEF AbortStart
<1>2. CASE WriteArtifacts
  BY <1>2, RunMoves DEF WriteArtifacts
<1>3. CASE WaitForDatabase
  BY <1>3, RunMoves DEF WaitForDatabase
<1>4. CASE FinalizeMark
  BY <1>4, RunMoves DEF FinalizeMark
<1>5. CASE FinalizeRetire
  BY <1>5, RunMoves DEF FinalizeRetire
<1>6. CASE AfterStart
  BY <1>6, RunMoves DEF AfterStart
<1>7. CASE VerifyStoredCredential
  BY <1>7, RunMoves DEF VerifyStoredCredential
<1>8. CASE MarkPasswordVerified
  BY <1>8, RunMoves DEF MarkPasswordVerified
<1>9. CASE StopUnverified
  <2>1. cmd' = [cmd EXCEPT !.pc = "rtStop", !.ret = "unboot"] /\ cmd.op \in {"deploy", "start"}
        /\ UNCHANGED <<mac, wf, wrecked>> /\ wf = <<"inProgress", cmd.op>>
    BY <1>9 DEF StopUnverified
  <2>2. CmdType' /\ cmd'.pc = "rtStop" /\ cmd'.ret = "unboot" /\ cmd'.op = cmd.op
    BY <2>1, StopMoves DEF CmdOK
  <2> QED BY <2>1, <2>2 DEF CmdOK, GoneSteps
<1>10. CASE RemoveBootstrap
  BY <1>10, RunMoves DEF RemoveBootstrap
<1>11. CASE RuntimeStop
  BY <1>11
     DEF RuntimeStop, Reachable, RemoveCurrent, Removed, Exists, Seen, NoBox, CmdOK, CmdType,
         Goto, Err, Trouble, Steps, EndSteps, GoneSteps, Ops
<1>12. CASE RuntimeStopVM
  BY <1>12
     DEF RuntimeStopVM, VMExits, Stopped, CmdOK, CmdType, Goto, Err, Trouble, Steps, EndSteps,
         GoneSteps, Ops
<1>13. CASE UpdateArtifactState
  BY <1>13
     DEF UpdateArtifactState, CmdOK, CmdType, Goto, Err, Trouble, Steps, EndSteps, GoneSteps,
         Ops
<1>14. CASE Result
  <2>1. cmd.pc = "result" /\ cmd.op \in {"deploy", "start", "stop"}
        /\ cmd.err \in {"none", "fail", "port"}
    BY <1>14 DEF Result, CmdOK, CmdType
  <2>2. CASE cmd' = NoCmd
    <3>1. wf' \in {<<"stopped", "none">>, <<"running", "none">>, <<"initialized", "none">>,
                   <<"failed", "none">>}
      <4>1. CASE cmd.err = "none" \/ cmd.op = "deploy" \/ cmd.err = "port"
        BY <1>14, <2>1, <4>1 DEF Result, End
      <4>2. CASE cmd.err = "fail" /\ cmd.op # "deploy"
        <5>1. Goto("probe")
          BY <1>14, <4>2 DEF Result
        <5> QED BY <2>2, <5>1, Moves DEF CmdOK, NoCmd, Steps, EndSteps
      <4> QED BY <2>1, <4>1, <4>2
    <3> QED BY <1>14, <2>2, <3>1 DEF Result, NoCmd, CmdOK, CmdType, Steps, GoneSteps, Ops
  <2>3. CASE Goto("probe") /\ UNCHANGED wf /\ cmd.op # "deploy"
    BY <1>14, <2>1, <2>3, Moves DEF Result, CmdOK, Steps, EndSteps, GoneSteps
  <2> QED BY <1>14, <2>1, <2>2, <2>3 DEF Result, End
<1>15. CASE ProbeAfterFailure
  <2>1. cmd.pc = "probe" /\ cmd.op \in {"start", "stop"}
    BY <1>15 DEF ProbeAfterFailure
  <2>2. CASE cmd' = NoCmd
    <3>1. wf' \in {<<"stopped", "none">>, <<"interrupted", cmd.op>>}
      BY <1>15, <2>1, <2>2 DEF ProbeAfterFailure, End, NoCmd
    <3> QED BY <1>15, <2>1, <2>2, <3>1
               DEF ProbeAfterFailure, NoCmd, CmdOK, CmdType, Steps, GoneSteps, Ops
  <2>3. CASE cmd' = [cmd EXCEPT !.pc = "rtStop", !.ret = "restored"] /\ UNCHANGED wf
    <3>1. UNCHANGED <<mac, wf, wrecked>> /\ wf = <<"inProgress", cmd.op>>
      BY <1>15, <2>1, <2>3 DEF ProbeAfterFailure
    <3>2. CmdType' /\ cmd'.pc = "rtStop" /\ cmd'.ret = "restored" /\ cmd'.op = cmd.op
      BY <2>3, StopMoves DEF CmdOK
    <3> QED BY <2>1, <3>1, <3>2 DEF CmdOK, GoneSteps
  <2> QED BY <1>15, <2>1, <2>2, <2>3 DEF ProbeAfterFailure, End
<1>16. CASE RestoreState
  <2>1. cmd' = NoCmd /\ wf' \in {<<"stopped", "none">>, <<"interrupted", cmd.op>>}
    BY <1>16 DEF RestoreState, End
  <2> QED BY <1>16, <2>1 DEF RestoreState, NoCmd, CmdOK, CmdType, Steps, GoneSteps, Ops
<1> QED BY <1>1, <1>2, <1>3, <1>4, <1>5, <1>6, <1>7, <1>8, <1>9, <1>10, <1>11, <1>12, <1>13,
           <1>14, <1>15, <1>16 DEF Finish

\* The steps of Destroy keep the control facts.
LEMMA DestroyControl ==
    ASSUME CmdOK, RestOK, Control, Destroy PROVE CmdOK' /\ Control'
<1> USE DEF RestOK, Control, At, others, files, host, secrets, StartSteps, RunSteps,
           RunnerSteps, OverlaySteps, CopySteps, RecoverSteps, CheckSteps, PrepareSteps,
           MacSteps
<1>1. CASE DestroyContainer
  BY <1>1
     DEF DestroyContainer, Reachable, RemoveCurrent, Removed, Exists, Seen, NoBox, CmdOK,
         CmdType, Goto, Err, Trouble, Steps, EndSteps, GoneSteps, Ops
<1>2. CASE DestroyStopVM
  BY <1>2
     DEF DestroyStopVM, VMExits, Stopped, CmdOK, CmdType, Goto, Err, Trouble, Steps, EndSteps,
         GoneSteps, Ops
<1>3. CASE RemovedAll
  BY <1>3 DEF RemovedAll, CmdOK, CmdType, Goto, Err, Trouble, Steps, EndSteps, GoneSteps, Ops
<1>4. CASE RemoveSecrets
  BY <1>4 DEF RemoveSecrets, CmdOK, CmdType, Goto, Err, Trouble, Steps, EndSteps, GoneSteps, Ops
<1>5. CASE DestroyDone
  BY <1>5
     DEF DestroyDone, End, NoCmd, CmdOK, CmdType, Goto, Err, Trouble, Steps, EndSteps,
         GoneSteps, Ops
<1>6. ASSUME NEW i \in Left, RemoveItem(i) PROVE CmdOK' /\ Control'
  <2>1. UNCHANGED <<mac, wf, wrecked, cmd>>
    BY <1>6 DEF RemoveItem
  <2> QED BY <2>1 DEF CmdOK, CmdType
<1> QED BY <1>1, <1>2, <1>3, <1>4, <1>5, <1>6 DEF Destroy

\* The steps of Outside keep the control facts.
LEMMA OutsideControl ==
    ASSUME CmdOK, RestOK, Control, Outside PROVE CmdOK' /\ Control'
<1> USE DEF RestOK, Control, At, others, files, host, secrets, StartSteps, RunSteps,
           RunnerSteps, OverlaySteps, CopySteps, RecoverSteps, CheckSteps, PrepareSteps,
           MacSteps
<1>1. CASE NanoCreates
  BY <1>1
     DEF NanoCreates, Serving, CmdOK, CmdType, Goto, Err, Trouble, Steps, EndSteps, GoneSteps,
         Ops
<1>2. CASE NanoCreated
  BY <1>2
     DEF NanoCreated, Serving, CmdOK, CmdType, Goto, Err, Trouble, Steps, EndSteps, GoneSteps,
         Ops
<1>3. CASE NanoDies
  BY <1>3
     DEF NanoDies, Serving, Stopped, CmdOK, CmdType, Goto, Err, Trouble, Steps, EndSteps,
         GoneSteps, Ops
<1>4. CASE UserWrites
  BY <1>4
     DEF UserWrites, Serving, CmdOK, CmdType, Goto, Err, Trouble, Steps, EndSteps, GoneSteps,
         Ops
<1>5. CASE HostStops
  BY <1>5
     DEF HostStops, Stopped, CmdOK, CmdType, Goto, Err, Trouble, Steps, EndSteps, GoneSteps, Ops
<1>6. CASE RunnerChanges
  BY <1>6 DEF RunnerChanges, CmdOK, CmdType, Goto, Err, Trouble, Steps, EndSteps, GoneSteps, Ops
<1>7. CASE Interrupt
  BY <1>7
     DEF Interrupt, End, NoCmd, Registered, CmdOK, CmdType, Goto, Err, Trouble, Steps, EndSteps,
         GoneSteps, Ops
<1>8. CASE Kill
  BY <1>8 DEF Kill, NoCmd, CmdOK, CmdType, Goto, Err, Trouble, Steps, EndSteps, GoneSteps, Ops
<1> QED BY <1>1, <1>2, <1>3, <1>4, <1>5, <1>6, <1>7, <1>8 DEF Outside

\* So does the removal of the bootstrap file.
LEMMA ClearControl ==
    ASSUME CmdOK, RestOK, Control, ClearBootstrap PROVE CmdOK' /\ Control'
BY RunMoves
   DEF RestOK, Control, At, others, files, host, secrets, StartSteps, RunSteps, RunnerSteps,
       OverlaySteps, CopySteps, RecoverSteps, CheckSteps, PrepareSteps, MacSteps, ClearBootstrap

\* So does the start of the VM.
LEMMA StartVMControl ==
    ASSUME CmdOK, RestOK, Control, StartVM PROVE CmdOK' /\ Control'
<1> USE DEF RestOK, Control, At, others, files, host, secrets, StartSteps, RunSteps,
           RunnerSteps, OverlaySteps, CopySteps, RecoverSteps, CheckSteps, PrepareSteps,
           MacSteps
<1>1. CASE Goto("prep")
  BY <1>1, RunMoves DEF StartVM
<1>2. CASE Err("started")
  BY <1>2, RunMoves DEF StartVM
<1>3. CASE cmd' = [cmd EXCEPT !.pc = "started", !.err = "port"]
  BY <1>3 DEF StartVM, CmdOK, CmdType, Steps, GoneSteps
<1> QED BY <1>1, <1>2, <1>3 DEF StartVM

\* Where an error leads, by the step that meets it.
LEMMA FailTargetIs ==
    ASSUME CmdOK, RestOK, Control, cmd.pc \in Fallible
    PROVE  /\ FailTarget \in Steps
           /\ At("clear") => FailTarget = "result"
           /\ cmd.pc \in MigrationSteps \cup InstallSteps => FailTarget = Abort
           /\ cmd.pc \in WaitSteps \cup {"abort"} => FailTarget = "started"
           /\ cmd.pc \in {"verify", "verified"} => FailTarget = "unverified"
           /\ cmd.pc \in {"rtStop", "rtVM"} =>
                FailTarget = IF cmd.ret = "restored" THEN "giveUp" ELSE cmd.ret
           /\ cmd.pc \in DestroySteps => FailTarget = "giveUp"
           /\ At("artifactState") => FailTarget = "result"
<1> USE DEF Fallible, FailTarget, MigrationSteps, InstallSteps, WaitSteps, DestroySteps, At,
           Abort
<1>1. cmd.pc \in {"rtStop", "rtVM"} => cmd.ret \in {"unboot", "restored", "artifactState"}
  BY DEF Control
<1> QED BY <1>1 DEF Steps, StartSteps, EndSteps, CheckSteps

\* So does an error.
LEMMA FailsControl ==
    ASSUME CmdOK, RestOK, Control, CallFails PROVE CmdOK' /\ Control'
<1> USE DEF RestOK, Control, At, others, files, host, secrets, StartSteps, RunSteps,
           RunnerSteps, OverlaySteps, CopySteps, RecoverSteps, CheckSteps, PrepareSteps,
           MacSteps
<1>1. CASE cmd.pc \in Fallible /\ Err(FailTarget) /\ UNCHANGED others
  <2>1. CASE cmd.pc \in RunSteps
    <3>1. FailTarget \in {"result", "started", "unverified"} \/ FailTarget = Abort
      BY <1>1, <2>1, FailTargetIs DEF Fallible, DestroySteps
    <3> QED BY <1>1, <2>1, <3>1, RunMoves DEF Abort
  <2>2. CASE cmd.pc \in {"rtStop", "rtVM"} /\ cmd.ret # "restored"
    BY <1>1, <2>2, FailTargetIs, Moves DEF CmdOK, GoneSteps
  <2>3. CASE cmd.pc \in {"rtStop", "rtVM"} /\ cmd.ret = "restored"
    BY <1>1, <2>3, FailTargetIs, Moves DEF CmdOK, GoneSteps
  <2>4. CASE cmd.pc \in DestroySteps
    BY <1>1, <2>4, FailTargetIs, Moves DEF CmdOK, GoneSteps, DestroySteps
  <2>5. CASE At("artifactState")
    BY <1>1, <2>5, FailTargetIs, Moves DEF CmdOK, GoneSteps
  <2> QED BY <1>1, <2>1, <2>2, <2>3, <2>4, <2>5
             DEF Fallible, MigrationSteps, InstallSteps, WaitSteps
<1>2. CASE cmd' = NoCmd /\ UNCHANGED others
  BY <1>2 DEF NoCmd, CmdOK, CmdType, Steps, GoneSteps, Ops
<1> QED BY <1>1, <1>2 DEF CallFails, Fails

\* So does the beginning of a command.
LEMMA CommandsControl ==
    ASSUME CmdOK, RestOK, Control, Commands PROVE CmdOK' /\ Control'
<1>0. CommandEngine \in {"podman", "docker"}
  BY DEF CommandEngine, ContainerEngine, RecordedEngine, RestOK
<1> USE DEF RestOK, Control, At, others, files, host, secrets, StartSteps, RunSteps,
           RunnerSteps, OverlaySteps, CopySteps, RecoverSteps, CheckSteps, PrepareSteps,
           MacSteps
<1>00. ASSUME NEW op \in Ops, NEW p \in Steps
       PROVE  /\ New(op, p) \in [pc : Steps, op : Ops, err : {"none", "fail", "port"}, fresh : BOOLEAN,
                               ret : {"idle", "unboot", "restored", "artifactState"},
                               engine : {"podman", "docker"}, running : BOOLEAN]
              /\ New(op, p).pc = p /\ New(op, p).op = op
  BY <1>0 DEF New, NoCmd
<1>1. CASE BeginDeploy
  <2>1. CmdType' /\ cmd'.pc = "prepare" /\ cmd'.op = "deploy" /\ UNCHANGED <<mac, wf, wrecked>>
    BY <1>1, <1>00 DEF BeginDeploy, CmdType, Ops, Steps
  <2> QED BY <2>1 DEF CmdOK, GoneSteps
<1>2. CASE BeginStart
  <2>0. Reconciled \in {wf, <<"stopped", "none">>} /\ wf' = Reconciled /\ UNCHANGED <<mac, wrecked>>
    BY <1>2 DEF BeginStart, Reconciled
  <2>1. CASE cmd' = New("start", "prepare")
    <3>1. CmdType' /\ cmd'.pc = "prepare" /\ cmd'.op = "start"
      BY <2>1, <1>00 DEF CmdType, Ops, Steps
    <3> QED BY <2>0, <3>1 DEF CmdOK, GoneSteps, Ops
  <2>2. CASE cmd' = NoCmd
    BY <2>0, <2>2 DEF NoCmd, CmdOK, CmdType, Steps, GoneSteps, Ops
  <2> QED BY <1>2, <2>1, <2>2 DEF BeginStart
<1>3. CASE BeginStop
  <2>0. Reconciled \in {wf, <<"stopped", "none">>} /\ UNCHANGED <<mac, wrecked>>
    BY <1>3 DEF BeginStop, Reconciled
  <2>1. CASE cmd' = [New("stop", "rtStop") EXCEPT !.ret = "artifactState"]
           /\ wf' = <<"inProgress", "stop">>
    <3>1. CmdType' /\ cmd'.pc = "rtStop" /\ cmd'.op = "stop" /\ cmd'.ret = "artifactState"
      BY <2>1, <1>00 DEF CmdType, Ops, Steps, EndSteps
    <3> QED BY <2>0, <2>1, <3>1 DEF CmdOK, GoneSteps, Ops
  <2>2. CASE cmd' = NoCmd /\ wf' = Reconciled
    BY <2>0, <2>2 DEF NoCmd, CmdOK, CmdType, Steps, GoneSteps, Ops
  <2> QED BY <1>3, <2>1, <2>2 DEF BeginStop
<1>4. CASE BeginDestroy
  <2>1. /\ CmdType' /\ cmd'.pc = "dBox" /\ cmd'.op = "destroy" /\ UNCHANGED mac
        /\ wf' = <<"inProgress", "destroy">> /\ wrecked'
    BY <1>4, <1>00 DEF BeginDestroy, CmdType, Ops, Steps
  <2> QED BY <2>1 DEF CmdOK, GoneSteps, Ops
<1>5. ASSUME NEW choice \in {"auto", "podman", "docker"}, ConfigureEngine(choice)
      PROVE  CmdOK' /\ Control'
  <2>1. UNCHANGED <<mac, wf, wrecked, cmd>>
    BY <1>5 DEF ConfigureEngine
  <2> QED BY <2>1 DEF CmdOK, CmdType
<1> QED BY <1>1, <1>2, <1>3, <1>4, <1>5 DEF Commands

\* Every step keeps the control facts.
LEMMA NextControl ==
    ASSUME CmdOK, RestOK, Control, [Next]_vars PROVE CmdOK' /\ Control'
<1>1. CASE Launcher
  <2>1. CASE Destroy
    BY <2>1, DestroyControl
  <2> QED BY <1>1, <2>1, PrepareControl, ClearControl, StartVMControl, MigrateControl,
             InstallControl, FinishControl, FailsControl DEF Launcher
<1>2. CASE UNCHANGED vars
  BY <1>2 DEF vars, others, CmdOK, CmdType, Control, At
<1> QED BY <1>1, <1>2, CommandsControl, OutsideControl DEF Next

-----------------------------------------------------------------------------
(* The types *)

\* A stopped container is the same container.
LEMMA StoppedIs ==
    ASSUME box \in Boxes
    PROVE  /\ Stopped \in Boxes /\ Stopped.st # "running"
           /\ Stopped.st = "none" <=> box.st = "none"
           /\ Stopped.name = box.name /\ Stopped.data = box.data /\ Stopped.once = box.once
           /\ Stopped.engine = box.engine
BY DEF Boxes, Stopped

\* No container.
LEMMA NoBoxIs ==
    /\ NoBox \in Boxes /\ NoBox.st = "none" /\ NoBox.name = "current" /\ NoBox.data = "target"
    /\ NoBox.once = FALSE /\ NoBox.engine = "podman"
BY DEF Boxes, NoBox

\* Removing the container takes at most the data inside it.
LEMMA RemoveCurrentIs ==
    ASSUME StoreOK, RemoveCurrent
    PROVE  /\ box' \in Boxes /\ fs' \in [Places -> Contents]
           /\ \/ Exists("current") /\ box' = NoBox /\ fs' = [fs EXCEPT !["overlay"] = "absent"]
              \/ ~Exists("current") /\ box' = box /\ fs' = fs
           /\ \A p \in Places \ {"overlay"} : fs'[p] = fs[p]
           /\ fs'["overlay"] \in {"absent", fs["overlay"]}
<1>1. box \in Boxes /\ fs \in [Places -> Contents] /\ "overlay" \in Places /\ "absent" \in Contents
  BY DEF StoreOK, Places, Contents
<1>2. CASE Exists("current")
  BY <1>1, <1>2, NoBoxIs DEF RemoveCurrent, Removed
<1>3. CASE ~Exists("current")
  BY <1>1, <1>3 DEF RemoveCurrent
<1> QED BY <1>2, <1>3

\* A failure is counted.
LEMMA TroubleIs ==
    ASSUME RestOK, Trouble
    PROVE  /\ count' \in [commands : 0..MaxCommands, trouble : 0..MaxTrouble, pw : Nat]
           /\ count'.pw = count.pw
BY LocalRuntimeAssumption DEF RestOK, Trouble

\* The steps of Prepare keep the types of the container and the data.
LEMMA PrepareStore ==
    ASSUME CmdOK, StoreOK, Prepare PROVE StoreOK'
<1> USE DEF StoreOK, Contents, Complete, Legacy, Places, others, files, host, secrets
<1>1. CASE PrepareVM
  BY <1>1 DEF PrepareVM, GuestStale
<1>2. CASE StopVMBeforeGuestReplacement
  BY <1>2, StoppedIs DEF StopVMBeforeGuestReplacement, VMExits
<1>3. CASE GuestInit
  BY <1>3 DEF GuestInit
<1>4. CASE GuestDone
  BY <1>4 DEF GuestDone
<1>5. CASE WriteRunnerVersionMarker
  BY <1>5 DEF WriteRunnerVersionMarker
<1>6. CASE PrepareHost
  BY <1>6
     DEF PrepareHost, EnsureReady, EnsureStartable, EnsureMachineRunning, RequireDockerEngine
<1>7. CASE RecordContainerEngine
  BY <1>7 DEF RecordContainerEngine
<1>8. CASE MarkInProgress
  BY <1>8 DEF MarkInProgress
<1> QED BY <1>1, <1>2, <1>3, <1>4, <1>5, <1>6, <1>7, <1>8 DEF Prepare

\* The steps of Prepare keep the other types.
LEMMA PrepareRest ==
    ASSUME CmdOK, RestOK, Prepare PROVE RestOK'
<1> USE DEF RestOK, others, files, host, secrets, NoPw, DefaultPw
<1>1. CASE PrepareVM
  BY <1>1 DEF PrepareVM, GuestStale
<1>2. CASE StopVMBeforeGuestReplacement
  BY <1>2 DEF StopVMBeforeGuestReplacement, VMExits
<1>3. CASE GuestInit
  BY <1>3, LocalRuntimeAssumption DEF GuestInit
<1>4. CASE GuestDone
  BY <1>4, LocalRuntimeAssumption DEF GuestDone
<1>5. CASE WriteRunnerVersionMarker
  BY <1>5 DEF WriteRunnerVersionMarker
<1>6. CASE PrepareHost
  BY <1>6
     DEF PrepareHost, EnsureReady, EnsureStartable, EnsureMachineRunning, RequireDockerEngine
<1>7. CASE RecordContainerEngine
  BY <1>7 DEF RecordContainerEngine, CmdOK, CmdType
<1>8. CASE MarkInProgress
  BY <1>8 DEF MarkInProgress
<1> QED BY <1>1, <1>2, <1>3, <1>4, <1>5, <1>6, <1>7, <1>8 DEF Prepare

\* The steps of Migrate keep the types of the container and the data.
LEMMA MigrateStore ==
    ASSUME CmdOK, StoreOK, Migrate PROVE StoreOK'
<1> USE DEF StoreOK, Contents, Complete, Legacy, Places, others, files, host, secrets
<1>1. CASE MigrationPrepare
  BY <1>1 DEF MigrationPrepare, MarkerMatches, Populated
<1>2. CASE MigrationStopNano
  BY <1>2, RemoveCurrentIs, NoBoxIs DEF MigrationStopNano, MarkerMatches, Populated
<1>3. CASE ResetOrResumeStaging
  BY <1>3 DEF ResetOrResumeStaging, MarkerMatches
<1>4. CASE CopySource
  BY <1>4 DEF CopySource
<1>5. CASE CopiedSource
  BY <1>5 DEF CopiedSource
<1>6. CASE MarkStaging
  BY <1>6 DEF MarkStaging
<1>7. CASE Publish
  BY <1>7 DEF Publish, Populated
<1>8. CASE PublishRename
  BY <1>8 DEF PublishRename, MarkerMatches
<1> QED BY <1>1, <1>2, <1>3, <1>4, <1>5, <1>6, <1>7, <1>8 DEF Migrate

\* The steps of Migrate keep the other types.
LEMMA MigrateRest ==
    ASSUME CmdOK, RestOK, Migrate PROVE RestOK'
<1> USE DEF RestOK, others, files, host, secrets, NoPw, DefaultPw
<1>1. CASE MigrationPrepare
  BY <1>1 DEF MigrationPrepare, MarkerMatches, Populated
<1>2. CASE MigrationStopNano
  BY <1>2 DEF MigrationStopNano, MarkerMatches, Populated
<1>3. CASE ResetOrResumeStaging
  BY <1>3 DEF ResetOrResumeStaging, MarkerMatches
<1>4. CASE CopySource
  BY <1>4 DEF CopySource
<1>5. CASE CopiedSource
  BY <1>5 DEF CopiedSource
<1>6. CASE MarkStaging
  BY <1>6 DEF MarkStaging
<1>7. CASE Publish
  BY <1>7 DEF Publish, Populated
<1>8. CASE PublishRename
  BY <1>8 DEF PublishRename, MarkerMatches
<1> QED BY <1>1, <1>2, <1>3, <1>4, <1>5, <1>6, <1>7, <1>8 DEF Migrate

\* The steps of Install keep the types of the container and the data.
LEMMA InstallStore ==
    ASSUME CmdOK, StoreOK, Install PROVE StoreOK'
<1> USE DEF StoreOK, Contents, Complete, Legacy, Places, others, files, host, secrets
<1>1. CASE AdoptLegacyContainerName
  BY <1>1 DEF AdoptLegacyContainerName, Boxes
<1>2. CASE MigrateOverlayDataIfNeeded
  BY <1>2 DEF MigrateOverlayDataIfNeeded, Populated, Alive, Abort
<1>3. CASE OverlayStop
  BY <1>3, StoppedIs DEF OverlayStop
<1>4. CASE OverlayCopy
  BY <1>4 DEF OverlayCopy, Abort
<1>5. CASE OverlayCopied
  BY <1>5 DEF OverlayCopied
<1>6. CASE InstallOverlayData
  BY <1>6 DEF InstallOverlayData, Populated, Abort
<1>7. CASE OverlayRename
  BY <1>7 DEF OverlayRename, Abort
<1>8. CASE OverlayRemove
  BY <1>8, NoBoxIs DEF OverlayRemove, Removed
<1>9. CASE RecoverIncompleteInitialCreate
  BY <1>9 DEF RecoverIncompleteInitialCreate
<1>10. CASE RecoverStop
  BY <1>10, RemoveCurrentIs, NoBoxIs DEF RecoverStop
<1>11. CASE RecoverRename
  BY <1>11 DEF RecoverRename
<1>12. CASE RecoverMkdir
  BY <1>12 DEF RecoverMkdir
<1>13. CASE PrepareDataDir
  BY <1>13 DEF PrepareDataDir
<1>14. CASE LoadImage
  BY <1>14 DEF LoadImage
<1>15. CASE StorePassword
  BY <1>15 DEF StorePassword
<1>16. CASE MarkPasswordGenerated
  BY <1>16 DEF MarkPasswordGenerated
<1>17. CASE WriteBootstrapPassword
  BY <1>17 DEF WriteBootstrapPassword
<1>18. CASE CreateContainer
  BY <1>18 DEF CreateContainer, NanoRunSpec, Abort, CmdOK, CmdType, Boxes
<1> QED BY <1>1, <1>2, <1>3, <1>4, <1>5, <1>6, <1>7, <1>8, <1>9, <1>10, <1>11, <1>12, <1>13,
           <1>14, <1>15, <1>16, <1>17, <1>18 DEF Install

\* The steps of Install keep the other types.
LEMMA InstallRest ==
    ASSUME CmdOK, RestOK, Install PROVE RestOK'
<1> USE DEF RestOK, others, files, host, secrets, NoPw, DefaultPw
<1>1. CASE AdoptLegacyContainerName
  BY <1>1 DEF AdoptLegacyContainerName
<1>2. CASE MigrateOverlayDataIfNeeded
  BY <1>2 DEF MigrateOverlayDataIfNeeded, Populated, Alive, Abort
<1>3. CASE OverlayStop
  BY <1>3 DEF OverlayStop
<1>4. CASE OverlayCopy
  BY <1>4, TroubleIs DEF OverlayCopy, Abort, Fails
<1>5. CASE OverlayCopied
  BY <1>5 DEF OverlayCopied
<1>6. CASE InstallOverlayData
  BY <1>6 DEF InstallOverlayData, Populated, Abort
<1>7. CASE OverlayRename
  BY <1>7, TroubleIs DEF OverlayRename, Abort, Fails
<1>8. CASE OverlayRemove
  BY <1>8 DEF OverlayRemove
<1>9. CASE RecoverIncompleteInitialCreate
  BY <1>9 DEF RecoverIncompleteInitialCreate
<1>10. CASE RecoverStop
  BY <1>10 DEF RecoverStop
<1>11. CASE RecoverRename
  BY <1>11 DEF RecoverRename
<1>12. CASE RecoverMkdir
  BY <1>12 DEF RecoverMkdir
<1>13. CASE PrepareDataDir
  BY <1>13 DEF PrepareDataDir
<1>14. CASE LoadImage
  BY <1>14 DEF LoadImage
<1>15. CASE StorePassword
  BY <1>15 DEF StorePassword
<1>16. CASE MarkPasswordGenerated
  BY <1>16 DEF MarkPasswordGenerated
<1>17. CASE WriteBootstrapPassword
  BY <1>17 DEF WriteBootstrapPassword
<1>18. CASE CreateContainer
  BY <1>18, TroubleIs DEF CreateContainer, NanoRunSpec, Abort, Fails
<1> QED BY <1>1, <1>2, <1>3, <1>4, <1>5, <1>6, <1>7, <1>8, <1>9, <1>10, <1>11, <1>12, <1>13,
           <1>14, <1>15, <1>16, <1>17, <1>18 DEF Install

\* The steps of Finish keep the types of the container and the data.
LEMMA FinishStore ==
    ASSUME CmdOK, StoreOK, Finish PROVE StoreOK'
<1> USE DEF StoreOK, Contents, Complete, Legacy, Places, others, files, host, secrets
<1>1. CASE AbortStart
  BY <1>1, StoppedIs DEF AbortStart, VMExits
<1>2. CASE WriteArtifacts
  BY <1>2 DEF WriteArtifacts
<1>3. CASE WaitForDatabase
  BY <1>3 DEF WaitForDatabase, Ready
<1>4. CASE FinalizeMark
  BY <1>4 DEF FinalizeMark
<1>5. CASE FinalizeRetire
  BY <1>5 DEF FinalizeRetire
<1>6. CASE AfterStart
  BY <1>6 DEF AfterStart, VerificationPending
<1>7. CASE VerifyStoredCredential
  BY <1>7 DEF VerifyStoredCredential, Ready, DbPassword
<1>8. CASE MarkPasswordVerified
  BY <1>8 DEF MarkPasswordVerified
<1>9. CASE StopUnverified
  BY <1>9 DEF StopUnverified
<1>10. CASE RemoveBootstrap
  BY <1>10 DEF RemoveBootstrap
<1>11. CASE RuntimeStop
  BY <1>11, RemoveCurrentIs, NoBoxIs DEF RuntimeStop
<1>12. CASE RuntimeStopVM
  BY <1>12, StoppedIs DEF RuntimeStopVM, VMExits
<1>13. CASE UpdateArtifactState
  BY <1>13 DEF UpdateArtifactState
<1>14. CASE Result
  BY <1>14 DEF Result, End
<1>15. CASE ProbeAfterFailure
  BY <1>15
     DEF ProbeAfterFailure, EnsureStartable, EnsureMachineRunning, RequireDockerEngine, Alive,
         End
<1>16. CASE RestoreState
  BY <1>16 DEF RestoreState, End
<1> QED BY <1>1, <1>2, <1>3, <1>4, <1>5, <1>6, <1>7, <1>8, <1>9, <1>10, <1>11, <1>12, <1>13,
           <1>14, <1>15, <1>16 DEF Finish

\* The steps of Finish keep the other types.
LEMMA FinishRest ==
    ASSUME CmdOK, RestOK, Finish PROVE RestOK'
<1> USE DEF RestOK, others, files, host, secrets, NoPw, DefaultPw
<1>1. CASE AbortStart
  BY <1>1 DEF AbortStart, VMExits
<1>2. CASE WriteArtifacts
  BY <1>2 DEF WriteArtifacts
<1>3. CASE WaitForDatabase
  BY <1>3, TroubleIs DEF WaitForDatabase, Ready
<1>4. CASE FinalizeMark
  BY <1>4 DEF FinalizeMark
<1>5. CASE FinalizeRetire
  BY <1>5 DEF FinalizeRetire
<1>6. CASE AfterStart
  BY <1>6 DEF AfterStart, VerificationPending
<1>7. CASE VerifyStoredCredential
  BY <1>7 DEF VerifyStoredCredential, Ready, DbPassword
<1>8. CASE MarkPasswordVerified
  BY <1>8 DEF MarkPasswordVerified
<1>9. CASE StopUnverified
  BY <1>9 DEF StopUnverified
<1>10. CASE RemoveBootstrap
  BY <1>10 DEF RemoveBootstrap
<1>11. CASE RuntimeStop
  BY <1>11 DEF RuntimeStop
<1>12. CASE RuntimeStopVM
  BY <1>12 DEF RuntimeStopVM, VMExits
<1>13. CASE UpdateArtifactState
  BY <1>13 DEF UpdateArtifactState
<1>14. CASE Result
  BY <1>14 DEF Result, End
<1>15. CASE ProbeAfterFailure
  <2>1. UNCHANGED count \/ Trouble
    BY <1>15 DEF ProbeAfterFailure
  <2>2. up' \in BOOLEAN
    BY <1>15 DEF ProbeAfterFailure, EnsureStartable, EnsureMachineRunning, RequireDockerEngine
  <2>3. /\ count' \in [commands : 0..MaxCommands, trouble : 0..MaxTrouble, pw : Nat]
        /\ count'.pw = count.pw
    BY <2>1, TroubleIs
  <2>4. UNCHANGED <<mac, vm, guest, runner, recorded, engine, secrets, wrecked>>
    BY <1>15 DEF ProbeAfterFailure
  <2> QED BY <2>2, <2>3, <2>4
<1>16. CASE RestoreState
  BY <1>16 DEF RestoreState, End
<1> QED BY <1>1, <1>2, <1>3, <1>4, <1>5, <1>6, <1>7, <1>8, <1>9, <1>10, <1>11, <1>12, <1>13,
           <1>14, <1>15, <1>16 DEF Finish

\* The steps of Destroy keep the types of the container and the data.
LEMMA DestroyStore ==
    ASSUME CmdOK, StoreOK, Destroy PROVE StoreOK'
<1> USE DEF StoreOK, Contents, Complete, Legacy, Places, others, files, host, secrets
<1>1. CASE DestroyContainer
  BY <1>1, RemoveCurrentIs, NoBoxIs DEF DestroyContainer
<1>2. CASE DestroyStopVM
  BY <1>2, StoppedIs DEF DestroyStopVM, VMExits
<1>3. CASE RemovedAll
  BY <1>3 DEF RemovedAll
<1>4. CASE RemoveSecrets
  BY <1>4 DEF RemoveSecrets
<1>5. CASE DestroyDone
  BY <1>5 DEF DestroyDone, End
<1>6. ASSUME NEW i \in Left, RemoveItem(i) PROVE StoreOK'
  BY <1>6, NoBoxIs DEF RemoveItem
<1> QED BY <1>1, <1>2, <1>3, <1>4, <1>5, <1>6 DEF Destroy

\* The steps of Destroy keep the other types.
LEMMA DestroyRest ==
    ASSUME CmdOK, RestOK, Destroy PROVE RestOK'
<1> USE DEF RestOK, others, files, host, secrets, NoPw, DefaultPw
<1>1. CASE DestroyContainer
  BY <1>1 DEF DestroyContainer
<1>2. CASE DestroyStopVM
  BY <1>2 DEF DestroyStopVM, VMExits
<1>3. CASE RemovedAll
  BY <1>3 DEF RemovedAll
<1>4. CASE RemoveSecrets
  BY <1>4 DEF RemoveSecrets
<1>5. CASE DestroyDone
  BY <1>5 DEF DestroyDone, End
<1>6. ASSUME NEW i \in Left, RemoveItem(i) PROVE RestOK'
  BY <1>6, LocalRuntimeAssumption DEF RemoveItem, NoCred
<1> QED BY <1>1, <1>2, <1>3, <1>4, <1>5, <1>6 DEF Destroy

\* The steps of Outside keep the types of the container and the data.
LEMMA OutsideStore ==
    ASSUME CmdOK, StoreOK, Outside PROVE StoreOK'
<1> USE DEF StoreOK, Contents, Complete, Legacy, Places, others, files, host, secrets
<1>1. CASE NanoCreates
  BY <1>1 DEF NanoCreates, Serving
<1>2. CASE NanoCreated
  BY <1>2 DEF NanoCreated, Serving
<1>3. CASE NanoDies
  BY <1>3, StoppedIs DEF NanoDies, Serving
<1>4. CASE UserWrites
  BY <1>4 DEF UserWrites, Serving
<1>5. CASE HostStops
  BY <1>5, StoppedIs DEF HostStops
<1>6. CASE RunnerChanges
  BY <1>6 DEF RunnerChanges
<1>7. CASE Interrupt
  BY <1>7 DEF Interrupt, End, Registered
<1>8. CASE Kill
  BY <1>8 DEF Kill
<1> QED BY <1>1, <1>2, <1>3, <1>4, <1>5, <1>6, <1>7, <1>8 DEF Outside

\* The steps of Outside keep the other types.
LEMMA OutsideRest ==
    ASSUME CmdOK, RestOK, Outside PROVE RestOK'
<1> USE DEF RestOK, others, files, host, secrets, NoPw, DefaultPw
<1>1. CASE NanoCreates
  BY <1>1 DEF NanoCreates, Serving
<1>2. CASE NanoCreated
  BY <1>2 DEF NanoCreated, Serving
<1>3. CASE NanoDies
  BY <1>3, TroubleIs DEF NanoDies, Serving
<1>4. CASE UserWrites
  BY <1>4 DEF UserWrites, Serving
<1>5. CASE HostStops
  BY <1>5, TroubleIs DEF HostStops
<1>6. CASE RunnerChanges
  BY <1>6, LocalRuntimeAssumption DEF RunnerChanges
<1>7. CASE Interrupt
  BY <1>7, TroubleIs DEF Interrupt, End, Registered
<1>8. CASE Kill
  BY <1>8, TroubleIs DEF Kill
<1> QED BY <1>1, <1>2, <1>3, <1>4, <1>5, <1>6, <1>7, <1>8 DEF Outside

\* Every step keeps the types of the container and the data.
LEMMA NextStore == ASSUME CmdOK, StoreOK, [Next]_vars PROVE StoreOK'
<1> USE DEF others, files, host, secrets
<1>1. CASE ClearBootstrap
  BY <1>1 DEF ClearBootstrap, StoreOK
<1>2. CASE StartVM
  BY <1>2, StoppedIs DEF StartVM, StoreOK, Boxes
<1>3. CASE CallFails
  BY <1>3 DEF CallFails, StoreOK
<1>4. CASE Commands
  BY <1>4 DEF Commands, BeginDeploy, BeginStart, BeginStop, BeginDestroy, ConfigureEngine, StoreOK
<1>5. CASE UNCHANGED vars
  BY <1>5 DEF vars, StoreOK
<1> QED BY <1>1, <1>2, <1>3, <1>4, <1>5, PrepareStore, MigrateStore, InstallStore, FinishStore,
           DestroyStore, OutsideStore DEF Next, Launcher

\* Every step keeps the other types.
LEMMA NextRest == ASSUME CmdOK, RestOK, [Next]_vars PROVE RestOK'
<1> USE DEF others, files, host, secrets
<1>1. CASE ClearBootstrap
  BY <1>1 DEF ClearBootstrap, EnsureStartable, EnsureMachineRunning, RequireDockerEngine, RestOK
<1>2. CASE StartVM
  <2>1. UNCHANGED count \/ Trouble
    BY <1>2 DEF StartVM
  <2>2. vm' \in BOOLEAN
    BY <1>2 DEF StartVM
  <2>3. /\ count' \in [commands : 0..MaxCommands, trouble : 0..MaxTrouble, pw : Nat]
        /\ count'.pw = count.pw
    BY <2>1, TroubleIs DEF RestOK
  <2>4. UNCHANGED <<mac, guest, runner, recorded, engine, up, secrets, wrecked>>
    BY <1>2 DEF StartVM
  <2> QED BY <2>2, <2>3, <2>4 DEF RestOK
<1>3. CASE CallFails
  BY <1>3, TroubleIs DEF CallFails, Fails, RestOK
<1>4. CASE Commands
  <2>1. Issue => /\ count' \in [commands : 0..MaxCommands, trouble : 0..MaxTrouble, pw : Nat]
                 /\ count'.pw = count.pw
    BY LocalRuntimeAssumption DEF Issue, RestOK
  <2>2. Queryable => up' \in BOOLEAN
    BY DEF Queryable, EnsureStartable, EnsureMachineRunning, RequireDockerEngine, RestOK
  <2>3. CASE BeginDeploy
    BY <2>1, <2>3 DEF BeginDeploy, RestOK
  <2>4. CASE BeginStart \/ BeginStop
    BY <2>1, <2>2, <2>4 DEF BeginStart, BeginStop, RestOK
  <2>5. CASE BeginDestroy
    BY <2>1, <2>5 DEF BeginDestroy, RestOK
  <2>6. ASSUME NEW choice \in {"auto", "podman", "docker"}, ConfigureEngine(choice) PROVE RestOK'
    BY <2>1, <2>6 DEF ConfigureEngine, RestOK
  <2> QED BY <1>4, <2>3, <2>4, <2>5, <2>6 DEF Commands
<1>5. CASE UNCHANGED vars
  BY <1>5 DEF vars, RestOK
<1> QED BY <1>1, <1>2, <1>3, <1>4, <1>5, PrepareRest, MigrateRest, InstallRest, FinishRest,
           DestroyRest, OutsideRest DEF Next, Launcher

\* The types and the control facts, for any number of commands and failures.
LEMMA NextBase == ASSUME Base, [Next]_vars PROVE Base'
BY NextControl, NextStore, NextRest DEF Base

\* How a deployment is found, place by place and field by field.
LEMMA InitIs ==
    ASSUME Init
    PROVE  /\ mac \in BOOLEAN /\ fs \in [Places -> Contents] /\ box \in Boxes
           /\ guest \in [dir : BOOLEAN, ver : {0, 1}]
           /\ \A p \in {"target", "staging", "backup", "quarantine"} : fs[p] = "absent"
           /\ ~box.once /\ box.engine = "podman"
           /\ \/ /\ newest = "none" /\ sec = NoPw /\ ~guest.dir
                 /\ fs["source"] = "absent" /\ fs["overlay"] = "absent"
                 /\ box.st = "none" /\ box.data = "target" /\ box.name = "current"
                 /\ wf = <<"initialized", "none">>
              \/ /\ newest = "legacy" /\ sec = DefaultPw /\ mac /\ guest.dir
                 /\ fs["source"] = "legacy" /\ fs["overlay"] = "absent"
                 /\ box.st = "exited" /\ box.data = "source" /\ wf = <<"stopped", "none">>
              \/ /\ newest = "legacy" /\ sec = DefaultPw /\ ~mac /\ ~guest.dir
                 /\ fs["source"] = "absent" /\ fs["overlay"] = "legacy"
                 /\ box.data = "overlay" /\ box.name = "current"
                 /\ \/ box.st = "exited" /\ wf = <<"stopped", "none">>
                    \/ box.st = "running" /\ wf = <<"running", "none">>
<1> USE DEF Boxes, NoBox, Nothing, Places, Contents, Complete, Legacy
<1>1. PICK s \in {"mac", "macLegacy", "host", "overlay", "overlayUp"} :
        /\ mac = (s \in {"mac", "macLegacy"})
        /\ wf = CASE s \in {"mac", "host"} -> <<"initialized", "none">>
                  [] s = "overlayUp" -> <<"running", "none">>
                  [] OTHER -> <<"stopped", "none">>
        /\ fs = CASE s = "macLegacy" -> [Nothing EXCEPT !["source"] = "legacy"]
                  [] s \in {"overlay", "overlayUp"} ->
                        [Nothing EXCEPT !["overlay"] = "legacy"]
                  [] OTHER -> Nothing
        /\ box = CASE s = "macLegacy" -> [NoBox EXCEPT !.st = "exited", !.name = "legacy",
                                                        !.data = "source"]
                   [] s = "overlay" -> [NoBox EXCEPT !.st = "exited", !.data = "overlay"]
                   [] s = "overlayUp" -> [NoBox EXCEPT !.st = "running", !.data = "overlay"]
                   [] OTHER -> NoBox
        /\ guest = [dir |-> s = "macLegacy", ver |-> IF s = "macLegacy" THEN 1 ELSE 0]
        /\ sec = (IF s \in {"mac", "host"} THEN NoPw ELSE DefaultPw)
        /\ newest = (IF s \in {"mac", "host"} THEN "none" ELSE "legacy")
  BY LocalRuntimeAssumption DEF Init
<1>2. mac = (s \in {"mac", "macLegacy"}) /\ guest.dir = (s = "macLegacy")
      /\ guest \in [dir : BOOLEAN, ver : {0, 1}]
  <2>1. /\ guest = [dir |-> s = "macLegacy", ver |-> IF s = "macLegacy" THEN 1 ELSE 0]
        /\ mac = (s \in {"mac", "macLegacy"})
    BY <1>1
  <2> QED BY <2>1
<1>3. CASE s \in {"mac", "host"}
  <2>1. fs = Nothing /\ box = NoBox /\ wf = <<"initialized", "none">> /\ sec = NoPw
        /\ newest = "none"
    BY <1>1, <1>3
  <2>2. mac \in BOOLEAN /\ ~guest.dir
    BY <1>2, <1>3
  <2> QED BY <1>2, <2>1, <2>2
<1>4. CASE s = "macLegacy"
  <2>1. /\ fs = [Nothing EXCEPT !["source"] = "legacy"] /\ wf = <<"stopped", "none">>
        /\ box = [NoBox EXCEPT !.st = "exited", !.name = "legacy", !.data = "source"]
        /\ sec = DefaultPw /\ newest = "legacy" /\ guest = [dir |-> TRUE, ver |-> 1] /\ mac
    BY <1>1, <1>4
  <2> QED BY <2>1
<1>5. CASE s \in {"overlay", "overlayUp"}
  <2>1. fs = [Nothing EXCEPT !["overlay"] = "legacy"]
    BY <1>1, <1>5
  <2>2. \/ /\ box = [NoBox EXCEPT !.st = "exited", !.data = "overlay"]
           /\ wf = <<"stopped", "none">>
        \/ /\ box = [NoBox EXCEPT !.st = "running", !.data = "overlay"]
           /\ wf = <<"running", "none">>
    BY <1>1, <1>5
  <2>3. fs \in [Places -> Contents] /\ fs["overlay"] = "legacy" /\ fs["source"] = "absent"
        /\ \A p \in {"target", "staging", "backup", "quarantine"} : fs[p] = "absent"
    BY <2>1
  <2>4. /\ box \in Boxes /\ ~box.once /\ box.engine = "podman"
        /\ box.data = "overlay" /\ box.name = "current"
        /\ \/ box.st = "exited" /\ wf = <<"stopped", "none">>
           \/ box.st = "running" /\ wf = <<"running", "none">>
    BY <2>2
  <2>5. sec = DefaultPw /\ newest = "legacy"
    BY <1>1, <1>5
  <2>6. ~guest.dir /\ mac = FALSE
    BY <1>2, <1>5
  <2> QED BY <1>2, <2>3, <2>4, <2>5, <2>6
<1> QED BY <1>1, <1>3, <1>4, <1>5

\* They hold at first.
LEMMA InitBase == ASSUME Init PROVE Base
<1>1. CmdOK /\ Control
  <2>1. /\ cmd = NoCmd /\ wf \in {"initialized", "stopped", "running"} \X {"none"}
        /\ wrecked = FALSE
    BY InitIs DEF Init
  <2>2. /\ cmd.pc = "idle" /\ cmd.op = "none"
    BY <2>1 DEF NoCmd
  <2>3. CmdOK
    BY <2>1, NoCmdIs DEF CmdOK, CmdType, NoCmd, Steps, Ops
  <2> QED BY <2>1, <2>2, <2>3
         DEF Control, At, StartSteps, GoneSteps, MacSteps, RunnerSteps, OverlaySteps, CopySteps,
             RecoverSteps, CheckSteps, PrepareSteps
<1>2. StoreOK
  <2>1. newest \in {"none", "legacy"} /\ layout = {}
    BY InitIs DEF Init
  <2> QED BY <2>1, InitIs DEF StoreOK, Complete, Legacy
<1>3. RestOK
  <2>1. sec \in {NoPw, DefaultPw} /\ guest \in [dir : BOOLEAN, ver : 0..MaxRunner]
        /\ mac \in BOOLEAN
    <3>1. {0, 1} \subseteq 0..MaxRunner
      BY LocalRuntimeAssumption
    <3>2. guest \in [dir : BOOLEAN, ver : {0, 1}]
      BY InitIs
    <3> QED BY <3>1, <3>2, InitIs
  <2>2. count \in [commands : 0..MaxCommands, trouble : 0..MaxTrouble, pw : Nat]
        /\ count.pw = 0
    BY LocalRuntimeAssumption DEF Init
  <2>3. {sec, boot, dbPw} \subseteq {NoPw} \cup 0..count.pw
    BY <2>1, <2>2 DEF Init, NoPw, DefaultPw
  <2>4. /\ vm \in BOOLEAN /\ up \in BOOLEAN /\ wrecked \in BOOLEAN /\ killed \in BOOLEAN
        /\ runner \in 1..MaxRunner /\ recorded \in 0..MaxRunner
        /\ cred \in [gen : BOOLEAN, ver : BOOLEAN]
        /\ engine \in [rec : {"none", "podman", "docker"}, cfg : {"auto", "podman", "docker"}]
    <3>1. /\ vm = FALSE /\ up = TRUE /\ wrecked = FALSE /\ killed = FALSE
          /\ runner \in 1..MaxRunner /\ recorded = 0
          /\ cred = [gen |-> FALSE, ver |-> FALSE]
          /\ engine = [rec |-> "none", cfg |-> "auto"]
      BY DEF Init, NoCred
    <3>2. 0 \in 0..MaxRunner
      BY LocalRuntimeAssumption
    <3> QED BY <3>1, <3>2
  <2> QED BY <2>1, <2>2, <2>3, <2>4 DEF RestOK
<1> QED BY <1>1, <1>2, <1>3 DEF Base

-----------------------------------------------------------------------------
(* What the larger steps change *)

\* The parts of the base that the other proofs use.
LEMMA BaseIs ==
    ASSUME Base
    PROVE  /\ CmdType /\ StoreOK /\ RestOK /\ Control /\ box \in Boxes
           /\ fs \in [Places -> Contents]
           /\ engine \in [rec : {"none", "podman", "docker"}, cfg : {"auto", "podman", "docker"}]
           /\ cred \in [gen : BOOLEAN, ver : BOOLEAN]
BY DEF Base, CmdOK, StoreOK, RestOK

\* How a command that reached its end leaves the workflow state.
LEMMA ResultIs ==
    ASSUME Base, Result
    PROVE  /\ UNCHANGED <<mac, files, box, host, secrets, wrecked, count>>
           /\ cmd.pc = "result" /\ cmd.op \in {"deploy", "start", "stop"}
           /\ \/ cmd' = NoCmd /\ wf' = <<"running", "none">> /\ cmd.op # "stop" /\ cmd.err = "none"
              \/ cmd' = NoCmd /\ wf' = <<"stopped", "none">> /\ cmd.op # "deploy"
              \/ /\ cmd' = NoCmd /\ wf' \in {<<"initialized", "none">>, <<"failed", "none">>}
                 /\ cmd.op = "deploy"
              \/ Goto("probe") /\ wf' = wf /\ cmd.op # "deploy"
<1>1. /\ UNCHANGED <<mac, files, box, host, secrets, wrecked, count>>
      /\ cmd.pc = "result" /\ cmd.op \in {"deploy", "start", "stop"}
  BY DEF Result, Base, Control, At
<1>2. cmd.err \in {"none", "fail", "port"}
  BY DEF Base, CmdOK, CmdType
<1>3. CASE cmd.err = "none"
  BY <1>1, <1>3 DEF Result, End
<1>4. CASE cmd.err = "port"
  BY <1>1, <1>4 DEF Result, End
<1>5. CASE cmd.err = "fail"
  BY <1>1, <1>5 DEF Result, End
<1> QED BY <1>1, <1>2, <1>3, <1>4, <1>5

\* What an error changes: nothing but the place where the command goes on.
LEMMA FailsIs ==
    ASSUME Base, CallFails
    PROVE  /\ UNCHANGED others
           /\ \/ cmd' = NoCmd /\ cmd.pc \in PrepareSteps
              \/ /\ cmd'.op = cmd.op /\ cmd'.ret = cmd.ret /\ cmd'.engine = cmd.engine
                 /\ cmd'.fresh = cmd.fresh /\ cmd'.err # "none"
                 /\ \/ /\ cmd.pc \in RunSteps
                       /\ cmd'.pc = "result" /\ cmd.pc = "clear"
                    \/ /\ cmd.pc \in RunSteps \ (CheckSteps \cup {"clear", "started", "unboot"})
                       /\ cmd'.pc = "started" \/ (cmd'.pc = "abort" /\ mac)
                    \/ cmd.pc \in {"verify", "verified"} /\ cmd'.pc = "unverified"
                    \/ cmd.pc \in {"rtStop", "rtVM"} /\ cmd.ret # "restored" /\ cmd'.pc = cmd.ret
                    \/ cmd.pc \in {"rtStop", "rtVM"} /\ cmd.ret = "restored" /\ cmd'.pc = "giveUp"
                    \/ cmd.pc \in DestroySteps /\ cmd'.pc = "giveUp"
                    \/ cmd.pc = "artifactState" /\ cmd'.pc = "result"
<1>1. CASE cmd.pc \in Fallible /\ Err(FailTarget) /\ UNCHANGED others
  <2>0. CmdOK /\ RestOK /\ Control
    BY DEF Base
  <2>1. /\ cmd'.op = cmd.op /\ cmd'.ret = cmd.ret /\ cmd'.engine = cmd.engine
        /\ cmd'.fresh = cmd.fresh /\ cmd'.err # "none" /\ cmd'.pc = FailTarget
    BY <1>1, <2>0, Moves, FailTargetIs DEF CmdOK
  <2>2. Abort \in {"abort", "started"} /\ (Abort = "abort" => mac)
    BY DEF Abort
  <2>3. CASE cmd.pc \in {"abort"} \cup MigrationSteps \cup InstallSteps \cup WaitSteps
    <3>1. cmd.pc \in RunSteps \ (CheckSteps \cup {"clear", "started", "unboot"})
      BY <2>3
         DEF RunSteps, StartSteps, RunnerSteps, OverlaySteps, CopySteps, RecoverSteps,
             CheckSteps, PrepareSteps, MigrationSteps, InstallSteps, WaitSteps
    <3>2. FailTarget = "started" \/ FailTarget = Abort
      BY <1>1, <2>0, <2>3, FailTargetIs
    <3> QED BY <1>1, <2>1, <2>2, <3>1, <3>2
  <2>4. CASE cmd.pc = "clear"
    BY <1>1, <2>0, <2>1, <2>4, FailTargetIs DEF RunSteps, StartSteps, CheckSteps, PrepareSteps, At
  <2>5. CASE cmd.pc \in {"verify", "verified", "rtStop", "rtVM", "artifactState"} \cup DestroySteps
    BY <1>1, <2>0, <2>1, <2>5, FailTargetIs DEF At
  <2> QED BY <1>1, <2>3, <2>4, <2>5 DEF Fallible
<1>2. CASE cmd.pc \in PrepareSteps /\ cmd' = NoCmd /\ UNCHANGED others
  BY <1>2
<1> QED BY <1>1, <1>2 DEF CallFails, Fails

\* What the beginning of a command changes.
LEMMA BeginsIs ==
    ASSUME Base, BeginDeploy \/ BeginStart \/ BeginStop \/ BeginDestroy
    PROVE  /\ UNCHANGED <<mac, files, box, vm, guest, runner, recorded, engine, secrets>>
           /\ cmd.pc = "idle" /\ cmd = NoCmd /\ (wrecked => wrecked')
           /\ \/ cmd' = NoCmd /\ wf' = Reconciled /\ wrecked' = wrecked
              \/ /\ cmd'.engine = CommandEngine /\ cmd'.err = "none" /\ cmd'.fresh = FALSE
                 /\ \/ cmd'.pc = "prepare" /\ cmd'.op = "deploy" /\ wf' = wf /\ wrecked' = wrecked
                    \/ /\ cmd'.pc = "prepare" /\ cmd'.op = "start" /\ wf' = Reconciled
                       /\ PermitsStart(Reconciled) /\ wrecked' = wrecked
                    \/ /\ cmd'.pc = "rtStop" /\ cmd'.op = "stop" /\ cmd'.ret = "artifactState"
                       /\ wf' = <<"inProgress", "stop">> /\ wrecked' = wrecked
                       /\ Careful => fs["overlay"] = "absent"
                    \/ /\ cmd'.pc = "dBox" /\ cmd'.op = "destroy" /\ wrecked'
                       /\ wf' = <<"inProgress", "destroy">>
<1> USE DEF Issue, At, files, secrets, host
<1>1. CASE BeginDeploy
  <2>1. cmd' = New("deploy", "prepare") /\ UNCHANGED others /\ cmd.pc = "idle"
    BY <1>1 DEF BeginDeploy
  <2>2. /\ cmd'.pc = "prepare" /\ cmd'.op = "deploy" /\ cmd'.engine = CommandEngine
        /\ cmd'.err = "none" /\ cmd'.fresh = FALSE
    BY <2>1 DEF New, NoCmd
  <2> QED BY <2>1, <2>2 DEF others, Base, Control
<1>2. CASE BeginStart
  <2>1. /\ UNCHANGED <<mac, files, box, vm, guest, runner, recorded, engine, secrets, wrecked>>
        /\ wf' = Reconciled /\ cmd.pc = "idle"
    BY <1>2 DEF BeginStart
  <2>2. CASE PermitsStart(Reconciled)
    <3>1. cmd' = New("start", "prepare")
      BY <1>2, <2>2 DEF BeginStart
    <3>2. /\ cmd'.pc = "prepare" /\ cmd'.op = "start" /\ cmd'.engine = CommandEngine
          /\ cmd'.err = "none" /\ cmd'.fresh = FALSE
      BY <3>1 DEF New, NoCmd
    <3> QED BY <2>1, <2>2, <3>2 DEF Base, Control
  <2>3. CASE ~PermitsStart(Reconciled)
    BY <1>2, <2>1, <2>3 DEF BeginStart, Base, Control
  <2> QED BY <2>2, <2>3
<1>3. CASE BeginStop
  <2>1. CASE PermitsStop(Reconciled)
    <3>1. cmd' = [New("stop", "rtStop") EXCEPT !.ret = "artifactState"]
      BY <1>3, <2>1 DEF BeginStop
    <3>2. /\ cmd'.pc = "rtStop" /\ cmd'.op = "stop" /\ cmd'.ret = "artifactState"
          /\ cmd'.engine = CommandEngine /\ cmd'.err = "none" /\ cmd'.fresh = FALSE
      BY <3>1 DEF New, NoCmd
    <3> QED BY <1>3, <2>1, <3>2 DEF BeginStop, Base, Control
  <2>2. CASE ~PermitsStop(Reconciled)
    BY <1>3, <2>2 DEF BeginStop, Base, Control
  <2> QED BY <2>1, <2>2
<1>4. CASE BeginDestroy
  <2>1. /\ UNCHANGED <<mac, files, box, host, secrets>> /\ cmd.pc = "idle"
        /\ cmd' = New("destroy", "dBox") /\ wf' = <<"inProgress", "destroy">> /\ wrecked'
    BY <1>4 DEF BeginDestroy
  <2>2. /\ cmd'.pc = "dBox" /\ cmd'.op = "destroy" /\ cmd'.engine = CommandEngine
        /\ cmd'.err = "none" /\ cmd'.fresh = FALSE
    BY <2>1 DEF New, NoCmd
  <2> QED BY <2>1, <2>2 DEF Base, Control
<1> QED BY <1>1, <1>2, <1>3, <1>4

\* What the start of the VM changes.
LEMMA StartVMIs ==
    ASSUME Base, StartVM
    PROVE  /\ mac /\ cmd.pc = "vm" /\ cmd'.pc \in {"prep", "started"}
           /\ cmd'.op = cmd.op /\ cmd'.ret = cmd.ret /\ cmd'.engine = cmd.engine
           /\ UNCHANGED <<mac, wf, files, guest, runner, recorded, engine, up, secrets, wrecked>>
           /\ box'.st = "none" <=> box.st = "none"
           /\ box'.name = box.name /\ box'.data = box.data /\ box'.once = box.once
           /\ box'.engine = box.engine
<1>1. CmdType /\ box \in Boxes
  BY BaseIs
<1>2. /\ mac /\ cmd.pc = "vm"
      /\ UNCHANGED <<mac, wf, files, guest, runner, recorded, engine, up, secrets, wrecked>>
  BY DEF StartVM, At, Base, Control, MacSteps
<1>3. /\ cmd'.pc \in {"prep", "started"}
      /\ cmd'.op = cmd.op /\ cmd'.ret = cmd.ret /\ cmd'.engine = cmd.engine
  BY <1>1, Goes, PortMoves DEF StartVM
<1>4. box' \in {box, Stopped} \/ (box' = [box EXCEPT !.st = "running"] /\ box.st = "exited")
  BY DEF StartVM
<1>5. CASE box' \in {box, Stopped}
  BY <1>1, <1>2, <1>3, <1>5, StoppedIs
<1>6. CASE box' = [box EXCEPT !.st = "running"] /\ box.st = "exited"
  BY <1>1, <1>2, <1>3, <1>6 DEF Boxes
<1> QED BY <1>4, <1>5, <1>6

\* What the check for data inside the container decides.
LEMMA OverlayCheckIs ==
    ASSUME Base, MigrateOverlayDataIfNeeded
    PROVE  /\ UNCHANGED others /\ cmd.pc = "overlay"
           /\ cmd'.op = cmd.op /\ cmd'.ret = cmd.ret /\ cmd'.engine = cmd.engine
           /\ \/ cmd'.pc = "recover" /\ (~Exists("current") \/ box.data # "overlay")
              \/ cmd'.pc = Abort /\ cmd'.err # "none"
              \/ cmd'.pc = "ovStop" /\ Exists("current") /\ box.data = "overlay"
                 /\ ~Populated("target")
<1>1. CmdType
  BY BaseIs
<1>2. UNCHANGED others /\ cmd.pc = "overlay"
  BY DEF MigrateOverlayDataIfNeeded, At
<1>3. CASE ~Exists("current") \/ box.data # "overlay"
  BY <1>1, <1>2, <1>3, RecoverMoves DEF MigrateOverlayDataIfNeeded
<1>4. CASE Exists("current") /\ box.data = "overlay" /\ Populated("target")
  BY <1>1, <1>2, <1>4, Goes DEF MigrateOverlayDataIfNeeded
<1>5. CASE Exists("current") /\ box.data = "overlay" /\ ~Populated("target")
  BY <1>1, <1>2, <1>5, Goes DEF MigrateOverlayDataIfNeeded
<1> QED BY <1>3, <1>4, <1>5

\* What the creation of the container changes.
LEMMA CreateIs ==
    ASSUME Base, CreateContainer
    PROVE  /\ cmd.pc = "create" /\ cmd'.op = cmd.op /\ cmd'.ret = cmd.ret
           /\ cmd'.engine = cmd.engine
           /\ UNCHANGED <<mac, wf, layout, newest, host, sec, cred, dbPw, killed, wrecked>>
           /\ \/ /\ cmd'.pc = "artifacts" /\ cmd'.err = cmd.err /\ boot' = boot
                 /\ Reachable /\ box' = NanoRunSpec
                 /\ fs' = [fs EXCEPT !["overlay"] = "absent"]
              \/ /\ cmd'.pc \in {"started", Abort} /\ cmd'.err # "none"
                 /\ box' = box /\ fs' = fs
                 /\ boot' = IF cmd.fresh THEN NoPw ELSE boot
<1>1. CmdType
  BY BaseIs
<1>2. /\ cmd.pc = "create"
      /\ UNCHANGED <<mac, wf, layout, newest, host, sec, cred, dbPw, killed, wrecked>>
  BY DEF CreateContainer, At
<1>3. CASE Goto("artifacts") /\ Reachable /\ box' = NanoRunSpec
           /\ fs' = [fs EXCEPT !["overlay"] = "absent"] /\ UNCHANGED <<boot, count>>
  BY <1>1, <1>2, <1>3, Goes
<1>4. CASE /\ Err(Abort) \/ cmd' = [cmd EXCEPT !.pc = "started", !.err = "port"]
           /\ UNCHANGED <<box, fs>> /\ boot' = IF cmd.fresh THEN NoPw ELSE boot
  BY <1>1, <1>2, <1>4, Goes, PortMoves
<1> QED BY <1>3, <1>4 DEF CreateContainer, Fails

\* What the probe after a failure decides.
LEMMA ProbeIs ==
    ASSUME Base, ProbeAfterFailure
    PROVE  /\ cmd.pc = "probe" /\ cmd.op \in {"start", "stop"}
           /\ UNCHANGED <<mac, files, box, vm, guest, runner, recorded, engine, secrets, wrecked>>
           /\ \/ cmd' = NoCmd /\ wf' \in {<<"stopped", "none">>, <<"interrupted", cmd.op>>}
              \/ /\ cmd'.pc = "rtStop" /\ cmd'.ret = "restored" /\ cmd'.op = cmd.op
                 /\ cmd'.engine = cmd.engine /\ wf' = wf /\ box.st = "running"
<1>1. CmdType
  BY BaseIs
<1>2. /\ cmd.pc = "probe" /\ cmd.op \in {"start", "stop"}
      /\ UNCHANGED <<mac, files, box, vm, guest, runner, recorded, engine, secrets, wrecked>>
  BY DEF ProbeAfterFailure, At, Base, Control
<1>3. CASE cmd' = [cmd EXCEPT !.pc = "rtStop", !.ret = "restored"] /\ UNCHANGED wf /\ Alive
  BY <1>1, <1>2, <1>3, StopMoves DEF Alive
<1>4. CASE cmd' = NoCmd /\ wf' \in {<<"stopped", "none">>, <<"interrupted", cmd.op>>}
  BY <1>2, <1>4
<1> QED BY <1>3, <1>4 DEF ProbeAfterFailure, End

\* The engine is recorded once.
LEMMA FirstRecordIs ==
    ASSUME Base, RecordContainerEngine
    PROVE  /\ cmd.pc = "record" /\ cmd'.pc = "busy" /\ cmd'.engine = cmd.engine /\ ~mac
           /\ cmd'.op = cmd.op
           /\ UNCHANGED <<mac, wf, files, box, vm, guest, runner, recorded, up,
                           secrets, wrecked, count>>
           /\ engine'.rec = (IF engine.rec = "none" THEN cmd.engine ELSE engine.rec)
           /\ engine'.cfg = engine.cfg
<1>1. CmdType /\ engine \in [rec : {"none", "podman", "docker"}, cfg : {"auto", "podman", "docker"}]
  BY BaseIs
<1>2. /\ cmd.pc = "record" /\ ~mac
      /\ UNCHANGED <<mac, wf, files, box, vm, guest, runner, recorded, up,
                           secrets, wrecked, count>>
  BY DEF RecordContainerEngine, At, Base, Control
<1>3. cmd'.pc = "busy" /\ cmd'.engine = cmd.engine /\ cmd'.op = cmd.op
  BY <1>1, Goes DEF RecordContainerEngine
<1>4. engine'.rec = (IF engine.rec = "none" THEN cmd.engine ELSE engine.rec)
      /\ engine'.cfg = engine.cfg
  BY <1>1 DEF RecordContainerEngine
<1> QED BY <1>2, <1>3, <1>4

-----------------------------------------------------------------------------
(* The VM *)

\* The steps of Prepare keep the VM and its directory consistent.
LEMMA PrepareGuest ==
    ASSUME Base, Base', Guest, Prepare PROVE Guest'
<1> USE DEF Control, Guest, At, Trouble, others, files, host, secrets, StartSteps, EndSteps,
           GoneSteps, MacSteps, RunnerSteps, OverlaySteps, CopySteps, RecoverSteps, CheckSteps,
           PrepareSteps, Ops, Places
<1>0. /\ CmdType /\ StoreOK /\ Control /\ box \in Boxes
      /\ fs \in [Places -> Contents]
  BY BaseIs
<1>1. CASE PrepareVM
  BY <1>1, <1>0, Goes DEF PrepareVM, GuestStale
<1>2. CASE StopVMBeforeGuestReplacement
  BY <1>2, <1>0, Goes, StoppedIs DEF StopVMBeforeGuestReplacement, VMExits
<1>3. CASE GuestInit
  BY <1>3, <1>0, Goes DEF GuestInit
<1>4. CASE GuestDone
  BY <1>4, <1>0, Goes DEF GuestDone
<1>5. CASE WriteRunnerVersionMarker
  BY <1>5, <1>0, Goes DEF WriteRunnerVersionMarker
<1>6. CASE PrepareHost
  BY <1>6, <1>0, Goes, NoCmdIs
     DEF PrepareHost, EnsureReady, EnsureStartable, EnsureMachineRunning, RequireDockerEngine
<1>7. CASE RecordContainerEngine
  BY <1>7, <1>0, FirstRecordIs
<1>8. CASE MarkInProgress
  BY <1>8, <1>0, Goes DEF MarkInProgress
<1> QED BY <1>1, <1>2, <1>3, <1>4, <1>5, <1>6, <1>7, <1>8 DEF Prepare

\* The steps of Migrate keep the VM and its directory consistent.
LEMMA MigrateGuest ==
    ASSUME Base, Base', Guest, Migrate PROVE Guest'
<1> USE DEF Control, Guest, At, Trouble, others, files, host, secrets, StartSteps, EndSteps,
           GoneSteps, MacSteps, RunnerSteps, OverlaySteps, CopySteps, RecoverSteps, CheckSteps,
           PrepareSteps, Ops, Places
<1>0. /\ CmdType /\ StoreOK /\ Control /\ box \in Boxes
      /\ fs \in [Places -> Contents]
  BY BaseIs
<1>1. CASE MigrationPrepare
  BY <1>1, <1>0, Goes DEF MigrationPrepare, MarkerMatches, Populated
<1>2. CASE MigrationStopNano
  BY <1>2, <1>0, Goes, RemoveCurrentIs, NoBoxIs
     DEF MigrationStopNano, Reachable, MarkerMatches, Populated, Exists, Seen
<1>3. CASE ResetOrResumeStaging
  BY <1>3, <1>0, Goes DEF ResetOrResumeStaging, MarkerMatches
<1>4. CASE CopySource
  BY <1>4, <1>0, Goes DEF CopySource
<1>5. CASE CopiedSource
  BY <1>5, <1>0, Goes DEF CopiedSource
<1>6. CASE MarkStaging
  BY <1>6, <1>0, Goes DEF MarkStaging
<1>7. CASE Publish
  BY <1>7, <1>0, Goes DEF Publish, Populated
<1>8. CASE PublishRename
  BY <1>8, <1>0, Goes DEF PublishRename, MarkerMatches
<1> QED BY <1>1, <1>2, <1>3, <1>4, <1>5, <1>6, <1>7, <1>8 DEF Migrate

\* The steps of Install keep the VM and its directory consistent.
LEMMA InstallGuest ==
    ASSUME Base, Base', Guest, Install PROVE Guest'
<1> USE DEF Control, Guest, At, Trouble, others, files, host, secrets, StartSteps, EndSteps,
           GoneSteps, MacSteps, RunnerSteps, OverlaySteps, CopySteps, RecoverSteps, CheckSteps,
           PrepareSteps, Ops, Places
<1>0. /\ CmdType /\ StoreOK /\ Control /\ box \in Boxes
      /\ fs \in [Places -> Contents]
  BY BaseIs
<1>1. CASE AdoptLegacyContainerName
  BY <1>1, <1>0, Goes DEF AdoptLegacyContainerName, Reachable, Seen
<1>2. CASE MigrateOverlayDataIfNeeded
  BY <1>2, <1>0, OverlayCheckIs DEF Abort
<1>3. CASE OverlayStop
  BY <1>3, <1>0, Goes, StoppedIs DEF OverlayStop, Reachable
<1>4. CASE OverlayCopy
  BY <1>4, <1>0, Goes DEF OverlayCopy, Reachable, Abort, Fails
<1>5. CASE OverlayCopied
  BY <1>5, <1>0, Goes DEF OverlayCopied
<1>6. CASE InstallOverlayData
  BY <1>6, <1>0, Goes DEF InstallOverlayData, Populated, Abort
<1>7. CASE OverlayRename
  BY <1>7, <1>0, Goes DEF OverlayRename, Abort, Fails
<1>8. CASE OverlayRemove
  BY <1>8, <1>0, Goes, NoBoxIs DEF OverlayRemove, Reachable, Removed
<1>9. CASE RecoverIncompleteInitialCreate
  BY <1>9, <1>0, Goes DEF RecoverIncompleteInitialCreate
<1>10. CASE RecoverStop
  BY <1>10, <1>0, Goes, RemoveCurrentIs, NoBoxIs DEF RecoverStop, Reachable, Exists, Seen
<1>11. CASE RecoverRename
  BY <1>11, <1>0, Goes DEF RecoverRename
<1>12. CASE RecoverMkdir
  BY <1>12, <1>0, Goes DEF RecoverMkdir
<1>13. CASE PrepareDataDir
  BY <1>13, <1>0, DataMoves DEF PrepareDataDir
<1>14. CASE LoadImage
  BY <1>14, <1>0, Goes DEF LoadImage, Reachable
<1>15. CASE StorePassword
  BY <1>15, <1>0, Goes DEF StorePassword
<1>16. CASE MarkPasswordGenerated
  BY <1>16, <1>0, Goes DEF MarkPasswordGenerated
<1>17. CASE WriteBootstrapPassword
  BY <1>17, <1>0, Goes DEF WriteBootstrapPassword
<1>18. CASE CreateContainer
  BY <1>18, <1>0, CreateIs DEF Abort
<1> QED BY <1>1, <1>2, <1>3, <1>4, <1>5, <1>6, <1>7, <1>8, <1>9, <1>10, <1>11, <1>12, <1>13,
           <1>14, <1>15, <1>16, <1>17, <1>18 DEF Install

\* The steps of Finish keep the VM and its directory consistent.
LEMMA FinishGuest ==
    ASSUME Base, Base', Guest, Finish PROVE Guest'
<1> USE DEF Control, Guest, At, Trouble, others, files, host, secrets, StartSteps, EndSteps,
           GoneSteps, MacSteps, RunnerSteps, OverlaySteps, CopySteps, RecoverSteps, CheckSteps,
           PrepareSteps, Ops, Places
<1>0. /\ CmdType /\ StoreOK /\ Control /\ box \in Boxes
      /\ fs \in [Places -> Contents]
  BY BaseIs
<1>1. CASE AbortStart
  BY <1>1, <1>0, Goes, StoppedIs DEF AbortStart, VMExits
<1>2. CASE WriteArtifacts
  BY <1>2, <1>0, Goes DEF WriteArtifacts
<1>3. CASE WaitForDatabase
  BY <1>3, <1>0, Goes DEF WaitForDatabase, Ready, Exists, Seen, Reachable
<1>4. CASE FinalizeMark
  BY <1>4, <1>0, Goes DEF FinalizeMark
<1>5. CASE FinalizeRetire
  BY <1>5, <1>0, Goes DEF FinalizeRetire
<1>6. CASE AfterStart
  BY <1>6, <1>0, Goes DEF AfterStart, VerificationPending
<1>7. CASE VerifyStoredCredential
  BY <1>7, <1>0, Goes DEF VerifyStoredCredential, Ready, Exists, Seen, Reachable, DbPassword
<1>8. CASE MarkPasswordVerified
  BY <1>8, <1>0, Goes DEF MarkPasswordVerified
<1>9. CASE StopUnverified
  BY <1>9, <1>0, StopMoves DEF StopUnverified
<1>10. CASE RemoveBootstrap
  BY <1>10, <1>0, Goes DEF RemoveBootstrap
<1>11. CASE RuntimeStop
  BY <1>11, <1>0, Goes, RemoveCurrentIs, NoBoxIs DEF RuntimeStop, Reachable, Exists, Seen
<1>12. CASE RuntimeStopVM
  BY <1>12, <1>0, Goes, StoppedIs DEF RuntimeStopVM, VMExits
<1>13. CASE UpdateArtifactState
  BY <1>13, <1>0, Goes DEF UpdateArtifactState
<1>14. CASE Result
  BY <1>14, <1>0, ResultIs, Goes, NoCmdIs
<1>15. CASE ProbeAfterFailure
  BY <1>15, <1>0, ProbeIs, NoCmdIs
<1>16. CASE RestoreState
  BY <1>16, <1>0, NoCmdIs DEF RestoreState, End
<1> QED BY <1>1, <1>2, <1>3, <1>4, <1>5, <1>6, <1>7, <1>8, <1>9, <1>10, <1>11, <1>12, <1>13,
           <1>14, <1>15, <1>16 DEF Finish

\* The steps of Destroy keep the VM and its directory consistent.
LEMMA DestroyGuest ==
    ASSUME Base, Base', Guest, Destroy PROVE Guest'
<1> USE DEF Control, Guest, At, Trouble, others, files, host, secrets, StartSteps, EndSteps,
           GoneSteps, MacSteps, RunnerSteps, OverlaySteps, CopySteps, RecoverSteps, CheckSteps,
           PrepareSteps, Ops, Places
<1>0. /\ CmdType /\ StoreOK /\ Control /\ box \in Boxes
      /\ fs \in [Places -> Contents]
  BY BaseIs
<1>1. CASE DestroyContainer
  BY <1>1, <1>0, Goes, RemoveCurrentIs, NoBoxIs DEF DestroyContainer, Reachable, Exists, Seen
<1>2. CASE DestroyStopVM
  BY <1>2, <1>0, Goes, StoppedIs DEF DestroyStopVM, VMExits
<1>3. CASE RemovedAll
  BY <1>3, <1>0, Goes DEF RemovedAll, Left, QuarantinedDataDirs, NoPw
<1>4. CASE RemoveSecrets
  BY <1>4, <1>0, Goes DEF RemoveSecrets, Left, QuarantinedDataDirs, NoPw
<1>5. CASE DestroyDone
  BY <1>5, <1>0, NoCmdIs DEF DestroyDone, End
<1>6. ASSUME NEW i \in Left, RemoveItem(i) PROVE Guest'
  BY <1>6, <1>0, NoBoxIs DEF RemoveItem, Removable, Left, QuarantinedDataDirs, NoCred, NoCred
<1> QED BY <1>1, <1>2, <1>3, <1>4, <1>5, <1>6 DEF Destroy

\* The steps of Outside keep the VM and its directory consistent.
LEMMA OutsideGuest ==
    ASSUME Base, Base', Guest, Outside PROVE Guest'
<1> USE DEF Control, Guest, At, Trouble, others, files, host, secrets, StartSteps, EndSteps,
           GoneSteps, MacSteps, RunnerSteps, OverlaySteps, CopySteps, RecoverSteps, CheckSteps,
           PrepareSteps, Ops, Places
<1>0. /\ CmdType /\ StoreOK /\ Control /\ box \in Boxes
      /\ fs \in [Places -> Contents]
  BY BaseIs
<1>1. CASE NanoCreates
  BY <1>1, <1>0 DEF NanoCreates, Serving, Left, QuarantinedDataDirs, NoPw
<1>2. CASE NanoCreated
  BY <1>2, <1>0 DEF NanoCreated, Serving, Left, QuarantinedDataDirs, NoPw
<1>3. CASE NanoDies
  BY <1>3, <1>0, StoppedIs DEF NanoDies, Serving, Left, QuarantinedDataDirs, NoPw
<1>4. CASE UserWrites
  BY <1>4, <1>0 DEF UserWrites, Serving
<1>5. CASE HostStops
  BY <1>5, <1>0, StoppedIs DEF HostStops, Left, QuarantinedDataDirs, NoPw
<1>6. CASE RunnerChanges
  BY <1>6, <1>0 DEF RunnerChanges
<1>7. CASE Interrupt
  BY <1>7, <1>0, NoCmdIs DEF Interrupt, End, Registered, Left, QuarantinedDataDirs, NoPw
<1>8. CASE Kill
  BY <1>8, <1>0, NoCmdIs DEF Kill
<1> QED BY <1>1, <1>2, <1>3, <1>4, <1>5, <1>6, <1>7, <1>8 DEF Outside

\* Every step keeps the VM and its directory consistent.
LEMMA NextGuest ==
    ASSUME Base, Base', Guest, [Next]_vars PROVE Guest'
<1> USE DEF Control, Guest, At, Trouble, others, files, host, secrets, StartSteps, EndSteps,
           GoneSteps, MacSteps, RunnerSteps, OverlaySteps, CopySteps, RecoverSteps, CheckSteps,
           PrepareSteps, Ops, Places
<1>0. /\ CmdType /\ StoreOK /\ Control /\ box \in Boxes
      /\ fs \in [Places -> Contents]
  BY BaseIs
<1>1. CASE ClearBootstrap
  BY <1>1, <1>0, Goes
     DEF ClearBootstrap, EnsureStartable, EnsureMachineRunning, RequireDockerEngine
<1>2. CASE StartVM
  BY <1>2, <1>0, StartVMIs
<1>3. CASE CallFails
  <2>1. UNCHANGED others /\ cmd'.pc \notin GoneSteps
    BY <1>0, <1>3, FailsIs, NoCmdIs DEF DestroySteps
  <2>2. cmd'.pc \in StartSteps \ {"prepare", "guestStop", "guestInit", "unboot"} =>
          cmd.pc \in StartSteps \ {"prepare", "guestStop", "guestInit", "unboot"}
    BY <1>0, <1>3, FailsIs, NoCmdIs DEF RunSteps, DestroySteps
  <2> QED BY <2>1, <2>2
<1>4. CASE BeginDeploy \/ BeginStart \/ BeginStop \/ BeginDestroy
  <2>1. /\ UNCHANGED <<mac, files, box, vm, guest, runner, recorded, engine, secrets>>
        /\ wrecked => wrecked'
    BY <1>4, BeginsIs
  <2>2. cmd'.pc \in {"idle", "prepare", "rtStop", "dBox"}
    BY <1>4, BeginsIs, NoCmdIs
  <2> QED BY <2>1, <2>2
<1>5. ASSUME NEW choice \in {"auto", "podman", "docker"}, ConfigureEngine(choice)
     PROVE  Guest'
  BY <1>5, <1>0 DEF ConfigureEngine, Issue, RecordedEngine
<1>6. CASE UNCHANGED vars
  BY <1>6 DEF vars, Left, QuarantinedDataDirs, NoPw
<1> HIDE DEF Control, Guest, At, Trouble, others, files, host, secrets, StartSteps, EndSteps,
            GoneSteps, MacSteps, RunnerSteps, OverlaySteps, CopySteps, RecoverSteps,
            CheckSteps, PrepareSteps, Ops, Places
<1> QED BY <1>1, <1>2, <1>3, <1>4, <1>5, <1>6, PrepareGuest, MigrateGuest, InstallGuest,
           FinishGuest, DestroyGuest, OutsideGuest
        DEF Next, Launcher, Commands

-----------------------------------------------------------------------------
(* The engine *)

\* The steps of Prepare keep the container with the recorded engine.
LEMMA PrepareEngine ==
    ASSUME Base, Base', Guest, Engine, Overlay, Prepare PROVE Engine'
<1> USE DEF Control, Engine, At, Trouble, others, files, host, secrets, StartSteps, EndSteps,
           GoneSteps, MacSteps, RunnerSteps, OverlaySteps, CopySteps, RecoverSteps, CheckSteps,
           PrepareSteps, Ops, Places
<1>0. /\ CmdType /\ StoreOK /\ Control /\ box \in Boxes
      /\ fs \in [Places -> Contents]
  BY BaseIs
<1>1. CASE PrepareVM
  BY <1>1, <1>0, Goes DEF PrepareVM, GuestStale
<1>2. CASE StopVMBeforeGuestReplacement
  BY <1>2, <1>0, Goes, StoppedIs DEF StopVMBeforeGuestReplacement, VMExits
<1>3. CASE GuestInit
  BY <1>3, <1>0, Goes DEF GuestInit
<1>4. CASE GuestDone
  BY <1>4, <1>0, Goes DEF GuestDone
<1>5. CASE WriteRunnerVersionMarker
  BY <1>5, <1>0, Goes DEF WriteRunnerVersionMarker
<1>6. CASE PrepareHost
  BY <1>6, <1>0, Goes, NoCmdIs
     DEF PrepareHost, EnsureReady, EnsureStartable, EnsureMachineRunning, RequireDockerEngine
<1>7. CASE RecordContainerEngine
  BY <1>7, <1>0, FirstRecordIs DEF CmdType
<1>8. CASE MarkInProgress
  BY <1>8, <1>0, Goes DEF MarkInProgress
<1> QED BY <1>1, <1>2, <1>3, <1>4, <1>5, <1>6, <1>7, <1>8 DEF Prepare

\* The steps of Migrate keep the container with the recorded engine.
LEMMA MigrateEngine ==
    ASSUME Base, Base', Guest, Engine, Overlay, Migrate PROVE Engine'
<1> USE DEF Control, Engine, At, Trouble, others, files, host, secrets, StartSteps, EndSteps,
           GoneSteps, MacSteps, RunnerSteps, OverlaySteps, CopySteps, RecoverSteps, CheckSteps,
           PrepareSteps, Ops, Places
<1>0. /\ CmdType /\ StoreOK /\ Control /\ box \in Boxes
      /\ fs \in [Places -> Contents]
  BY BaseIs
<1>1. CASE MigrationPrepare
  BY <1>1, <1>0, Goes DEF MigrationPrepare, MarkerMatches, Populated
<1>2. CASE MigrationStopNano
  BY <1>2, <1>0, Goes, RemoveCurrentIs, NoBoxIs
     DEF MigrationStopNano, Reachable, MarkerMatches, Populated, Exists, Seen
<1>3. CASE ResetOrResumeStaging
  BY <1>3, <1>0, Goes DEF ResetOrResumeStaging, MarkerMatches
<1>4. CASE CopySource
  BY <1>4, <1>0, Goes DEF CopySource
<1>5. CASE CopiedSource
  BY <1>5, <1>0, Goes DEF CopiedSource
<1>6. CASE MarkStaging
  BY <1>6, <1>0, Goes DEF MarkStaging
<1>7. CASE Publish
  BY <1>7, <1>0, Goes DEF Publish, Populated
<1>8. CASE PublishRename
  BY <1>8, <1>0, Goes DEF PublishRename, MarkerMatches
<1> QED BY <1>1, <1>2, <1>3, <1>4, <1>5, <1>6, <1>7, <1>8 DEF Migrate

\* The steps of Install keep the container with the recorded engine.
LEMMA InstallEngine ==
    ASSUME Base, Base', Guest, Engine, Overlay, Install PROVE Engine'
<1> USE DEF Control, Engine, At, Trouble, others, files, host, secrets, StartSteps, EndSteps,
           GoneSteps, MacSteps, RunnerSteps, OverlaySteps, CopySteps, RecoverSteps, CheckSteps,
           PrepareSteps, Ops, Places
<1>0. /\ CmdType /\ StoreOK /\ Control /\ box \in Boxes
      /\ fs \in [Places -> Contents]
  BY BaseIs
<1>1. CASE AdoptLegacyContainerName
  BY <1>1, <1>0, Goes DEF AdoptLegacyContainerName, Reachable, Seen
<1>2. CASE MigrateOverlayDataIfNeeded
  BY <1>2, <1>0, OverlayCheckIs DEF Abort
<1>3. CASE OverlayStop
  BY <1>3, <1>0, Goes, StoppedIs DEF OverlayStop, Reachable
<1>4. CASE OverlayCopy
  BY <1>4, <1>0, Goes DEF OverlayCopy, Reachable, Abort, Fails
<1>5. CASE OverlayCopied
  BY <1>5, <1>0, Goes DEF OverlayCopied
<1>6. CASE InstallOverlayData
  BY <1>6, <1>0, Goes DEF InstallOverlayData, Populated, Abort
<1>7. CASE OverlayRename
  BY <1>7, <1>0, Goes DEF OverlayRename, Abort, Fails
<1>8. CASE OverlayRemove
  BY <1>8, <1>0, Goes, NoBoxIs DEF OverlayRemove, Reachable, Removed
<1>9. CASE RecoverIncompleteInitialCreate
  BY <1>9, <1>0, Goes DEF RecoverIncompleteInitialCreate
<1>10. CASE RecoverStop
  BY <1>10, <1>0, Goes, RemoveCurrentIs, NoBoxIs DEF RecoverStop, Reachable, Exists, Seen
<1>11. CASE RecoverRename
  BY <1>11, <1>0, Goes DEF RecoverRename
<1>12. CASE RecoverMkdir
  BY <1>12, <1>0, Goes DEF RecoverMkdir
<1>13. CASE PrepareDataDir
  BY <1>13, <1>0, DataMoves DEF PrepareDataDir
<1>14. CASE LoadImage
  BY <1>14, <1>0, Goes DEF LoadImage, Reachable
<1>15. CASE StorePassword
  BY <1>15, <1>0, Goes DEF StorePassword
<1>16. CASE MarkPasswordGenerated
  BY <1>16, <1>0, Goes DEF MarkPasswordGenerated
<1>17. CASE WriteBootstrapPassword
  BY <1>17, <1>0, Goes DEF WriteBootstrapPassword
<1>18. CASE CreateContainer
  BY <1>18, <1>0, CreateIs DEF NanoRunSpec, Abort
<1> QED BY <1>1, <1>2, <1>3, <1>4, <1>5, <1>6, <1>7, <1>8, <1>9, <1>10, <1>11, <1>12, <1>13,
           <1>14, <1>15, <1>16, <1>17, <1>18 DEF Install

\* The steps of Finish keep the container with the recorded engine.
LEMMA FinishEngine ==
    ASSUME Base, Base', Guest, Engine, Overlay, Finish PROVE Engine'
<1> USE DEF Control, Engine, At, Trouble, others, files, host, secrets, StartSteps, EndSteps,
           GoneSteps, MacSteps, RunnerSteps, OverlaySteps, CopySteps, RecoverSteps, CheckSteps,
           PrepareSteps, Ops, Places
<1>0. /\ CmdType /\ StoreOK /\ Control /\ box \in Boxes
      /\ fs \in [Places -> Contents]
  BY BaseIs
<1>1. CASE AbortStart
  BY <1>1, <1>0, Goes, StoppedIs DEF AbortStart, VMExits
<1>2. CASE WriteArtifacts
  BY <1>2, <1>0, Goes DEF WriteArtifacts
<1>3. CASE WaitForDatabase
  BY <1>3, <1>0, Goes DEF WaitForDatabase, Ready, Exists, Seen, Reachable
<1>4. CASE FinalizeMark
  BY <1>4, <1>0, Goes DEF FinalizeMark
<1>5. CASE FinalizeRetire
  BY <1>5, <1>0, Goes DEF FinalizeRetire
<1>6. CASE AfterStart
  BY <1>6, <1>0, Goes DEF AfterStart, VerificationPending
<1>7. CASE VerifyStoredCredential
  BY <1>7, <1>0, Goes DEF VerifyStoredCredential, Ready, Exists, Seen, Reachable, DbPassword
<1>8. CASE MarkPasswordVerified
  BY <1>8, <1>0, Goes DEF MarkPasswordVerified
<1>9. CASE StopUnverified
  BY <1>9, <1>0, StopMoves DEF StopUnverified
<1>10. CASE RemoveBootstrap
  BY <1>10, <1>0, Goes DEF RemoveBootstrap
<1>11. CASE RuntimeStop
  BY <1>11, <1>0, Goes, RemoveCurrentIs, NoBoxIs DEF RuntimeStop, Reachable, Exists, Seen
<1>12. CASE RuntimeStopVM
  BY <1>12, <1>0, Goes, StoppedIs DEF RuntimeStopVM, VMExits
<1>13. CASE UpdateArtifactState
  BY <1>13, <1>0, Goes DEF UpdateArtifactState
<1>14. CASE Result
  BY <1>14, <1>0, ResultIs, Goes, NoCmdIs
<1>15. CASE ProbeAfterFailure
  BY <1>15, <1>0, ProbeIs, NoCmdIs
<1>16. CASE RestoreState
  BY <1>16, <1>0, NoCmdIs DEF RestoreState, End
<1> QED BY <1>1, <1>2, <1>3, <1>4, <1>5, <1>6, <1>7, <1>8, <1>9, <1>10, <1>11, <1>12, <1>13,
           <1>14, <1>15, <1>16 DEF Finish

\* The steps of Destroy keep the container with the recorded engine.
LEMMA DestroyEngine ==
    ASSUME Base, Base', Guest, Engine, Overlay, Destroy PROVE Engine'
<1> USE DEF Control, Engine, At, Trouble, others, files, host, secrets, StartSteps, EndSteps,
           GoneSteps, MacSteps, RunnerSteps, OverlaySteps, CopySteps, RecoverSteps, CheckSteps,
           PrepareSteps, Ops, Places
<1>0. /\ CmdType /\ StoreOK /\ Control /\ box \in Boxes
      /\ fs \in [Places -> Contents]
  BY BaseIs
<1>1. CASE DestroyContainer
  BY <1>1, <1>0, Goes, RemoveCurrentIs, NoBoxIs
     DEF DestroyContainer, Reachable, Exists, Seen, Overlay
<1>2. CASE DestroyStopVM
  BY <1>2, <1>0, Goes, StoppedIs DEF DestroyStopVM, VMExits
<1>3. CASE RemovedAll
  BY <1>3, <1>0, Goes DEF RemovedAll
<1>4. CASE RemoveSecrets
  BY <1>4, <1>0, Goes DEF RemoveSecrets
<1>5. CASE DestroyDone
  BY <1>5, <1>0, NoCmdIs DEF DestroyDone, End
<1>6. ASSUME NEW i \in Left, RemoveItem(i) PROVE Engine'
  BY <1>6, <1>0, NoBoxIs, BaseIs
     DEF RemoveItem, Removable, Left, QuarantinedDataDirs, NoCred, Left
<1> QED BY <1>1, <1>2, <1>3, <1>4, <1>5, <1>6 DEF Destroy

\* The steps of Outside keep the container with the recorded engine.
LEMMA OutsideEngine ==
    ASSUME Base, Base', Guest, Engine, Overlay, Outside PROVE Engine'
<1> USE DEF Control, Engine, At, Trouble, others, files, host, secrets, StartSteps, EndSteps,
           GoneSteps, MacSteps, RunnerSteps, OverlaySteps, CopySteps, RecoverSteps, CheckSteps,
           PrepareSteps, Ops, Places
<1>0. /\ CmdType /\ StoreOK /\ Control /\ box \in Boxes
      /\ fs \in [Places -> Contents]
  BY BaseIs
<1>1. CASE NanoCreates
  BY <1>1, <1>0 DEF NanoCreates, Serving
<1>2. CASE NanoCreated
  BY <1>2, <1>0 DEF NanoCreated, Serving
<1>3. CASE NanoDies
  BY <1>3, <1>0, StoppedIs DEF NanoDies, Serving
<1>4. CASE UserWrites
  BY <1>4, <1>0 DEF UserWrites, Serving
<1>5. CASE HostStops
  BY <1>5, <1>0, StoppedIs DEF HostStops
<1>6. CASE RunnerChanges
  BY <1>6, <1>0 DEF RunnerChanges
<1>7. CASE Interrupt
  BY <1>7, <1>0, NoCmdIs DEF Interrupt, End, Registered
<1>8. CASE Kill
  BY <1>8, <1>0, NoCmdIs DEF Kill
<1> QED BY <1>1, <1>2, <1>3, <1>4, <1>5, <1>6, <1>7, <1>8 DEF Outside

\* Every step keeps the container with the recorded engine.
LEMMA NextEngine ==
    ASSUME Base, Base', Guest, Engine, Overlay, [Next]_vars PROVE Engine'
<1> USE DEF Control, Engine, At, Trouble, others, files, host, secrets, StartSteps, EndSteps,
           GoneSteps, MacSteps, RunnerSteps, OverlaySteps, CopySteps, RecoverSteps, CheckSteps,
           PrepareSteps, Ops, Places
<1>0. /\ CmdType /\ StoreOK /\ Control /\ box \in Boxes
      /\ fs \in [Places -> Contents]
  BY BaseIs
<1>1. CASE ClearBootstrap
  BY <1>1, <1>0, Goes
     DEF ClearBootstrap, EnsureStartable, EnsureMachineRunning, RequireDockerEngine
<1>2. CASE StartVM
  BY <1>2, <1>0, StartVMIs
<1>3. CASE CallFails
  <2>1. /\ UNCHANGED others /\ cmd'.pc \notin GoneSteps
        /\ cmd'.pc \in StartSteps \ {"prepare", "record", "unboot"} =>
             cmd.pc \in StartSteps \ {"prepare", "record", "unboot"}
    BY <1>3, <1>0, FailsIs, NoCmdIs DEF DestroySteps, RunSteps
  <2>2. cmd' = NoCmd \/ (cmd'.engine = cmd.engine /\ cmd.pc # "idle")
    BY <1>3, FailsIs DEF DestroySteps, RunSteps
  <2> QED BY <2>1, <2>2, NoCmdIs
<1>4. CASE BeginDeploy \/ BeginStart \/ BeginStop \/ BeginDestroy
  <2>1. cmd'.pc \in {"idle", "prepare", "rtStop", "dBox"}
    BY <1>4, BeginsIs, NoCmdIs
  <2>2. UNCHANGED <<mac, files, box, vm, guest, runner, recorded, engine, secrets>>
    BY <1>4, BeginsIs
  <2>3. cmd' = NoCmd \/ cmd'.engine = CommandEngine
    BY <1>4, BeginsIs
  <2> QED BY <2>1, <2>2, <2>3, NoCmdIs DEF CommandEngine, ContainerEngine, RecordedEngine
<1>5. ASSUME NEW choice \in {"auto", "podman", "docker"}, ConfigureEngine(choice)
     PROVE  Engine'
  BY <1>5, <1>0, BaseIs DEF ConfigureEngine, Issue, RecordedEngine
<1>6. CASE UNCHANGED vars
  BY <1>6 DEF vars
<1> HIDE DEF Control, Engine, At, Trouble, others, files, host, secrets, StartSteps, EndSteps,
            GoneSteps, MacSteps, RunnerSteps, OverlaySteps, CopySteps, RecoverSteps,
            CheckSteps, PrepareSteps, Ops, Places
<1> QED BY <1>1, <1>2, <1>3, <1>4, <1>5, <1>6, PrepareEngine, MigrateEngine, InstallEngine,
           FinishEngine, DestroyEngine, OutsideEngine
        DEF Next, Launcher, Commands

-----------------------------------------------------------------------------
(* The data inside a container *)

\* The steps of Prepare keep the data that are only inside a container.
LEMMA PrepareOverlay ==
    ASSUME Careful, Base, Base', Guest, Engine, Overlay, Prepare PROVE Overlay'
<1> USE DEF Control, Engine, Overlay, At, Trouble, others, files, host, secrets, StartSteps,
           EndSteps, GoneSteps, MacSteps, RunnerSteps, OverlaySteps, CopySteps, RecoverSteps,
           CheckSteps, PrepareSteps, Ops, Places
<1>0. /\ CmdType /\ StoreOK /\ Control /\ box \in Boxes
      /\ fs \in [Places -> Contents]
  BY BaseIs
<1>1. CASE PrepareVM
  BY <1>1, <1>0, Goes DEF PrepareVM, GuestStale
<1>2. CASE StopVMBeforeGuestReplacement
  BY <1>2, <1>0, Goes, StoppedIs DEF StopVMBeforeGuestReplacement, VMExits
<1>3. CASE GuestInit
  BY <1>3, <1>0, Goes DEF GuestInit
<1>4. CASE GuestDone
  BY <1>4, <1>0, Goes DEF GuestDone
<1>5. CASE WriteRunnerVersionMarker
  BY <1>5, <1>0, Goes DEF WriteRunnerVersionMarker
<1>6. CASE PrepareHost
  BY <1>6, <1>0, Goes, NoCmdIs
     DEF PrepareHost, EnsureReady, EnsureStartable, EnsureMachineRunning, RequireDockerEngine
<1>7. CASE RecordContainerEngine
  BY <1>7, <1>0, FirstRecordIs
<1>8. CASE MarkInProgress
  BY <1>8, <1>0, Goes DEF MarkInProgress, PermitsStart
<1> QED BY <1>1, <1>2, <1>3, <1>4, <1>5, <1>6, <1>7, <1>8 DEF Prepare

\* The steps of Migrate keep the data that are only inside a container.
LEMMA MigrateOverlay ==
    ASSUME Careful, Base, Base', Guest, Engine, Overlay, Migrate PROVE Overlay'
<1> USE DEF Control, Engine, Overlay, At, Trouble, others, files, host, secrets, StartSteps,
           EndSteps, GoneSteps, MacSteps, RunnerSteps, OverlaySteps, CopySteps, RecoverSteps,
           CheckSteps, PrepareSteps, Ops, Places
<1>0. /\ CmdType /\ StoreOK /\ Control /\ box \in Boxes
      /\ fs \in [Places -> Contents]
  BY BaseIs
<1>1. CASE MigrationPrepare
  BY <1>1, <1>0, Goes DEF MigrationPrepare, MarkerMatches, Populated
<1>2. CASE MigrationStopNano
  BY <1>2, <1>0, Goes, RemoveCurrentIs, NoBoxIs
     DEF MigrationStopNano, Reachable, MarkerMatches, Populated, Exists, Seen
<1>3. CASE ResetOrResumeStaging
  BY <1>3, <1>0, Goes DEF ResetOrResumeStaging, MarkerMatches
<1>4. CASE CopySource
  BY <1>4, <1>0, Goes DEF CopySource
<1>5. CASE CopiedSource
  BY <1>5, <1>0, Goes DEF CopiedSource
<1>6. CASE MarkStaging
  BY <1>6, <1>0, Goes DEF MarkStaging
<1>7. CASE Publish
  BY <1>7, <1>0, Goes DEF Publish, Populated
<1>8. CASE PublishRename
  BY <1>8, <1>0, Goes DEF PublishRename, MarkerMatches
<1> QED BY <1>1, <1>2, <1>3, <1>4, <1>5, <1>6, <1>7, <1>8 DEF Migrate

\* The steps of Install keep the data that are only inside a container.
LEMMA InstallOverlay ==
    ASSUME Careful, Base, Base', Guest, Engine, Overlay, Install PROVE Overlay'
<1> USE DEF Control, Engine, Overlay, At, Trouble, others, files, host, secrets, StartSteps,
           EndSteps, GoneSteps, MacSteps, RunnerSteps, OverlaySteps, CopySteps, RecoverSteps,
           CheckSteps, PrepareSteps, Ops, Places
<1>0. /\ CmdType /\ StoreOK /\ Control /\ box \in Boxes
      /\ fs \in [Places -> Contents]
  BY BaseIs
<1>1. CASE AdoptLegacyContainerName
  BY <1>1, <1>0, Goes DEF AdoptLegacyContainerName, Reachable, Seen
<1>2. CASE MigrateOverlayDataIfNeeded
  BY <1>2, <1>0, OverlayCheckIs DEF Abort, Exists, Seen
<1>3. CASE OverlayStop
  BY <1>3, <1>0, Goes, StoppedIs DEF OverlayStop, Reachable
<1>4. CASE OverlayCopy
  BY <1>4, <1>0, Goes DEF OverlayCopy, Reachable, Abort, Fails
<1>5. CASE OverlayCopied
  BY <1>5, <1>0, Goes DEF OverlayCopied
<1>6. CASE InstallOverlayData
  BY <1>6, <1>0, Goes DEF InstallOverlayData, Populated, Abort
<1>7. CASE OverlayRename
  BY <1>7, <1>0, Goes DEF OverlayRename, Abort, Fails
<1>8. CASE OverlayRemove
  BY <1>8, <1>0, Goes, NoBoxIs DEF OverlayRemove, Reachable, Removed
<1>9. CASE RecoverIncompleteInitialCreate
  BY <1>9, <1>0, Goes DEF RecoverIncompleteInitialCreate
<1>10. CASE RecoverStop
  BY <1>10, <1>0, Goes, RemoveCurrentIs, NoBoxIs DEF RecoverStop, Reachable, Exists, Seen
<1>11. CASE RecoverRename
  BY <1>11, <1>0, Goes DEF RecoverRename
<1>12. CASE RecoverMkdir
  BY <1>12, <1>0, Goes DEF RecoverMkdir
<1>13. CASE PrepareDataDir
  BY <1>13, <1>0, DataMoves DEF PrepareDataDir
<1>14. CASE LoadImage
  BY <1>14, <1>0, Goes DEF LoadImage, Reachable
<1>15. CASE StorePassword
  BY <1>15, <1>0, Goes DEF StorePassword
<1>16. CASE MarkPasswordGenerated
  BY <1>16, <1>0, Goes, BaseIs DEF MarkPasswordGenerated
<1>17. CASE WriteBootstrapPassword
  BY <1>17, <1>0, Goes DEF WriteBootstrapPassword
<1>18. CASE CreateContainer
  BY <1>18, <1>0, CreateIs DEF NanoRunSpec, Abort
<1> QED BY <1>1, <1>2, <1>3, <1>4, <1>5, <1>6, <1>7, <1>8, <1>9, <1>10, <1>11, <1>12, <1>13,
           <1>14, <1>15, <1>16, <1>17, <1>18 DEF Install

\* The steps of Finish keep the data that are only inside a container.
LEMMA FinishOverlay ==
    ASSUME Careful, Base, Base', Guest, Engine, Overlay, Finish PROVE Overlay'
<1> USE DEF Control, Engine, Overlay, At, Trouble, others, files, host, secrets, StartSteps,
           EndSteps, GoneSteps, MacSteps, RunnerSteps, OverlaySteps, CopySteps, RecoverSteps,
           CheckSteps, PrepareSteps, Ops, Places
<1>0. /\ CmdType /\ StoreOK /\ Control /\ box \in Boxes
      /\ fs \in [Places -> Contents]
  BY BaseIs
<1>1. CASE AbortStart
  BY <1>1, <1>0, Goes, StoppedIs DEF AbortStart, VMExits
<1>2. CASE WriteArtifacts
  BY <1>2, <1>0, Goes DEF WriteArtifacts
<1>3. CASE WaitForDatabase
  BY <1>3, <1>0, Goes DEF WaitForDatabase, Ready, Exists, Seen, Reachable
<1>4. CASE FinalizeMark
  BY <1>4, <1>0, Goes DEF FinalizeMark
<1>5. CASE FinalizeRetire
  BY <1>5, <1>0, Goes DEF FinalizeRetire
<1>6. CASE AfterStart
  BY <1>6, <1>0, Goes DEF AfterStart, VerificationPending
<1>7. CASE VerifyStoredCredential
  BY <1>7, <1>0, Goes DEF VerifyStoredCredential, Ready, Exists, Seen, Reachable, DbPassword
<1>8. CASE MarkPasswordVerified
  BY <1>8, <1>0, Goes, BaseIs DEF MarkPasswordVerified
<1>9. CASE StopUnverified
  BY <1>9, <1>0, StopMoves DEF StopUnverified
<1>10. CASE RemoveBootstrap
  BY <1>10, <1>0, Goes DEF RemoveBootstrap
<1>11. CASE RuntimeStop
  BY <1>11, <1>0, Goes, RemoveCurrentIs, NoBoxIs DEF RuntimeStop, Reachable, Exists, Seen
<1>12. CASE RuntimeStopVM
  BY <1>12, <1>0, Goes, StoppedIs DEF RuntimeStopVM, VMExits
<1>13. CASE UpdateArtifactState
  BY <1>13, <1>0, Goes DEF UpdateArtifactState
<1>14. CASE Result
  BY <1>14, <1>0, ResultIs, Goes, NoCmdIs DEF PermitsStart
<1>15. CASE ProbeAfterFailure
  BY <1>15, <1>0, ProbeIs, NoCmdIs DEF PermitsStart
<1>16. CASE RestoreState
  BY <1>16, <1>0, NoCmdIs DEF RestoreState, End, PermitsStart
<1> QED BY <1>1, <1>2, <1>3, <1>4, <1>5, <1>6, <1>7, <1>8, <1>9, <1>10, <1>11, <1>12, <1>13,
           <1>14, <1>15, <1>16 DEF Finish

\* The steps of Destroy keep the data that are only inside a container.
LEMMA DestroyOverlay ==
    ASSUME Careful, Base, Base', Guest, Engine, Overlay, Destroy PROVE Overlay'
<1> USE DEF Control, Engine, Overlay, At, Trouble, others, files, host, secrets, StartSteps,
           EndSteps, GoneSteps, MacSteps, RunnerSteps, OverlaySteps, CopySteps, RecoverSteps,
           CheckSteps, PrepareSteps, Ops, Places
<1>0. /\ CmdType /\ StoreOK /\ Control /\ box \in Boxes
      /\ fs \in [Places -> Contents]
  BY BaseIs
<1>1. CASE DestroyContainer
  BY <1>1, <1>0, Goes, RemoveCurrentIs, NoBoxIs DEF DestroyContainer, Reachable, Exists, Seen
<1>2. CASE DestroyStopVM
  BY <1>2, <1>0, Goes, StoppedIs DEF DestroyStopVM, VMExits
<1>3. CASE RemovedAll
  BY <1>3, <1>0, Goes DEF RemovedAll
<1>4. CASE RemoveSecrets
  BY <1>4, <1>0, Goes DEF RemoveSecrets
<1>5. CASE DestroyDone
  BY <1>5, <1>0, NoCmdIs DEF DestroyDone, End, PermitsStart
<1>6. ASSUME NEW i \in Left, RemoveItem(i) PROVE Overlay'
  BY <1>6, <1>0, NoBoxIs DEF RemoveItem, Removable, Left, QuarantinedDataDirs, NoCred, Left
<1> QED BY <1>1, <1>2, <1>3, <1>4, <1>5, <1>6 DEF Destroy

\* The steps of Outside keep the data that are only inside a container.
LEMMA OutsideOverlay ==
    ASSUME Careful, Base, Base', Guest, Engine, Overlay, Outside PROVE Overlay'
<1> USE DEF Control, Engine, Overlay, At, Trouble, others, files, host, secrets, StartSteps,
           EndSteps, GoneSteps, MacSteps, RunnerSteps, OverlaySteps, CopySteps, RecoverSteps,
           CheckSteps, PrepareSteps, Ops, Places
<1>0. /\ CmdType /\ StoreOK /\ Control /\ box \in Boxes
      /\ fs \in [Places -> Contents]
  BY BaseIs
<1>1. CASE NanoCreates
  BY <1>1, <1>0 DEF NanoCreates, Serving
<1>2. CASE NanoCreated
  BY <1>2, <1>0 DEF NanoCreated, Serving
<1>3. CASE NanoDies
  BY <1>3, <1>0, StoppedIs DEF NanoDies, Serving
<1>4. CASE UserWrites
  BY <1>4, <1>0 DEF UserWrites, Serving
<1>5. CASE HostStops
  BY <1>5, <1>0, StoppedIs DEF HostStops
<1>6. CASE RunnerChanges
  BY <1>6, <1>0 DEF RunnerChanges
<1>7. CASE Interrupt
  BY <1>7, <1>0, NoCmdIs DEF Interrupt, End, Registered, PermitsStart
<1>8. CASE Kill
  BY <1>8, <1>0, NoCmdIs DEF Kill
<1> QED BY <1>1, <1>2, <1>3, <1>4, <1>5, <1>6, <1>7, <1>8 DEF Outside

\* Every step keeps the data that are only inside a container.
LEMMA NextOverlay ==
    ASSUME Careful, Base, Base', Guest, Engine, Overlay, [Next]_vars PROVE Overlay'
<1> USE DEF Control, Engine, Overlay, At, Trouble, others, files, host, secrets, StartSteps,
           EndSteps, GoneSteps, MacSteps, RunnerSteps, OverlaySteps, CopySteps, RecoverSteps,
           CheckSteps, PrepareSteps, Ops, Places
<1>0. /\ CmdType /\ StoreOK /\ Control /\ box \in Boxes
      /\ fs \in [Places -> Contents]
  BY BaseIs
<1>1. CASE ClearBootstrap
  BY <1>1, <1>0, Goes
     DEF ClearBootstrap, EnsureStartable, EnsureMachineRunning, RequireDockerEngine
<1>2. CASE StartVM
  BY <1>2, <1>0, StartVMIs
<1>3. CASE CallFails
  BY <1>3, <1>0, FailsIs, NoCmdIs
<1>4. CASE BeginDeploy \/ BeginStart \/ BeginStop \/ BeginDestroy
  <2>1. fs["overlay"] # "absent" => CommandEngine = "podman"
    BY DEF CommandEngine, ContainerEngine, RecordedEngine
  <2>2. /\ UNCHANGED <<mac, files, box, vm, guest, runner, recorded, engine, secrets>>
        /\ cmd.pc = "idle"
        /\ cmd' = NoCmd \/ cmd'.engine = CommandEngine
    BY <1>4, BeginsIs
  <2>3. fs["overlay"] # "absent" /\ box.st = "running" => RunsNow
    BY <2>1 DEF RunsNow
  <2>4. fs["overlay"] # "absent" /\ box.st = "running" => Reconciled = wf
    BY <2>3 DEF Reconciled
  <2>5. CASE cmd' = NoCmd /\ wf' = Reconciled
    BY <2>2, <2>4, <2>5, NoCmdIs DEF PermitsStart
  <2>6. CASE /\ cmd'.pc = "prepare" /\ cmd'.op = "deploy" /\ wf' = wf
             /\ cmd'.engine = CommandEngine
    BY <2>1, <2>2, <2>6 DEF PermitsStart
  <2>7. CASE /\ cmd'.pc = "prepare" /\ cmd'.op = "start" /\ wf' = Reconciled
             /\ PermitsStart(Reconciled) /\ cmd'.engine = CommandEngine
    BY <2>1, <2>2, <2>4, <2>7
  <2>8. CASE /\ cmd'.pc = "rtStop" /\ cmd'.ret = "artifactState"
             /\ fs["overlay"] = "absent"
    BY <2>2, <2>8
  <2>9. CASE /\ cmd'.pc = "dBox" /\ wf' = <<"inProgress", "destroy">>
             /\ cmd'.op = "destroy" /\ cmd'.engine = CommandEngine
    BY <2>1, <2>2, <2>9 DEF PermitsStart
  <2> QED BY <1>4, <2>5, <2>6, <2>7, <2>8, <2>9, BeginsIs
<1>5. ASSUME NEW choice \in {"auto", "podman", "docker"}, ConfigureEngine(choice)
     PROVE  Overlay'
  BY <1>5, <1>0 DEF ConfigureEngine, Issue, RecordedEngine
<1>6. CASE UNCHANGED vars
  BY <1>6 DEF vars
<1> HIDE DEF Control, Engine, Overlay, At, Trouble, others, files, host, secrets, StartSteps,
            EndSteps, GoneSteps, MacSteps, RunnerSteps, OverlaySteps, CopySteps, RecoverSteps,
            CheckSteps, PrepareSteps, Ops, Places
<1> QED BY <1>1, <1>2, <1>3, <1>4, <1>5, <1>6, PrepareOverlay, MigrateOverlay, InstallOverlay,
           FinishOverlay, DestroyOverlay, OutsideOverlay
        DEF Next, Launcher, Commands

-----------------------------------------------------------------------------
(* The copies and the data that are served *)

\* The steps of Prepare keep the copies complete, the user's data and what is served.
LEMMA PrepareData ==
    ASSUME Base, Base', Guest, Engine, Overlay, Copies, Kept, Served, Prepare
    PROVE  (Copies /\ Kept /\ Served)'
<1> USE DEF Control, Copies, Kept, Served, Untouched, At, Trouble, others, files, host, secrets,
           StartSteps, EndSteps, GoneSteps, MacSteps, RunnerSteps, OverlaySteps, CopySteps,
           RecoverSteps, CheckSteps, PrepareSteps, Ops, Places, Complete, Legacy, Fresh
<1>0. /\ CmdType /\ StoreOK /\ Control /\ box \in Boxes
      /\ fs \in [Places -> Contents]
  BY BaseIs
<1>1. CASE PrepareVM
  BY <1>1, <1>0, Goes DEF PrepareVM, GuestStale
<1>2. CASE StopVMBeforeGuestReplacement
  BY <1>2, <1>0, Goes, StoppedIs DEF StopVMBeforeGuestReplacement, VMExits
<1>3. CASE GuestInit
  BY <1>3, <1>0, Goes DEF GuestInit
<1>4. CASE GuestDone
  BY <1>4, <1>0, Goes DEF GuestDone
<1>5. CASE WriteRunnerVersionMarker
  BY <1>5, <1>0, Goes DEF WriteRunnerVersionMarker
<1>6. CASE PrepareHost
  BY <1>6, <1>0, Goes, NoCmdIs
     DEF PrepareHost, EnsureReady, EnsureStartable, EnsureMachineRunning, RequireDockerEngine
<1>7. CASE RecordContainerEngine
  BY <1>7, <1>0, FirstRecordIs
<1>8. CASE MarkInProgress
  BY <1>8, <1>0, Goes DEF MarkInProgress
<1> QED BY <1>1, <1>2, <1>3, <1>4, <1>5, <1>6, <1>7, <1>8 DEF Prepare

\* The steps of Migrate keep the copies complete, the user's data and what is served.
LEMMA MigrateData ==
    ASSUME Base, Base', Guest, Engine, Overlay, Copies, Kept, Served, Migrate
    PROVE  (Copies /\ Kept /\ Served)'
<1> USE DEF Control, Copies, Kept, Served, Untouched, At, Trouble, others, files, host, secrets,
           StartSteps, EndSteps, GoneSteps, MacSteps, RunnerSteps, OverlaySteps, CopySteps,
           RecoverSteps, CheckSteps, PrepareSteps, Ops, Places, Complete, Legacy, Fresh
<1>0. /\ CmdType /\ StoreOK /\ Control /\ box \in Boxes
      /\ fs \in [Places -> Contents]
  BY BaseIs
<1>1. CASE MigrationPrepare
  BY <1>1, <1>0, Goes DEF MigrationPrepare, MarkerMatches, Populated
<1>2. CASE MigrationStopNano
  BY <1>2, <1>0, Goes, RemoveCurrentIs, NoBoxIs
     DEF MigrationStopNano, Reachable, MarkerMatches, Populated, Exists, Seen
<1>3. CASE ResetOrResumeStaging
  BY <1>3, <1>0, Goes DEF ResetOrResumeStaging, MarkerMatches
<1>4. CASE CopySource
  BY <1>4, <1>0, Goes DEF CopySource
<1>5. CASE CopiedSource
  BY <1>5, <1>0, Goes DEF CopiedSource
<1>6. CASE MarkStaging
  BY <1>6, <1>0, Goes DEF MarkStaging
<1>7. CASE Publish
  BY <1>7, <1>0, Goes DEF Publish, Populated
<1>8. CASE PublishRename
  BY <1>8, <1>0, Goes DEF PublishRename, MarkerMatches
<1> QED BY <1>1, <1>2, <1>3, <1>4, <1>5, <1>6, <1>7, <1>8 DEF Migrate

\* The steps of Install keep the copies complete, the user's data and what is served.
LEMMA InstallData ==
    ASSUME Base, Base', Guest, Engine, Overlay, Copies, Kept, Served, Install
    PROVE  (Copies /\ Kept /\ Served)'
<1> USE DEF Control, Copies, Kept, Served, Untouched, At, Trouble, others, files, host, secrets,
           StartSteps, EndSteps, GoneSteps, MacSteps, RunnerSteps, OverlaySteps, CopySteps,
           RecoverSteps, CheckSteps, PrepareSteps, Ops, Places, Complete, Legacy, Fresh
<1>0. /\ CmdType /\ StoreOK /\ Control /\ box \in Boxes
      /\ fs \in [Places -> Contents]
  BY BaseIs
<1>1. CASE AdoptLegacyContainerName
  BY <1>1, <1>0, Goes DEF AdoptLegacyContainerName, Reachable, Seen
<1>2. CASE MigrateOverlayDataIfNeeded
  <2>1. cmd'.pc = "recover" => fs["overlay"] = "absent"
    BY <1>2, OverlayCheckIs DEF Exists, Seen, Engine, Overlay, Abort
  <2>2. /\ UNCHANGED others /\ cmd.pc = "overlay"
        /\ cmd'.pc \in {"recover", "abort", "started", "ovStop"}
    BY <1>2, OverlayCheckIs DEF Abort
  <2>3. cmd'.pc = "ovStop" => ~mac
    BY <1>2, OverlayCheckIs DEF Engine, Abort
  <2> QED BY <2>1, <2>2, <2>3
<1>3. CASE OverlayStop
  BY <1>3, <1>0, Goes, StoppedIs DEF OverlayStop, Reachable
<1>4. CASE OverlayCopy
  BY <1>4, <1>0, Goes DEF OverlayCopy, Reachable, Abort, Fails, Overlay
<1>5. CASE OverlayCopied
  BY <1>5, <1>0, Goes DEF OverlayCopied, Overlay
<1>6. CASE InstallOverlayData
  BY <1>6, <1>0, Goes DEF InstallOverlayData, Populated, Abort, Overlay
<1>7. CASE OverlayRename
  BY <1>7, <1>0, Goes DEF OverlayRename, Abort, Fails, Overlay
<1>8. CASE OverlayRemove
  BY <1>8, <1>0, Goes, NoBoxIs DEF OverlayRemove, Reachable, Removed
<1>9. CASE RecoverIncompleteInitialCreate
  BY <1>9, <1>0, Goes DEF RecoverIncompleteInitialCreate
<1>10. CASE RecoverStop
  BY <1>10, <1>0, Goes, RemoveCurrentIs, NoBoxIs
     DEF RecoverStop, Reachable, Exists, Seen, Overlay
<1>11. CASE RecoverRename
  BY <1>11, <1>0, Goes DEF RecoverRename
<1>12. CASE RecoverMkdir
  BY <1>12, <1>0, Goes DEF RecoverMkdir
<1>13. CASE PrepareDataDir
  BY <1>13, <1>0, DataMoves DEF PrepareDataDir
<1>14. CASE LoadImage
  BY <1>14, <1>0, Goes DEF LoadImage, Reachable
<1>15. CASE StorePassword
  BY <1>15, <1>0, Goes DEF StorePassword
<1>16. CASE MarkPasswordGenerated
  BY <1>16, <1>0, Goes DEF MarkPasswordGenerated
<1>17. CASE WriteBootstrapPassword
  BY <1>17, <1>0, Goes DEF WriteBootstrapPassword
<1>18. CASE CreateContainer
  BY <1>18, <1>0, CreateIs DEF NanoRunSpec, Abort, Overlay
<1> QED BY <1>1, <1>2, <1>3, <1>4, <1>5, <1>6, <1>7, <1>8, <1>9, <1>10, <1>11, <1>12, <1>13,
           <1>14, <1>15, <1>16, <1>17, <1>18 DEF Install

\* The steps of Finish keep the copies complete, the user's data and what is served.
LEMMA FinishData ==
    ASSUME Base, Base', Guest, Engine, Overlay, Copies, Kept, Served, Finish
    PROVE  (Copies /\ Kept /\ Served)'
<1> USE DEF Control, Copies, Kept, Served, Untouched, At, Trouble, others, files, host, secrets,
           StartSteps, EndSteps, GoneSteps, MacSteps, RunnerSteps, OverlaySteps, CopySteps,
           RecoverSteps, CheckSteps, PrepareSteps, Ops, Places, Complete, Legacy, Fresh
<1>0. /\ CmdType /\ StoreOK /\ Control /\ box \in Boxes
      /\ fs \in [Places -> Contents]
  BY BaseIs
<1>1. CASE AbortStart
  BY <1>1, <1>0, Goes, StoppedIs DEF AbortStart, VMExits
<1>2. CASE WriteArtifacts
  BY <1>2, <1>0, Goes DEF WriteArtifacts
<1>3. CASE WaitForDatabase
  BY <1>3, <1>0, Goes DEF WaitForDatabase, Ready, Exists, Seen, Reachable
<1>4. CASE FinalizeMark
  BY <1>4, <1>0, Goes DEF FinalizeMark
<1>5. CASE FinalizeRetire
  BY <1>5, <1>0, Goes DEF FinalizeRetire
<1>6. CASE AfterStart
  BY <1>6, <1>0, Goes DEF AfterStart, VerificationPending
<1>7. CASE VerifyStoredCredential
  BY <1>7, <1>0, Goes DEF VerifyStoredCredential, Ready, Exists, Seen, Reachable, DbPassword
<1>8. CASE MarkPasswordVerified
  BY <1>8, <1>0, Goes DEF MarkPasswordVerified
<1>9. CASE StopUnverified
  BY <1>9, <1>0, StopMoves DEF StopUnverified
<1>10. CASE RemoveBootstrap
  BY <1>10, <1>0, Goes DEF RemoveBootstrap
<1>11. CASE RuntimeStop
  BY <1>11, <1>0, Goes, RemoveCurrentIs, NoBoxIs
     DEF RuntimeStop, Reachable, Exists, Seen, Overlay
<1>12. CASE RuntimeStopVM
  BY <1>12, <1>0, Goes, StoppedIs DEF RuntimeStopVM, VMExits
<1>13. CASE UpdateArtifactState
  BY <1>13, <1>0, Goes DEF UpdateArtifactState
<1>14. CASE Result
  BY <1>14, <1>0, ResultIs, Goes, NoCmdIs
<1>15. CASE ProbeAfterFailure
  BY <1>15, <1>0, ProbeIs, NoCmdIs
<1>16. CASE RestoreState
  BY <1>16, <1>0, NoCmdIs DEF RestoreState, End
<1> QED BY <1>1, <1>2, <1>3, <1>4, <1>5, <1>6, <1>7, <1>8, <1>9, <1>10, <1>11, <1>12, <1>13,
           <1>14, <1>15, <1>16 DEF Finish

\* The steps of Destroy keep the copies complete, the user's data and what is served.
LEMMA DestroyData ==
    ASSUME Base, Base', Guest, Engine, Overlay, Copies, Kept, Served, Destroy
    PROVE  (Copies /\ Kept /\ Served)'
<1> USE DEF Control, Copies, Kept, Served, Untouched, At, Trouble, others, files, host, secrets,
           StartSteps, EndSteps, GoneSteps, MacSteps, RunnerSteps, OverlaySteps, CopySteps,
           RecoverSteps, CheckSteps, PrepareSteps, Ops, Places, Complete, Legacy, Fresh
<1>0. /\ CmdType /\ StoreOK /\ Control /\ box \in Boxes
      /\ fs \in [Places -> Contents]
  BY BaseIs
<1>1. CASE DestroyContainer
  BY <1>1, <1>0, Goes, RemoveCurrentIs, NoBoxIs DEF DestroyContainer, Reachable, Exists, Seen
<1>2. CASE DestroyStopVM
  BY <1>2, <1>0, Goes, StoppedIs DEF DestroyStopVM, VMExits
<1>3. CASE RemovedAll
  BY <1>3, <1>0, Goes DEF RemovedAll
<1>4. CASE RemoveSecrets
  BY <1>4, <1>0, Goes DEF RemoveSecrets
<1>5. CASE DestroyDone
  BY <1>5, <1>0, NoCmdIs DEF DestroyDone, End
<1>6. ASSUME NEW i \in Left, RemoveItem(i) PROVE (Copies /\ Kept /\ Served)'
  BY <1>6, <1>0, NoBoxIs
     DEF RemoveItem, Removable, Left, QuarantinedDataDirs, NoCred, Left, QuarantinedDataDirs,
         Guest
<1> QED BY <1>1, <1>2, <1>3, <1>4, <1>5, <1>6 DEF Destroy

\* The steps of Outside keep the copies complete, the user's data and what is served.
LEMMA OutsideData ==
    ASSUME Base, Base', Guest, Engine, Overlay, Copies, Kept, Served, Outside
    PROVE  (Copies /\ Kept /\ Served)'
<1> USE DEF Control, Copies, Kept, Served, Untouched, At, Trouble, others, files, host, secrets,
           StartSteps, EndSteps, GoneSteps, MacSteps, RunnerSteps, OverlaySteps, CopySteps,
           RecoverSteps, CheckSteps, PrepareSteps, Ops, Places, Complete, Legacy, Fresh
<1>0. /\ CmdType /\ StoreOK /\ Control /\ box \in Boxes
      /\ fs \in [Places -> Contents]
  BY BaseIs
<1>1. CASE NanoCreates
  BY <1>1, <1>0 DEF NanoCreates, Serving
<1>2. CASE NanoCreated
  BY <1>2, <1>0 DEF NanoCreated, Serving
<1>3. CASE NanoDies
  BY <1>3, <1>0, StoppedIs DEF NanoDies, Serving
<1>4. CASE UserWrites
  BY <1>4, <1>0 DEF UserWrites, Serving
<1>5. CASE HostStops
  BY <1>5, <1>0, StoppedIs DEF HostStops
<1>6. CASE RunnerChanges
  BY <1>6, <1>0 DEF RunnerChanges
<1>7. CASE Interrupt
  BY <1>7, <1>0, NoCmdIs DEF Interrupt, End, Registered
<1>8. CASE Kill
  BY <1>8, <1>0, NoCmdIs DEF Kill
<1> QED BY <1>1, <1>2, <1>3, <1>4, <1>5, <1>6, <1>7, <1>8 DEF Outside

\* Every step keeps the copies complete, the user's data and what is served.
LEMMA NextData ==
    ASSUME Base, Base', Guest, Engine, Overlay, Copies, Kept, Served, [Next]_vars
    PROVE  (Copies /\ Kept /\ Served)'
<1> USE DEF Control, Copies, Kept, Served, Untouched, At, Trouble, others, files, host, secrets,
           StartSteps, EndSteps, GoneSteps, MacSteps, RunnerSteps, OverlaySteps, CopySteps,
           RecoverSteps, CheckSteps, PrepareSteps, Ops, Places, Complete, Legacy, Fresh
<1>0. /\ CmdType /\ StoreOK /\ Control /\ box \in Boxes
      /\ fs \in [Places -> Contents]
  BY BaseIs
<1>1. CASE ClearBootstrap
  BY <1>1, <1>0, Goes
     DEF ClearBootstrap, EnsureStartable, EnsureMachineRunning, RequireDockerEngine
<1>2. CASE StartVM
  BY <1>2, <1>0, StartVMIs
<1>3. CASE CallFails
  BY <1>3, <1>0, FailsIs, NoCmdIs
<1>4. CASE BeginDeploy \/ BeginStart \/ BeginStop \/ BeginDestroy
  <2>1. /\ UNCHANGED <<mac, files, box, vm, guest, runner, recorded, engine, secrets>>
        /\ wrecked => wrecked'
    BY <1>4, BeginsIs
  <2>2. cmd'.pc \in {"idle", "prepare", "rtStop", "dBox"}
    BY <1>4, BeginsIs, NoCmdIs
  <2> QED BY <2>1, <2>2
<1>5. ASSUME NEW choice \in {"auto", "podman", "docker"}, ConfigureEngine(choice)
     PROVE  (Copies /\ Kept /\ Served)'
  BY <1>5, <1>0 DEF ConfigureEngine, Issue, RecordedEngine
<1>6. CASE UNCHANGED vars
  BY <1>6 DEF vars
<1> HIDE DEF Control, Copies, Kept, Served, Untouched, At, Trouble, others, files, host,
            secrets, StartSteps, EndSteps, GoneSteps, MacSteps, RunnerSteps, OverlaySteps,
            CopySteps, RecoverSteps, CheckSteps, PrepareSteps, Ops, Places, Complete, Legacy,
            Fresh
<1> QED BY <1>1, <1>2, <1>3, <1>4, <1>5, <1>6, PrepareData, MigrateData, InstallData,
           FinishData, DestroyData, OutsideData
        DEF Next, Launcher, Commands

-----------------------------------------------------------------------------
(* The version record *)

\* The steps of Prepare keep the version record true of the guest.
LEMMA PrepareVersions ==
    ASSUME ~Downgrades, Base, Base', Guest, Versions, GuestIntact, Prepare
    PROVE  (Versions /\ GuestIntact)'
<1> USE DEF RestOK, Control, Guest, Versions, GuestIntact, At, Trouble, others, files, host,
           secrets, StartSteps, EndSteps, GoneSteps, MacSteps, RunnerSteps, OverlaySteps,
           CopySteps, RecoverSteps, CheckSteps, PrepareSteps, Ops, Places
<1>0. /\ CmdType /\ RestOK /\ StoreOK /\ Control /\ box \in Boxes
      /\ fs \in [Places -> Contents]
  BY BaseIs
<1>1. CASE PrepareVM
  BY <1>1, <1>0, Goes DEF PrepareVM, GuestStale
<1>2. CASE StopVMBeforeGuestReplacement
  BY <1>2, <1>0, Goes, StoppedIs DEF StopVMBeforeGuestReplacement, VMExits
<1>3. CASE GuestInit
  BY <1>3, <1>0, Goes DEF GuestInit
<1>4. CASE GuestDone
  BY <1>4, <1>0, Goes DEF GuestDone
<1>5. CASE WriteRunnerVersionMarker
  BY <1>5, <1>0, Goes DEF WriteRunnerVersionMarker
<1>6. CASE PrepareHost
  BY <1>6, <1>0, Goes, NoCmdIs
     DEF PrepareHost, EnsureReady, EnsureStartable, EnsureMachineRunning, RequireDockerEngine
<1>7. CASE RecordContainerEngine
  BY <1>7, <1>0, FirstRecordIs
<1>8. CASE MarkInProgress
  BY <1>8, <1>0, Goes DEF MarkInProgress
<1> QED BY <1>1, <1>2, <1>3, <1>4, <1>5, <1>6, <1>7, <1>8 DEF Prepare

\* The steps of Migrate keep the version record true of the guest.
LEMMA MigrateVersions ==
    ASSUME ~Downgrades, Base, Base', Guest, Versions, GuestIntact, Migrate
    PROVE  (Versions /\ GuestIntact)'
<1> USE DEF RestOK, Control, Guest, Versions, GuestIntact, At, Trouble, others, files, host,
           secrets, StartSteps, EndSteps, GoneSteps, MacSteps, RunnerSteps, OverlaySteps,
           CopySteps, RecoverSteps, CheckSteps, PrepareSteps, Ops, Places
<1>0. /\ CmdType /\ RestOK /\ StoreOK /\ Control /\ box \in Boxes
      /\ fs \in [Places -> Contents]
  BY BaseIs
<1>1. CASE MigrationPrepare
  BY <1>1, <1>0, Goes DEF MigrationPrepare, MarkerMatches, Populated
<1>2. CASE MigrationStopNano
  BY <1>2, <1>0, Goes, RemoveCurrentIs, NoBoxIs
     DEF MigrationStopNano, Reachable, MarkerMatches, Populated, Exists, Seen
<1>3. CASE ResetOrResumeStaging
  BY <1>3, <1>0, Goes DEF ResetOrResumeStaging, MarkerMatches
<1>4. CASE CopySource
  BY <1>4, <1>0, Goes DEF CopySource
<1>5. CASE CopiedSource
  BY <1>5, <1>0, Goes DEF CopiedSource
<1>6. CASE MarkStaging
  BY <1>6, <1>0, Goes DEF MarkStaging
<1>7. CASE Publish
  BY <1>7, <1>0, Goes DEF Publish, Populated
<1>8. CASE PublishRename
  BY <1>8, <1>0, Goes DEF PublishRename, MarkerMatches
<1> QED BY <1>1, <1>2, <1>3, <1>4, <1>5, <1>6, <1>7, <1>8 DEF Migrate

\* The steps of Install keep the version record true of the guest.
LEMMA InstallVersions ==
    ASSUME ~Downgrades, Base, Base', Guest, Versions, GuestIntact, Install
    PROVE  (Versions /\ GuestIntact)'
<1> USE DEF RestOK, Control, Guest, Versions, GuestIntact, At, Trouble, others, files, host,
           secrets, StartSteps, EndSteps, GoneSteps, MacSteps, RunnerSteps, OverlaySteps,
           CopySteps, RecoverSteps, CheckSteps, PrepareSteps, Ops, Places
<1>0. /\ CmdType /\ RestOK /\ StoreOK /\ Control /\ box \in Boxes
      /\ fs \in [Places -> Contents]
  BY BaseIs
<1>1. CASE AdoptLegacyContainerName
  BY <1>1, <1>0, Goes DEF AdoptLegacyContainerName, Reachable, Seen
<1>2. CASE MigrateOverlayDataIfNeeded
  BY <1>2, <1>0, OverlayCheckIs DEF Abort
<1>3. CASE OverlayStop
  BY <1>3, <1>0, Goes, StoppedIs DEF OverlayStop, Reachable
<1>4. CASE OverlayCopy
  BY <1>4, <1>0, Goes DEF OverlayCopy, Reachable, Abort, Fails
<1>5. CASE OverlayCopied
  BY <1>5, <1>0, Goes DEF OverlayCopied
<1>6. CASE InstallOverlayData
  BY <1>6, <1>0, Goes DEF InstallOverlayData, Populated, Abort
<1>7. CASE OverlayRename
  BY <1>7, <1>0, Goes DEF OverlayRename, Abort, Fails
<1>8. CASE OverlayRemove
  BY <1>8, <1>0, Goes, NoBoxIs DEF OverlayRemove, Reachable
<1>9. CASE RecoverIncompleteInitialCreate
  BY <1>9, <1>0, Goes DEF RecoverIncompleteInitialCreate
<1>10. CASE RecoverStop
  BY <1>10, <1>0, Goes, RemoveCurrentIs, NoBoxIs DEF RecoverStop, Reachable, Exists, Seen
<1>11. CASE RecoverRename
  BY <1>11, <1>0, Goes DEF RecoverRename
<1>12. CASE RecoverMkdir
  BY <1>12, <1>0, Goes DEF RecoverMkdir
<1>13. CASE PrepareDataDir
  BY <1>13, <1>0, DataMoves DEF PrepareDataDir
<1>14. CASE LoadImage
  BY <1>14, <1>0, Goes DEF LoadImage, Reachable
<1>15. CASE StorePassword
  BY <1>15, <1>0, Goes DEF StorePassword
<1>16. CASE MarkPasswordGenerated
  BY <1>16, <1>0, Goes DEF MarkPasswordGenerated
<1>17. CASE WriteBootstrapPassword
  BY <1>17, <1>0, Goes DEF WriteBootstrapPassword
<1>18. CASE CreateContainer
  BY <1>18, <1>0, CreateIs DEF Abort
<1> QED BY <1>1, <1>2, <1>3, <1>4, <1>5, <1>6, <1>7, <1>8, <1>9, <1>10, <1>11, <1>12, <1>13,
           <1>14, <1>15, <1>16, <1>17, <1>18 DEF Install

\* The steps of Finish keep the version record true of the guest.
LEMMA FinishVersions ==
    ASSUME ~Downgrades, Base, Base', Guest, Versions, GuestIntact, Finish
    PROVE  (Versions /\ GuestIntact)'
<1> USE DEF RestOK, Control, Guest, Versions, GuestIntact, At, Trouble, others, files, host,
           secrets, StartSteps, EndSteps, GoneSteps, MacSteps, RunnerSteps, OverlaySteps,
           CopySteps, RecoverSteps, CheckSteps, PrepareSteps, Ops, Places
<1>0. /\ CmdType /\ RestOK /\ StoreOK /\ Control /\ box \in Boxes
      /\ fs \in [Places -> Contents]
  BY BaseIs
<1>1. CASE AbortStart
  BY <1>1, <1>0, Goes, StoppedIs DEF AbortStart, VMExits
<1>2. CASE WriteArtifacts
  BY <1>2, <1>0, Goes DEF WriteArtifacts
<1>3. CASE WaitForDatabase
  BY <1>3, <1>0, Goes DEF WaitForDatabase, Ready, Exists, Seen, Reachable
<1>4. CASE FinalizeMark
  BY <1>4, <1>0, Goes DEF FinalizeMark
<1>5. CASE FinalizeRetire
  BY <1>5, <1>0, Goes DEF FinalizeRetire
<1>6. CASE AfterStart
  BY <1>6, <1>0, Goes DEF AfterStart, VerificationPending
<1>7. CASE VerifyStoredCredential
  BY <1>7, <1>0, Goes DEF VerifyStoredCredential, Ready, Exists, Seen, Reachable, DbPassword
<1>8. CASE MarkPasswordVerified
  BY <1>8, <1>0, Goes DEF MarkPasswordVerified
<1>9. CASE StopUnverified
  BY <1>9, <1>0, StopMoves DEF StopUnverified
<1>10. CASE RemoveBootstrap
  BY <1>10, <1>0, Goes DEF RemoveBootstrap
<1>11. CASE RuntimeStop
  BY <1>11, <1>0, Goes, RemoveCurrentIs, NoBoxIs DEF RuntimeStop, Reachable, Exists, Seen
<1>12. CASE RuntimeStopVM
  BY <1>12, <1>0, Goes, StoppedIs DEF RuntimeStopVM, VMExits
<1>13. CASE UpdateArtifactState
  BY <1>13, <1>0, Goes DEF UpdateArtifactState
<1>14. CASE Result
  BY <1>14, <1>0, ResultIs, Goes, NoCmdIs
<1>15. CASE ProbeAfterFailure
  BY <1>15, <1>0, ProbeIs, NoCmdIs
<1>16. CASE RestoreState
  BY <1>16, <1>0, NoCmdIs DEF RestoreState, End
<1> QED BY <1>1, <1>2, <1>3, <1>4, <1>5, <1>6, <1>7, <1>8, <1>9, <1>10, <1>11, <1>12, <1>13,
           <1>14, <1>15, <1>16 DEF Finish

\* The steps of Destroy keep the version record true of the guest.
LEMMA DestroyVersions ==
    ASSUME ~Downgrades, Base, Base', Guest, Versions, GuestIntact, Destroy
    PROVE  (Versions /\ GuestIntact)'
<1> USE DEF RestOK, Control, Guest, Versions, GuestIntact, At, Trouble, others, files, host,
           secrets, StartSteps, EndSteps, GoneSteps, MacSteps, RunnerSteps, OverlaySteps,
           CopySteps, RecoverSteps, CheckSteps, PrepareSteps, Ops, Places
<1>0. /\ CmdType /\ RestOK /\ StoreOK /\ Control /\ box \in Boxes
      /\ fs \in [Places -> Contents]
  BY BaseIs
<1>1. CASE DestroyContainer
  BY <1>1, <1>0, Goes, RemoveCurrentIs, NoBoxIs DEF DestroyContainer, Reachable, Exists, Seen
<1>2. CASE DestroyStopVM
  BY <1>2, <1>0, Goes, StoppedIs DEF DestroyStopVM, VMExits
<1>3. CASE RemovedAll
  BY <1>3, <1>0, Goes DEF RemovedAll
<1>4. CASE RemoveSecrets
  BY <1>4, <1>0, Goes DEF RemoveSecrets
<1>5. CASE DestroyDone
  BY <1>5, <1>0, NoCmdIs DEF DestroyDone, End, Left
<1>6. ASSUME NEW i \in Left, RemoveItem(i) PROVE (Versions /\ GuestIntact)'
  BY <1>6, <1>0, NoBoxIs DEF RemoveItem, Removable, Left, QuarantinedDataDirs, NoCred, Left
<1> QED BY <1>1, <1>2, <1>3, <1>4, <1>5, <1>6 DEF Destroy

\* The steps of Outside keep the version record true of the guest.
LEMMA OutsideVersions ==
    ASSUME ~Downgrades, Base, Base', Guest, Versions, GuestIntact, Outside
    PROVE  (Versions /\ GuestIntact)'
<1> USE DEF RestOK, Control, Guest, Versions, GuestIntact, At, Trouble, others, files, host,
           secrets, StartSteps, EndSteps, GoneSteps, MacSteps, RunnerSteps, OverlaySteps,
           CopySteps, RecoverSteps, CheckSteps, PrepareSteps, Ops, Places
<1>0. /\ CmdType /\ RestOK /\ StoreOK /\ Control /\ box \in Boxes
      /\ fs \in [Places -> Contents]
  BY BaseIs
<1>1. CASE NanoCreates
  BY <1>1, <1>0 DEF NanoCreates, Serving
<1>2. CASE NanoCreated
  BY <1>2, <1>0 DEF NanoCreated, Serving
<1>3. CASE NanoDies
  BY <1>3, <1>0, StoppedIs DEF NanoDies, Serving
<1>4. CASE UserWrites
  BY <1>4, <1>0 DEF UserWrites, Serving
<1>5. CASE HostStops
  BY <1>5, <1>0, StoppedIs DEF HostStops
<1>6. CASE RunnerChanges
  BY <1>6, <1>0 DEF RunnerChanges
<1>7. CASE Interrupt
  BY <1>7, <1>0, NoCmdIs DEF Interrupt, End, Registered
<1>8. CASE Kill
  BY <1>8, <1>0, NoCmdIs DEF Kill
<1> QED BY <1>1, <1>2, <1>3, <1>4, <1>5, <1>6, <1>7, <1>8 DEF Outside

\* Every step keeps the version record true of the guest.
LEMMA NextVersions ==
    ASSUME ~Downgrades, Base, Base', Guest, Versions, GuestIntact, [Next]_vars
    PROVE  (Versions /\ GuestIntact)'
<1> USE DEF RestOK, Control, Guest, Versions, GuestIntact, At, Trouble, others, files, host,
           secrets, StartSteps, EndSteps, GoneSteps, MacSteps, RunnerSteps, OverlaySteps,
           CopySteps, RecoverSteps, CheckSteps, PrepareSteps, Ops, Places
<1>0. /\ CmdType /\ RestOK /\ StoreOK /\ Control /\ box \in Boxes
      /\ fs \in [Places -> Contents]
  BY BaseIs
<1>1. CASE ClearBootstrap
  BY <1>1, <1>0, Goes
     DEF ClearBootstrap, EnsureStartable, EnsureMachineRunning, RequireDockerEngine
<1>2. CASE StartVM
  BY <1>2, <1>0, StartVMIs
<1>3. CASE CallFails
  BY <1>3, <1>0, FailsIs, NoCmdIs
<1>4. CASE BeginDeploy \/ BeginStart \/ BeginStop \/ BeginDestroy
  <2>1. /\ UNCHANGED <<mac, files, box, vm, guest, runner, recorded, engine, secrets>>
        /\ wrecked => wrecked'
    BY <1>4, BeginsIs
  <2>2. cmd'.pc \in {"idle", "prepare", "rtStop", "dBox"}
    BY <1>4, BeginsIs, NoCmdIs
  <2> QED BY <2>1, <2>2
<1>5. ASSUME NEW choice \in {"auto", "podman", "docker"}, ConfigureEngine(choice)
     PROVE  (Versions /\ GuestIntact)'
  BY <1>5, <1>0 DEF ConfigureEngine, Issue, RecordedEngine
<1>6. CASE UNCHANGED vars
  BY <1>6 DEF vars
<1> HIDE DEF RestOK, Control, Guest, Versions, GuestIntact, At, Trouble, others, files, host,
            secrets, StartSteps, EndSteps, GoneSteps, MacSteps, RunnerSteps, OverlaySteps,
            CopySteps, RecoverSteps, CheckSteps, PrepareSteps, Ops, Places
<1> QED BY <1>1, <1>2, <1>3, <1>4, <1>5, <1>6, PrepareVersions, MigrateVersions,
           InstallVersions, FinishVersions, DestroyVersions, OutsideVersions
        DEF Next, Launcher, Commands

-----------------------------------------------------------------------------
(* The bootstrap file and the report *)

\* The steps of Prepare keep the bootstrap file and what is reported as running.
LEMMA PrepareSecrets ==
    ASSUME Base, Base', Overlay, Bootstrap, Reported, Prepare PROVE (Bootstrap /\ Reported)'
<1> USE DEF Control, Bootstrap, BootSteps, Reported, VerificationPending, At, Trouble, others,
           files, host, secrets, StartSteps, EndSteps, GoneSteps, MacSteps, RunnerSteps,
           OverlaySteps, CopySteps, RecoverSteps, CheckSteps, PrepareSteps, Ops, Places
<1>0. /\ CmdType /\ StoreOK /\ Control /\ box \in Boxes
      /\ fs \in [Places -> Contents]
  BY BaseIs
<1>1. CASE PrepareVM
  BY <1>1, <1>0, Goes DEF PrepareVM, GuestStale
<1>2. CASE StopVMBeforeGuestReplacement
  BY <1>2, <1>0, Goes, StoppedIs DEF StopVMBeforeGuestReplacement, VMExits
<1>3. CASE GuestInit
  BY <1>3, <1>0, Goes DEF GuestInit
<1>4. CASE GuestDone
  BY <1>4, <1>0, Goes DEF GuestDone
<1>5. CASE WriteRunnerVersionMarker
  BY <1>5, <1>0, Goes DEF WriteRunnerVersionMarker
<1>6. CASE PrepareHost
  BY <1>6, <1>0, Goes, NoCmdIs
     DEF PrepareHost, EnsureReady, EnsureStartable, EnsureMachineRunning, RequireDockerEngine
<1>7. CASE RecordContainerEngine
  BY <1>7, <1>0, FirstRecordIs
<1>8. CASE MarkInProgress
  BY <1>8, <1>0, Goes DEF MarkInProgress
<1> QED BY <1>1, <1>2, <1>3, <1>4, <1>5, <1>6, <1>7, <1>8 DEF Prepare

\* The steps of Migrate keep the bootstrap file and what is reported as running.
LEMMA MigrateSecrets ==
    ASSUME Base, Base', Overlay, Bootstrap, Reported, Migrate PROVE (Bootstrap /\ Reported)'
<1> USE DEF Control, Bootstrap, BootSteps, Reported, VerificationPending, At, Trouble, others,
           files, host, secrets, StartSteps, EndSteps, GoneSteps, MacSteps, RunnerSteps,
           OverlaySteps, CopySteps, RecoverSteps, CheckSteps, PrepareSteps, Ops, Places
<1>0. /\ CmdType /\ StoreOK /\ Control /\ box \in Boxes
      /\ fs \in [Places -> Contents]
  BY BaseIs
<1>1. CASE MigrationPrepare
  BY <1>1, <1>0, Goes DEF MigrationPrepare, MarkerMatches, Populated
<1>2. CASE MigrationStopNano
  BY <1>2, <1>0, Goes, RemoveCurrentIs, NoBoxIs
     DEF MigrationStopNano, Reachable, MarkerMatches, Populated, Exists, Seen
<1>3. CASE ResetOrResumeStaging
  BY <1>3, <1>0, Goes DEF ResetOrResumeStaging, MarkerMatches
<1>4. CASE CopySource
  BY <1>4, <1>0, Goes DEF CopySource
<1>5. CASE CopiedSource
  BY <1>5, <1>0, Goes DEF CopiedSource
<1>6. CASE MarkStaging
  BY <1>6, <1>0, Goes DEF MarkStaging
<1>7. CASE Publish
  BY <1>7, <1>0, Goes DEF Publish, Populated
<1>8. CASE PublishRename
  BY <1>8, <1>0, Goes DEF PublishRename, MarkerMatches
<1> QED BY <1>1, <1>2, <1>3, <1>4, <1>5, <1>6, <1>7, <1>8 DEF Migrate

\* The steps of Install keep the bootstrap file and what is reported as running.
LEMMA InstallSecrets ==
    ASSUME Base, Base', Overlay, Bootstrap, Reported, Install PROVE (Bootstrap /\ Reported)'
<1> USE DEF Control, Bootstrap, BootSteps, Reported, VerificationPending, At, Trouble, others,
           files, host, secrets, StartSteps, EndSteps, GoneSteps, MacSteps, RunnerSteps,
           OverlaySteps, CopySteps, RecoverSteps, CheckSteps, PrepareSteps, Ops, Places
<1>0. /\ CmdType /\ StoreOK /\ Control /\ box \in Boxes
      /\ fs \in [Places -> Contents]
  BY BaseIs
<1>1. CASE AdoptLegacyContainerName
  BY <1>1, <1>0, Goes DEF AdoptLegacyContainerName, Reachable, Seen
<1>2. CASE MigrateOverlayDataIfNeeded
  BY <1>2, <1>0, OverlayCheckIs DEF Abort
<1>3. CASE OverlayStop
  BY <1>3, <1>0, Goes, StoppedIs DEF OverlayStop, Reachable
<1>4. CASE OverlayCopy
  BY <1>4, <1>0, Goes DEF OverlayCopy, Reachable, Abort, Fails
<1>5. CASE OverlayCopied
  BY <1>5, <1>0, Goes DEF OverlayCopied
<1>6. CASE InstallOverlayData
  BY <1>6, <1>0, Goes DEF InstallOverlayData, Populated, Abort
<1>7. CASE OverlayRename
  BY <1>7, <1>0, Goes DEF OverlayRename, Abort, Fails
<1>8. CASE OverlayRemove
  BY <1>8, <1>0, Goes, NoBoxIs DEF OverlayRemove, Reachable
<1>9. CASE RecoverIncompleteInitialCreate
  BY <1>9, <1>0, Goes DEF RecoverIncompleteInitialCreate
<1>10. CASE RecoverStop
  BY <1>10, <1>0, Goes, RemoveCurrentIs, NoBoxIs DEF RecoverStop, Reachable, Exists, Seen
<1>11. CASE RecoverRename
  BY <1>11, <1>0, Goes DEF RecoverRename
<1>12. CASE RecoverMkdir
  BY <1>12, <1>0, Goes DEF RecoverMkdir
<1>13. CASE PrepareDataDir
  BY <1>13, <1>0, DataMoves DEF PrepareDataDir
<1>14. CASE LoadImage
  BY <1>14, <1>0, Goes DEF LoadImage, Reachable
<1>15. CASE StorePassword
  BY <1>15, <1>0, Goes DEF StorePassword
<1>16. CASE MarkPasswordGenerated
  BY <1>16, <1>0, Goes, BaseIs DEF MarkPasswordGenerated, Overlay
<1>17. CASE WriteBootstrapPassword
  BY <1>17, <1>0, Goes DEF WriteBootstrapPassword
<1>18. CASE CreateContainer
  BY <1>18, <1>0, CreateIs DEF Abort
<1> QED BY <1>1, <1>2, <1>3, <1>4, <1>5, <1>6, <1>7, <1>8, <1>9, <1>10, <1>11, <1>12, <1>13,
           <1>14, <1>15, <1>16, <1>17, <1>18 DEF Install

\* The steps of Finish keep the bootstrap file and what is reported as running.
LEMMA FinishSecrets ==
    ASSUME Base, Base', Overlay, Bootstrap, Reported, Finish PROVE (Bootstrap /\ Reported)'
<1> USE DEF Control, Bootstrap, BootSteps, Reported, VerificationPending, At, Trouble, others,
           files, host, secrets, StartSteps, EndSteps, GoneSteps, MacSteps, RunnerSteps,
           OverlaySteps, CopySteps, RecoverSteps, CheckSteps, PrepareSteps, Ops, Places
<1>0. /\ CmdType /\ StoreOK /\ Control /\ box \in Boxes
      /\ fs \in [Places -> Contents]
  BY BaseIs
<1>1. CASE AbortStart
  BY <1>1, <1>0, Goes, StoppedIs DEF AbortStart, VMExits
<1>2. CASE WriteArtifacts
  BY <1>2, <1>0, Goes DEF WriteArtifacts
<1>3. CASE WaitForDatabase
  BY <1>3, <1>0, Goes DEF WaitForDatabase, Ready, Exists, Seen, Reachable
<1>4. CASE FinalizeMark
  BY <1>4, <1>0, Goes DEF FinalizeMark
<1>5. CASE FinalizeRetire
  BY <1>5, <1>0, Goes DEF FinalizeRetire
<1>6. CASE AfterStart
  BY <1>6, <1>0, Goes DEF AfterStart, Overlay
<1>7. CASE VerifyStoredCredential
  BY <1>7, <1>0, Goes
     DEF VerifyStoredCredential, Ready, Exists, Seen, Reachable, DbPassword, Overlay
<1>8. CASE MarkPasswordVerified
  BY <1>8, <1>0, Goes, BaseIs DEF MarkPasswordVerified, Overlay
<1>9. CASE StopUnverified
  BY <1>9, <1>0, StopMoves DEF StopUnverified, Overlay
<1>10. CASE RemoveBootstrap
  BY <1>10, <1>0, Goes DEF RemoveBootstrap
<1>11. CASE RuntimeStop
  BY <1>11, <1>0, Goes, RemoveCurrentIs, NoBoxIs
     DEF RuntimeStop, Reachable, Exists, Seen, Overlay
<1>12. CASE RuntimeStopVM
  BY <1>12, <1>0, Goes, StoppedIs DEF RuntimeStopVM, VMExits, Overlay
<1>13. CASE UpdateArtifactState
  BY <1>13, <1>0, Goes DEF UpdateArtifactState
<1>14. CASE Result
  BY <1>14, <1>0, ResultIs, Goes, NoCmdIs
<1>15. CASE ProbeAfterFailure
  BY <1>15, <1>0, ProbeIs, NoCmdIs
<1>16. CASE RestoreState
  BY <1>16, <1>0, NoCmdIs DEF RestoreState, End
<1> QED BY <1>1, <1>2, <1>3, <1>4, <1>5, <1>6, <1>7, <1>8, <1>9, <1>10, <1>11, <1>12, <1>13,
           <1>14, <1>15, <1>16 DEF Finish

\* The steps of Destroy keep the bootstrap file and what is reported as running.
LEMMA DestroySecrets ==
    ASSUME Base, Base', Overlay, Bootstrap, Reported, Destroy PROVE (Bootstrap /\ Reported)'
<1> USE DEF Control, Bootstrap, BootSteps, Reported, VerificationPending, At, Trouble, others,
           files, host, secrets, StartSteps, EndSteps, GoneSteps, MacSteps, RunnerSteps,
           OverlaySteps, CopySteps, RecoverSteps, CheckSteps, PrepareSteps, Ops, Places
<1>0. /\ CmdType /\ StoreOK /\ Control /\ box \in Boxes
      /\ fs \in [Places -> Contents]
  BY BaseIs
<1>1. CASE DestroyContainer
  BY <1>1, <1>0, Goes, RemoveCurrentIs, NoBoxIs DEF DestroyContainer, Reachable, Exists, Seen
<1>2. CASE DestroyStopVM
  BY <1>2, <1>0, Goes, StoppedIs DEF DestroyStopVM, VMExits
<1>3. CASE RemovedAll
  BY <1>3, <1>0, Goes DEF RemovedAll
<1>4. CASE RemoveSecrets
  BY <1>4, <1>0, Goes DEF RemoveSecrets
<1>5. CASE DestroyDone
  BY <1>5, <1>0, NoCmdIs DEF DestroyDone, End
<1>6. ASSUME NEW i \in Left, RemoveItem(i) PROVE (Bootstrap /\ Reported)'
  BY <1>6, <1>0, NoBoxIs DEF RemoveItem, Removable, Left, QuarantinedDataDirs, NoCred, Left
<1> QED BY <1>1, <1>2, <1>3, <1>4, <1>5, <1>6 DEF Destroy

\* The steps of Outside keep the bootstrap file and what is reported as running.
LEMMA OutsideSecrets ==
    ASSUME Base, Base', Overlay, Bootstrap, Reported, Outside PROVE (Bootstrap /\ Reported)'
<1> USE DEF Control, Bootstrap, BootSteps, Reported, VerificationPending, At, Trouble, others,
           files, host, secrets, StartSteps, EndSteps, GoneSteps, MacSteps, RunnerSteps,
           OverlaySteps, CopySteps, RecoverSteps, CheckSteps, PrepareSteps, Ops, Places
<1>0. /\ CmdType /\ StoreOK /\ Control /\ box \in Boxes
      /\ fs \in [Places -> Contents]
  BY BaseIs
<1>1. CASE NanoCreates
  BY <1>1, <1>0 DEF NanoCreates, Serving
<1>2. CASE NanoCreated
  BY <1>2, <1>0 DEF NanoCreated, Serving
<1>3. CASE NanoDies
  BY <1>3, <1>0, StoppedIs DEF NanoDies, Serving
<1>4. CASE UserWrites
  BY <1>4, <1>0 DEF UserWrites, Serving
<1>5. CASE HostStops
  BY <1>5, <1>0, StoppedIs DEF HostStops
<1>6. CASE RunnerChanges
  BY <1>6, <1>0 DEF RunnerChanges
<1>7. CASE Interrupt
  BY <1>7, <1>0, NoCmdIs DEF Interrupt, End, Registered
<1>8. CASE Kill
  BY <1>8, <1>0, NoCmdIs DEF Kill
<1> QED BY <1>1, <1>2, <1>3, <1>4, <1>5, <1>6, <1>7, <1>8 DEF Outside

\* Every step keeps the bootstrap file and what is reported as running.
LEMMA NextSecrets ==
    ASSUME Base, Base', Overlay, Bootstrap, Reported, [Next]_vars PROVE (Bootstrap /\ Reported)'
<1> USE DEF Control, Bootstrap, BootSteps, Reported, VerificationPending, At, Trouble, others,
           files, host, secrets, StartSteps, EndSteps, GoneSteps, MacSteps, RunnerSteps,
           OverlaySteps, CopySteps, RecoverSteps, CheckSteps, PrepareSteps, Ops, Places
<1>0. /\ CmdType /\ StoreOK /\ Control /\ box \in Boxes
      /\ fs \in [Places -> Contents]
  BY BaseIs
<1>1. CASE ClearBootstrap
  BY <1>1, <1>0, Goes
     DEF ClearBootstrap, EnsureStartable, EnsureMachineRunning, RequireDockerEngine
<1>2. CASE StartVM
  BY <1>2, <1>0, StartVMIs
<1>3. CASE CallFails
  <2>1. UNCHANGED others
    BY <1>3, FailsIs
  <2>2. cmd.pc \in BootSteps => cmd'.pc \in BootSteps
    BY <1>3, FailsIs, NoCmdIs DEF Abort, DestroySteps
  <2>3. cmd.pc \in {"rtStop", "rtVM"} /\ cmd.ret = "unboot" => cmd'.pc = "unboot"
    BY <1>3, FailsIs DEF DestroySteps, RunSteps
  <2>4. Bootstrap'
    BY <2>1, <2>2, <2>3
  <2>5. Reported'
    BY <1>3, FailsIs, NoCmdIs
  <2> QED BY <2>4, <2>5
<1>4. CASE BeginDeploy \/ BeginStart \/ BeginStop \/ BeginDestroy
  <2>1. UNCHANGED secrets /\ cmd.pc = "idle"
    BY <1>4, BeginsIs
  <2>2. wf' \in {wf, <<"stopped", "none">>, <<"inProgress", "stop">>, <<"inProgress", "destroy">>}
    BY <1>4, BeginsIs DEF Reconciled
  <2>3. wf'[1] = "running" => wf[1] = "running"
    BY <2>2
  <2>4. /\ cmd'.pc \in {"idle", "prepare", "rtStop", "dBox"}
        /\ cmd'.pc = "rtStop" => cmd'.ret = "artifactState"
    BY <1>4, BeginsIs, NoCmdIs
  <2> QED BY <2>1, <2>3, <2>4
<1>5. ASSUME NEW choice \in {"auto", "podman", "docker"}, ConfigureEngine(choice)
     PROVE  (Bootstrap /\ Reported)'
  BY <1>5, <1>0 DEF ConfigureEngine, Issue, RecordedEngine
<1>6. CASE UNCHANGED vars
  BY <1>6 DEF vars
<1> HIDE DEF Control, Bootstrap, BootSteps, Reported, VerificationPending, At, Trouble, others,
            files, host, secrets, StartSteps, EndSteps, GoneSteps, MacSteps, RunnerSteps,
            OverlaySteps, CopySteps, RecoverSteps, CheckSteps, PrepareSteps, Ops, Places
<1> QED BY <1>1, <1>2, <1>3, <1>4, <1>5, <1>6, PrepareSecrets, MigrateSecrets, InstallSecrets,
           FinishSecrets, DestroySecrets, OutsideSecrets
        DEF Next, Launcher, Commands

-----------------------------------------------------------------------------
(* The stored password *)

\* The steps of Prepare keep the stored password that of the database.
LEMMA PreparePassword ==
    ASSUME Base, Base', DInv, Reported, Password, Prepare PROVE Password'
<1> USE DEF DInv, Control, Copies, Kept, Password, FirstPassword, At, Trouble, others, files,
           host, secrets, StartSteps, EndSteps, GoneSteps, MacSteps, RunnerSteps, OverlaySteps,
           CopySteps, RecoverSteps, CheckSteps, PrepareSteps, Ops, Places, Complete, Legacy,
           Fresh
<1>0. /\ CmdType /\ StoreOK /\ Control /\ box \in Boxes
      /\ fs \in [Places -> Contents]
  BY BaseIs
<1>1. CASE PrepareVM
  BY <1>1, <1>0, Goes DEF PrepareVM, GuestStale
<1>2. CASE StopVMBeforeGuestReplacement
  BY <1>2, <1>0, Goes, StoppedIs DEF StopVMBeforeGuestReplacement, VMExits
<1>3. CASE GuestInit
  BY <1>3, <1>0, Goes DEF GuestInit
<1>4. CASE GuestDone
  BY <1>4, <1>0, Goes DEF GuestDone
<1>5. CASE WriteRunnerVersionMarker
  BY <1>5, <1>0, Goes DEF WriteRunnerVersionMarker
<1>6. CASE PrepareHost
  BY <1>6, <1>0, Goes, NoCmdIs
     DEF PrepareHost, EnsureReady, EnsureStartable, EnsureMachineRunning, RequireDockerEngine
<1>7. CASE RecordContainerEngine
  BY <1>7, <1>0, FirstRecordIs
<1>8. CASE MarkInProgress
  BY <1>8, <1>0, Goes DEF MarkInProgress
<1> QED BY <1>1, <1>2, <1>3, <1>4, <1>5, <1>6, <1>7, <1>8 DEF Prepare

\* The steps of Migrate keep the stored password that of the database.
LEMMA MigratePassword ==
    ASSUME Base, Base', DInv, Reported, Password, Migrate PROVE Password'
<1> USE DEF DInv, Control, Copies, Kept, Password, FirstPassword, At, Trouble, others, files,
           host, secrets, StartSteps, EndSteps, GoneSteps, MacSteps, RunnerSteps, OverlaySteps,
           CopySteps, RecoverSteps, CheckSteps, PrepareSteps, Ops, Places, Complete, Legacy,
           Fresh
<1>0. /\ CmdType /\ StoreOK /\ Control /\ box \in Boxes
      /\ fs \in [Places -> Contents]
  BY BaseIs
<1>1. CASE MigrationPrepare
  BY <1>1, <1>0, Goes DEF MigrationPrepare, MarkerMatches, Populated
<1>2. CASE MigrationStopNano
  BY <1>2, <1>0, Goes, RemoveCurrentIs, NoBoxIs
     DEF MigrationStopNano, Reachable, MarkerMatches, Populated, Exists, Seen
<1>3. CASE ResetOrResumeStaging
  BY <1>3, <1>0, Goes DEF ResetOrResumeStaging, MarkerMatches
<1>4. CASE CopySource
  BY <1>4, <1>0, Goes DEF CopySource
<1>5. CASE CopiedSource
  BY <1>5, <1>0, Goes DEF CopiedSource
<1>6. CASE MarkStaging
  BY <1>6, <1>0, Goes DEF MarkStaging
<1>7. CASE Publish
  BY <1>7, <1>0, Goes DEF Publish, Populated
<1>8. CASE PublishRename
  BY <1>8, <1>0, Goes DEF PublishRename, MarkerMatches
<1> QED BY <1>1, <1>2, <1>3, <1>4, <1>5, <1>6, <1>7, <1>8 DEF Migrate

\* The steps of Install keep the stored password that of the database.
LEMMA InstallPassword ==
    ASSUME Base, Base', DInv, Reported, Password, Install PROVE Password'
<1> USE DEF DInv, Control, Copies, Kept, Password, FirstPassword, At, Trouble, others, files,
           host, secrets, StartSteps, EndSteps, GoneSteps, MacSteps, RunnerSteps, OverlaySteps,
           CopySteps, RecoverSteps, CheckSteps, PrepareSteps, Ops, Places, Complete, Legacy,
           Fresh
<1>0. /\ CmdType /\ StoreOK /\ Control /\ box \in Boxes
      /\ fs \in [Places -> Contents]
  BY BaseIs
<1>1. CASE AdoptLegacyContainerName
  BY <1>1, <1>0, Goes DEF AdoptLegacyContainerName, Reachable, Seen
<1>2. CASE MigrateOverlayDataIfNeeded
  BY <1>2, <1>0, OverlayCheckIs DEF Abort
<1>3. CASE OverlayStop
  BY <1>3, <1>0, Goes, StoppedIs DEF OverlayStop, Reachable
<1>4. CASE OverlayCopy
  BY <1>4, <1>0, Goes DEF OverlayCopy, Reachable, Abort, Fails
<1>5. CASE OverlayCopied
  BY <1>5, <1>0, Goes DEF OverlayCopied
<1>6. CASE InstallOverlayData
  BY <1>6, <1>0, Goes DEF InstallOverlayData, Populated, Abort
<1>7. CASE OverlayRename
  BY <1>7, <1>0, Goes DEF OverlayRename, Abort, Fails
<1>8. CASE OverlayRemove
  BY <1>8, <1>0, Goes, NoBoxIs DEF OverlayRemove, Reachable, Removed
<1>9. CASE RecoverIncompleteInitialCreate
  BY <1>9, <1>0, Goes DEF RecoverIncompleteInitialCreate
<1>10. CASE RecoverStop
  BY <1>10, <1>0, Goes, RemoveCurrentIs, NoBoxIs
     DEF RecoverStop, Reachable, Exists, Seen, Overlay
<1>11. CASE RecoverRename
  BY <1>11, <1>0, Goes DEF RecoverRename
<1>12. CASE RecoverMkdir
  BY <1>12, <1>0, Goes DEF RecoverMkdir
<1>13. CASE PrepareDataDir
  BY <1>13, <1>0, DataMoves DEF PrepareDataDir, Served, Untouched
<1>14. CASE LoadImage
  BY <1>14, <1>0, Goes DEF LoadImage, Reachable, Served, Untouched
<1>15. CASE StorePassword
  BY <1>15, <1>0, Goes DEF StorePassword
<1>16. CASE MarkPasswordGenerated
  BY <1>16, <1>0, Goes, BaseIs DEF MarkPasswordGenerated
<1>17. CASE WriteBootstrapPassword
  BY <1>17, <1>0, Goes DEF WriteBootstrapPassword
<1>18. CASE CreateContainer
  BY <1>18, <1>0, CreateIs DEF Abort, NanoRunSpec
<1> QED BY <1>1, <1>2, <1>3, <1>4, <1>5, <1>6, <1>7, <1>8, <1>9, <1>10, <1>11, <1>12, <1>13,
           <1>14, <1>15, <1>16, <1>17, <1>18 DEF Install

\* The steps of Finish keep the stored password that of the database.
LEMMA FinishPassword ==
    ASSUME Base, Base', DInv, Reported, Password, Finish PROVE Password'
<1> USE DEF DInv, Control, Copies, Kept, Password, FirstPassword, At, Trouble, others, files,
           host, secrets, StartSteps, EndSteps, GoneSteps, MacSteps, RunnerSteps, OverlaySteps,
           CopySteps, RecoverSteps, CheckSteps, PrepareSteps, Ops, Places, Complete, Legacy,
           Fresh
<1>0. /\ CmdType /\ StoreOK /\ Control /\ box \in Boxes
      /\ fs \in [Places -> Contents]
  BY BaseIs
<1>1. CASE AbortStart
  BY <1>1, <1>0, Goes, StoppedIs DEF AbortStart, VMExits
<1>2. CASE WriteArtifacts
  BY <1>2, <1>0, Goes DEF WriteArtifacts, DefaultPw, Reported
<1>3. CASE WaitForDatabase
  BY <1>3, <1>0, Goes DEF WaitForDatabase, Ready, Exists, Seen, Reachable
<1>4. CASE FinalizeMark
  BY <1>4, <1>0, Goes DEF FinalizeMark
<1>5. CASE FinalizeRetire
  BY <1>5, <1>0, Goes DEF FinalizeRetire
<1>6. CASE AfterStart
  BY <1>6, <1>0, Goes DEF AfterStart, VerificationPending
<1>7. CASE VerifyStoredCredential
  <2>1. cmd.pc = "verify" /\ UNCHANGED others
    BY <1>7 DEF VerifyStoredCredential
  <2>2. CASE Ready /\ sec = DbPassword /\ Goto("verified")
    <3>1. cmd'.pc = "verified" /\ cmd'.fresh = cmd.fresh
      BY <1>0, <2>2, Goes
    <3>2. ~wrecked => newest \notin Legacy /\ \A p \in Places : fs[p] \notin Legacy
      BY <2>1 DEF Overlay
    <3>3. fs[box.data] \in Complete /\ box.data \in {"overlay", "source", "target"}
      BY <1>0, <2>2 DEF Ready, Boxes
    <3>4. fs["overlay"] \in {"absent", "legacy"} /\ fs["source"] \in {"absent", "legacy"}
      BY DEF Overlay
    <3>5. ~wrecked => box.data = "target" /\ fs["target"] \in Fresh /\ sec = dbPw
      BY <2>2, <3>2, <3>3, <3>4 DEF DbPassword
    <3> QED BY <2>1, <3>1, <3>5
  <2>3. CASE Err("unverified")
    BY <1>0, <2>1, <2>3, Goes
  <2> QED BY <1>7, <2>2, <2>3 DEF VerifyStoredCredential
<1>8. CASE MarkPasswordVerified
  BY <1>8, <1>0, Goes, BaseIs DEF MarkPasswordVerified
<1>9. CASE StopUnverified
  BY <1>9, <1>0, StopMoves DEF StopUnverified
<1>10. CASE RemoveBootstrap
  BY <1>10, <1>0, Goes DEF RemoveBootstrap
<1>11. CASE RuntimeStop
  BY <1>11, <1>0, Goes, RemoveCurrentIs, NoBoxIs
     DEF RuntimeStop, Reachable, Exists, Seen, Overlay
<1>12. CASE RuntimeStopVM
  BY <1>12, <1>0, Goes, StoppedIs DEF RuntimeStopVM, VMExits
<1>13. CASE UpdateArtifactState
  BY <1>13, <1>0, Goes DEF UpdateArtifactState
<1>14. CASE Result
  BY <1>14, <1>0, ResultIs, Goes, NoCmdIs
<1>15. CASE ProbeAfterFailure
  BY <1>15, <1>0, ProbeIs, NoCmdIs
<1>16. CASE RestoreState
  BY <1>16, <1>0, NoCmdIs DEF RestoreState, End
<1> QED BY <1>1, <1>2, <1>3, <1>4, <1>5, <1>6, <1>7, <1>8, <1>9, <1>10, <1>11, <1>12, <1>13,
           <1>14, <1>15, <1>16 DEF Finish

\* The steps of Destroy keep the stored password that of the database.
LEMMA DestroyPassword ==
    ASSUME Base, Base', DInv, Reported, Password, Destroy PROVE Password'
<1> USE DEF DInv, Control, Copies, Kept, Password, FirstPassword, At, Trouble, others, files,
           host, secrets, StartSteps, EndSteps, GoneSteps, MacSteps, RunnerSteps, OverlaySteps,
           CopySteps, RecoverSteps, CheckSteps, PrepareSteps, Ops, Places, Complete, Legacy,
           Fresh
<1>0. /\ CmdType /\ StoreOK /\ Control /\ box \in Boxes
      /\ fs \in [Places -> Contents]
  BY BaseIs
<1>1. CASE DestroyContainer
  BY <1>1, <1>0, Goes, RemoveCurrentIs, NoBoxIs DEF DestroyContainer, Reachable, Exists, Seen
<1>2. CASE DestroyStopVM
  BY <1>2, <1>0, Goes, StoppedIs DEF DestroyStopVM, VMExits
<1>3. CASE RemovedAll
  BY <1>3, <1>0, Goes DEF RemovedAll
<1>4. CASE RemoveSecrets
  BY <1>4, <1>0, Goes DEF RemoveSecrets
<1>5. CASE DestroyDone
  BY <1>5, <1>0, NoCmdIs
     DEF DestroyDone, End, Left, Guest, Engine, Overlay, QuarantinedDataDirs, NoCred
<1>6. ASSUME NEW i \in Left, RemoveItem(i) PROVE Password'
  BY <1>6, <1>0, NoBoxIs DEF RemoveItem, Removable, Left, QuarantinedDataDirs, NoCred, Left
<1> QED BY <1>1, <1>2, <1>3, <1>4, <1>5, <1>6 DEF Destroy

\* The steps of Outside keep the stored password that of the database.
LEMMA OutsidePassword ==
    ASSUME Base, Base', DInv, Reported, Password, Outside PROVE Password'
<1> USE DEF DInv, Control, Copies, Kept, Password, FirstPassword, At, Trouble, others, files,
           host, secrets, StartSteps, EndSteps, GoneSteps, MacSteps, RunnerSteps, OverlaySteps,
           CopySteps, RecoverSteps, CheckSteps, PrepareSteps, Ops, Places, Complete, Legacy,
           Fresh
<1>0. /\ CmdType /\ StoreOK /\ Control /\ box \in Boxes
      /\ fs \in [Places -> Contents]
  BY BaseIs
<1>1. CASE NanoCreates
  BY <1>1, <1>0 DEF NanoCreates, Serving
<1>2. CASE NanoCreated
  BY <1>2, <1>0 DEF NanoCreated, Serving
<1>3. CASE NanoDies
  BY <1>3, <1>0, StoppedIs DEF NanoDies, Serving
<1>4. CASE UserWrites
  BY <1>4, <1>0 DEF UserWrites, Serving, Served, Untouched
<1>5. CASE HostStops
  BY <1>5, <1>0, StoppedIs DEF HostStops
<1>6. CASE RunnerChanges
  BY <1>6, <1>0 DEF RunnerChanges
<1>7. CASE Interrupt
  BY <1>7, <1>0, NoCmdIs DEF Interrupt, End, Registered
<1>8. CASE Kill
  BY <1>8, <1>0, NoCmdIs DEF Kill
<1> QED BY <1>1, <1>2, <1>3, <1>4, <1>5, <1>6, <1>7, <1>8 DEF Outside

\* Every step keeps the stored password that of the database.
LEMMA NextPassword ==
    ASSUME Base, Base', DInv, Reported, Password, [Next]_vars PROVE Password'
<1> USE DEF DInv, Control, Copies, Kept, Password, FirstPassword, At, Trouble, others, files,
           host, secrets, StartSteps, EndSteps, GoneSteps, MacSteps, RunnerSteps, OverlaySteps,
           CopySteps, RecoverSteps, CheckSteps, PrepareSteps, Ops, Places, Complete, Legacy,
           Fresh
<1>0. /\ CmdType /\ StoreOK /\ Control /\ box \in Boxes
      /\ fs \in [Places -> Contents]
  BY BaseIs
<1>1. CASE ClearBootstrap
  BY <1>1, <1>0, Goes
     DEF ClearBootstrap, EnsureStartable, EnsureMachineRunning, RequireDockerEngine
<1>2. CASE StartVM
  BY <1>2, <1>0, StartVMIs
<1>3. CASE CallFails
  BY <1>3, <1>0, FailsIs, NoCmdIs
<1>4. CASE BeginDeploy \/ BeginStart \/ BeginStop \/ BeginDestroy
  <2>1. /\ UNCHANGED <<mac, files, box, vm, guest, runner, recorded, engine, secrets>>
        /\ wrecked => wrecked'
    BY <1>4, BeginsIs
  <2>2. cmd'.pc \in {"idle", "prepare", "rtStop", "dBox"}
    BY <1>4, BeginsIs, NoCmdIs
  <2> QED BY <2>1, <2>2
<1>5. ASSUME NEW choice \in {"auto", "podman", "docker"}, ConfigureEngine(choice)
     PROVE  Password'
  BY <1>5, <1>0 DEF ConfigureEngine, Issue, RecordedEngine
<1>6. CASE UNCHANGED vars
  BY <1>6 DEF vars
<1> HIDE DEF DInv, Control, Copies, Kept, Password, FirstPassword, At, Trouble, others, files,
            host, secrets, StartSteps, EndSteps, GoneSteps, MacSteps, RunnerSteps, OverlaySteps,
            CopySteps, RecoverSteps, CheckSteps, PrepareSteps, Ops, Places, Complete, Legacy,
            Fresh
<1> QED BY <1>1, <1>2, <1>3, <1>4, <1>5, <1>6, PreparePassword, MigratePassword,
           InstallPassword, FinishPassword, DestroyPassword, OutsidePassword
        DEF Next, Launcher, Commands

-----------------------------------------------------------------------------
(* The theorems *)

\* All of it holds at first.
LEMMA InitAll == ASSUME Init PROVE DInv /\ Versions /\ GuestIntact /\ PInv
<1>1. /\ cmd.pc = "idle" /\ cmd.engine = "podman" /\ cmd = NoCmd /\ vm = FALSE /\ layout = {}
      /\ engine.rec = "none" /\ engine.cfg = "auto" /\ ~cred.gen /\ ~cred.ver
      /\ ~wrecked /\ boot = NoPw
  BY DEF Init, NoCmd, NoCred
<1>2. Guest
  BY <1>1, InitIs
     DEF Guest, StartSteps, GoneSteps, RunnerSteps, OverlaySteps, CopySteps, RecoverSteps,
         CheckSteps
<1>3. Engine
  BY <1>1, InitIs
     DEF Engine, At, StartSteps, GoneSteps, RunnerSteps, OverlaySteps, CopySteps, RecoverSteps,
         CheckSteps
<1>4. Overlay
  <2>1. cmd.op = "none" /\ cmd.ret = "idle"
    BY <1>1 DEF NoCmd
  <2>2. box.st = "running" => ~PermitsStart(wf)
    BY InitIs DEF PermitsStart
  <2> QED BY <1>1, <2>1, <2>2, InitIs
         DEF Overlay, OverlaySteps, RecoverSteps, CheckSteps
<1>5. Copies /\ Kept /\ Served
  BY <1>1, InitIs DEF Copies, Kept, Served, Untouched, CopySteps, RecoverSteps, At
<1>6. Versions /\ GuestIntact
  BY LocalRuntimeAssumption DEF Init, NoCmd, At, Versions, GuestIntact
<1>7. Bootstrap /\ Reported
  <2>1. wf[1] # "running" \/ ~cred.gen
    BY <1>1
  <2>2. cmd.op = "none" /\ cmd.ret = "idle"
    BY <1>1 DEF NoCmd
  <2> QED BY <1>1, <2>1, <2>2
         DEF Bootstrap, Reported, VerificationPending, At, BootSteps, CheckSteps
<1>8. Password
  <2>1. \A p \in Places : fs[p] \in {"absent", "legacy"}
    BY InitIs DEF Places
  <2>2. (\E p \in Places : fs[p] = "legacy") => newest = "legacy"
    BY InitIs DEF Places
  <2>3. newest = "legacy" => sec = DefaultPw
    BY InitIs
  <2>4. newest \in {"none", "legacy"} /\ fs["target"] = "absent"
    BY InitIs
  <2>5. box.st # "none" => box.data # "target"
    BY InitIs
  <2> QED BY <1>1, <2>1, <2>2, <2>3, <2>4, <2>5
         DEF Password, FirstPassword, Legacy, Fresh, At, Places
<1> QED BY <1>2, <1>3, <1>4, <1>5, <1>6, <1>7, <1>8 DEF DInv, PInv

\* The types and the control facts hold throughout.
LEMMA BaseHolds == Spec => []Base
<1>1. Init => Base
  BY InitBase
<1>2. Base /\ [Next]_vars => Base'
  BY NextBase
<1> QED BY <1>1, <1>2, PTL DEF Spec

\* So do the facts about the VM, the engine and the data.
LEMMA DataHold == ASSUME Careful PROVE Spec => []DInv
<1>1. Init => DInv
  BY InitAll
<1>2. Base /\ Base' /\ DInv /\ [Next]_vars => DInv'
  BY NextGuest, NextEngine, NextOverlay, NextData DEF DInv
<1> QED BY <1>1, <1>2, BaseHolds, PTL DEF Spec

\* And those about the passwords.
LEMMA PasswordsHold == ASSUME Careful PROVE Spec => []PInv
<1>1. Init => PInv
  BY InitAll
<1>2. Base /\ Base' /\ DInv /\ PInv /\ [Next]_vars => PInv'
  BY NextSecrets, NextPassword DEF PInv, DInv
<1> QED BY <1>1, <1>2, BaseHolds, DataHold, PTL DEF Spec

\* The state stays well-typed, whatever is interrupted, killed or fails.
THEOREM RuntimeTypeCorrect == Spec => []TypeOK
<1>1. Base => TypeOK
  BY DEF Base, CmdOK, StoreOK, RestOK, Boxes, TypeOK
<1> QED BY <1>1, BaseHolds, PTL

\* Until a destroy is asked for, the user's newest data are complete in some place, through
\* every migration, recovery and replacement of the container, also when each of them is
\* interrupted, killed or fails at any step, any number of times.
THEOREM DataAreKept == ASSUME Careful PROVE Spec => []DataKept
<1>1. Base /\ DInv => DataKept
  <2> SUFFICES ASSUME Base, DInv, newest # "none", ~wrecked PROVE \E p \in Places : fs[p] = newest
    BY DEF DataKept
  <2>1. newest \in {"legacy", "legacyNew", "freshNew"}
    BY DEF Base, StoreOK, DInv, Kept, Complete, Legacy
  <2>2. CASE newest = "legacy"
    BY <2>2 DEF DInv, Kept, Places
  <2>3. CASE newest \in {"legacyNew", "freshNew"}
    BY <2>3 DEF DInv, Kept, Places
  <2> QED BY <2>1, <2>2, <2>3
<1> QED BY <1>1, BaseHolds, DataHold, PTL

\* A container that serves the data directory serves the user's newest data: no fresh
\* database is created beside data of an earlier layout, no old copy is put over newer data,
\* and no part of a copy is served.
THEOREM NewestIsServed == ASSUME Careful PROVE Spec => []ServedIsNewest
<1>1. Base /\ DInv => ServedIsNewest
  <2> SUFFICES ASSUME Base, DInv, ~wrecked
               PROVE  /\ fs["target"] # "partial"
                      /\ fs["target"] \in Complete => newest \in {"none", fs["target"]}
    BY DEF ServedIsNewest
  <2>1. newest \in {"none", "legacy", "legacyNew", "freshNew"}
    BY DEF Base, StoreOK, DInv, Kept, Complete, Legacy
  <2>2. CASE newest = "legacy"
    BY <2>2 DEF DInv, Copies, Served, Untouched, Complete, Legacy
  <2>3. CASE newest \in {"none", "legacyNew", "freshNew"}
    BY <2>3 DEF DInv, Copies, Kept
  <2> QED BY <2>1, <2>2, <2>3
<1> QED BY <1>1, BaseHolds, DataHold, PTL

\* A deploy or start that reports success leaves a database that the stored password opens,
\* and no command but a killed one leaves the file with the first password behind.
THEOREM PasswordsAreKept == ASSUME Careful PROVE Spec => []PasswordsKept
<1>1. Base /\ DInv /\ PInv => CredentialMatches
  <2> SUFFICES ASSUME Base, DInv, PInv, At("idle"), wf[1] = "running", Serving,
                      fs["target"] \in Complete, ~wrecked
               PROVE  sec = DbPassword
    BY DEF CredentialMatches
  <2>1. box.data = "target" /\ "target" \in Places
    BY DEF Serving, Places
  <2>2. CASE fs["target"] \in Legacy
    BY <2>1, <2>2 DEF DbPassword, PInv, Password
  <2>3. CASE fs["target"] \notin Legacy
    <3>1. fs["target"] \in Fresh
      BY <2>3 DEF Complete, Fresh
    <3>2. cred.gen
      BY <3>1 DEF PInv, Password
    <3>3. cred.ver
      BY <3>2 DEF PInv, Reported, VerificationPending
    <3> QED BY <2>1, <2>3, <3>3 DEF DbPassword, PInv, Password
  <2> QED BY <2>2, <2>3
<1>2. Base /\ PInv => BootstrapGone
  BY DEF PInv, Bootstrap, BootstrapGone, At, BootSteps, CheckSteps
<1> QED BY <1>1, <1>2, BaseHolds, DataHold, PasswordsHold, PTL DEF PasswordsKept

\* The VM runs the guest that the recorded runner completed, and the container is with the
\* engine that later commands ask.
THEOREM RecordsAreTrue == ASSUME Careful, ~Downgrades PROVE Spec => []RecordsTrue
<1>1. Init => Versions /\ GuestIntact
  BY InitAll
<1>2. Base /\ Base' /\ DInv /\ Versions /\ GuestIntact /\ [Next]_vars
      => (Versions /\ GuestIntact)'
  BY NextVersions DEF DInv
<1>3. DInv => EngineKept
  BY DEF DInv, Engine, Overlay, EngineKept, ContainerEngine, RecordedEngine
<1> QED BY <1>1, <1>2, <1>3, BaseHolds, DataHold, PTL DEF Spec, RecordsTrue

=============================================================================
