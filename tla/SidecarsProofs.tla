--------------------------- MODULE SidecarsProofs ---------------------------
(***************************************************************************)
(* Theorems about Sidecars, for any names, catalog, runtimes and bounds:   *)
(* its type invariant, that a reconciliation without a failure has         *)
(* converged, that an initialized deployment has nothing of a sidecar      *)
(* left, and that a disable that reports no failure has removed the        *)
(* container.                                                              *)
(***************************************************************************)
EXTENDS Sidecars, WellFoundedInduction, TLAPS

\* The first of a set of names is one of them.
LEMMA MinIsMember ==
    ASSUME NEW S \in SUBSET Nat, S # {} PROVE Min(S) \in S
<1>1. PICK x \in S : \A y \in S : <<y, x>> \notin OpToRel(<, Nat)
  BY NatLessThanWellFounded, WFMin
<1>2. \A y \in S : ~(y < x)
  BY <1>1 DEF OpToRel
<1>3. \A y \in S : x <= y
  BY <1>2
<1> QED BY <1>3 DEF Min

-----------------------------------------------------------------------------
(* The inductive invariant *)

\* The record of the command, which TypeOK leaves open.
CmdType ==
    [pc : {"idle", "apply", "ensure", "prune", "publish", "record", "finish", "status",
           "verify", "await"},
     op : Mutations \cup Reconciles \cup {"none", "status"},
     name : Names \cup {0}, desired : SUBSET Names, todo : SUBSET Names, fails : SUBSET Names,
     applied : BOOLEAN, err : {"none", "failed", "restart"}, rec : Outcomes,
     waited : 0..Window, age : 0..Window]

\* Which commands reach which step, and what a command carries there.
CommandShape ==
    /\ cmd.pc = "idle" => cmd = NoCmd
    /\ cmd.pc \in {"apply", "ensure", "prune", "publish", "record"} =>
          cmd.op \in Mutations \cup Reconciles
    /\ cmd.pc = "finish" => cmd.op \in Reconciles
    /\ cmd.pc \in {"status", "verify", "await"} => cmd.op \notin Reconciles /\ cmd.name \in Names
    /\ cmd.pc = "verify" => cmd.op \in {"disable", "remove"}
    /\ cmd.op \in Mutations => cmd.name \in Names
    /\ cmd.op = "status" => ~cmd.applied /\ cmd.pc = "status"
    /\ cmd.pc = "apply" => /\ ~cmd.applied /\ cmd.err = "none"
                           /\ cmd.desired = {} /\ cmd.todo = {} /\ cmd.fails = {}
    /\ cmd.pc \in {"ensure", "prune", "publish"} => cmd.applied
    /\ cmd.applied => cmd.err # "restart"
    /\ cmd.op \in Cleanups => cmd.desired = {}
    /\ cmd.op # "status" => cmd.todo \subseteq cmd.desired
    /\ cmd.pc # "ensure" /\ cmd.op # "status" => cmd.todo = {}

TInv == TypeOK /\ cmd \in CmdType /\ CommandShape

\* What applySidecars has achieved so far: the wanted containers it is through with,
\* then the ones that are not wanted, then the forwards.  Only what it holds in fails
\* is excepted, and the end of the record step turns that into an error.
Progress ==
    /\ cmd.applied => \A n \in cmd.desired \ (cmd.todo \cup cmd.fails) :
                         ctr[n].is # "none" /\ ctr[n].version = version[n]
    /\ cmd.applied /\ cmd.err = "none" =>
          /\ cmd.pc \notin {"ensure", "prune"} =>
                \A n \in Names \ (cmd.desired \cup cmd.fails) : ctr[n].is = "none"
          /\ cmd.pc \notin {"ensure", "prune", "publish"} =>
                \A n \in Names : fwd[n] \in {0, ctr[n].port}
          /\ cmd.pc \notin {"ensure", "prune", "publish", "record"} => cmd.fails = {}

\* What holds between the commands: only a VM has forwards, a deployment whose document
\* was never written has no container, and neither has one that is initialized.
Standing ==
    /\ runtime = "host" => \A n \in Names : fwd[n] = 0
    /\ docFile = "missing" => \A n \in Names : saved[n] = "none" /\ ctr[n].is = "none"
    /\ workflow = "initialized" => \A n \in Names : ctr[n].is = "none" /\ fwd[n] = 0

\* What holds inside one: nothing is wanted of a document that was never written,
\* nothing is reconciled in an initialized deployment, and a cleanup that was skipped
\* without an error has a host that is down or nothing to clean up.
Within ==
    /\ docFile = "missing" => cmd.desired = {} /\ cmd.todo = {}
    /\ workflow = "initialized" => cmd.pc \in {"idle", "status", "verify", "await"}
    /\ cmd.pc \in {"record", "finish"} /\ cmd.op \in Cleanups
          /\ ~cmd.applied /\ cmd.err = "none" /\ host
       => \A n \in Names : ctr[n].is = "none"

\* A disable has withdrawn its wish, and what it has seen gone stays gone.
Disabling ==
    /\ cmd.op \in {"disable", "remove"} => docFile = "good" /\ saved[cmd.name] # "enabled"
    /\ cmd.pc = "verify" /\ cmd.rec = "complete" => ctr[cmd.name].is = "none"

SInv == TInv /\ Progress /\ Standing /\ Within /\ Disabling

\* The initial states satisfy it.
LEMMA InitSInv == Init => SInv
<1> SUFFICES ASSUME Init PROVE SInv
  OBVIOUS
<1>1. cmd \in CmdType /\ CommandShape
  BY SidecarsAssumption
     DEF Init, CmdType, CommandShape, NoCmd, Outcomes, Mutations, Reconciles, Cleanups
<1>2. host \in BOOLEAN /\ db \in BOOLEAN /\ stateFile \in BOOLEAN
  BY DEF Init
<1>3. ctr \in [Names -> [is : {"none", "up", "down"}, version : 0..2, port : 0..2]]
  BY DEF Init, NoCtr
<1>4. TypeOK
  BY <1>1, <1>2, <1>3, SidecarsAssumption DEF Init, TypeOK, CmdType
<1>5. Progress /\ Standing /\ Within /\ Disabling
  BY DEF Init, Progress, Standing, Within, Disabling, NoCmd, NoCtr, Cleanups
<1> QED BY <1>1, <1>4, <1>5 DEF SInv, TInv

\* A command that returns leaves nothing to be said about it.
LEMMA Returned ==
    ASSUME cmd' = NoCmd
    PROVE  cmd' \in CmdType /\ CommandShape' /\ Progress' /\ Within' /\ Disabling'
<1>1. cmd' \in CmdType /\ CommandShape'
  BY SidecarsAssumption DEF CmdType, CommandShape, NoCmd, Outcomes, Mutations, Reconciles, Cleanups
<1>2. Progress' /\ Within' /\ Disabling'
  BY DEF Progress, Within, Disabling, NoCmd
<1> QED BY <1>1, <1>2

\* What the world around the command does keeps what the command has achieved: it
\* neither removes nor replaces a container, and starts no host.
LEMMA Around ==
    ASSUME SInv, TypeOK', UNCHANGED <<runtime, workflow, document, fwd, cmd>>, host' => host,
           \A n \in Names : /\ ctr'[n].is = "none" <=> ctr[n].is = "none"
                            /\ ctr'[n].version = ctr[n].version
                            /\ ctr'[n].port = ctr[n].port
    PROVE  SInv'
<1> USE DEF SInv, TInv
<1>1. cmd' \in CmdType /\ CommandShape'
  BY DEF CommandShape, NoCmd
<1>2. Progress'
  BY DEF Progress, document, CmdType
<1>3. Standing' /\ Within'
  BY DEF Standing, Within, document
<1>4. Disabling'
  BY DEF Disabling, document, CommandShape, Mutations
<1> QED BY <1>1, <1>2, <1>3, <1>4

\* A failure stays within the bound.
LEMMA TroubleType == ASSUME TypeOK, Trouble PROVE trouble' \in 0..MaxTrouble
  BY SidecarsAssumption DEF TypeOK, Trouble

\* No command is one.
LEMMA NoCmdType == NoCmd \in CmdType
  BY SidecarsAssumption DEF CmdType, NoCmd, Outcomes

\* A command that has just been given has achieved nothing.
LEMMA Begun ==
    ASSUME NEW pc \in {"apply", "status"},
           NEW op \in Mutations \cup Reconciles, op \in Reconciles => pc = "apply",
           NEW name \in Names \cup {0}, op \in Mutations => name \in Names,
           \/ cmd' = [NoCmd EXCEPT !.pc = pc, !.op = op, !.name = name]
           \/ name = 0 /\ cmd' = [NoCmd EXCEPT !.pc = pc, !.op = op]
    PROVE  cmd' \in CmdType /\ CommandShape' /\ Progress'
<1>1. cmd' \in CmdType
  <2>1. CASE cmd' = [NoCmd EXCEPT !.pc = pc, !.op = op, !.name = name]
    BY <2>1, NoCmdType DEF CmdType
  <2>2. CASE cmd' = [NoCmd EXCEPT !.pc = pc, !.op = op]
    BY <2>2, NoCmdType DEF CmdType
  <2> QED BY <2>1, <2>2
<1>2. /\ cmd'.pc = pc /\ cmd'.op = op /\ cmd'.name = name /\ cmd'.err = "none" /\ ~cmd'.applied
      /\ cmd'.desired = {} /\ cmd'.todo = {} /\ cmd'.fails = {}
  BY DEF NoCmd
<1>3. CommandShape'
  BY <1>2 DEF CommandShape, Mutations, Reconciles, Cleanups
<1>4. Progress'
  BY <1>2 DEF Progress
<1> QED BY <1>1, <1>3, <1>4

\* Every step of the world keeps the invariant.
LEMMA EnvironmentSInv == ASSUME SInv, Environment PROVE SInv'
<1> USE DEF SInv, TInv
<1>1. CASE Crash
  <2>1. TypeOK'
    BY <1>1, Returned, TroubleType DEF Crash, Return, TypeOK, CmdType, document, records, machine
  <2>2. Standing'
    BY <1>1 DEF Crash, Standing, document
  <2> QED BY <1>1, <2>1, <2>2, Returned DEF Crash, Return
<1>2. CASE HandEdit
  <2>0. cmd' = NoCmd /\ cmd = NoCmd
    BY <1>2 DEF HandEdit, CommandShape
  <2>1. TypeOK'
    BY <1>2, TroubleType DEF HandEdit, TypeOK, records, machine
  <2>2. Standing'
    BY <1>2 DEF HandEdit, Standing
  <2> QED BY <2>0, <2>1, <2>2, Returned
<1>3. CASE HostStops
  <2>1. TypeOK'
    <3>1. ctr' \in [Names -> [is : {"none", "up", "down"}, version : 0..2, port : 0..2]]
      BY <1>3 DEF HostStops, TypeOK
    <3>2. /\ host' \in BOOLEAN /\ db' \in BOOLEAN /\ trouble' \in 0..MaxTrouble
          /\ UNCHANGED <<runtime, workflow, document, records, attach, fwd, cmd>>
      BY <1>3, TroubleType DEF HostStops
    <3> QED BY <3>1, <3>2 DEF TypeOK, document, records
  <2>2. \A n \in Names : /\ ctr'[n].is = "none" <=> ctr[n].is = "none"
                         /\ ctr'[n].version = ctr[n].version
                         /\ ctr'[n].port = ctr[n].port
    BY <1>3 DEF HostStops, TypeOK
  <2> QED BY <1>3, <2>1, <2>2, Around DEF HostStops
<1>4. CASE HostReturns
  <2>0. cmd' = NoCmd
    BY <1>4 DEF HostReturns, CommandShape
  <2>1. TypeOK'
    BY <1>4 DEF HostReturns, TypeOK, document, records
  <2>2. Standing'
    BY <1>4 DEF HostReturns, Standing, document
  <2> QED BY <2>0, <2>1, <2>2, Returned
<1>5. ASSUME NEW n \in Names, ContainerEnds(n) \/ ContainerRestarts(n)
      PROVE  SInv'
  <2>1. TypeOK'
    BY <1>5, TroubleType DEF ContainerEnds, ContainerRestarts, TypeOK, document, records, machine
  <2>2. \A m \in Names : /\ ctr'[m].is = "none" <=> ctr[m].is = "none"
                         /\ ctr'[m].version = ctr[m].version
                         /\ ctr'[m].port = ctr[m].port
    BY <1>5 DEF ContainerEnds, ContainerRestarts, TypeOK
  <2> QED BY <1>5, <2>1, <2>2, Around DEF ContainerEnds, ContainerRestarts, machine
<1> QED BY <1>1, <1>2, <1>3, <1>4, <1>5 DEF Environment

\* A reconciliation begins under a workflow state that the command has written.
LEMMA ReconcileBegins ==
    ASSUME SInv, NEW op \in Reconciles, workflow' # "initialized",
           workflow' \in {"initialized", "deploying", "failed", "running", "stopped", "starting",
                          "stopping", "destroying", "int_start", "int_stop", "int_destroy"},
           cmd' = [NoCmd EXCEPT !.pc = "apply", !.op = op],
           host' \in BOOLEAN, db' \in BOOLEAN,
           attach' \in {"absent", "legacy", "lacking", "bridged", "joined"},
           trouble' \in 0..MaxTrouble, UNCHANGED <<runtime, document, records, ctr, fwd>>
    PROVE  SInv'
<1> USE DEF SInv, TInv
<1>1. cmd' \in CmdType /\ CommandShape' /\ Progress'
  BY Begun DEF Mutations, Reconciles, Cleanups
<1>2. TypeOK'
  BY <1>1 DEF TypeOK, CmdType, document, records
<1>3. Standing' /\ Within' /\ Disabling'
  BY DEF Standing, Within, Disabling, NoCmd, document, Reconciles, Cleanups
<1> QED BY <1>1, <1>2, <1>3

\* Every command that begins keeps the invariant: it has achieved nothing yet.
LEMMA CommandSInv == ASSUME SInv, Command PROVE SInv'
<1> USE DEF SInv, TInv
<1>1. ASSUME NEW n \in Names, EnableSidecar(n) PROVE SInv'
  <2>0. cmd' \in CmdType /\ CommandShape' /\ Progress'
    BY <1>1, Begun DEF EnableSidecar, Mutations, Reconciles, Cleanups
  <2>1. TypeOK'
    BY <1>1, <2>0 DEF EnableSidecar, TypeOK, CmdType, records, machine
  <2>2. Standing' /\ Within'
    BY <1>1 DEF EnableSidecar, Standing, Within, NoCmd, Deferred, Cleanups
  <2>3. Disabling'
    BY <1>1 DEF EnableSidecar, Disabling, NoCmd
  <2> QED BY <2>0, <2>1, <2>2, <2>3
<1>2. ASSUME NEW n \in Names, NEW op \in {"disable", "remove"}, DisableSidecar(n, op) PROVE SInv'
  <2>0. cmd' \in CmdType /\ CommandShape' /\ Progress'
    BY <1>2, Begun DEF DisableSidecar, Mutations, Reconciles, Cleanups
  <2>1. TypeOK'
    BY <1>2, <2>0 DEF DisableSidecar, TypeOK, CmdType, records, machine
  <2>2. Standing' /\ Within'
    BY <1>2 DEF DisableSidecar, Standing, Within, NoCmd, Deferred, Cleanups
  <2>3. Disabling'
    BY <1>2 DEF DisableSidecar, Disabling, NoCmd, TypeOK
  <2> QED BY <2>0, <2>1, <2>2, <2>3
<1>3. ASSUME cmd.pc = "idle", cmd' \in CmdType, cmd'.pc = "status", cmd'.op = "status",
             cmd'.name \in Names, ~cmd'.applied, cmd'.desired = {},
             docFile = "missing" => cmd'.todo = {},
             UNCHANGED <<runtime, workflow, document, records, machine, ctr, fwd, trouble>>
      PROVE  SInv'
  <2>0. CommandShape' /\ Progress'
    BY <1>3 DEF CommandShape, Progress, Mutations, Reconciles, Cleanups
  <2>1. TypeOK'
    BY <1>3 DEF TypeOK, document, records, machine
  <2>2. Standing' /\ Within' /\ Disabling'
    BY <1>3 DEF Standing, Within, Disabling, document
  <2> QED BY <1>3, <2>0, <2>1, <2>2
<1>4. ASSUME NEW n \in Names, GetSidecarStatus(n) PROVE SInv'
  <2>1. cmd' = [NoCmd EXCEPT !.pc = "status", !.op = "status", !.name = n]
    BY <1>4 DEF GetSidecarStatus
  <2>2. cmd' \in CmdType
    BY <2>1, NoCmdType DEF CmdType
  <2>3. /\ cmd'.pc = "status" /\ cmd'.op = "status" /\ cmd'.name = n
        /\ ~cmd'.applied /\ cmd'.desired = {} /\ cmd'.todo = {}
    BY <2>1 DEF NoCmd
  <2> QED BY <1>3, <1>4, <2>2, <2>3 DEF GetSidecarStatus
<1>5. CASE GetAllSidecarStatus
  <2> DEFINE names == {n \in Names : saved[n] # "none"}
  <2>1. names # {} /\ Min(names) \in Names /\ names \in SUBSET Names
    BY <1>5, MinIsMember, SidecarsAssumption DEF GetAllSidecarStatus
  <2>2. docFile = "missing" => names \ {Min(names)} = {}
    BY DEF Standing
  <2>3. cmd' = [NoCmd EXCEPT !.pc = "status", !.op = "status", !.name = Min(names),
                            !.todo = names \ {Min(names)}]
    BY <1>5 DEF GetAllSidecarStatus
  <2> HIDE DEF names
  <2>4. cmd' \in CmdType
    BY <2>1, <2>3, NoCmdType DEF CmdType
  <2>5. /\ cmd'.pc = "status" /\ cmd'.op = "status" /\ cmd'.name = Min(names)
        /\ ~cmd'.applied /\ cmd'.desired = {} /\ cmd'.todo = names \ {Min(names)}
    BY <2>3 DEF NoCmd
  <2> QED BY <1>3, <1>5, <2>1, <2>2, <2>4, <2>5 DEF GetAllSidecarStatus
<1>6. ASSUME NEW op \in {"deploy", "start"}, StartRuntime(op) PROVE SInv'
  <2>0. op \in Reconciles /\ cmd.pc = "idle"
    BY <1>6 DEF StartRuntime, Reconciles
  <2>1. CASE /\ host' = TRUE /\ db' = TRUE
             /\ IF db THEN UNCHANGED attach ELSE attach' \in {"joined", "lacking"}
             /\ workflow' = IF op = "deploy" THEN "deploying" ELSE "starting"
             /\ cmd' = [NoCmd EXCEPT !.pc = "apply", !.op = op]
             /\ UNCHANGED trouble
    <3>1. attach' \in {"absent", "legacy", "lacking", "bridged", "joined"}
      BY <2>1 DEF TypeOK
    <3>2. UNCHANGED <<runtime, document, records, ctr, fwd, trouble>>
      BY <1>6, <2>1 DEF StartRuntime
    <3> QED BY <2>0, <2>1, <3>1, <3>2, ReconcileBegins DEF TypeOK
  <2>2. CASE /\ ~db /\ Trouble
             /\ workflow' = IF op = "deploy" THEN "failed" ELSE "stopped"
             /\ UNCHANGED <<machine, cmd>>
    <3>1. cmd' = NoCmd
      BY <2>0, <2>2 DEF CommandShape
    <3>2. TypeOK'
      BY <1>6, <2>2, TroubleType DEF StartRuntime, TypeOK, document, records, machine
    <3>3. Standing'
      BY <1>6, <2>2 DEF StartRuntime, Standing, document
    <3> QED BY <3>1, <3>2, <3>3, Returned
  <2> QED BY <1>6, <2>1, <2>2 DEF StartRuntime
<1>7. ASSUME NEW op \in {"sync", "clean"}, ReconcileOnly(op) PROVE SInv'
  BY <1>7, ReconcileBegins DEF ReconcileOnly, Reconciles, Cleanups, TypeOK, machine
<1>8. ASSUME NEW op \in {"stop", "destroy"}, StopRuntime(op) PROVE SInv'
  BY <1>8, ReconcileBegins DEF StopRuntime, Reconciles, Cleanups, TypeOK, machine
<1> QED BY <1>1, <1>2, <1>4, <1>5, <1>6, <1>7, <1>8 DEF Command

-----------------------------------------------------------------------------
(* The steps of applySidecars *)

\* What was read decides what is wanted; a cleanup wants nothing.
LEMMA ApplySInv == ASSUME SInv, ApplySidecars PROVE SInv'
<1> USE DEF SInv, TInv
<1> DEFINE desired == IF cmd.op \in Cleanups THEN {} ELSE Containers
<1>a. UNCHANGED <<runtime, workflow, document, records, host, db, ctr, fwd>>
  BY DEF ApplySidecars
<1>b. /\ cmd.pc = "apply" /\ cmd.op \in Mutations \cup Reconciles
      /\ ~cmd.applied /\ cmd.err = "none"
      /\ cmd.desired = {} /\ cmd.todo = {} /\ cmd.fails = {}
      /\ cmd.op \in Mutations => cmd.name \in Names
      /\ workflow # "initialized"
  BY DEF ApplySidecars, CommandShape, Within
<1>c. /\ desired \in SUBSET Names /\ (cmd.op \in Cleanups => desired = {})
      /\ docFile = "missing" => desired = {}
  BY DEF Containers, ReadSidecars, Standing
<1>d. cmd.op # "status"
  BY <1>b DEF Mutations, Reconciles, Cleanups
<1> HIDE DEF desired
\* The ends that change nothing.
<1>1. ASSUME cmd' \in CmdType, UNCHANGED attach, trouble' \in 0..MaxTrouble,
             cmd'.pc \in {"record", "finish", "status"},
             cmd'.op = cmd.op, cmd'.name = cmd.name,
             ~cmd'.applied, cmd'.desired = {}, cmd'.todo = {},
             cmd'.pc = "finish" => cmd.op \in Reconciles,
             cmd'.pc = "status" => cmd.op \in Mutations,
             cmd'.err = "none" /\ host => \A n \in Names : ctr[n].is = "none"
      PROVE  SInv'
  <2>1. TypeOK'
    BY <1>a, <1>1 DEF TypeOK, CmdType, document, records
  <2>2. CommandShape'
    BY <1>1, <1>b, <1>d DEF CommandShape, Mutations, Reconciles, Cleanups
  <2>3. Progress' /\ Standing'
    BY <1>a, <1>1 DEF Progress, Standing, document
  <2>4. Within'
    BY <1>a, <1>b, <1>1 DEF Within, document
  <2>5. Disabling'
    BY <1>a, <1>1 DEF Disabling, document
  <2> QED BY <1>1, <2>1, <2>2, <2>3, <2>4, <2>5
\* The ends that begin to reconcile.
<1>2. ASSUME cmd' \in CmdType, trouble' \in 0..MaxTrouble,
             attach' \in {"absent", "legacy", "lacking", "bridged", "joined"},
             cmd'.op = cmd.op, cmd'.name = cmd.name, cmd'.err = "none",
             cmd'.desired = desired, cmd'.applied,
             \/ cmd'.pc = "ensure" /\ cmd'.todo = desired
             \/ cmd'.pc = "prune" /\ cmd'.todo = {} /\ cmd'.fails = desired
      PROVE  SInv'
  <2>1. TypeOK'
    BY <1>a, <1>2 DEF TypeOK, CmdType, document, records
  <2>2. CommandShape'
    BY <1>2, <1>b, <1>c, <1>d DEF CommandShape, Mutations, Reconciles, Cleanups
  <2>3. Progress' /\ Standing'
    BY <1>a, <1>2 DEF Progress, Standing, document
  <2>4. Within'
    BY <1>a, <1>b, <1>c, <1>2 DEF Within, document
  <2>5. Disabling'
    BY <1>a, <1>2 DEF Disabling, document
  <2> QED BY <1>2, <2>1, <2>2, <2>3, <2>4, <2>5
<1>3. CASE cmd.op \in Reconciles /\ Untouched /\ Goto("finish") /\ UNCHANGED <<attach, trouble>>
  <2>1. cmd' \in CmdType
    BY <1>3 DEF Goto, CmdType
  <2>2. /\ cmd'.pc = "finish" /\ cmd'.op = cmd.op /\ cmd'.name = cmd.name
        /\ ~cmd'.applied /\ cmd'.desired = {} /\ cmd'.todo = {}
    BY <1>3, <1>b DEF Goto, CmdType
  <2>3. \A n \in Names : ctr[n].is = "none"
    BY <1>3 DEF Untouched, Standing
  <2> QED BY <1>1, <1>3, <2>1, <2>2, <2>3 DEF TypeOK
<1>4. CASE /\ ReadFails
           /\ cmd' = [cmd EXCEPT !.err = "failed",
                                 !.pc = IF cmd.op \in Mutations THEN "status" ELSE "finish"]
           /\ UNCHANGED <<attach, trouble>>
  <2>1. cmd' \in CmdType
    BY <1>4 DEF CmdType
  <2>2. /\ cmd'.pc = IF cmd.op \in Mutations THEN "status" ELSE "finish"
        /\ cmd'.op = cmd.op /\ cmd'.name = cmd.name /\ cmd'.err = "failed"
        /\ ~cmd'.applied /\ cmd'.desired = {} /\ cmd'.todo = {}
    BY <1>4, <1>b DEF CmdType
  <2> QED BY <1>1, <1>4, <1>b, <2>1, <2>2 DEF TypeOK
<1>5. CASE ~host /\ Goto("record") /\ UNCHANGED <<attach, trouble>>
  <2>1. cmd' \in CmdType
    BY <1>5 DEF Goto, CmdType
  <2>2. /\ cmd'.pc = "record" /\ cmd'.op = cmd.op /\ cmd'.name = cmd.name
        /\ ~cmd'.applied /\ cmd'.desired = {} /\ cmd'.todo = {}
    BY <1>5, <1>b DEF Goto, CmdType
  <2> QED BY <1>1, <1>5, <2>1, <2>2 DEF TypeOK
<1>6. ASSUME NEW err \in {"failed", "restart"}, cmd' = [cmd EXCEPT !.err = err, !.pc = "record"],
             trouble' \in 0..MaxTrouble, UNCHANGED attach
      PROVE  SInv'
  <2>1. cmd' \in CmdType
    BY <1>6 DEF CmdType
  <2>2. /\ cmd'.pc = "record" /\ cmd'.op = cmd.op /\ cmd'.name = cmd.name /\ cmd'.err = err
        /\ ~cmd'.applied /\ cmd'.desired = {} /\ cmd'.todo = {}
    BY <1>6, <1>b DEF CmdType
  <2> QED BY <1>1, <1>6, <2>1, <2>2
<1>7. CASE /\ Works /\ UNCHANGED attach
           /\ cmd' = [cmd EXCEPT !.applied = TRUE, !.fails = desired,
                                 !.desired = desired, !.pc = "prune"]
  <2>1. cmd' \in CmdType
    BY <1>7, <1>c DEF CmdType
  <2>2. /\ cmd'.pc = "prune" /\ cmd'.op = cmd.op /\ cmd'.name = cmd.name /\ cmd'.err = "none"
        /\ cmd'.applied /\ cmd'.desired = desired /\ cmd'.todo = {} /\ cmd'.fails = desired
    BY <1>7, <1>b DEF CmdType
  <2> QED BY <1>2, <1>7, <2>1, <2>2 DEF Works, TypeOK
<1>8. CASE /\ Works
           /\ attach' = IF desired # {} /\ attach = "bridged" THEN "joined" ELSE attach
           /\ cmd' = [cmd EXCEPT !.applied = TRUE, !.desired = desired,
                                 !.todo = desired, !.pc = "ensure"]
  <2>1. cmd' \in CmdType
    BY <1>8, <1>c DEF CmdType
  <2>2. /\ cmd'.pc = "ensure" /\ cmd'.op = cmd.op /\ cmd'.name = cmd.name /\ cmd'.err = "none"
        /\ cmd'.applied /\ cmd'.desired = desired /\ cmd'.todo = desired
    BY <1>8, <1>b DEF CmdType
  <2> QED BY <1>2, <1>8, <2>1, <2>2 DEF Works, TypeOK
<1>9. trouble' \in 0..MaxTrouble
  BY TroubleType DEF ApplySidecars, Works, TypeOK
<1> QED BY <1>3, <1>4, <1>5, <1>6, <1>7, <1>8, <1>9 DEF ApplySidecars, desired

\* The next wanted sidecar either has its container or is a failure.
LEMMA EnsureSInv == ASSUME SInv, Ensure PROVE SInv'
<1> USE DEF SInv, TInv
<1> DEFINE n == Min(cmd.todo)
<1>a. UNCHANGED <<runtime, workflow, document, records, machine, fwd>>
  BY DEF Ensure
<1>b. /\ cmd.pc = "ensure" /\ cmd.op \in Mutations \cup Reconciles /\ workflow # "initialized"
      /\ n \in cmd.todo /\ n \in Names /\ docFile # "missing" /\ cmd.op # "status"
  <2>1. cmd.todo # {} /\ cmd.todo \in SUBSET Names /\ Names \subseteq Nat
    BY SidecarsAssumption DEF Ensure, CmdType
  <2>2. n \in cmd.todo
    BY <2>1, MinIsMember
  <2> QED BY <2>1, <2>2 DEF Ensure, CommandShape, Within, Mutations, Reconciles, Cleanups
<1>c. trouble' \in 0..MaxTrouble
  BY TroubleType DEF Ensure, Works, Fails, TypeOK
<1> HIDE DEF n
\* Both outcomes: only the container of n changes.
<1>1. ASSUME cmd' \in CmdType, cmd'.pc = "ensure", cmd'.todo = cmd.todo \ {n},
             UNCHANGED <<cmd.op, cmd.name, cmd.desired, cmd.applied, cmd.err>>,
             cmd.fails \subseteq cmd'.fails,
             ctr' \in [Names -> [is : {"none", "up", "down"}, version : 0..2, port : 0..2]],
             \A m \in Names \ {n} : ctr'[m] = ctr[m],
             n \in cmd'.fails \/ (ctr'[n].is # "none" /\ ctr'[n].version = version[n])
      PROVE  SInv'
  <2>1. TypeOK'
    BY <1>a, <1>c, <1>1 DEF TypeOK, document, records, machine
  <2>2. CommandShape'
    BY <1>1, <1>b DEF CommandShape, Mutations, Reconciles, Cleanups
  <2>3. Progress'
    BY <1>a, <1>1 DEF Progress, document, CmdType
  <2>4. Standing' /\ Within'
    BY <1>a, <1>b, <1>1 DEF Standing, Within, document
  <2>5. Disabling'
    BY <1>a, <1>1 DEF Disabling, document
  <2> QED BY <1>1, <2>1, <2>2, <2>3, <2>4, <2>5
<1>2. CASE /\ \E port \in GuestPorts :
                 ctr' = IF Matches(n) THEN Converge(n)
                        ELSE [Converge(n) EXCEPT ![n] = Create(n, port)]
           /\ cmd' = [cmd EXCEPT !.todo = @ \ {n}]
  <2>1. cmd' \in CmdType
    BY <1>2 DEF CmdType
  <2>2. /\ cmd'.pc = "ensure" /\ cmd'.todo = cmd.todo \ {n} /\ cmd'.fails = cmd.fails
        /\ UNCHANGED <<cmd.op, cmd.name, cmd.desired, cmd.applied, cmd.err>>
    BY <1>2, <1>b DEF CmdType
  <2>3. /\ ctr' \in [Names -> [is : {"none", "up", "down"}, version : 0..2, port : 0..2]]
        /\ \A m \in Names \ {n} : ctr'[m] = ctr[m]
        /\ ctr'[n].is # "none" /\ ctr'[n].version = version[n]
    BY <1>2, <1>b DEF TypeOK, Matches, Converge, Create, NoCtr, GuestPorts
  <2> QED BY <1>1, <2>1, <2>2, <2>3
<1>3. CASE /\ \/ UNCHANGED ctr
              \/ host /\ ctr' = Converge(n)
              \/ /\ host /\ ~Matches(n)
                 /\ ctr' = [Converge(n) EXCEPT ![n] = [Create(n, 0) EXCEPT !.is = "down"]]
           /\ cmd' = [cmd EXCEPT !.todo = @ \ {n}, !.fails = @ \cup {n}]
  <2>1. cmd' \in CmdType
    BY <1>3, <1>b DEF CmdType
  <2>2. /\ cmd'.pc = "ensure" /\ cmd'.todo = cmd.todo \ {n} /\ cmd'.fails = cmd.fails \cup {n}
        /\ UNCHANGED <<cmd.op, cmd.name, cmd.desired, cmd.applied, cmd.err>>
    BY <1>3, <1>b DEF CmdType
  <2>3. /\ ctr' \in [Names -> [is : {"none", "up", "down"}, version : 0..2, port : 0..2]]
        /\ \A m \in Names \ {n} : ctr'[m] = ctr[m]
    BY <1>3, <1>b DEF TypeOK, Matches, Converge, Create, NoCtr
  <2> QED BY <1>1, <2>1, <2>2, <2>3
<1> QED BY <1>2, <1>3 DEF Ensure, n

\* All wanted sidecars are through.
LEMMA EnsureDoneSInv == ASSUME SInv, EnsureDone PROVE SInv'
<1> USE DEF SInv, TInv
<1>a. UNCHANGED <<runtime, workflow, document, records, machine, ctr, fwd, trouble>>
  BY DEF EnsureDone
<1>b. cmd.pc = "ensure" /\ cmd.todo = {} /\ cmd' = [cmd EXCEPT !.pc = "prune"]
  BY DEF EnsureDone, Goto
<1>1. cmd' \in CmdType
  BY <1>b DEF CmdType
<1>2. /\ cmd'.pc = "prune"
      /\ UNCHANGED <<cmd.op, cmd.name, cmd.desired, cmd.todo, cmd.fails, cmd.applied, cmd.err>>
  BY <1>b DEF CmdType
<1>3. TypeOK'
  BY <1>a, <1>2 DEF TypeOK, document, records, machine
<1>4. CommandShape'
  BY <1>2, <1>b DEF CommandShape, Mutations, Reconciles, Cleanups
<1>5. Progress' /\ Standing' /\ Within'
  BY <1>a, <1>b, <1>2 DEF Progress, Standing, Within, document
<1>6. Disabling'
  BY <1>a, <1>2 DEF Disabling, document
<1> QED BY <1>1, <1>3, <1>4, <1>5, <1>6

\* What is not wanted is gone, kept as a failure, or the whole step has failed.
LEMMA RemoveUndesiredSInv == ASSUME SInv, RemoveUndesired PROVE SInv'
<1> USE DEF SInv, TInv
<1>a. /\ UNCHANGED <<runtime, workflow, document, records, machine, fwd>>
      /\ cmd.pc = "prune" /\ cmd.todo = {} /\ workflow # "initialized"
      /\ cmd.op \in Mutations \cup Reconciles /\ cmd.op # "status"
  BY DEF RemoveUndesired, CommandShape, Within, Mutations, Reconciles, Cleanups
<1>b. trouble' \in 0..MaxTrouble
  BY TroubleType DEF RemoveUndesired, Fails, TypeOK
<1>1. ASSUME cmd' \in CmdType, cmd'.pc \in {"publish", "record"},
             UNCHANGED <<cmd.op, cmd.name, cmd.desired, cmd.todo, cmd.applied>>,
             cmd.fails \subseteq cmd'.fails, cmd'.err \in {cmd.err, "failed"},
             cmd'.pc = "record" => cmd'.err = "failed",
             ctr' \in [Names -> [is : {"none", "up", "down"}, version : 0..2, port : 0..2]],
             \A n \in cmd.desired : ctr'[n] = ctr[n],
             \A n \in Names : ctr[n].is = "none" => ctr'[n].is = "none",
             cmd'.pc = "publish" =>
                \A n \in Names \ (cmd.desired \cup cmd'.fails) : ctr'[n].is = "none"
      PROVE  SInv'
  <2>1. TypeOK'
    BY <1>a, <1>b, <1>1 DEF TypeOK, document, records, machine
  <2>2. CommandShape'
    BY <1>1, <1>a DEF CommandShape, Mutations, Reconciles, Cleanups
  <2>3. Progress'
    BY <1>a, <1>1 DEF Progress, document, CmdType
  <2>4. Standing' /\ Within'
    BY <1>a, <1>1 DEF Standing, Within, document
  <2>5. Disabling'
    BY <1>a, <1>1 DEF Disabling, document
  <2> QED BY <1>1, <2>1, <2>2, <2>3, <2>4, <2>5
<1>2. CASE cmd' = [cmd EXCEPT !.err = "failed", !.pc = "record"] /\ UNCHANGED ctr
  <2>1. cmd' \in CmdType
    BY <1>2 DEF CmdType
  <2>2. /\ cmd'.pc = "record" /\ cmd'.err = "failed" /\ cmd'.fails = cmd.fails
        /\ UNCHANGED <<cmd.op, cmd.name, cmd.desired, cmd.todo, cmd.applied>>
    BY <1>2 DEF CmdType
  <2> QED BY <1>1, <1>2, <2>1, <2>2 DEF TypeOK
<1>3. ASSUME NEW kept \in SUBSET Unwanted, ctr' = Remove(Unwanted \ kept),
             cmd' = [cmd EXCEPT !.fails = @ \cup kept, !.pc = "publish"]
      PROVE  SInv'
  <2>0. Unwanted \subseteq Names
    BY DEF Unwanted
  <2>1. cmd' \in CmdType
    BY <1>3, <2>0 DEF CmdType
  <2>2. /\ cmd'.pc = "publish" /\ cmd'.err = cmd.err /\ cmd'.fails = cmd.fails \cup kept
        /\ UNCHANGED <<cmd.op, cmd.name, cmd.desired, cmd.todo, cmd.applied>>
    BY <1>3 DEF CmdType
  <2>3. ctr' \in [Names -> [is : {"none", "up", "down"}, version : 0..2, port : 0..2]]
    BY <1>3 DEF Remove, TypeOK, NoCtr
  <2>4. cmd.desired \subseteq Names
    BY DEF CmdType
  <2>5. /\ \A n \in cmd.desired : ctr'[n] = ctr[n]
        /\ \A n \in Names : ctr[n].is = "none" => ctr'[n].is = "none"
        /\ \A n \in Names \ (cmd.desired \cup kept) : ctr'[n].is = "none"
    BY <1>3, <2>4 DEF Remove, Unwanted, NoCtr
  <2> QED BY <1>1, <2>1, <2>2, <2>3, <2>5
<1> QED BY <1>2, <1>3 DEF RemoveUndesired

\* The forwards that were opened lead to the ports of the wanted containers.
LEMMA PublishSInv == ASSUME SInv, Publish PROVE SInv'
<1> USE DEF SInv, TInv
<1> DEFINE wanted == WantedForwards(cmd.desired)
<1>a. /\ UNCHANGED <<runtime, workflow, document, records, machine, ctr>>
      /\ cmd.pc = "publish" /\ cmd.todo = {} /\ workflow # "initialized"
      /\ cmd.op \in Mutations \cup Reconciles /\ cmd.op # "status"
  BY DEF Publish, CommandShape, Within, Mutations, Reconciles, Cleanups
<1>b. trouble' \in 0..MaxTrouble
  BY TroubleType DEF Publish, Works, Fails, TypeOK
<1>c. /\ wanted \in [Names -> 0..2]
      /\ \A n \in Names : wanted[n] \in {0, ctr[n].port}
  BY DEF WantedForwards, TypeOK
<1> HIDE DEF wanted
<1>1. ASSUME cmd' \in CmdType, cmd'.pc = "record",
             UNCHANGED <<cmd.op, cmd.name, cmd.desired, cmd.todo, cmd.fails, cmd.applied>>,
             \/ cmd'.err = "failed"
             \/ cmd'.err = cmd.err /\ \A n \in Names : fwd'[n] \in {0, ctr[n].port},
             fwd' \in [Names -> 0..2], runtime = "host" => UNCHANGED fwd
      PROVE  SInv'
  <2>1. TypeOK'
    BY <1>a, <1>b, <1>1 DEF TypeOK, document, records, machine
  <2>2. CommandShape'
    BY <1>1, <1>a DEF CommandShape, Mutations, Reconciles, Cleanups
  <2>3. Progress'
    BY <1>a, <1>1 DEF Progress, document, CmdType
  <2>4. Standing'
    BY <1>a, <1>1 DEF Standing, document
  <2>5. Within'
    BY <1>a, <1>1 DEF Within, CommandShape, document
  <2>6. Disabling'
    BY <1>a, <1>1 DEF Disabling, document
  <2> QED BY <1>1, <2>1, <2>2, <2>3, <2>4, <2>5, <2>6
<1>2. CASE OpenPorts(wanted) /\ Goto("record")
  <2>1. cmd' \in CmdType
    BY <1>2 DEF CmdType, Goto
  <2>2. /\ cmd'.pc = "record" /\ cmd'.err = cmd.err
        /\ UNCHANGED <<cmd.op, cmd.name, cmd.desired, cmd.todo, cmd.fails, cmd.applied>>
    BY <1>2 DEF CmdType, Goto
  <2>3. /\ fwd' \in [Names -> 0..2]
        /\ runtime = "host" => UNCHANGED fwd
        /\ \A n \in Names : fwd'[n] \in {0, ctr[n].port}
    BY <1>2, <1>c, SidecarsAssumption DEF OpenPorts, Standing, TypeOK
  <2> QED BY <1>1, <2>1, <2>2, <2>3
<1>3. ASSUME cmd' = [cmd EXCEPT !.err = "failed", !.pc = "record"],
             UNCHANGED fwd \/ (runtime = "vm" /\ OpenPortsFails(wanted))
      PROVE  SInv'
  <2>1. cmd' \in CmdType
    BY <1>3 DEF CmdType
  <2>2. /\ cmd'.pc = "record" /\ cmd'.err = "failed"
        /\ UNCHANGED <<cmd.op, cmd.name, cmd.desired, cmd.todo, cmd.fails, cmd.applied>>
    BY <1>3 DEF CmdType
  <2>3. fwd' \in [Names -> 0..2]
    BY <1>3, <1>c DEF OpenPortsFails, TypeOK
  <2> QED BY <1>1, <1>3, <2>1, <2>2, <2>3
<1> QED BY <1>2, <1>3 DEF Publish, wanted

-----------------------------------------------------------------------------
(* The record of the failures, and the steps after it *)

\* What was only recorded as a failure of one sidecar becomes the command's error.
LEMMA RecordSInv == ASSUME SInv, RecordApply \/ RecordReconcile PROVE SInv'
<1> USE DEF SInv, TInv
<1>a. /\ UNCHANGED <<runtime, workflow, document, machine, ctr, fwd, trouble>>
      /\ cmd.pc = "record" /\ cmd.todo = {} /\ workflow # "initialized"
      /\ cmd.op \in Mutations \cup Reconciles /\ cmd.op # "status"
  BY DEF RecordApply, RecordReconcile, CommandShape, Within, Mutations, Reconciles, Cleanups
<1>b. failures' \subseteq Names /\ stateFile' \in BOOLEAN
  BY DEF RecordApply, RecordReconcile, RecordFailures, WriteSidecarState, records, TypeOK,
         Containers, CmdType
<1>1. PICK err \in {"failed", "none"}, pc \in {"status", "finish"} :
         /\ cmd' = [cmd EXCEPT !.pc = pc, !.err = err]
         /\ err = "none" => cmd.err # "failed" /\ cmd.fails = {}
         /\ err = "none" /\ pc = "finish" => cmd.err = "none"
         /\ pc = "status" => cmd.op \in Mutations
         /\ pc = "finish" => cmd.op \in Reconciles
  BY DEF RecordApply, RecordReconcile
<1>2. cmd' \in CmdType
  BY <1>1 DEF CmdType
<1>3. /\ cmd'.pc = pc /\ cmd'.err = err
      /\ UNCHANGED <<cmd.op, cmd.name, cmd.desired, cmd.todo, cmd.fails, cmd.applied>>
  BY <1>1 DEF CmdType
<1>4. TypeOK'
  BY <1>a, <1>b, <1>3 DEF TypeOK, document, machine
<1>5. CommandShape'
  BY <1>a, <1>1, <1>3 DEF CommandShape, Mutations, Reconciles, Cleanups
<1>6. Progress'
  BY <1>a, <1>1, <1>3 DEF Progress, CommandShape, document, CmdType
<1>7. Standing' /\ Within'
  BY <1>a, <1>1, <1>3 DEF Standing, Within, document, machine, Mutations, Cleanups
<1>8. Disabling'
  BY <1>a, <1>3 DEF Disabling, document
<1> QED BY <1>2, <1>4, <1>5, <1>6, <1>7, <1>8

\* An inspection only changes the record of the failures; it finds a container gone
\* only where there is none.
LEMMA InspectFacts ==
    ASSUME SInv, NEW n \in Names, NEW rec \in Outcomes, Inspect(n, rec)
    PROVE  /\ trouble' \in 0..MaxTrouble /\ failures' \subseteq Names /\ stateFile' \in BOOLEAN
           /\ rec = "complete" /\ saved[n] # "enabled" => ctr[n].is = "none"
<1> USE DEF SInv, TInv
<1>1. trouble' \in 0..MaxTrouble
  BY TroubleType DEF Inspect, Works, TypeOK
<1>2. failures' \subseteq Names /\ stateFile' \in BOOLEAN
  BY DEF Inspect, WriteSidecarState, records, TypeOK
<1>3. rec = "complete" /\ saved[n] # "enabled" => ctr[n].is = "none"
  BY DEF Inspect, Reconciliation, ReadSidecars, Works
<1> QED BY <1>1, <1>2, <1>3

\* A command that stays with status, verify or await keeps what it has achieved.
LEMMA LookingSInv ==
    ASSUME SInv, UNCHANGED <<runtime, workflow, document, machine, ctr, fwd>>,
           trouble' \in 0..MaxTrouble, failures' \subseteq Names, stateFile' \in BOOLEAN,
           cmd.pc \in {"status", "verify", "await"},
           \/ cmd' = NoCmd
           \/ /\ cmd' \in CmdType /\ cmd'.pc \in {"status", "verify", "await"}
              /\ UNCHANGED <<cmd.op, cmd.desired, cmd.fails, cmd.applied>>
              /\ cmd'.name \in Names
              /\ cmd.op # "status" => cmd'.name = cmd.name
              /\ cmd'.pc # "status" => cmd.op # "status"
              /\ cmd'.todo \subseteq cmd.todo
              /\ cmd'.err \in {cmd.err, "failed"}
              /\ cmd'.pc = "verify" =>
                    /\ cmd.op \in {"disable", "remove"}
                    /\ cmd'.rec = "complete" => ctr[cmd.name].is = "none"
    PROVE  SInv'
<1> USE DEF SInv, TInv
<1>1. Standing'
  BY DEF Standing, document
<1>2. CASE cmd' = NoCmd
  <2>1. TypeOK'
    BY <1>2, Returned DEF TypeOK, CmdType, document, machine
  <2> QED BY <1>1, <1>2, <2>1, Returned
<1>3. CASE cmd' # NoCmd
  <2>1. TypeOK'
    BY <1>3 DEF TypeOK, document, machine, CmdType
  <2>2. CommandShape'
    BY <1>3 DEF CommandShape, Mutations, Reconciles, Cleanups
  <2>3. Progress'
    BY <1>3 DEF Progress, CommandShape, document, CmdType
  <2>4. Within'
    BY <1>3 DEF Within, document
  <2>5. Disabling'
    BY <1>3 DEF Disabling, document
  <2> QED BY <1>1, <1>3, <2>1, <2>2, <2>3, <2>4, <2>5
<1> QED BY <1>2, <1>3

\* status, and what enable and disable go on with.
LEMMA StatusSInv == ASSUME SInv, Status PROVE SInv'
<1> USE DEF SInv, TInv
<1>a. /\ cmd.pc = "status" /\ cmd.name \in Names /\ cmd.op \notin Reconciles
      /\ UNCHANGED <<runtime, workflow, document, machine, ctr, fwd>>
  BY DEF Status, CommandShape
<1>b. cmd.todo \in SUBSET Names /\ Names \subseteq Nat
  BY SidecarsAssumption DEF CmdType
<1>1. PICK rec \in Outcomes :
         /\ Inspect(cmd.name, rec)
         /\ CASE cmd.op \in {"disable", "remove"} ->
                    cmd' = [cmd EXCEPT !.pc = "verify", !.rec = rec,
                                       !.err = IF docFile = "bad" THEN "failed" ELSE @]
              [] cmd.op = "enable" ->
                    \/ Return
                    \/ /\ cmd.err = "none" /\ rec # "unknown" /\ ctr[cmd.name].is = "up"
                       /\ \E age \in 0..(Window - 1) :
                             cmd' = [cmd EXCEPT !.pc = "await", !.age = age]
              [] cmd.op = "status" /\ cmd.todo # {} /\ docFile # "bad" ->
                    cmd' = [cmd EXCEPT !.name = Min(cmd.todo), !.todo = @ \ {Min(@)}]
              [] OTHER -> Return
  BY DEF Status
<1>2. /\ trouble' \in 0..MaxTrouble /\ failures' \subseteq Names /\ stateFile' \in BOOLEAN
      /\ rec = "complete" /\ saved[cmd.name] # "enabled" => ctr[cmd.name].is = "none"
  BY <1>a, <1>1, InspectFacts
<1>3. CASE cmd.op \in {"disable", "remove"}
  <2>1. PICK err \in {cmd.err, "failed"} :
           cmd' = [cmd EXCEPT !.pc = "verify", !.rec = rec, !.err = err]
    BY <1>1, <1>3
  <2>2. cmd' \in CmdType
    BY <2>1 DEF CmdType
  <2>3. /\ cmd'.pc = "verify" /\ cmd'.rec = rec /\ cmd'.err = err
        /\ UNCHANGED <<cmd.op, cmd.name, cmd.desired, cmd.todo, cmd.fails, cmd.applied>>
    BY <2>1 DEF CmdType
  <2>4. saved[cmd.name] # "enabled"
    BY <1>3 DEF Disabling
  <2> QED BY <1>a, <1>2, <1>3, <2>1, <2>2, <2>3, <2>4, LookingSInv
<1>4. CASE Return
  BY <1>a, <1>2, <1>4, LookingSInv DEF Return
<1>5. ASSUME NEW age \in 0..(Window - 1), cmd.op = "enable",
             cmd' = [cmd EXCEPT !.pc = "await", !.age = age]
      PROVE  SInv'
  <2>1. age \in 0..Window
    BY SidecarsAssumption
  <2>2. cmd' \in CmdType
    BY <1>5, <2>1 DEF CmdType
  <2>3. /\ cmd'.pc = "await"
        /\ UNCHANGED <<cmd.op, cmd.name, cmd.desired, cmd.todo, cmd.fails, cmd.applied, cmd.err>>
    BY <1>5 DEF CmdType
  <2> QED BY <1>a, <1>2, <1>5, <2>2, <2>3, LookingSInv
<1>6. ASSUME cmd.op = "status", cmd.todo # {},
             cmd' = [cmd EXCEPT !.name = Min(cmd.todo), !.todo = @ \ {Min(@)}]
      PROVE  SInv'
  <2>0. Min(cmd.todo) \in Names
    BY <1>b, <1>6, MinIsMember
  <2>1. cmd' = [cmd EXCEPT !.name = Min(cmd.todo), !.todo = cmd.todo \ {Min(cmd.todo)}]
    BY <1>6
  <2>2. cmd' \in CmdType
    BY <2>0, <2>1 DEF CmdType
  <2>3. /\ cmd'.pc = cmd.pc /\ cmd'.name = Min(cmd.todo) /\ cmd'.todo = cmd.todo \ {Min(cmd.todo)}
        /\ UNCHANGED <<cmd.op, cmd.desired, cmd.fails, cmd.applied, cmd.err>>
    BY <2>1 DEF CmdType
  <2> QED BY <1>a, <1>2, <1>6, <2>0, <2>2, <2>3, LookingSInv
<1> QED BY <1>1, <1>3, <1>4, <1>5, <1>6

\* The end of disable, and the wait of enable.
LEMMA VerifyAwaitSInv == ASSUME SInv, VerifyDisable \/ AwaitHealth PROVE SInv'
<1> USE DEF SInv, TInv
<1>1. CASE VerifyDisable
  <2>1. cmd.name \in Names
    BY <1>1 DEF VerifyDisable, CommandShape
  <2>2. failures' \subseteq Names /\ stateFile' \in BOOLEAN /\ trouble' \in 0..MaxTrouble
    BY <1>1, <2>1 DEF VerifyDisable, RecordFailures, WriteSidecarState, records, TypeOK
  <2> QED BY <1>1, <2>2, LookingSInv DEF VerifyDisable, Return
<1>2. CASE AwaitHealth
  <2>0. /\ cmd.pc = "await" /\ cmd.name \in Names
        /\ UNCHANGED <<runtime, workflow, document, machine, ctr, fwd>>
    BY <1>2 DEF AwaitHealth, CommandShape
  <2>1. CASE Return /\ UNCHANGED <<records, trouble>>
    BY <2>0, <2>1, LookingSInv DEF Return, records, TypeOK
  <2>2. CASE ~(Return /\ UNCHANGED <<records, trouble>>)
    <3>1. PICK rec \in Outcomes, age \in 0..Window, waited \in 0..Window :
             /\ Inspect(cmd.name, rec)
             /\ \/ cmd' = [cmd EXCEPT !.age = age, !.waited = waited]
                \/ Return
      <4>1. PICK rec \in Outcomes, age \in {0, Min({cmd.age + 1, Window})} :
                /\ Inspect(cmd.name, rec)
                /\ \/ cmd' = [cmd EXCEPT !.age = age, !.waited = Min({cmd.waited + 1, Window})]
                   \/ Return
        BY <1>2, <2>2 DEF AwaitHealth
      <4>2. \A i \in 0..Window : Min({i + 1, Window}) \in 0..Window
        <5> TAKE i \in 0..Window
        <5>1. Min({i + 1, Window}) \in {i + 1, Window}
          BY MinIsMember, SidecarsAssumption
        <5>2. \A y \in {i + 1, Window} : Min({i + 1, Window}) <= y
          BY SidecarsAssumption DEF Min
        <5> QED BY <5>1, <5>2, SidecarsAssumption
      <4>3. cmd.age \in 0..Window /\ cmd.waited \in 0..Window /\ 0 \in 0..Window
        BY SidecarsAssumption DEF CmdType
      <4> QED BY <4>1, <4>2, <4>3
    <3>2. trouble' \in 0..MaxTrouble /\ failures' \subseteq Names /\ stateFile' \in BOOLEAN
      BY <2>0, <3>1, InspectFacts
    <3>3. CASE Return
      BY <2>0, <3>2, <3>3, LookingSInv DEF Return
    <3>4. CASE cmd' = [cmd EXCEPT !.age = age, !.waited = waited]
      <4>1. cmd' \in CmdType
        BY <3>1, <3>4 DEF CmdType
      <4>2. UNCHANGED <<cmd.pc, cmd.op, cmd.name, cmd.desired, cmd.todo, cmd.fails, cmd.applied,
                        cmd.err>>
        BY <3>4 DEF CmdType
      <4>3. cmd.op # "status"
        BY <2>0 DEF CommandShape
      <4> QED BY <2>0, <3>2, <4>1, <4>2, <4>3, LookingSInv
    <3> QED BY <3>1, <3>3, <3>4
  <2> QED BY <2>1, <2>2
<1> QED BY <1>1, <1>2

\* The ends of the lifecycle commands.  Only destroy leads to initialized, and only
\* where its cleanup has no error: nothing is left on a host then, and a VM is gone.
LEMMA FinishSInv ==
    ASSUME SInv, FinishStart \/ FinishReconcile \/ FinishStop \/ FinishFailstop \/ FinishDestroy
    PROVE  SInv'
<1> USE DEF SInv, TInv
<1>a. cmd.pc = "finish" /\ workflow # "initialized" /\ UNCHANGED <<runtime, document>>
  BY DEF FinishStart, FinishReconcile, FinishStop, FinishFailstop, FinishDestroy, Within
<1>b. trouble' \in 0..MaxTrouble
  BY TroubleType
     DEF FinishStart, FinishReconcile, FinishStop, FinishFailstop, FinishDestroy, StopWorks,
         StopFails, TypeOK
<1>c. ASSUME RuntimeStops
      PROVE  /\ host' \in BOOLEAN /\ db' \in BOOLEAN /\ attach' = "absent"
             /\ ctr' \in [Names -> [is : {"none", "up", "down"}, version : 0..2, port : 0..2]]
             /\ \A n \in Names : ctr[n].is = "none" => ctr'[n].is = "none"
  <2>1. host' \in BOOLEAN /\ db' \in BOOLEAN /\ attach' = "absent"
    BY <1>c DEF RuntimeStops, TypeOK
  <2>2. /\ ctr' \in [Names -> [is : {"none", "up", "down"}, version : 0..2, port : 0..2]]
        /\ \A n \in Names : ctr[n].is = "none" => ctr'[n].is = "none"
    BY <1>c DEF RuntimeStops, TypeOK
  <2> QED BY <2>1, <2>2
\* Whatever returns without a container more is fine, apart from a destroy.
<1>d. ASSUME cmd' = NoCmd, workflow' # "initialized",
             workflow' \in {"initialized", "deploying", "failed", "running", "stopped", "starting",
                            "stopping", "destroying", "int_start", "int_stop", "int_destroy"},
             host' \in BOOLEAN, db' \in BOOLEAN,
             attach' \in {"absent", "legacy", "lacking", "bridged", "joined"},
             ctr' \in [Names -> [is : {"none", "up", "down"}, version : 0..2, port : 0..2]],
             \A n \in Names : ctr[n].is = "none" => ctr'[n].is = "none",
             fwd' \in [Names -> 0..2], \A n \in Names : fwd'[n] \in {0, fwd[n]},
             UNCHANGED records
      PROVE  SInv'
  <2>1. TypeOK'
    BY <1>a, <1>b, <1>d, Returned DEF TypeOK, CmdType, document, records
  <2>2. Standing'
    BY <1>a, <1>d DEF Standing, document
  <2> QED BY <1>d, <2>1, <2>2, Returned
<1>1. CASE FinishStart
  <2>0. UNCHANGED <<runtime, document, records, machine, ctr, fwd>>
    BY <1>1 DEF FinishStart
  <2>1. CASE cmd' = NoCmd /\ workflow' \in {"running", "failed"}
    BY <2>0, <2>1, <1>d DEF machine, TypeOK
  <2>2. CASE UNCHANGED workflow /\ cmd' = [NoCmd EXCEPT !.pc = "apply", !.op = "failstop"]
    BY <2>0, <2>2, <1>a, <1>b, ReconcileBegins DEF machine, TypeOK, Reconciles, Cleanups
  <2> QED BY <1>1, <2>1, <2>2 DEF FinishStart, Return
<1>2. CASE FinishReconcile
  BY <1>2, <1>a, <1>d DEF FinishReconcile, Return, machine, TypeOK
<1>3. CASE FinishStop
  <2>0. UNCHANGED <<runtime, document, records, fwd>>
    BY <1>3 DEF FinishStop
  <2>1. CASE RuntimeStops /\ workflow' = "stopped" /\ cmd' = NoCmd
    BY <2>0, <2>1, <1>c, <1>d DEF TypeOK
  <2>2. CASE /\ UNCHANGED <<machine, ctr, workflow>>
             /\ cmd' = [NoCmd EXCEPT !.pc = "apply", !.op = "failstop"]
    BY <2>0, <2>2, <1>a, <1>b, ReconcileBegins DEF machine, TypeOK, Reconciles, Cleanups
  <2>3. CASE UNCHANGED <<machine, ctr>> /\ workflow' = "stopped" /\ cmd' = NoCmd
    BY <2>0, <2>3, <1>d DEF TypeOK, machine
  <2> QED BY <1>3, <2>1, <2>2, <2>3 DEF FinishStop, Return
<1>4. CASE FinishFailstop
  <2>0. /\ UNCHANGED <<runtime, document, records, fwd>> /\ cmd' = NoCmd
        /\ workflow' \in {"stopped", "int_start", "int_stop"}
    BY <1>4 DEF FinishFailstop, Return
  <2>1. CASE RuntimeStops
    BY <2>0, <2>1, <1>c, <1>d DEF TypeOK
  <2>2. CASE UNCHANGED <<machine, ctr>>
    BY <2>0, <2>2, <1>d DEF TypeOK, machine
  <2> QED BY <1>4, <2>1, <2>2 DEF FinishFailstop
<1>5. CASE FinishDestroy
  <2>0. cmd' = NoCmd
    BY <1>5 DEF FinishDestroy, Return
  <2>1. CASE UNCHANGED <<machine, ctr, fwd, records>> /\ workflow' = "int_destroy"
    BY <2>0, <2>1, <1>d DEF TypeOK, machine
  <2>2. CASE StopWorks /\ RuntimeDestroyed
    <3>1. host' \in BOOLEAN /\ db' \in BOOLEAN /\ attach' = "absent"
      BY <2>2 DEF RuntimeDestroyed, TypeOK
    <3>2. /\ ctr' \in [Names -> [is : {"none", "up", "down"}, version : 0..2, port : 0..2]]
          /\ \A n \in Names : ctr[n].is = "none" => ctr'[n].is = "none"
          /\ fwd' \in [Names -> 0..2]
          /\ \A n \in Names : fwd'[n] \in {0, fwd[n]}
      BY <2>2 DEF RuntimeDestroyed, TypeOK, NoCtr
    <3>3. CASE workflow' = "int_destroy" /\ UNCHANGED records
      BY <2>0, <3>1, <3>2, <3>3, <1>d
    <3>4. CASE SidecarsCleaned /\ workflow' = "initialized" /\ failures' = {} /\ stateFile' = FALSE
      <4>1. \A n \in Names : ctr'[n].is = "none" /\ fwd'[n] = 0
        <5>1. CASE runtime = "vm"
          BY <5>1, <2>2 DEF RuntimeDestroyed, NoCtr
        <5>2. CASE runtime = "host"
          <6>1. host /\ UNCHANGED <<ctr, fwd>>
            BY <5>2, <2>2 DEF StopWorks, CanStop, RuntimeDestroyed
          <6>2. cmd.op \in Cleanups /\ cmd.desired = {} /\ cmd.err = "none"
            BY <1>5, <3>4 DEF FinishDestroy, SidecarsCleaned, CommandShape, Cleanups
          <6>3. \A n \in Names : ctr[n].is = "none"
            BY <6>1, <6>2, <1>a DEF Progress, Within, CmdType
          <6> QED BY <5>2, <6>1, <6>3 DEF Standing
        <5> QED BY <5>1, <5>2, SidecarsAssumption DEF TypeOK
      <4>2. stateFile' \in BOOLEAN
        BY <3>4
      <4>3. TypeOK'
        BY <1>a, <1>b, <2>0, <3>1, <3>2, <3>4, <4>2, Returned DEF TypeOK, CmdType, document
      <4>4. Standing'
        BY <1>a, <3>4, <4>1 DEF Standing, document
      <4> QED BY <2>0, <4>3, <4>4, Returned
    <3> QED BY <1>5, <2>2, <3>3, <3>4, <1>a DEF FinishDestroy
  <2> QED BY <1>5, <2>1, <2>2 DEF FinishDestroy
<1> QED BY <1>1, <1>2, <1>3, <1>4, <1>5

\* Every step keeps the invariant.
LEMMA NextSInv == SInv /\ [Next]_vars => SInv'
<1> SUFFICES ASSUME SInv, [Next]_vars PROVE SInv'
  OBVIOUS
<1>1. CASE Step
  BY <1>1, ApplySInv, EnsureSInv, EnsureDoneSInv, RemoveUndesiredSInv, PublishSInv, RecordSInv,
     StatusSInv, VerifyAwaitSInv, FinishSInv DEF Step
<1>2. CASE UNCHANGED vars
  <2>1. TypeOK'
    BY <1>2 DEF SInv, TInv, TypeOK, vars, document, records, machine
  <2> QED BY <1>2, <2>1, Around DEF vars, machine
<1> QED BY <1>1, <1>2, CommandSInv, EnvironmentSInv DEF Next

\* The invariant holds in every reachable state.
LEMMA Invariance == Spec => []SInv
  BY InitSInv, NextSInv, PTL DEF Spec

-----------------------------------------------------------------------------
(* The theorems *)

\* The variables always have their types, whatever fails or is killed.
THEOREM SidecarsTypeCorrect == Spec => []TypeOK
<1>1. SInv => TypeOK
  BY DEF SInv, TInv
<1> QED BY <1>1, Invariance, PTL

\* A reconciliation that reports no failure has converged, for any number of sidecars
\* and of failures before it: applySidecars leaves no wanted sidecar out, no other one
\* behind and no forward to a port that is not its sidecar's.
THEOREM ReconciliationConverges == Spec => []Converged
<1>1. SInv => Converged
  <2> SUFFICES ASSUME SInv, cmd.pc = "finish" \/ (cmd.pc = "status" /\ cmd.op \in Mutations),
                      cmd.applied, cmd.err = "none", NEW n \in Names
               PROVE  /\ n \in cmd.desired => ctr[n].is # "none" /\ ctr[n].version = version[n]
                      /\ n \notin cmd.desired => ctr[n].is = "none"
                      /\ fwd[n] \in {0, ctr[n].port}
    BY DEF Converged
  <2>1. cmd.op # "status" /\ cmd.todo = {} /\ cmd.fails = {}
    BY DEF SInv, TInv, CommandShape, Progress, Mutations, Reconciles, Cleanups
  <2> QED BY <2>1 DEF SInv, Progress
<1> QED BY <1>1, Invariance, PTL

\* An initialized deployment has no sidecar container and no forward, whichever step of
\* the destroy that led to it, or of anything before, had failed.
THEOREM DestroyLeavesNothing == Spec => []InitializedIsEmpty
<1>1. SInv => InitializedIsEmpty
  BY DEF SInv, Standing, InitializedIsEmpty
<1> QED BY <1>1, Invariance, PTL

\* A disable on a running deployment that ends without recording a failure has removed
\* the container: the action property of the verify step.
THEOREM DisableRemoves == Spec => DisabledIsGone
<1>1. SInv /\ [Next]_vars =>
         [/\ cmd.pc = "verify" /\ cmd'.pc = "idle" /\ trouble' = trouble
          /\ ~Deferred /\ cmd.name \notin failures'
          => ctr[cmd.name].is = "none"]_vars
  <2> SUFFICES ASSUME SInv, Next, cmd.pc = "verify", cmd'.pc = "idle", trouble' = trouble,
                      ~Deferred, cmd.name \notin failures'
               PROVE  ctr[cmd.name].is = "none"
    OBVIOUS
  <2>1. VerifyDisable
    <3>1. ~Command
      BY DEF Command, EnableSidecar, DisableSidecar, GetSidecarStatus, GetAllSidecarStatus,
             StartRuntime, ReconcileOnly, StopRuntime
    <3>2. ~Environment
      <4>1. ~Trouble
        BY DEF Trouble, SInv, TInv, TypeOK
      <4>2. cmd' # cmd
        OBVIOUS
      <4> QED BY <4>1, <4>2 DEF Environment, Crash, HandEdit, HostStops, HostReturns,
                                ContainerEnds, ContainerRestarts
    <3> QED BY <3>1, <3>2
            DEF Next, Step, ApplySidecars, Ensure, EnsureDone, RemoveUndesired, Publish,
                RecordApply, RecordReconcile, Status, AwaitHealth, FinishStart,
                FinishReconcile, FinishStop, FinishFailstop, FinishDestroy
  <2>2. Verified
    BY <2>1 DEF VerifyDisable, RecordFailures, WriteSidecarState
  <2> QED BY <2>2 DEF Verified, SInv, Disabling
<1> QED BY <1>1, Invariance, PTL DEF Spec, DisabledIsGone
=============================================================================
