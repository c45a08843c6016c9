----------------------------- MODULE SLCProofs ------------------------------
(***************************************************************************)
(* Theorems about SLC, for any processes, aliases, catalogs and requests:  *)
(*                                                                         *)
(*   NoAliasTwice     no alias is ever provided by two containers, however *)
(*                    the commands overwrite each other's changes          *)
(*   SLCTypeCorrect, PackagesKept, ListIsTrue, SuccessIsTrue and           *)
(*   StartActivates   where nobody runs an official command next to        *)
(*                    another one (OfficialAlone)                          *)
(*                                                                         *)
(* The first rests on AInv: every copy of the state file that a command    *)
(* holds passes the checks that were made on it.  The others rest on LInv  *)
(* as well: what a command relies on between two of its steps (Fits), and  *)
(* that nobody else changes it, since the command holds the lock or runs   *)
(* alone.                                                                  *)
(***************************************************************************)
EXTENDS SLC, TLAPS

-----------------------------------------------------------------------------
(* Types *)

Workflows == {"initialized", "deploying", "failed", "running", "stopped", "starting",
              "stopping", "destroying", "interrupted"}
Entries == UNION {Catalog[r] : r \in DOMAIN Catalog}
Languages == {req.language : req \in Requests} \cup {""}
SLCType == [digest : Nat, language : Languages, aliases : SUBSET Aliases, activated : BOOLEAN,
            displaced : BOOLEAN]
FileType == [wf : Workflows, off : SUBSET Entries, cus : [Aliases -> SLCType]]
ReqType == [alias : Aliases, digest : Nat, language : Languages, aliases : SUBSET Aliases]

\* The steps a command takes without the deployment lock, and those with it.
Loose == {"idle", "confirm", "apply", "stop", "start", "verify"}
Held == {"fetch", "record", "supersede", "deactivate", "drop", "unstage", "stopping", "run",
         "commit", "reconcile", "activate", "destroy"}

CmdType ==
    [pc : Loose \cup Held,
     op : Official \cup {"none", "custom", "uncustom", "start", "stop", "deploy", "destroy"},
     restart : BOOLEAN, off : SUBSET Entries, image : {e.image : e \in Entries} \cup {<<"", 0>>},
     req : ReqType, snap : FileType, mounted : BOOLEAN]

-----------------------------------------------------------------------------
(* The aliases *)

\* AliasesDisjoint for any copy of the state file.
Disjoint(f) ==
    /\ \A x, y \in f.off : x # y => x.aliases \cap y.aliases = {}
    /\ \A a \in Recorded(f) :
          /\ \A x \in f.off : x.aliases \cap CustomAliases(f, a) = {}
          /\ \A b \in Recorded(f) \ {a} : CustomAliases(f, a) \cap CustomAliases(f, b) = {}

\* A copy that a command holds is as good as the file: the checks that were made on it
\* make up for what the command is about to write.
CopyOK(c) ==
    /\ c.pc = "idle" => c = NoCmd
    /\ c.pc = "confirm" => c.op \in Official /\ Disjoint([c.snap EXCEPT !.off = c.off])
    /\ c.pc = "record" => NoAliasConflict(c.snap, c.req)
    /\ Disjoint(c.snap)

Types ==
    /\ release \in DOMAIN Catalog
    /\ file \in FileType
    /\ cmd \in [Procs -> CmdType]
    /\ langs \in [Aliases -> (Aliases \cup {"none", "builtin"}) \X Languages]
    /\ up \in BOOLEAN /\ wiped \cup half \subseteq Aliases
    /\ count \in 0..MaxCommands /\ trouble \in 0..MaxTrouble

AInv == Types /\ Disjoint(file) /\ \A p \in Procs : CopyOK(cmd[p])

\* A process without a command.
LEMMA NoCmdType == NoCmd \in CmdType /\ NoCmd.pc = "idle"
<1>1. Empty \in FileType
  BY DEF Empty, FileType, Workflows, NoSLC, SLCType, Languages
<1>2. NoRequest \in ReqType
  BY SLCAssumption DEF NoRequest, ReqType, Languages
<1> QED BY <1>1, <1>2 DEF NoCmd, CmdType, Loose

\* A step of one process to another point.
LEMMA GoFacts ==
    ASSUME cmd \in [Procs -> CmdType], NEW p \in Procs, NEW pc \in Loose \cup Held, Go(p, pc)
    PROVE  /\ cmd' \in [Procs -> CmdType]
           /\ \A q \in Procs \ {p} : cmd'[q] = cmd[q]
           /\ cmd'[p].pc = pc
           /\ cmd'[p].op = cmd[p].op /\ cmd'[p].restart = cmd[p].restart
           /\ cmd'[p].off = cmd[p].off /\ cmd'[p].req = cmd[p].req
           /\ cmd'[p].snap = cmd[p].snap /\ cmd'[p].mounted = cmd[p].mounted
<1>1. cmd' = [cmd EXCEPT ![p] = [cmd[p] EXCEPT !.pc = pc]]
  BY DEF Go
<1>2. [cmd[p] EXCEPT !.pc = pc] \in CmdType
  BY DEF CmdType
<1>3. cmd' \in [Procs -> CmdType] /\ cmd'[p] = [cmd[p] EXCEPT !.pc = pc]
      /\ \A q \in Procs \ {p} : cmd'[q] = cmd[q]
  BY <1>1, <1>2
<1>4. cmd[p] \in CmdType
  OBVIOUS
<1> HIDE DEF Go
<1> QED BY <1>3, <1>4 DEF CmdType

\* A step of one process to another point, with a new copy of the file.
LEMMA CopyFacts ==
    ASSUME cmd \in [Procs -> CmdType], NEW p \in Procs, NEW pc \in Loose \cup Held,
           cmd'[p].snap \in FileType,
           cmd' = [cmd EXCEPT ![p] = [cmd[p] EXCEPT !.pc = pc, !.snap = cmd'[p].snap]]
    PROVE  /\ cmd' \in [Procs -> CmdType]
           /\ \A q \in Procs \ {p} : cmd'[q] = cmd[q]
           /\ cmd'[p].pc = pc
           /\ cmd'[p].op = cmd[p].op /\ cmd'[p].req = cmd[p].req
           /\ cmd'[p].mounted = cmd[p].mounted
<1> DEFINE f == cmd'[p].snap
<1>0. cmd' = [cmd EXCEPT ![p] = [cmd[p] EXCEPT !.pc = pc, !.snap = f]] /\ f \in FileType
  OBVIOUS
<1> HIDE DEF f
<1>1. cmd[p] \in CmdType
  OBVIOUS
<1>2. [cmd[p] EXCEPT !.pc = pc, !.snap = f] \in CmdType
  BY <1>0, <1>1 DEF CmdType
<1>3. /\ cmd' \in [Procs -> CmdType]
      /\ \A q \in Procs \ {p} : cmd'[q] = cmd[q]
      /\ cmd'[p] = [cmd[p] EXCEPT !.pc = pc, !.snap = f]
  BY <1>0, <1>2
<1> QED BY <1>1, <1>3 DEF CmdType

\* A command that ends.
LEMMA DoneFacts ==
    ASSUME cmd \in [Procs -> CmdType], NEW p \in Procs, Done(p)
    PROVE  /\ cmd' \in [Procs -> CmdType]
           /\ \A q \in Procs \ {p} : cmd'[q] = cmd[q]
           /\ cmd'[p] = NoCmd
  BY NoCmdType DEF Done

\* A command that begins.
LEMMA BeginFacts ==
    ASSUME cmd \in [Procs -> CmdType], NEW p \in Procs, NEW c \in CmdType, Begin(p, c),
           count \in 0..MaxCommands
    PROVE  /\ cmd' \in [Procs -> CmdType]
           /\ \A q \in Procs \ {p} : cmd'[q] = cmd[q]
           /\ cmd'[p] = c /\ cmd[p].pc = "idle"
           /\ count' \in 0..MaxCommands
           /\ OfficialAlone => \A q \in Procs \ {p} :
                 cmd[q].pc = "idle" \/ (cmd[q].op \notin Official /\ c.op \notin Official)
  BY SLCAssumption DEF Begin

\* The entries of SCRIPT_LANGUAGES that name no container.
LEMMA URITypes ==
    /\ BuiltinURI \in (Aliases \cup {"none", "builtin"}) \X Languages
    /\ NoURI \in (Aliases \cup {"none", "builtin"}) \X Languages
  BY DEF BuiltinURI, NoURI, Languages

\* A failure stays within the bound.
LEMMA TroubleType == ASSUME Types, Trouble PROVE trouble' \in 0..MaxTrouble
  BY SLCAssumption DEF Types, Trouble

\* Only the entries and their aliases count.
LEMMA SameAliases ==
    ASSUME NEW f, NEW g, f.off = g.off, Disjoint(f),
           \A a \in Aliases : /\ f.cus[a] = NoSLC <=> g.cus[a] = NoSLC
                              /\ f.cus[a].aliases = g.cus[a].aliases
    PROVE  Disjoint(g)
  BY DEF Disjoint, Recorded, CustomAliases

\* Changing the workflow state.
LEMMA WorkflowWrite ==
    ASSUME NEW f \in FileType, NEW wf \in Workflows
    PROVE  /\ [f EXCEPT !.wf = wf] \in FileType
           /\ [f EXCEPT !.wf = wf].cus = f.cus
           /\ Disjoint(f) => Disjoint([f EXCEPT !.wf = wf])
<1>1. /\ [f EXCEPT !.wf = wf] \in FileType
      /\ [f EXCEPT !.wf = wf].cus = f.cus /\ [f EXCEPT !.wf = wf].off = f.off
  BY DEF FileType
<1> QED BY <1>1, SameAliases

\* An empty record of containers.
LEMMA EmptyOK == Disjoint(Empty) /\ CopyOK(NoCmd)
<1>1. Disjoint(Empty)
  BY DEF Disjoint, Recorded, Empty, NoSLC
<1>2. NoCmd.pc = "idle" /\ NoCmd.snap = Empty
  BY DEF NoCmd
<1> QED BY <1>1, <1>2 DEF CopyOK

\* A step of one process.
LEMMA ProcessStep ==
    ASSUME AInv, NEW p \in Procs, cmd' \in [Procs -> CmdType],
           \A q \in Procs \ {p} : cmd'[q] = cmd[q],
           CopyOK(cmd'[p]), file' \in FileType, Disjoint(file'), release' \in DOMAIN Catalog,
           langs' \in [Aliases -> (Aliases \cup {"none", "builtin"}) \X Languages],
           up' \in BOOLEAN, wiped' \cup half' \subseteq Aliases,
           count' \in 0..MaxCommands, trouble' \in 0..MaxTrouble
    PROVE  AInv'
<1>1. Types'
  BY DEF Types
<1>2. Disjoint(file)'
  BY DEF Disjoint, Recorded, CustomAliases
<1>3. \A q \in Procs : CopyOK(cmd[q])'
  BY DEF AInv, CopyOK, Disjoint, Recorded, CustomAliases, NoAliasConflict, ArchiveAliases
<1> QED BY <1>1, <1>2, <1>3 DEF AInv

\* The entry that is installed clashes with no other flavor and with no custom container.
LEMMA UpsertDisjoint ==
    ASSUME NEW f \in FileType, Disjoint(f), NEW e \in Entries, NEW gone \in SUBSET f.off,
           NotHeldByCustom(f, e), CheckInstallable(f.off \ gone, e)
    PROVE  /\ Upsert(f.off \ gone, e) \in SUBSET Entries
           /\ Disjoint([f EXCEPT !.off = Upsert(f.off \ gone, e)])
<1> DEFINE off == Upsert(f.off \ gone, e)
           g == [f EXCEPT !.off = off]
<1>1. off \in SUBSET Entries
  BY DEF Upsert, FileType
<1>2. g.off = off /\ g.cus = f.cus
  BY DEF FileType
<1>3. \A x \in off : x = e \/ (x \in f.off /\ x.aliases \cap e.aliases = {})
  BY DEF Upsert, CheckInstallable
<1>4. /\ \A x, y \in f.off : x # y => x.aliases \cap y.aliases = {}
      /\ \A a \in Recorded(f) :
            /\ \A x \in f.off : x.aliases \cap CustomAliases(f, a) = {}
            /\ \A b \in Recorded(f) \ {a} : CustomAliases(f, a) \cap CustomAliases(f, b) = {}
            /\ e.aliases \cap CustomAliases(f, a) = {}
  BY DEF Disjoint, NotHeldByCustom
<1>5. Recorded(g) = Recorded(f) /\ \A a : CustomAliases(g, a) = CustomAliases(f, a)
  BY <1>2 DEF Recorded, CustomAliases
<1> HIDE DEF off, g
<1>6. \A x, y \in off : x # y => x.aliases \cap y.aliases = {}
  BY <1>3, <1>4
<1>7. \A a \in Recorded(f) : \A x \in off : x.aliases \cap CustomAliases(f, a) = {}
  BY <1>3, <1>4
<1>8. Disjoint(g)
  BY <1>2, <1>4, <1>5, <1>6, <1>7 DEF Disjoint
<1> QED BY <1>1, <1>8 DEF off, g

\* The container that is recorded clashes with no other one.
LEMMA RecordDisjoint ==
    ASSUME NEW f \in FileType, Disjoint(f), NEW a \in Aliases, NEW r \in SLCType,
           NEW req \in ReqType, req.alias = a, r.aliases = req.aliases, NoAliasConflict(f, req)
    PROVE  Disjoint([f EXCEPT !.cus[a] = r]) /\ [f EXCEPT !.cus[a] = r] \in FileType
<1> DEFINE g == [f EXCEPT !.cus[a] = r]
<1>1. g \in FileType /\ g.off = f.off /\ g.cus = [f.cus EXCEPT ![a] = r]
  BY DEF FileType
<1>2. /\ g.cus[a] = r
      /\ \A b \in Aliases \ {a} : g.cus[b] = f.cus[b]
  BY <1>1 DEF FileType
<1> HIDE DEF g
<1>3. /\ CustomAliases(g, a) = ArchiveAliases(req)
      /\ \A b \in Aliases \ {a} : CustomAliases(g, b) = CustomAliases(f, b)
      /\ Recorded(g) \ {a} = Recorded(f) \ {a} /\ Recorded(g) \subseteq Aliases
  BY <1>2 DEF CustomAliases, ArchiveAliases, Recorded
<1>4. /\ \A x \in f.off : x.aliases \cap ArchiveAliases(req) = {}
      /\ \A b \in Recorded(f) \ {a} : CustomAliases(f, b) \cap ArchiveAliases(req) = {}
  BY DEF NoAliasConflict
<1>5. \A x, y \in f.off : x # y => x.aliases \cap y.aliases = {}
  BY DEF Disjoint
<1>6. \A b \in Recorded(g) : \A x \in g.off : x.aliases \cap CustomAliases(g, b) = {}
  BY <1>1, <1>3, <1>4 DEF Disjoint
<1>7. \A b \in Recorded(g) : \A c \in Recorded(g) \ {b} :
         CustomAliases(g, b) \cap CustomAliases(g, c) = {}
  <2> SUFFICES ASSUME NEW b \in Recorded(g), NEW c \in Recorded(g), c # b
               PROVE  CustomAliases(g, b) \cap CustomAliases(g, c) = {}
    OBVIOUS
  <2>1. CASE b = a
    BY <2>1, <1>3, <1>4
  <2>2. CASE c = a
    BY <2>2, <1>3, <1>4
  <2>3. CASE b # a /\ c # a
    <3>1. b \in Recorded(f) /\ c \in Recorded(f) \ {b}
      BY <2>3, <1>3
    <3> QED BY <2>3, <3>1, <1>3 DEF Disjoint
  <2> QED BY <2>1, <2>2, <2>3
<1> QED BY <1>1, <1>5, <1>6, <1>7 DEF Disjoint, g

\* So does a file from which a container is dropped.
LEMMA DropDisjoint ==
    ASSUME NEW f \in FileType, Disjoint(f), NEW a \in Aliases
    PROVE  Disjoint([f EXCEPT !.cus[a] = NoSLC]) /\ [f EXCEPT !.cus[a] = NoSLC] \in FileType
<1> DEFINE g == [f EXCEPT !.cus[a] = NoSLC]
<1>0. NoSLC \in SLCType
  BY DEF NoSLC, SLCType, Languages
<1>1. g \in FileType /\ g.off = f.off /\ g.cus = [f.cus EXCEPT ![a] = NoSLC]
  BY <1>0 DEF FileType
<1>2. /\ g.cus[a] = NoSLC
      /\ \A b \in Aliases \ {a} : g.cus[b] = f.cus[b]
  BY <1>1 DEF FileType
<1> HIDE DEF g
<1>3. Recorded(g) = Recorded(f) \ {a} /\ \A b \in Recorded(g) : CustomAliases(g, b) = CustomAliases(f, b)
  BY <1>2 DEF CustomAliases, Recorded
<1>4. Disjoint(g)
  BY <1>1, <1>3 DEF Disjoint
<1> QED BY <1>1, <1>4 DEF g

\* A command that is begun with a good copy of the file, and leaves all else alone.
LEMMA BeginStep ==
    ASSUME AInv, NEW p \in Procs, NEW c \in CmdType, CopyOK(c), Begin(p, c),
           UNCHANGED <<release, up, langs, wiped, half, trouble>>,
           file' \in FileType, Disjoint(file')
    PROVE  AInv'
<1>1. /\ cmd' \in [Procs -> CmdType]
      /\ \A q \in Procs \ {p} : cmd'[q] = cmd[q]
      /\ cmd'[p] = c /\ count' \in 0..MaxCommands
  BY BeginFacts DEF AInv, Types
<1> QED BY <1>1, ProcessStep DEF AInv, Types

\* The commands as they begin.
OfficialCmd(op, restart, off, image) ==
    [NoCmd EXCEPT !.pc = "confirm", !.op = op, !.restart = restart, !.off = off,
                  !.image = image, !.snap = file]
RemoveCmd(restart, off) ==
    [NoCmd EXCEPT !.pc = "confirm", !.op = "unofficial", !.restart = restart, !.off = off,
                  !.snap = file]
StageCmd(req, restart) ==
    [[NoCmd EXCEPT !.pc = "fetch", !.op = "custom", !.restart = restart, !.req = req]
        EXCEPT !.snap = file]
UncustomCmd(a, pc) ==
    [[NoCmd EXCEPT !.op = "uncustom", !.req.alias = a, !.pc = pc] EXCEPT !.snap = file]
LockedCmd(op, pc) == [[NoCmd EXCEPT !.op = op, !.pc = pc] EXCEPT !.snap = file]
LooseCmd(op) == [NoCmd EXCEPT !.op = op, !.pc = op]

\* What they carry.
LEMMA OfficialCmdFacts ==
    ASSUME Types, NEW restart \in BOOLEAN, NEW off \in SUBSET Entries,
           NEW image \in {e.image : e \in Entries}
    PROVE  LET c == OfficialCmd("official", restart, off, image) IN
           c \in CmdType /\ c.pc = "confirm" /\ c.op = "official" /\ c.off = off /\ c.snap = file
  BY NoCmdType DEF Types, OfficialCmd, CmdType, Official, Loose

\* The same for the other commands.
LEMMA CmdFacts ==
    ASSUME Types, NEW restart \in BOOLEAN, NEW off \in SUBSET Entries
    PROVE  /\ LET c == RemoveCmd(restart, off) IN
                 c \in CmdType /\ c.pc = "confirm" /\ c.op = "unofficial" /\ c.off = off /\ c.snap = file
           /\ \A req \in Requests : LET c == StageCmd(req, restart) IN
                 c \in CmdType /\ c.pc = "fetch" /\ c.op = "custom" /\ c.req = req /\ c.snap = file
           /\ \A a \in Aliases, pc \in {"deactivate", "drop"} : LET c == UncustomCmd(a, pc) IN
                 c \in CmdType /\ c.pc = pc /\ c.op = "uncustom" /\ c.req.alias = a /\ c.snap = file
           /\ LET c == LockedCmd("deploy", "run") IN
                 c \in CmdType /\ c.pc = "run" /\ c.op = "deploy" /\ c.snap = file
           /\ LET c == LockedCmd("destroy", "destroy") IN
                 c \in CmdType /\ c.pc = "destroy" /\ c.op = "destroy" /\ c.snap = file
           /\ \A op \in {"start", "stop"} : LET c == LooseCmd(op) IN
                 c \in CmdType /\ c.pc = op /\ c.op = op /\ c.snap = Empty
<1> USE DEF CmdType
<1>0. file \in FileType /\ Requests \subseteq ReqType /\ NoCmd.snap = Empty
  BY SLCAssumption DEF Types, ReqType, Languages, NoCmd
<1>1. LET c == RemoveCmd(restart, off) IN
      c \in CmdType /\ c.pc = "confirm" /\ c.op = "unofficial" /\ c.off = off /\ c.snap = file
  BY <1>0, NoCmdType DEF RemoveCmd, Official, Loose
<1>2. ASSUME NEW req \in Requests
      PROVE  LET c == StageCmd(req, restart) IN
             c \in CmdType /\ c.pc = "fetch" /\ c.op = "custom" /\ c.req = req /\ c.snap = file
  BY <1>0, NoCmdType DEF StageCmd, Held
<1>3. ASSUME NEW a \in Aliases, NEW pc \in {"deactivate", "drop"}
      PROVE  LET c == UncustomCmd(a, pc) IN
             c \in CmdType /\ c.pc = pc /\ c.op = "uncustom" /\ c.req.alias = a /\ c.snap = file
  BY <1>0, NoCmdType DEF UncustomCmd, ReqType, Held
<1>4. LET c == LockedCmd("deploy", "run") IN
      c \in CmdType /\ c.pc = "run" /\ c.op = "deploy" /\ c.snap = file
  BY <1>0, NoCmdType DEF LockedCmd, Held
<1>5. LET c == LockedCmd("destroy", "destroy") IN
      c \in CmdType /\ c.pc = "destroy" /\ c.op = "destroy" /\ c.snap = file
  BY <1>0, NoCmdType DEF LockedCmd, Held
<1>6. ASSUME NEW op \in {"start", "stop"}
      PROVE  LET c == LooseCmd(op) IN
             c \in CmdType /\ c.pc = op /\ c.op = op /\ c.snap = Empty
  BY <1>0, NoCmdType DEF LooseCmd, Loose
<1> QED BY <1>1, <1>2, <1>3, <1>4, <1>5, <1>6

\* What every command does as it begins: it takes a copy of the file, where it writes one
\* back, and the lock, where it needs it.
Begins(p, c) ==
    /\ Begin(p, c) /\ CopyOK(c)
    /\ c.pc \in {"confirm", "fetch", "deactivate", "drop", "run", "destroy", "start", "stop"}
    /\ c.pc = "confirm" <=> c.op \in Official
    /\ c.pc \in {"start", "stop"} \/ c.snap = file
    /\ IF c.pc \in Held THEN lock = "free" /\ lock' = p ELSE UNCHANGED lock
    /\ c.pc = "deactivate" => c.req.alias \in Recorded(file) /\ file.cus[c.req.alias].activated
    /\ file' = file \/ \E wf \in Workflows : file' = [file EXCEPT !.wf = wf]
    /\ UNCHANGED <<release, up, langs, files, wiped, half, trouble>>

\* Every command begins so.
LEMMA CommandFacts ==
    ASSUME AInv, NEW p \in Procs, Command(p) PROVE \E c \in CmdType : Begins(p, c)
<1> USE DEF AInv, Types
<1>0. "confirm" \notin Held /\ "start" \notin Held /\ "stop" \notin Held
  BY DEF Held
<1>1. ASSUME NEW e \in Entries, NEW gone \in SUBSET file.off, NEW restart \in BOOLEAN,
             NotHeldByCustom(file, e), CheckInstallable(file.off \ gone, e),
             Begin(p, OfficialCmd("official", restart, Upsert(file.off \ gone, e), e.image)),
             UNCHANGED <<release, file, lock, up, langs, files, wiped, half, trouble>>
      PROVE  \E c \in CmdType : Begins(p, c)
  <2> DEFINE off == Upsert(file.off \ gone, e)
             c == OfficialCmd("official", restart, off, e.image)
  <2>1. off \in SUBSET Entries /\ Disjoint([file EXCEPT !.off = off])
    BY <1>1, UpsertDisjoint
  <2> HIDE DEF off
  <2>2. c \in CmdType /\ c.pc = "confirm" /\ c.op = "official" /\ c.off = off /\ c.snap = file
    <3>1. e.image \in {x.image : x \in Entries}
      OBVIOUS
    <3> QED BY <2>1, <3>1, OfficialCmdFacts
  <2>3. Begin(p, c)
    BY <1>1 DEF off
  <2> HIDE DEF c
  <2>4. CopyOK(c)
    BY <2>1, <2>2 DEF CopyOK, Official
  <2>5. Begins(p, c)
    BY <1>0, <1>1, <2>2, <2>3, <2>4 DEF Begins, Official
  <2> QED BY <2>2, <2>5
<1>2. ASSUME NEW restart \in BOOLEAN, NEW e \in Catalog[release],
             InstallSLC(p, e, restart) \/ UpdateSLC(p, e, restart)
      PROVE  \E c \in CmdType : Begins(p, c)
  <2>1. e \in Entries
    BY DEF Entries
  <2>2. CASE InstallSLC(p, e, restart)
    <3>1. {} \in SUBSET file.off /\ file.off \ {} = file.off
      OBVIOUS
    <3> QED BY <1>1, <2>1, <2>2, <3>1 DEF InstallSLC, OfficialCmd
  <2>3. CASE UpdateSLC(p, e, restart)
    <3>1. PICK x \in FindInstalled(file.off, e.language) :
             /\ CheckInstallable(file.off \ {x}, e)
             /\ Begin(p, OfficialCmd("official", restart, Upsert(file.off \ {x}, e), e.image))
      BY <2>3 DEF UpdateSLC, OfficialCmd
    <3>2. {x} \in SUBSET file.off
      BY DEF FindInstalled
    <3> QED BY <1>1, <2>1, <2>3, <3>1, <3>2 DEF UpdateSLC
  <2> QED BY <1>2, <2>2, <2>3
<1>3. ASSUME NEW x \in file.off, NEW restart \in BOOLEAN, RemoveSLC(p, x, restart)
      PROVE  \E c \in CmdType : Begins(p, c)
  <2> DEFINE off == file.off \ {x}
             c == RemoveCmd(restart, off)
  <2>1. off \in SUBSET Entries
    BY DEF FileType
  <2>2. c \in CmdType /\ c.pc = "confirm" /\ c.op = "unofficial" /\ c.off = off /\ c.snap = file
    BY <2>1, CmdFacts
  <2>3. /\ Begin(p, c)
        /\ UNCHANGED <<release, file, lock, up, langs, files, wiped, half, trouble>>
    BY <1>3 DEF RemoveSLC, RemoveCmd
  <2> HIDE DEF c
  <2>4. Disjoint([file EXCEPT !.off = off])
    <3>1. [file EXCEPT !.off = off].off = off /\ [file EXCEPT !.off = off].cus = file.cus
      BY DEF FileType
    <3> QED BY <3>1 DEF Disjoint, Recorded, CustomAliases
  <2>5. CopyOK(c)
    BY <2>2, <2>4 DEF CopyOK, Official
  <2>6. Begins(p, c)
    BY <1>0, <2>2, <2>3, <2>5 DEF Begins, Official
  <2> QED BY <2>2, <2>6
<1>4. ASSUME NEW req \in Requests, NEW restart \in BOOLEAN, StageCustom(p, req, restart)
      PROVE  \E c \in CmdType : Begins(p, c)
  <2> DEFINE c == StageCmd(req, restart)
  <2>1. c \in CmdType /\ c.pc = "fetch" /\ c.op = "custom" /\ c.snap = file
    BY CmdFacts
  <2>2. /\ Begin(p, c) /\ lock = "free" /\ lock' = p
        /\ UNCHANGED <<release, file, up, langs, files, wiped, half, trouble>>
    BY <1>4 DEF StageCustom, BeginLocked, StageCmd
  <2> HIDE DEF c
  <2>3. CopyOK(c)
    BY <2>1 DEF CopyOK
  <2>4. Begins(p, c)
    BY <2>1, <2>2, <2>3 DEF Begins, Official, Held
  <2> QED BY <2>1, <2>4
<1>5. ASSUME NEW a \in Aliases, RemoveCustomSLC(p, a)
      PROVE  \E c \in CmdType : Begins(p, c)
  <2>1. PICK pc \in {"deactivate", "drop"} :
           Begin(p, UncustomCmd(a, pc)) /\ (pc = "deactivate" => file.cus[a].activated)
    BY <1>5 DEF RemoveCustomSLC, BeginLocked, UncustomCmd
  <2> DEFINE c == UncustomCmd(a, pc)
  <2>2. c \in CmdType /\ c.pc = pc /\ c.op = "uncustom" /\ c.req.alias = a /\ c.snap = file
    BY CmdFacts
  <2>3. /\ Begin(p, c) /\ lock = "free" /\ lock' = p /\ a \in Recorded(file)
        /\ UNCHANGED <<release, file, up, langs, files, wiped, half, trouble>>
    BY <1>5, <2>1 DEF RemoveCustomSLC, BeginLocked, IsCustomSLCAlias
  <2> HIDE DEF c
  <2>4. CopyOK(c)
    BY <2>2 DEF CopyOK
  <2>5. c.pc = "deactivate" => c.req.alias \in Recorded(file) /\ file.cus[c.req.alias].activated
    BY <2>1, <2>2, <2>3
  <2>6. Begins(p, c)
    BY <2>2, <2>3, <2>4, <2>5 DEF Begins, Official, Held
  <2> QED BY <2>2, <2>6
<1>6. ASSUME NEW op \in {"start", "stop"}, BeginLifecycle(p, op)
      PROVE  \E c \in CmdType : Begins(p, c)
  <2> DEFINE c == LooseCmd(op)
  <2>1. c \in CmdType /\ c.pc = op /\ c.op = op /\ c.snap = Empty
    BY CmdFacts
  <2>2. Begin(p, c) /\ UNCHANGED <<release, file, lock, up, langs, files, wiped, half, trouble>>
    BY <1>6 DEF BeginLifecycle, LooseCmd
  <2> HIDE DEF c
  <2>3. CopyOK(c)
    BY <2>1, EmptyOK DEF CopyOK
  <2>4. Begins(p, c)
    BY <1>0, <2>1, <2>2, <2>3 DEF Begins, Official
  <2> QED BY <2>1, <2>4
<1>7. ASSUME NEW op \in {"deploy", "destroy"}, BeginLifecycle(p, op)
      PROVE  \E c \in CmdType : Begins(p, c)
  <2> DEFINE pc == IF op = "deploy" THEN "run" ELSE "destroy"
             c == LockedCmd(op, pc)
  <2>1. c \in CmdType /\ c.pc = pc /\ c.op = op /\ c.snap = file
    BY CmdFacts
  <2>2. /\ Begin(p, c) /\ lock = "free" /\ lock' = p
        /\ UNCHANGED <<release, up, langs, files, wiped, half, trouble>>
    BY <1>7 DEF BeginLifecycle, BeginLocked, LockedCmd
  <2>3. \E wf \in Workflows : file' = [file EXCEPT !.wf = wf]
    BY <1>7 DEF BeginLifecycle, Workflows
  <2> HIDE DEF c
  <2>4. CopyOK(c)
    BY <2>1 DEF CopyOK
  <2>5. Begins(p, c)
    BY <2>1, <2>2, <2>3, <2>4 DEF Begins, Official, Held
  <2> QED BY <2>1, <2>5
<1> QED BY <1>2, <1>3, <1>4, <1>5, <1>6, <1>7
        DEF Command, OfficialCommand, CustomCommand, InstallRustSLC, InstallCustomSLC, UpdateCustomSLC

\* Every command that begins keeps the invariant.
LEMMA CommandAInv == ASSUME AInv, NEW p \in Procs, Command(p) PROVE AInv'
<1>1. PICK c \in CmdType : Begins(p, c)
  BY CommandFacts
<1>2. file' \in FileType /\ Disjoint(file')
  BY <1>1, WorkflowWrite DEF AInv, Types, Begins
<1> QED BY <1>1, <1>2, BeginStep DEF Begins

\* A command that ends, or goes on with the copy it has.
LEMMA MoveStep ==
    ASSUME AInv, NEW p \in Procs,
           \/ Done(p)
           \/ \E pc \in (Loose \cup Held) \ {"idle", "confirm", "record"} : Go(p, pc),
           file' \in FileType, Disjoint(file'), UNCHANGED <<release, count>>,
           langs' \in [Aliases -> (Aliases \cup {"none", "builtin"}) \X Languages],
           up' \in BOOLEAN, wiped' \cup half' \subseteq Aliases, trouble' \in 0..MaxTrouble
    PROVE  AInv'
<1> USE DEF AInv, Types
<1>1. CASE Done(p)
  BY <1>1, DoneFacts, EmptyOK, ProcessStep
<1>2. ASSUME NEW pc \in (Loose \cup Held) \ {"idle", "confirm", "record"}, Go(p, pc) PROVE AInv'
  <2>1. /\ cmd' \in [Procs -> CmdType]
        /\ \A q \in Procs \ {p} : cmd'[q] = cmd[q]
        /\ cmd'[p].pc = pc /\ cmd'[p].snap = cmd[p].snap
    BY <1>2, GoFacts
  <2>2. CopyOK(cmd'[p])
    BY <2>1 DEF CopyOK
  <2> QED BY <2>1, <2>2, ProcessStep
<1> QED BY <1>1, <1>2

\* Writing the copy back with another workflow state.
LEMMA CopyWrite ==
    ASSUME AInv, NEW p \in Procs, NEW wf \in Workflows
    PROVE  /\ [cmd[p].snap EXCEPT !.wf = wf] \in FileType
           /\ [cmd[p].snap EXCEPT !.wf = wf].cus = cmd[p].snap.cus
           /\ Disjoint([cmd[p].snap EXCEPT !.wf = wf])
<1>1. cmd[p].snap \in FileType /\ Disjoint(cmd[p].snap)
  BY DEF AInv, Types, CmdType, CopyOK
<1> QED BY <1>1, WorkflowWrite

\* The start that notes whether it has mounted what it wanted.
LEMMA MountFacts ==
    ASSUME cmd \in [Procs -> CmdType], NEW p \in Procs, NEW mounted \in BOOLEAN,
           cmd' = [cmd EXCEPT ![p].pc = "commit", ![p].mounted = mounted]
    PROVE  /\ cmd' \in [Procs -> CmdType]
           /\ \A q \in Procs \ {p} : cmd'[q] = cmd[q]
           /\ cmd'[p].pc = "commit" /\ cmd'[p].snap = cmd[p].snap /\ cmd'[p].mounted = mounted
           /\ cmd'[p].op = cmd[p].op /\ cmd'[p].req = cmd[p].req
<1>1. cmd[p] \in CmdType
  OBVIOUS
<1>2. cmd' = [cmd EXCEPT ![p] = [cmd[p] EXCEPT !.pc = "commit", !.mounted = mounted]]
  OBVIOUS
<1>3. [cmd[p] EXCEPT !.pc = "commit", !.mounted = mounted] \in CmdType
  BY <1>1 DEF CmdType, Held
<1>4. /\ cmd' \in [Procs -> CmdType]
      /\ \A q \in Procs \ {p} : cmd'[q] = cmd[q]
      /\ cmd'[p] = [cmd[p] EXCEPT !.pc = "commit", !.mounted = mounted]
  BY <1>2, <1>3
<1> QED BY <1>1, <1>4 DEF CmdType

\* The copy reconcileCustomSLCActivation makes: the pending containers are active in it.
Activated ==
    [file EXCEPT !.cus = [a \in Aliases |->
        IF a \in Pending
        THEN [file.cus[a] EXCEPT !.activated = TRUE, !.displaced = @ \/ IsBuiltinURI(langs[a])]
        ELSE file.cus[a]]]

\* It records the same containers.
LEMMA ActivatedFacts ==
    ASSUME AInv
    PROVE  /\ Activated \in FileType /\ Disjoint(Activated)
           /\ \A a \in Aliases :
                 /\ Activated.cus[a].digest = file.cus[a].digest
                 /\ Activated.cus[a].language = file.cus[a].language
                 /\ Activated.cus[a].activated = (a \in Pending \/ file.cus[a].activated)
                 /\ Activated.cus[a] = NoSLC <=> file.cus[a] = NoSLC
                 /\ a \notin Pending => Activated.cus[a] = file.cus[a]
<1> DEFINE act(a) == [file.cus[a] EXCEPT !.activated = TRUE,
                                         !.displaced = @ \/ IsBuiltinURI(langs[a])]
           cus == [a \in Aliases |-> IF a \in Pending THEN act(a) ELSE file.cus[a]]
<1>1. file \in FileType /\ file.cus \in [Aliases -> SLCType]
  BY DEF AInv, Types, FileType
<1>2. ASSUME NEW a \in Aliases
      PROVE  /\ act(a) \in SLCType /\ act(a).activated = TRUE
             /\ act(a).digest = file.cus[a].digest /\ act(a).language = file.cus[a].language
             /\ act(a).aliases = file.cus[a].aliases
  <2>1. file.cus[a] \in SLCType
    BY <1>1
  <2>2. (file.cus[a].displaced \/ IsBuiltinURI(langs[a])) \in BOOLEAN
    BY DEF IsBuiltinURI
  <2> QED BY <2>1, <2>2 DEF SLCType
<1>3. \A a \in Pending : a \in Aliases /\ file.cus[a] # NoSLC
  BY DEF Pending, Recorded
<1>4. \A a \in Aliases : act(a) # NoSLC
  BY <1>2 DEF NoSLC
<1> HIDE DEF act
<1>5. cus \in [Aliases -> SLCType]
  BY <1>1, <1>2
<1>6. \A a \in Aliases : cus[a] = IF a \in Pending THEN act(a) ELSE file.cus[a]
  OBVIOUS
<1>7. Activated = [file EXCEPT !.cus = cus]
  BY DEF Activated, act
<1> HIDE DEF cus
<1>8. Activated \in FileType /\ Activated.cus = cus /\ Activated.off = file.off
  BY <1>1, <1>5, <1>7 DEF FileType
<1>9. \A a \in Aliases :
         /\ cus[a].digest = file.cus[a].digest /\ cus[a].language = file.cus[a].language
         /\ cus[a].aliases = file.cus[a].aliases
         /\ cus[a] = NoSLC <=> file.cus[a] = NoSLC
  BY <1>2, <1>3, <1>4, <1>6
<1>10. \A a \in Aliases : cus[a].activated = (a \in Pending \/ file.cus[a].activated)
  <2> TAKE a \in Aliases
  <2>1. file.cus[a].activated \in BOOLEAN
    BY <1>1 DEF SLCType
  <2> QED BY <1>2, <1>6, <2>1
<1>11. Disjoint(Activated)
  BY <1>8, <1>9, SameAliases DEF AInv
<1>12. \A a \in Aliases : a \notin Pending => cus[a] = file.cus[a]
  BY <1>6
<1> QED BY <1>8, <1>9, <1>10, <1>11, <1>12

\* What SCRIPT_LANGUAGES is at first.
LEMMA DefaultType ==
    [a \in Aliases |-> Default(a)] \in [Aliases -> (Aliases \cup {"none", "builtin"}) \X Languages]
  BY DEF Default, BuiltinURI, NoURI, Languages

\* Every step of a command keeps the invariant.
LEMMA StepAInv == ASSUME AInv, NEW p \in Procs, Step(p) PROVE AInv'
<1> USE DEF AInv, Types
<1>a. /\ cmd[p] \in CmdType /\ cmd[p].snap \in FileType /\ cmd[p].req \in ReqType
      /\ CopyOK(cmd[p]) /\ Disjoint(cmd[p].snap)
  BY DEF CmdType, CopyOK
<1>b. \A pc \in {"apply", "stop", "start", "verify", "supersede", "drop", "unstage", "stopping",
                 "run", "commit", "reconcile", "activate"} :
         pc \in (Loose \cup Held) \ {"idle", "confirm", "record"}
  BY DEF Loose, Held
<1>c. AfterStart(p) \/ AfterStop(p) =>
         \/ Done(p)
         \/ \E pc \in (Loose \cup Held) \ {"idle", "confirm", "record"} : Go(p, pc)
  BY <1>b DEF AfterStart, AfterStop
<1>d. {"stopping", "stopped", "interrupted", "starting", "failed", "running", "initialized"}
         \subseteq Workflows
  BY DEF Workflows
<1>1. CASE ConfirmOfficial(p)
  <2>1. CASE Done(p) /\ UNCHANGED file
    BY <1>1, <2>1, MoveStep DEF ConfirmOfficial
  <2>2. CASE /\ file' = [cmd[p].snap EXCEPT !.off = cmd[p].off]
             /\ IF cmd[p].restart THEN Go(p, "apply") ELSE Done(p)
    <3>1. file' \in FileType /\ Disjoint(file')
      BY <1>1, <1>a, <2>2 DEF ConfirmOfficial, FileType, CmdType, CopyOK
    <3>2. Done(p) \/ Go(p, "apply")
      BY <2>2
    <3> QED BY <1>1, <1>b, <3>1, <3>2, MoveStep DEF ConfirmOfficial
  <2> QED BY <1>1, <2>1, <2>2 DEF ConfirmOfficial
<1>2. CASE ApplySLCChange(p)
  <2>1. trouble' \in 0..MaxTrouble
    BY <1>2, TroubleType DEF ApplySLCChange
  <2>2. Done(p) \/ Go(p, "stop") \/ Go(p, "start")
    BY <1>2 DEF ApplySLCChange
  <2> QED BY <1>2, <1>b, <2>1, <2>2, MoveStep DEF ApplySLCChange
<1>3. CASE FetchCustom(p)
  <2>0. trouble' \in 0..MaxTrouble /\ UNCHANGED <<release, file, up, langs, wiped, half, count>>
    BY <1>3, TroubleType DEF FetchCustom
  <2>1. CASE Done(p)
    BY <2>0, <2>1, MoveStep
  <2>2. CASE NoAliasConflict(cmd[p].snap, cmd[p].req) /\ Go(p, "record")
    <3>1. "record" \in Loose \cup Held
      BY DEF Held
    <3>2. /\ cmd' \in [Procs -> CmdType]
          /\ \A q \in Procs \ {p} : cmd'[q] = cmd[q]
          /\ cmd'[p].pc = "record" /\ cmd'[p].snap = cmd[p].snap /\ cmd'[p].req = cmd[p].req
      BY <2>2, <3>1, GoFacts
    <3>3. CopyOK(cmd'[p])
      BY <1>a, <2>2, <3>2 DEF CopyOK
    <3> QED BY <2>0, <3>2, <3>3, ProcessStep
  <2> QED BY <1>3, <2>1, <2>2 DEF FetchCustom
<1>4. CASE RecordCustom(p)
  <2> DEFINE f == cmd[p].snap
             req == cmd[p].req
             r == [NoSLC EXCEPT !.digest = req.digest, !.language = req.language,
                                !.aliases = req.aliases, !.displaced = f.cus[req.alias].displaced]
  <2>0. trouble' \in 0..MaxTrouble /\ wiped' \cup half' \subseteq Aliases /\ UNCHANGED <<release, up, langs, count>>
    BY <1>4, TroubleType DEF RecordCustom
  <2>1. CASE Done(p) /\ UNCHANGED file
    BY <2>0, <2>1, MoveStep
  <2>2. CASE file' = [f EXCEPT !.cus[req.alias] = r] /\ Go(p, "supersede")
    <3>1. req.alias \in Aliases /\ f.cus[req.alias] \in SLCType
      BY <1>a DEF ReqType, FileType
    <3>2. r \in SLCType /\ r.aliases = req.aliases
      BY <1>a, <3>1 DEF NoSLC, SLCType, ReqType
    <3>3. NoAliasConflict(f, req)
      BY <1>4, <1>a DEF RecordCustom, CopyOK
    <3> HIDE DEF r, f, req
    <3>4. file' \in FileType /\ Disjoint(file')
      BY <1>a, <2>2, <3>1, <3>2, <3>3, RecordDisjoint DEF f, req
    <3> QED BY <1>b, <2>0, <2>2, <3>4, MoveStep
  <2> QED BY <1>4, <2>1, <2>2 DEF RecordCustom
<1>5. CASE SupersedeCustom(p)
  <2>1. trouble' \in 0..MaxTrouble
    BY <1>5, TroubleType DEF SupersedeCustom
  <2>2. Done(p) \/ Go(p, "apply")
    BY <1>5 DEF SupersedeCustom
  <2> QED BY <1>5, <1>b, <2>1, <2>2, MoveStep DEF SupersedeCustom
<1>6. CASE VerifyCustom(p)
  BY <1>6, MoveStep DEF VerifyCustom
<1>7. CASE DeactivateCustom(p)
  <2>1. trouble' \in 0..MaxTrouble
    BY <1>7, TroubleType DEF DeactivateCustom
  <2>2. Done(p) \/ Go(p, "drop")
    BY <1>7 DEF DeactivateCustom
  <2>3. cmd[p].req.alias \in Aliases
    BY <1>a DEF ReqType
  <2>4. langs' \in [Aliases -> (Aliases \cup {"none", "builtin"}) \X Languages]
    <3>1. \A uri \in {BuiltinURI, NoURI} : uri \in (Aliases \cup {"none", "builtin"}) \X Languages
      BY URITypes
    <3>2. \/ UNCHANGED langs
          \/ \E uri \in {BuiltinURI, NoURI} : langs' = [langs EXCEPT ![cmd[p].req.alias] = uri]
      BY <1>7 DEF DeactivateCustom, SetAlias, RemoveAlias
    <3> QED BY <2>3, <3>1, <3>2
  <2>5. wiped' \cup half' \subseteq Aliases
    BY <1>7, <2>3 DEF DeactivateCustom
  <2> QED BY <1>7, <1>b, <2>1, <2>2, <2>4, <2>5, MoveStep DEF DeactivateCustom
<1>8. CASE DropCustom(p)
  <2>0. trouble' \in 0..MaxTrouble /\ wiped' \cup half' \subseteq Aliases /\ UNCHANGED <<release, up, langs, count>>
    BY <1>8, TroubleType DEF DropCustom
  <2>1. CASE Done(p) /\ UNCHANGED file
    BY <2>0, <2>1, MoveStep
  <2>2. CASE file' = [cmd[p].snap EXCEPT !.cus[cmd[p].req.alias] = NoSLC] /\ Go(p, "unstage")
    <3>1. cmd[p].req.alias \in Aliases
      BY <1>a DEF ReqType
    <3>2. file' \in FileType /\ Disjoint(file')
      BY <1>a, <2>2, <3>1, DropDisjoint
    <3> QED BY <1>b, <2>0, <2>2, <3>2, MoveStep
  <2> QED BY <1>8, <2>1, <2>2 DEF DropCustom
<1>9. CASE UnstageCustom(p)
  <2>1. trouble' \in 0..MaxTrouble
    BY <1>9, TroubleType DEF UnstageCustom
  <2> QED BY <1>9, <2>1, MoveStep DEF UnstageCustom
<1>10. CASE StopBegin(p)
  <2>0. UNCHANGED <<release, up, langs, wiped, half, count, trouble>>
    BY <1>10 DEF StopBegin
  <2>1. CASE AfterStop(p) /\ (UNCHANGED file \/ file' = [file EXCEPT !.wf = "stopped"])
    <3>1. file' \in FileType /\ Disjoint(file')
      BY <1>d, <2>1, WorkflowWrite
    <3> QED BY <1>c, <2>0, <2>1, <3>1, MoveStep
  <2>2. CASE /\ file' = [file EXCEPT !.wf = "stopping"]
             /\ cmd' = [cmd EXCEPT ![p].pc = "stopping", ![p].snap = file]
    <3>1. file' \in FileType /\ Disjoint(file')
      BY <1>d, <2>2, WorkflowWrite
    <3>2. /\ cmd' \in [Procs -> CmdType]
          /\ \A q \in Procs \ {p} : cmd'[q] = cmd[q]
          /\ cmd'[p].pc = "stopping" /\ cmd'[p].snap = file
      <4>1. "stopping" \in Loose \cup Held
        BY DEF Held
      <4>2. cmd' = [cmd EXCEPT ![p] = [cmd[p] EXCEPT !.pc = "stopping", !.snap = file]]
        BY <2>2
      <4>3. cmd'[p].snap = file
        BY <1>a, <4>2 DEF CmdType
      <4>4. file \in FileType /\ cmd \in [Procs -> CmdType]
        OBVIOUS
      <4>5. cmd' = [cmd EXCEPT ![p] = [cmd[p] EXCEPT !.pc = "stopping", !.snap = cmd'[p].snap]]
        BY <4>2, <4>3
      <4> HIDE DEF AInv, Types
      <4> QED BY <4>1, <4>3, <4>4, <4>5, CopyFacts
    <3>3. CopyOK(cmd'[p])
      BY <3>2 DEF CopyOK
    <3> QED BY <2>0, <3>1, <3>2, <3>3, ProcessStep
  <2> QED BY <1>10, <2>1, <2>2 DEF StopBegin
<1>11. CASE StopEnd(p)
  <2>1. trouble' \in 0..MaxTrouble /\ up' \in BOOLEAN
    <3>1. trouble' \in 0..MaxTrouble
      BY <1>11, TroubleType DEF StopEnd
    <3>2. up' \in BOOLEAN
      BY <1>11 DEF StopEnd
    <3> QED BY <3>1, <3>2
  <2>2. file' \in FileType /\ Disjoint(file')
    BY <1>11, <1>d, CopyWrite DEF StopEnd
  <2>3. Done(p) \/ AfterStop(p)
    BY <1>11 DEF StopEnd
  <2> QED BY <1>11, <1>c, <2>1, <2>2, <2>3, MoveStep DEF StopEnd
<1>12. CASE StartBegin(p)
  <2>0. UNCHANGED <<release, up, langs, wiped, half, count, trouble>>
    BY <1>12 DEF StartBegin
  <2>1. CASE (Done(p) \/ AfterStart(p)) /\ UNCHANGED file
    BY <1>c, <2>0, <2>1, MoveStep
  <2>2. CASE /\ file' = [file EXCEPT !.wf = "starting"]
             /\ cmd' = [cmd EXCEPT ![p].pc = "run", ![p].snap = file]
    <3>1. file' \in FileType /\ Disjoint(file')
      BY <1>d, <2>2, WorkflowWrite
    <3>2. /\ cmd' \in [Procs -> CmdType]
          /\ \A q \in Procs \ {p} : cmd'[q] = cmd[q]
          /\ cmd'[p].pc = "run" /\ cmd'[p].snap = file
      <4>1. "run" \in Loose \cup Held
        BY DEF Held
      <4>2. cmd' = [cmd EXCEPT ![p] = [cmd[p] EXCEPT !.pc = "run", !.snap = file]]
        BY <2>2
      <4>3. cmd'[p].snap = file
        BY <1>a, <4>2 DEF CmdType
      <4>4. file \in FileType /\ cmd \in [Procs -> CmdType]
        OBVIOUS
      <4>5. cmd' = [cmd EXCEPT ![p] = [cmd[p] EXCEPT !.pc = "run", !.snap = cmd'[p].snap]]
        BY <4>2, <4>3
      <4> HIDE DEF AInv, Types
      <4> QED BY <4>1, <4>3, <4>4, <4>5, CopyFacts
    <3>3. CopyOK(cmd'[p])
      BY <3>2 DEF CopyOK
    <3> QED BY <2>0, <3>1, <3>2, <3>3, ProcessStep
  <2> QED BY <1>12, <2>1, <2>2 DEF StartBegin
<1>13. CASE StartRun(p)
  <2>0. /\ UNCHANGED <<release, langs, wiped, half, count>> /\ trouble' \in 0..MaxTrouble
    BY <1>13, TroubleType DEF StartRun
  <2>1. up' \in BOOLEAN
    BY <1>13 DEF StartRun
  <2>3. ASSUME NEW mounted \in BOOLEAN, UNCHANGED file,
               cmd' = [cmd EXCEPT ![p].pc = "commit", ![p].mounted = mounted]
        PROVE  AInv'
    <3>1. /\ cmd' \in [Procs -> CmdType]
          /\ \A q \in Procs \ {p} : cmd'[q] = cmd[q]
          /\ cmd'[p].pc = "commit" /\ cmd'[p].snap = cmd[p].snap
      BY <2>3, MountFacts
    <3>2. CopyOK(cmd'[p])
      BY <1>a, <3>1 DEF CopyOK
    <3> QED BY <2>0, <2>1, <2>3, <3>1, <3>2, ProcessStep
  <2>4. ASSUME Done(p), NEW wf \in Workflows, file' = [cmd[p].snap EXCEPT !.wf = wf]
        PROVE  AInv'
    BY <2>0, <2>1, <2>4, CopyWrite, MoveStep
  <2>5. \/ /\ UNCHANGED file
           /\ \E mounted \in BOOLEAN :
                 cmd' = [cmd EXCEPT ![p].pc = "commit", ![p].mounted = mounted]
        \/ Done(p) /\ \E wf \in {"failed", "stopped", "interrupted"} :
                         file' = [cmd[p].snap EXCEPT !.wf = wf]
    BY <1>13 DEF StartRun
  <2> QED BY <1>d, <2>3, <2>4, <2>5
<1>14. CASE StartCommit(p)
  <2>1. file' \in FileType /\ Disjoint(file')
    BY <1>14, <1>d, CopyWrite DEF StartCommit
  <2> QED BY <1>14, <1>b, <2>1, MoveStep DEF StartCommit
<1>15. CASE ReconcileCustomSLCs(p)
  <2>0. /\ UNCHANGED <<release, file, up, count, wiped, half>> /\ trouble' \in 0..MaxTrouble
    BY <1>15, TroubleType DEF ReconcileCustomSLCs
  <2>1. CASE AfterStart(p) /\ UNCHANGED langs
    BY <1>c, <2>0, <2>1, MoveStep
  <2>2. CASE Pending # {} /\ langs' = [a \in Aliases |-> IF a \in Pending
                                            THEN BuildActivationURI(a, file.cus[a]) ELSE langs[a]]
             /\ cmd' = [cmd EXCEPT ![p].pc = "activate", ![p].snap = Activated]
    <3>1. langs' \in [Aliases -> (Aliases \cup {"none", "builtin"}) \X Languages]
      BY <2>2 DEF BuildActivationURI, FileType, SLCType
    <3>2. /\ cmd' \in [Procs -> CmdType]
          /\ \A q \in Procs \ {p} : cmd'[q] = cmd[q]
          /\ cmd'[p].pc = "activate" /\ cmd'[p].snap = Activated
      <4>1. "activate" \in Loose \cup Held
        BY DEF Held
      <4>2. cmd' = [cmd EXCEPT ![p] = [cmd[p] EXCEPT !.pc = "activate", !.snap = Activated]]
        BY <2>2
      <4>3. cmd'[p].snap = Activated
        BY <1>a, <4>2 DEF CmdType
      <4>4. cmd'[p].snap \in FileType
        BY <4>3, ActivatedFacts
      <4>5. cmd' = [cmd EXCEPT ![p] = [cmd[p] EXCEPT !.pc = "activate", !.snap = cmd'[p].snap]]
        BY <4>2, <4>3
      <4> HIDE DEF AInv, Types
      <4>6. cmd \in [Procs -> CmdType]
        BY DEF AInv, Types
      <4> QED BY <4>1, <4>3, <4>4, <4>5, <4>6, CopyFacts
    <3>3. CopyOK(cmd'[p])
      BY <3>2, ActivatedFacts DEF CopyOK
    <3> QED BY <2>0, <3>1, <3>2, <3>3, ProcessStep
  <2> QED BY <1>15, <2>1, <2>2 DEF ReconcileCustomSLCs, Activated
<1>16. CASE ActivateWrite(p)
  <2>1. trouble' \in 0..MaxTrouble
    BY <1>16, TroubleType DEF ActivateWrite
  <2>2. file' \in FileType /\ Disjoint(file')
    BY <1>16, <1>a DEF ActivateWrite
  <2> QED BY <1>16, <1>c, <2>1, <2>2, MoveStep DEF ActivateWrite
<1>17. CASE DestroyRun(p)
  <2>1. trouble' \in 0..MaxTrouble
    BY <1>17, TroubleType DEF DestroyRun
  <2>2. file' \in FileType /\ Disjoint(file')
    BY <1>17, <1>d, CopyWrite DEF DestroyRun
  <2>3. langs' \in [Aliases -> (Aliases \cup {"none", "builtin"}) \X Languages]
    BY <1>17, DefaultType DEF DestroyRun
  <2>4. wiped' \cup half' \subseteq Aliases
    BY <1>17 DEF DestroyRun, Recorded
  <2>5. up' \in BOOLEAN
    BY <1>17 DEF DestroyRun
  <2> QED BY <1>17, <2>1, <2>2, <2>3, <2>4, <2>5, MoveStep DEF DestroyRun
<1> QED BY <1>1, <1>2, <1>3, <1>4, <1>5, <1>6, <1>7, <1>8, <1>9, <1>10, <1>11, <1>12, <1>13,
           <1>14, <1>15, <1>16, <1>17 DEF Step

\* The initial states satisfy the invariant.
LEMMA InitAInv == Init => AInv
<1> SUFFICES ASSUME Init PROVE AInv
  OBVIOUS
<1>1. Empty \in FileType /\ "running" \in Workflows
  BY DEF Empty, FileType, Workflows, NoSLC, SLCType, Languages
<1>2. file \in FileType /\ Disjoint(file)
  BY <1>1, EmptyOK, WorkflowWrite DEF Init
<1>3. up \in BOOLEAN
  BY DEF Init
<1>4. cmd \in [Procs -> CmdType] /\ \A p \in Procs : CopyOK(cmd[p])
  BY NoCmdType, EmptyOK DEF Init
<1>5. langs \in [Aliases -> (Aliases \cup {"none", "builtin"}) \X Languages]
  BY DefaultType DEF Init
<1> QED BY <1>2, <1>3, <1>4, <1>5, SLCAssumption DEF AInv, Types, Init

\* Every step keeps the invariant.
LEMMA NextAInv == AInv /\ [Next]_vars => AInv'
<1> SUFFICES ASSUME AInv, [Next]_vars PROVE AInv'
  OBVIOUS
<1>1. ASSUME NEW p \in Procs, Crash(p) PROVE AInv'
  <2>1. trouble' \in 0..MaxTrouble
    BY <1>1, TroubleType DEF Crash, AInv
  <2> QED BY <1>1, <2>1, MoveStep DEF Crash, AInv, Types
<1>2. CASE Unlock \/ OtherPrunes \/ LauncherUpgraded \/ UNCHANGED vars
  <2>1. /\ UNCHANGED <<file, cmd, up, langs, wiped, half, count>>
        /\ release' \in DOMAIN Catalog
    BY <1>2 DEF Unlock, OtherPrunes, LauncherUpgraded, vars, AInv, Types
  <2>2. trouble' \in 0..MaxTrouble
    BY <1>2, TroubleType DEF Unlock, OtherPrunes, LauncherUpgraded, vars, AInv, Types
  <2>3. Types'
    BY <2>1, <2>2 DEF AInv, Types
  <2>4. Disjoint(file)'
    BY <2>1 DEF AInv, Disjoint, Recorded, CustomAliases
  <2>5. \A q \in Procs : CopyOK(cmd[q])'
    BY <2>1 DEF AInv, CopyOK, Disjoint, Recorded, CustomAliases, NoAliasConflict, ArchiveAliases
  <2> QED BY <2>3, <2>4, <2>5 DEF AInv
<1> QED BY <1>1, <1>2, StepAInv, CommandAInv DEF Next

\* It holds in every reachable state.
LEMMA AInvariance == Spec => []AInv
  BY InitAInv, NextAInv, PTL DEF Spec

\* No alias is ever provided by two installed containers, official or custom, whatever
\* the commands overwrite of each other's changes: every copy of the state file that a
\* command holds satisfies the checks that were made on it.
THEOREM NoAliasTwice == Spec => []AliasesDisjoint
<1>1. AInv => AliasesDisjoint
  BY DEF AInv, Disjoint, AliasesDisjoint
<1> QED BY <1>1, AInvariance, PTL

-----------------------------------------------------------------------------
(* The containers, where nobody runs an official command next to another one *)

\* The steps at which the copy a command holds has the custom containers of the file.
Fresh == {"confirm", "fetch", "record", "deactivate", "drop", "stopping", "run", "commit",
          "destroy"}

\* The lock is held by the process that works under it, and by no other.
Locks ==
    /\ lock \in Procs \cup {"free", "dead"}
    /\ \A p \in Procs : lock = p <=> cmd[p].pc \in Held

Alone == \A p, q \in Procs : p # q /\ cmd[p].op \in Official => cmd[q].pc = "idle"

\* What an alias that is recorded as active resolves to.
Resolved(a, r, hlf) == IF a \in hlf THEN WithoutCustom(r) ELSE BuildActivationURI(a, r)

\* What a command relies on between two of its steps: its copy c.snap against the state
\* file f, the staged packages, SCRIPT_LANGUAGES, the status report, and what a
\* destroy or a removal has taken.
Fits(c, f, pkgs, entries, avail, wip, hlf) ==
    /\ c.pc \in Fresh => c.snap.cus = f.cus
    /\ c.pc = "record" => Image(c.req.alias, c.req) \in pkgs
    /\ c.pc = "supersede" => f.cus[c.req.alias].digest = c.req.digest
    /\ c.pc = "deactivate" => c.req.alias \in Recorded(f) /\ f.cus[c.req.alias].activated
    /\ c.pc = "unstage" => f.cus[c.req.alias] = NoSLC
    /\ c.pc = "activate" =>
          \A a \in Aliases :
             /\ c.snap.cus[a].digest = f.cus[a].digest
             /\ c.snap.cus[a] = NoSLC <=> f.cus[a] = NoSLC
             /\ c.snap.cus[a] # NoSLC /\ Image(a, c.snap.cus[a]) \in avail
                   => c.snap.cus[a].activated
             /\ c.snap.cus[a].activated /\ a \notin wip
                   => entries[a] = Resolved(a, c.snap.cus[a], hlf)
             /\ a \in hlf => c.snap.cus[a].activated
    /\ c.pc \in {"commit", "reconcile", "activate"} /\ c.mounted =>
          \A a \in Recorded(f) \ wip : Image(a, f.cus[a]) \in avail

\* The containers that are recorded: each has its package, and its alias resolves to it
\* once it is active, or to what the removal that was cut short has left.
Sound(f, pkgs, entries, wip, hlf) ==
    /\ wip \cup hlf \subseteq Recorded(f)
    /\ \A a \in hlf : f.cus[a].activated
    /\ \A a \in Recorded(f) \ wip :
          /\ Image(a, f.cus[a]) \in pkgs
          /\ f.cus[a].activated => entries[a] = Resolved(a, f.cus[a], hlf)

LInv ==
    /\ Locks /\ Alone
    /\ \A p \in Procs : Fits(cmd[p], file, packages, langs, available, wiped, half)
    /\ Sound(file, packages, langs, wiped, half)

\* A step that leaves the containers alone.
Quiet == file'.cus = file.cus /\ UNCHANGED <<packages, langs, available, wiped, half>>

\* Only the custom containers of the file count.
LEMMA SoundCus ==
    ASSUME NEW f, NEW g, NEW pkgs, NEW entries, NEW wip, NEW hlf, f.cus = g.cus,
           Sound(f, pkgs, entries, wip, hlf)
    PROVE  Sound(g, pkgs, entries, wip, hlf)
  BY DEF Sound, Recorded

\* What the step of one process p has to show: the others rely on nothing it changes,
\* since it holds the lock or runs an official command alone.
LEMMA LFrame ==
    ASSUME AInv, LInv, NEW p \in Procs, cmd' \in [Procs -> CmdType],
           \A q \in Procs \ {p} : cmd'[q] = cmd[q],
           cmd[p].pc # "idle", cmd'[p].op = cmd[p].op \/ cmd'[p] = NoCmd,
           \/ lock' = lock /\ (cmd'[p].pc \in Held <=> cmd[p].pc \in Held)
           \/ lock = p /\ lock' \in {"free", "dead"} /\ cmd'[p].pc \notin Held
           \/ lock = "free" /\ lock' = p /\ cmd'[p].pc \in Held,
           Quiet \/ lock = p \/ cmd[p].op \in Official,
           Fits(cmd'[p], file', packages', langs', available', wiped', half'),
           Sound(file', packages', langs', wiped', half')
    PROVE  LInv'
<1>0. "free" \notin Procs /\ "dead" \notin Procs
  BY SLCAssumption
<1>1. Locks'
  <2>1. lock' \in Procs \cup {"free", "dead"}
    BY DEF LInv, Locks
  <2>2. \A q \in Procs : lock' = q <=> cmd'[q].pc \in Held
    BY <1>0 DEF LInv, Locks
  <2> QED BY <2>1, <2>2 DEF Locks
<1>2. Alone'
  <2>1. NoCmd.pc = "idle" /\ NoCmd.op \notin Official
    BY DEF NoCmd, Official
  <2> SUFFICES ASSUME NEW r \in Procs, NEW q \in Procs, r # q, cmd'[r].op \in Official
               PROVE  cmd'[q].pc = "idle"
    BY DEF Alone
  <2> QED BY <2>1 DEF LInv, Alone
<1>3. ASSUME NEW q \in Procs, q # p
      PROVE  Fits(cmd'[q], file', packages', langs', available', wiped', half')
  <2>1. cmd'[q] = cmd[q] /\ Fits(cmd[q], file, packages, langs, available, wiped, half)
    BY <1>3 DEF LInv
  <2>2. CASE Quiet
    BY <2>1, <2>2 DEF Fits, Quiet, Recorded
  <2>3. CASE lock = p
    <3>1. cmd[q].pc \notin Held /\ cmd[q].op \notin Official
      BY <1>3, <2>3 DEF LInv, Locks, Alone
    <3>2. cmd[q].pc # "confirm"
      BY <3>1 DEF AInv, CopyOK
    <3> QED BY <2>1, <3>1, <3>2 DEF Fits, Fresh, Held
  <2>4. CASE cmd[p].op \in Official
    <3>1. cmd[q].pc = "idle"
      BY <1>3, <2>4 DEF LInv, Alone
    <3> QED BY <2>1, <3>1 DEF Fits, Fresh
  <2> QED BY <2>2, <2>3, <2>4
<1>4. \A q \in Procs : Fits(cmd'[q], file', packages', langs', available', wiped', half')
  BY <1>3
<1>5. (\A q \in Procs : Fits(cmd[q], file, packages, langs, available, wiped, half))'
  BY <1>4 DEF Fits, Recorded
<1>6. Sound(file, packages, langs, wiped, half)'
  BY DEF Sound, Recorded
<1> QED BY <1>1, <1>2, <1>5, <1>6 DEF LInv

\* The steps at which a command relies on nothing.
Relaxed == {"idle", "apply", "stop", "start", "verify"}

\* A step that leaves the containers alone and goes to where nothing is relied on.
LEMMA QuietStep ==
    ASSUME AInv, LInv, NEW p \in Procs, cmd' \in [Procs -> CmdType],
           \A q \in Procs \ {p} : cmd'[q] = cmd[q],
           cmd[p].pc # "idle", cmd'[p].op = cmd[p].op \/ cmd'[p] = NoCmd,
           \/ lock' = lock /\ (cmd'[p].pc \in Held <=> cmd[p].pc \in Held)
           \/ lock = p /\ lock' \in {"free", "dead"} /\ cmd'[p].pc \notin Held,
           Quiet, cmd'[p].pc \in Relaxed
    PROVE  LInv'
<1>1. Fits(cmd'[p], file', packages', langs', available', wiped', half')
  BY DEF Fits, Fresh, Relaxed
<1>2. Sound(file', packages', langs', wiped', half')
  BY SoundCus DEF LInv, Quiet
<1> QED BY <1>1, <1>2, LFrame

\* A command that ends at a step which leaves the containers alone.
LEMMA QuietEnd ==
    ASSUME AInv, LInv, NEW p \in Procs, Done(p), cmd[p].pc # "idle", Quiet,
           \/ lock' = lock /\ cmd[p].pc \notin Held
           \/ lock = p /\ lock' \in {"free", "dead"}
    PROVE  LInv'
<1>1. cmd' \in [Procs -> CmdType] /\ (\A q \in Procs \ {p} : cmd'[q] = cmd[q]) /\ cmd'[p] = NoCmd
  BY DoneFacts DEF AInv, Types
<1>2. NoCmd.pc \in Relaxed /\ NoCmd.pc \notin Held
  BY DEF NoCmd, Relaxed, Held
<1> QED BY <1>1, <1>2, QuietStep

\* A command that goes on after a step which leaves the containers alone.
LEMMA QuietGo ==
    ASSUME AInv, LInv, NEW p \in Procs, NEW pc \in Relaxed \ {"idle"}, Go(p, pc),
           cmd[p].pc # "idle", Quiet,
           \/ lock' = lock /\ (pc \in Held <=> cmd[p].pc \in Held)
           \/ lock = p /\ lock' \in {"free", "dead"} /\ pc \notin Held
    PROVE  LInv'
<1>0. pc \in Loose \cup Held
  BY DEF Relaxed, Loose, Held
<1>1. /\ cmd' \in [Procs -> CmdType] /\ \A q \in Procs \ {p} : cmd'[q] = cmd[q]
      /\ cmd'[p].pc = pc /\ cmd'[p].op = cmd[p].op
  BY <1>0, GoFacts DEF AInv, Types
<1> QED BY <1>1, QuietStep

\* A command that goes on to a step it works under the lock at.
LEMMA HeldGo ==
    ASSUME AInv, LInv, NEW p \in Procs, NEW pc \in Held, Go(p, pc), lock = p, lock' = lock,
           Fits([cmd[p] EXCEPT !.pc = pc], file', packages', langs', available', wiped', half'),
           Sound(file', packages', langs', wiped', half')
    PROVE  LInv'
<1>0. cmd[p].pc \in Held /\ cmd[p].pc # "idle"
  BY DEF LInv, Locks, Held
<1>1. /\ cmd' \in [Procs -> CmdType] /\ \A q \in Procs \ {p} : cmd'[q] = cmd[q]
      /\ cmd'[p].pc = pc /\ cmd'[p].op = cmd[p].op
  BY GoFacts DEF AInv, Types
<1>2. cmd'[p] = [cmd[p] EXCEPT !.pc = pc]
  BY DEF Go, AInv, Types
<1>3. Fits(cmd'[p], file', packages', langs', available', wiped', half')
  BY <1>2
<1> QED BY <1>0, <1>1, <1>3, LFrame

\* The copy of a command that goes on.
LEMMA GoCopy ==
    ASSUME AInv, NEW p \in Procs, NEW pc
    PROVE  /\ [cmd[p] EXCEPT !.pc = pc].pc = pc
           /\ [cmd[p] EXCEPT !.pc = pc].snap = cmd[p].snap
           /\ [cmd[p] EXCEPT !.pc = pc].req = cmd[p].req
           /\ [cmd[p] EXCEPT !.pc = pc].mounted = cmd[p].mounted
<1>1. cmd[p] \in CmdType
  BY DEF AInv, Types
<1> QED BY <1>1 DEF CmdType

\* A step that ends a command of the lock's holder with a change to the containers.
LEMMA HeldEnd ==
    ASSUME AInv, LInv, NEW p \in Procs, Done(p), lock = p, lock' = "free",
           Sound(file', packages', langs', wiped', half')
    PROVE  LInv'
<1>0. cmd[p].pc # "idle"
  BY DEF LInv, Locks, Held
<1>1. cmd' \in [Procs -> CmdType] /\ (\A q \in Procs \ {p} : cmd'[q] = cmd[q]) /\ cmd'[p] = NoCmd
  BY DoneFacts DEF AInv, Types
<1>2. NoCmd.pc = "idle" /\ "idle" \notin Held
  BY DEF NoCmd, Held
<1>3. Fits(cmd'[p], file', packages', langs', available', wiped', half')
  BY <1>1, <1>2 DEF Fits, Fresh
<1> QED BY <1>0, <1>1, <1>2, <1>3, LFrame

\* The commands on official containers: their write keeps the custom ones, since nobody
\* else runs a command.
LEMMA ConfirmLInv ==
    ASSUME AInv, LInv, NEW p \in Procs, ConfirmOfficial(p) PROVE LInv'
<1>1. /\ cmd[p] \in CmdType /\ cmd[p].pc = "confirm" /\ cmd[p].snap.cus = file.cus
      /\ UNCHANGED <<release, lock, up, langs, files, wiped, half, count, trouble>>
  BY DEF ConfirmOfficial, AInv, Types, LInv, Fits, Fresh
<1>2. file'.cus = file.cus
  BY <1>1 DEF ConfirmOfficial, CmdType, FileType
<1>3. Quiet
  BY <1>1, <1>2 DEF Quiet, files
<1>4. CASE Done(p)
  <2>1. cmd[p].pc \notin Held /\ cmd[p].pc # "idle" /\ lock' = lock
    BY <1>1 DEF Held
  <2> QED BY <1>3, <1>4, <2>1, QuietEnd
<1>5. CASE Go(p, "apply")
  BY <1>1, <1>3, <1>5, QuietGo DEF Held, Relaxed
<1> QED BY <1>4, <1>5 DEF ConfirmOfficial

\* The choice between a stop and a start.
LEMMA ApplyLInv ==
    ASSUME AInv, LInv, NEW p \in Procs, ApplySLCChange(p) PROVE LInv'
<1>1. cmd[p].pc = "apply" /\ UNCHANGED lock /\ Quiet
  BY DEF ApplySLCChange, Quiet, files
<1>2. CASE Done(p)
  <2>1. cmd[p].pc \notin Held /\ cmd[p].pc # "idle" /\ lock' = lock
    BY <1>1 DEF Held
  <2> QED BY <1>1, <1>2, <2>1, QuietEnd
<1>3. CASE Go(p, "stop")
  BY <1>1, <1>3, QuietGo DEF Held, Relaxed
<1>4. CASE Go(p, "start")
  BY <1>1, <1>4, QuietGo DEF Held, Relaxed
<1> QED BY <1>2, <1>3, <1>4 DEF ApplySLCChange

\* The download: the package is staged before anything is recorded.
LEMMA FetchLInv ==
    ASSUME AInv, LInv, NEW p \in Procs, FetchCustom(p) PROVE LInv'
<1>1. /\ cmd[p].pc = "fetch" /\ lock = p /\ cmd[p].snap.cus = file.cus
      /\ UNCHANGED <<release, file, up, langs, store, available, wiped, half, count>>
  BY DEF FetchCustom, LInv, Locks, Held, Fits, Fresh
<1>2. CASE Done(p) /\ Free /\ UNCHANGED packages
  BY <1>1, <1>2, QuietEnd DEF Quiet, Free
<1>3. CASE PromotePackage(cmd[p].req) /\ Go(p, "record") /\ UNCHANGED lock
  <2>1. Sound(file', packages', langs', wiped', half')
    BY <1>1, <1>3 DEF LInv, Sound, PromotePackage
  <2>2. Fits([cmd[p] EXCEPT !.pc = "record"], file', packages', langs', available', wiped', half')
    BY <1>1, <1>3, GoCopy DEF Fits, PromotePackage
  <2>3. "record" \in Held
    BY DEF Held
  <2> QED BY <1>1, <1>3, <2>1, <2>2, <2>3, HeldGo
<1> QED BY <1>2, <1>3 DEF FetchCustom

\* The record: it is written for a staged package, and is not active.
LEMMA RecordLInv ==
    ASSUME AInv, LInv, NEW p \in Procs, RecordCustom(p) PROVE LInv'
<1> DEFINE f == cmd[p].snap
           req == cmd[p].req
           r == [NoSLC EXCEPT !.digest = req.digest, !.language = req.language,
                              !.aliases = req.aliases, !.displaced = f.cus[req.alias].displaced]
<1>1. /\ cmd[p].pc = "record" /\ lock = p /\ f.cus = file.cus
      /\ Image(req.alias, req) \in packages
      /\ UNCHANGED <<release, up, langs, files, count>>
  BY DEF RecordCustom, LInv, Locks, Held, Fits, Fresh
<1>2. CASE Done(p) /\ Free /\ UNCHANGED <<file, wiped, half>>
  BY <1>1, <1>2, QuietEnd DEF Quiet, Free, files
<1>3. CASE /\ file' = [f EXCEPT !.cus[req.alias] = r]
           /\ wiped' = wiped \ {req.alias} /\ half' = half \ {req.alias}
           /\ Go(p, "supersede") /\ UNCHANGED lock
  <2>0. cmd[p] \in CmdType /\ f \in FileType /\ req \in ReqType /\ req.alias \in Aliases
    BY DEF AInv, Types, CmdType, ReqType
  <2>1. r.digest = req.digest /\ r.activated = FALSE
    BY DEF NoSLC
  <2> HIDE DEF r
  <2>2. /\ file'.cus[req.alias] = r
        /\ \A a \in Aliases \ {req.alias} : file'.cus[a] = file.cus[a]
    BY <1>1, <1>3, <2>0 DEF FileType
  <2> HIDE DEF f, req
  <2>3. Sound(file', packages', langs', wiped', half')
    <3>1. wiped' \cup half' \subseteq Recorded(file') /\ \A a \in half' : file'.cus[a].activated
      BY <1>3, <2>2 DEF LInv, Sound, Recorded
    <3>2. ASSUME NEW a \in Recorded(file') \ wiped'
          PROVE  /\ Image(a, file'.cus[a]) \in packages'
                 /\ file'.cus[a].activated => langs'[a] = Resolved(a, file'.cus[a], half')
      <4>1. CASE a = req.alias
        BY <1>1, <2>1, <2>2, <4>1 DEF Image, files
      <4>2. CASE a # req.alias
        <5>1. a \in Recorded(file) \ wiped /\ file'.cus[a] = file.cus[a] /\ (a \in half' <=> a \in half)
          BY <1>3, <2>2, <4>2 DEF Recorded
        <5> QED BY <1>1, <5>1 DEF LInv, Sound, Resolved, files
      <4> QED BY <4>1, <4>2
    <3> QED BY <3>1, <3>2 DEF Sound
  <2>4. Fits([cmd[p] EXCEPT !.pc = "supersede"], file', packages', langs', available', wiped', half')
    BY <2>1, <2>2, GoCopy DEF Fits, Fresh, req
  <2>5. "supersede" \in Held
    BY DEF Held
  <2> QED BY <1>1, <1>3, <2>3, <2>4, <2>5, HeldGo
<1> QED BY <1>2, <1>3 DEF RecordCustom

\* The superseded package goes, which is not the one the record names.
LEMMA SupersedeLInv ==
    ASSUME AInv, LInv, NEW p \in Procs, SupersedeCustom(p) PROVE LInv'
<1> DEFINE req == cmd[p].req
<1>1. /\ cmd[p].pc = "supersede" /\ lock = p /\ lock' = "free"
      /\ file.cus[req.alias].digest = req.digest
      /\ UNCHANGED <<release, file, up, langs, store, available, wiped, half, count>>
  BY DEF SupersedeCustom, LInv, Locks, Held, Fits, Free
<1>2. Sound(file', packages', langs', wiped', half')
  <2>1. \A a \in Recorded(file) : Image(a, file.cus[a]) \notin Superseded(p)
    BY <1>1 DEF Superseded, Image
  <2>2. \A a \in Recorded(file) : Image(a, file.cus[a]) \in packages => Image(a, file.cus[a]) \in packages'
    BY <2>1 DEF SupersedeCustom
  <2> QED BY <1>1, <2>2 DEF LInv, Sound
<1>3. CASE Done(p)
  BY <1>1, <1>2, <1>3, HeldEnd
<1>4. CASE Go(p, "apply")
  <2>0. "apply" \in Loose \cup Held /\ "apply" \notin Held
    BY DEF Loose, Held
  <2>1. /\ cmd' \in [Procs -> CmdType] /\ \A q \in Procs \ {p} : cmd'[q] = cmd[q]
        /\ cmd'[p].pc = "apply" /\ cmd'[p].op = cmd[p].op
    BY <1>4, <2>0, GoFacts DEF AInv, Types
  <2>2. Fits(cmd'[p], file', packages', langs', available', wiped', half')
    BY <2>1 DEF Fits, Fresh
  <2> QED BY <1>1, <1>2, <2>0, <2>1, <2>2, LFrame
<1> QED BY <1>3, <1>4 DEF SupersedeCustom

\* The check at the end of a custom command reads only.
LEMMA VerifyLInv ==
    ASSUME AInv, LInv, NEW p \in Procs, VerifyCustom(p) PROVE LInv'
<1>1. cmd[p].pc = "verify" /\ UNCHANGED lock /\ Quiet /\ Done(p)
  BY DEF VerifyCustom, Quiet, files
<1>2. cmd[p].pc \notin Held /\ cmd[p].pc # "idle"
  BY <1>1 DEF Held
<1> QED BY <1>1, <1>2, QuietEnd

\* The deactivation: from here on the alias is as the removal leaves it.
LEMMA DeactivateLInv ==
    ASSUME AInv, LInv, NEW p \in Procs, DeactivateCustom(p) PROVE LInv'
<1> DEFINE b == cmd[p].req.alias
<1>1. /\ cmd[p].pc = "deactivate" /\ lock = p /\ b \in Recorded(file) /\ file.cus[b].activated
      /\ cmd[p].snap.cus = file.cus /\ UNCHANGED <<release, file, up, files, wiped, count>>
  BY DEF DeactivateCustom, LInv, Locks, Held, Fits, Fresh
<1>2. CASE Done(p) /\ Free /\ UNCHANGED <<langs, half>>
  <2>1. Quiet /\ lock' = "free" /\ cmd[p].pc # "idle"
    BY <1>1, <1>2 DEF Quiet, Free, files
  <2> QED BY <1>1, <1>2, <2>1, QuietEnd
<1>3. CASE /\ UNCHANGED lock /\ half' = half \cup {b} /\ Go(p, "drop")
           /\ langs' = IF file.cus[b].displaced THEN SetAlias(langs, b, BuiltinURI)
                       ELSE RemoveAlias(langs, b)
  <2>1. langs'[b] = WithoutCustom(file.cus[b]) /\ \A a \in Aliases \ {b} : langs'[a] = langs[a]
    <3>1. langs \in [Aliases -> (Aliases \cup {"none", "builtin"}) \X Languages] /\ b \in Aliases
      BY <1>1 DEF AInv, Types, Recorded
    <3> QED BY <1>3, <3>1 DEF SetAlias, RemoveAlias, WithoutCustom
  <2>2. Sound(file', packages', langs', wiped', half')
    <3>1. wiped' \cup half' \subseteq Recorded(file') /\ \A a \in half' : file'.cus[a].activated
      BY <1>1, <1>3 DEF LInv, Sound
    <3>2. ASSUME NEW a \in Recorded(file') \ wiped'
          PROVE  /\ Image(a, file'.cus[a]) \in packages'
                 /\ file'.cus[a].activated => langs'[a] = Resolved(a, file'.cus[a], half')
      BY <1>1, <1>3, <2>1 DEF LInv, Sound, Resolved, Recorded, files
    <3> QED BY <3>1, <3>2 DEF Sound
  <2>3. Fits([cmd[p] EXCEPT !.pc = "drop"], file', packages', langs', available', wiped', half')
    BY <1>1, GoCopy DEF Fits
  <2>4. "drop" \in Held
    BY DEF Held
  <2> QED BY <1>1, <1>3, <2>2, <2>3, <2>4, HeldGo
<1> QED BY <1>2, <1>3 DEF DeactivateCustom

\* The record goes.
LEMMA DropLInv ==
    ASSUME AInv, LInv, NEW p \in Procs, DropCustom(p) PROVE LInv'
<1> DEFINE b == cmd[p].req.alias
           f == cmd[p].snap
<1>1. /\ cmd[p].pc = "drop" /\ lock = p /\ f.cus = file.cus
      /\ UNCHANGED <<release, up, langs, files, count>>
  BY DEF DropCustom, LInv, Locks, Held, Fits, Fresh
<1>2. CASE Done(p) /\ Free /\ UNCHANGED <<file, wiped, half>>
  <2>1. Quiet /\ lock' = "free" /\ cmd[p].pc # "idle"
    BY <1>1, <1>2 DEF Quiet, Free, files
  <2> QED BY <1>1, <1>2, <2>1, QuietEnd
<1>3. CASE /\ file' = [f EXCEPT !.cus[b] = NoSLC] /\ wiped' = wiped \ {b} /\ half' = half \ {b}
           /\ Go(p, "unstage") /\ UNCHANGED lock
  <2>1. f \in FileType /\ b \in Aliases
    BY DEF AInv, Types, CmdType, ReqType
  <2>2. file'.cus[b] = NoSLC /\ \A a \in Aliases \ {b} : file'.cus[a] = file.cus[a]
    BY <1>1, <1>3, <2>1 DEF FileType
  <2> HIDE DEF f, b
  <2>3. Recorded(file') = Recorded(file) \ {b}
    BY <2>2 DEF Recorded
  <2>4. Sound(file', packages', langs', wiped', half')
    <3>1. wiped' \cup half' \subseteq Recorded(file') /\ \A a \in half' : file'.cus[a].activated
      BY <1>3, <2>2, <2>3 DEF LInv, Sound, Recorded
    <3>2. ASSUME NEW a \in Recorded(file') \ wiped'
          PROVE  /\ Image(a, file'.cus[a]) \in packages'
                 /\ file'.cus[a].activated => langs'[a] = Resolved(a, file'.cus[a], half')
      <4>1. a \in Recorded(file) \ wiped /\ file'.cus[a] = file.cus[a] /\ (a \in half' <=> a \in half)
        BY <1>3, <2>2, <2>3 DEF Recorded
      <4> QED BY <1>1, <4>1 DEF LInv, Sound, Resolved, files
    <3> QED BY <3>1, <3>2 DEF Sound
  <2>5. Fits([cmd[p] EXCEPT !.pc = "unstage"], file', packages', langs', available', wiped', half')
    BY <2>2, GoCopy DEF Fits, Fresh, b
  <2>6. "unstage" \in Held
    BY DEF Held
  <2> QED BY <1>1, <1>3, <2>4, <2>5, <2>6, HeldGo
<1> QED BY <1>2, <1>3 DEF DropCustom

\* Its package goes after it.
LEMMA UnstageLInv ==
    ASSUME AInv, LInv, NEW p \in Procs, UnstageCustom(p) PROVE LInv'
<1> DEFINE b == cmd[p].req.alias
<1>1. /\ cmd[p].pc = "unstage" /\ lock = p /\ lock' = "free" /\ Done(p)
      /\ file.cus[b] = NoSLC
      /\ UNCHANGED <<release, file, up, langs, store, available, wiped, half, count>>
  BY DEF UnstageCustom, LInv, Locks, Held, Fits, Free
<1>2. Sound(file', packages', langs', wiped', half')
  <2>1. \A a \in Recorded(file) : Image(a, file.cus[a]) # Image(b, cmd[p].snap.cus[b])
    BY <1>1 DEF Recorded, Image
  <2>2. \A a \in Recorded(file) : Image(a, file.cus[a]) \in packages => Image(a, file.cus[a]) \in packages'
    BY <2>1 DEF UnstageCustom
  <2> QED BY <1>1, <2>2 DEF LInv, Sound
<1> QED BY <1>1, <1>2, HeldEnd

\* Where a stop or a start that is over leads to.
LEMMA AfterLInv ==
    ASSUME AInv, LInv, NEW p \in Procs, AfterStop(p) \/ AfterStart(p) \/ Done(p), Quiet,
           cmd[p].pc # "idle",
           \/ lock' = lock /\ cmd[p].pc \notin Held
           \/ lock = p /\ lock' \in {"free", "dead"}
    PROVE  LInv'
<1>1. CASE Done(p)
  BY <1>1, QuietEnd
<1>2. "start" \in Relaxed \ {"idle"} /\ "verify" \in Relaxed \ {"idle"}
      /\ "start" \notin Held /\ "verify" \notin Held
  BY DEF Relaxed, Held
<1>3. CASE Go(p, "start")
  BY <1>2, <1>3, QuietGo
<1>4. CASE Go(p, "verify")
  BY <1>2, <1>4, QuietGo
<1> QED BY <1>1, <1>3, <1>4 DEF AfterStop, AfterStart

\* A stop or a start takes the lock and a copy of the file.
LEMMA TakeLInv ==
    ASSUME AInv, LInv, NEW p \in Procs, NEW pc \in {"stopping", "run"}, NEW wf \in Workflows,
           cmd[p].pc \in {"stop", "start"}, lock = "free", lock' = p,
           file' = [file EXCEPT !.wf = wf],
           cmd' = [cmd EXCEPT ![p].pc = pc, ![p].snap = file],
           UNCHANGED <<packages, langs, available, wiped, half>>
    PROVE  LInv'
<1>1. cmd \in [Procs -> CmdType] /\ cmd[p] \in CmdType /\ file \in FileType
  BY DEF AInv, Types
<1>2. pc \in Loose \cup Held /\ pc \in Held
  BY DEF Held
<1>3. cmd' = [cmd EXCEPT ![p] = [cmd[p] EXCEPT !.pc = pc, !.snap = file]]
  BY <1>1
<1>4. cmd'[p].snap = file
  BY <1>1, <1>3 DEF CmdType
<1>5. /\ cmd' \in [Procs -> CmdType] /\ \A q \in Procs \ {p} : cmd'[q] = cmd[q]
      /\ cmd'[p].pc = pc /\ cmd'[p].op = cmd[p].op
  BY <1>1, <1>2, <1>3, <1>4, CopyFacts
<1>6. file'.cus = file.cus
  BY <1>1, WorkflowWrite
<1>7. Fits(cmd'[p], file', packages', langs', available', wiped', half')
  BY <1>4, <1>5, <1>6 DEF Fits
<1>8. Sound(file', packages', langs', wiped', half') /\ Quiet
  BY <1>6, SoundCus DEF LInv, Quiet
<1>9. cmd[p].pc # "idle"
  OBVIOUS
<1> QED BY <1>2, <1>5, <1>7, <1>8, <1>9, LFrame

\* Stop.
LEMMA StopBeginLInv ==
    ASSUME AInv, LInv, NEW p \in Procs, StopBegin(p) PROVE LInv'
<1>1. /\ cmd[p].pc = "stop" /\ cmd[p].pc \notin Held /\ cmd[p].pc # "idle"
      /\ UNCHANGED <<packages, langs, available, wiped, half>>
  BY DEF StopBegin, Held, files
<1>2. file \in FileType /\ {"stopped", "stopping"} \subseteq Workflows
  BY DEF AInv, Types, Workflows
<1>3. CASE /\ AfterStop(p) /\ UNCHANGED lock
           /\ file' = file \/ file' = [file EXCEPT !.wf = "stopped"]
  <2>1. file'.cus = file.cus
    BY <1>2, <1>3, WorkflowWrite
  <2> QED BY <1>1, <1>3, <2>1, AfterLInv DEF Quiet
<1>4. CASE /\ file' = [file EXCEPT !.wf = "stopping"] /\ lock = "free" /\ lock' = p
           /\ cmd' = [cmd EXCEPT ![p].pc = "stopping", ![p].snap = file]
  BY <1>1, <1>2, <1>4, TakeLInv
<1> QED BY <1>3, <1>4 DEF StopBegin

\* A write of the copy with another workflow state keeps the containers.
LEMMA CopyQuiet ==
    ASSUME AInv, LInv, NEW p \in Procs, NEW wf \in Workflows, cmd[p].pc \in Fresh,
           file' = [cmd[p].snap EXCEPT !.wf = wf]
    PROVE  file'.cus = file.cus
<1>1. cmd[p].snap.cus = file.cus
  BY DEF LInv, Fits
<1> QED BY <1>1, CopyWrite

\* Its end.
LEMMA StopEndLInv ==
    ASSUME AInv, LInv, NEW p \in Procs, StopEnd(p) PROVE LInv'
<1>1. /\ cmd[p].pc = "stopping" /\ cmd[p].pc \in Fresh /\ cmd[p].pc # "idle"
      /\ lock = p /\ lock' = "free" /\ UNCHANGED <<packages, langs, available, wiped, half>>
  BY DEF StopEnd, LInv, Locks, Held, Fresh, Free, files
<1>2. {"stopped", "interrupted"} \subseteq Workflows
  BY DEF Workflows
<1>3. file'.cus = file.cus
  BY <1>1, <1>2, CopyQuiet DEF StopEnd
<1>4. AfterStop(p) \/ Done(p)
  BY DEF StopEnd
<1> QED BY <1>1, <1>3, <1>4, AfterLInv DEF Quiet

\* Start.
LEMMA StartBeginLInv ==
    ASSUME AInv, LInv, NEW p \in Procs, StartBegin(p) PROVE LInv'
<1>1. /\ cmd[p].pc = "start" /\ cmd[p].pc \notin Held /\ cmd[p].pc # "idle"
      /\ UNCHANGED <<packages, langs, available, wiped, half>>
  BY DEF StartBegin, Held, files
<1>2. "starting" \in Workflows
  BY DEF Workflows
<1>3. CASE (AfterStart(p) \/ Done(p)) /\ UNCHANGED <<lock, file>>
  BY <1>1, <1>3, AfterLInv DEF Quiet
<1>4. CASE /\ file' = [file EXCEPT !.wf = "starting"] /\ lock = "free" /\ lock' = p
           /\ cmd' = [cmd EXCEPT ![p].pc = "run", ![p].snap = file]
  BY <1>1, <1>2, <1>4, TakeLInv
<1> QED BY <1>3, <1>4 DEF StartBegin

\* The start itself imports, mounts and reports; the packages stay.
LEMMA StartRunLInv ==
    ASSUME AInv, LInv, NEW p \in Procs, StartRun(p) PROVE LInv'
<1>1. /\ cmd[p].pc = "run" /\ cmd[p].pc \in Fresh /\ cmd[p].pc # "idle" /\ lock = p
      /\ cmd[p].snap.cus = file.cus /\ UNCHANGED <<packages, langs, wiped, half>>
  BY DEF StartRun, LInv, Locks, Held, Fresh, Fits, files
<1>2. "commit" \in Held
  BY DEF Held
<1>3. ASSUME file'.cus = file.cus PROVE Sound(file', packages', langs', wiped', half')
  BY <1>1, <1>3, SoundCus DEF LInv
<1>4. ASSUME NEW mounted \in BOOLEAN, UNCHANGED <<file, lock>>,
             cmd' = [cmd EXCEPT ![p].pc = "commit", ![p].mounted = mounted],
             mounted => WantedCustom \cap packages \subseteq available'
      PROVE  LInv'
  <2>1. /\ cmd' \in [Procs -> CmdType] /\ \A q \in Procs \ {p} : cmd'[q] = cmd[q]
        /\ cmd'[p].pc = "commit" /\ cmd'[p].snap = cmd[p].snap /\ cmd'[p].op = cmd[p].op
        /\ cmd'[p].mounted = mounted
    BY <1>4, MountFacts DEF AInv, Types
  <2>2. Fits(cmd'[p], file', packages', langs', available', wiped', half')
    <3>1. mounted => \A a \in Recorded(file) \ wiped : Image(a, file.cus[a]) \in available'
      BY <1>4 DEF LInv, Sound, WantedCustom
    <3> QED BY <1>1, <1>4, <2>1, <3>1 DEF Fits
  <2>3. cmd[p].pc \in Held
    BY <1>1 DEF LInv, Locks
  <2> QED BY <1>1, <1>2, <1>3, <1>4, <2>1, <2>2, <2>3, LFrame
<1>5. ASSUME NEW wf \in Workflows, Done(p), Free, file' = [cmd[p].snap EXCEPT !.wf = wf]
      PROVE  LInv'
  <2>1. file'.cus = file.cus /\ lock' = "free"
    BY <1>1, <1>5, CopyQuiet DEF Free
  <2> QED BY <1>1, <1>3, <1>5, <2>1, HeldEnd
<1>6. \/ /\ UNCHANGED <<file, lock>>
         /\ \E mounted \in BOOLEAN :
               /\ cmd' = [cmd EXCEPT ![p].pc = "commit", ![p].mounted = mounted]
               /\ mounted => WantedCustom \cap packages \subseteq available'
      \/ Done(p) /\ Free /\ \E wf \in {"failed", "stopped", "interrupted"} :
                       file' = [cmd[p].snap EXCEPT !.wf = wf]
  BY DEF StartRun, Materialized
<1>7. {"failed", "stopped", "interrupted"} \subseteq Workflows
  BY DEF Workflows
<1> QED BY <1>4, <1>5, <1>6, <1>7

\* The final write of a start or deploy.
LEMMA StartCommitLInv ==
    ASSUME AInv, LInv, NEW p \in Procs, StartCommit(p) PROVE LInv'
<1>1. /\ cmd[p].pc = "commit" /\ cmd[p].pc \in Fresh /\ lock = p /\ UNCHANGED lock
      /\ Go(p, "reconcile") /\ UNCHANGED <<packages, langs, available, wiped, half>>
  BY DEF StartCommit, LInv, Locks, Held, Fresh, files
<1>2. file'.cus = file.cus
  BY <1>1, CopyQuiet DEF StartCommit, Workflows
<1>3. "reconcile" \in Held
  BY DEF Held
<1>4. Fits([cmd[p] EXCEPT !.pc = "reconcile"], file', packages', langs', available', wiped', half')
  BY <1>1, <1>2, GoCopy DEF LInv, Fits, Fresh, Recorded
<1>5. Sound(file', packages', langs', wiped', half')
  BY <1>1, <1>2, SoundCus DEF LInv
<1> QED BY <1>1, <1>3, <1>4, <1>5, HeldGo

\* The activation in the database, which is recorded afterwards.
LEMMA ReconcileLInv ==
    ASSUME AInv, LInv, NEW p \in Procs, ReconcileCustomSLCs(p) PROVE LInv'
<1>1. /\ cmd[p].pc = "reconcile" /\ cmd[p].pc # "idle" /\ lock = p
      /\ UNCHANGED <<file, packages, available, wiped, half>>
  BY DEF ReconcileCustomSLCs, LInv, Locks, Held, files
<1>2. CASE AfterStart(p) /\ Free /\ UNCHANGED langs
  <2>1. Quiet /\ lock' = "free"
    BY <1>1, <1>2 DEF Quiet, Free
  <2> QED BY <1>1, <1>2, <2>1, AfterLInv
<1>3. CASE /\ langs' = [a \in Aliases |-> IF a \in Pending
                            THEN BuildActivationURI(a, file.cus[a]) ELSE langs[a]]
           /\ cmd' = [cmd EXCEPT ![p].pc = "activate", ![p].snap = Activated]
           /\ UNCHANGED lock
  <2>1. cmd \in [Procs -> CmdType] /\ cmd[p] \in CmdType
    BY DEF AInv, Types
  <2>2. "activate" \in Loose \cup Held /\ "activate" \in Held /\ cmd[p].pc \in Held
    BY <1>1 DEF Held
  <2>3. cmd' = [cmd EXCEPT ![p] = [cmd[p] EXCEPT !.pc = "activate", !.snap = Activated]]
    BY <1>3, <2>1
  <2>4. cmd'[p].snap = Activated
    BY <2>1, <2>3 DEF CmdType
  <2>5. cmd'[p].snap \in FileType
    BY <2>4, ActivatedFacts
  <2>6. cmd' = [cmd EXCEPT ![p] = [cmd[p] EXCEPT !.pc = "activate", !.snap = cmd'[p].snap]]
    BY <2>3, <2>4
  <2>7. /\ cmd' \in [Procs -> CmdType] /\ \A q \in Procs \ {p} : cmd'[q] = cmd[q]
        /\ cmd'[p].pc = "activate" /\ cmd'[p].op = cmd[p].op /\ cmd'[p].mounted = cmd[p].mounted
    BY <2>1, <2>2, <2>5, <2>6, CopyFacts
  <2>8. \A a \in Aliases :
           langs'[a] = IF a \in Pending THEN BuildActivationURI(a, file.cus[a]) ELSE langs[a]
    BY <1>3
  <2>9. \A a \in Aliases :
           /\ file.cus[a].activated \in BOOLEAN
           /\ file.cus[a].activated => file.cus[a] # NoSLC
           /\ a \in Pending <=> /\ file.cus[a] # NoSLC /\ Image(a, file.cus[a]) \in available
                                /\ ~file.cus[a].activated
    <3>1. NoSLC.activated = FALSE
      BY DEF NoSLC
    <3>2. \A a \in Aliases : file.cus[a] \in SLCType
      BY DEF AInv, Types, FileType
    <3> QED BY <3>1, <3>2 DEF SLCType, Pending, Recorded
  <2>10. /\ \A a \in Aliases \ wiped :
               file.cus[a].activated => langs[a] = Resolved(a, file.cus[a], half)
         /\ \A a \in half : file.cus[a].activated
    BY <2>9 DEF LInv, Sound, Recorded
  <2>11. Sound(file', packages', langs', wiped', half')
    <3>1. \A a \in Recorded(file) \ wiped :
             file.cus[a].activated => langs'[a] = Resolved(a, file.cus[a], half)
      BY <2>8, <2>9, <2>10 DEF Recorded
    <3> QED BY <1>1, <3>1 DEF LInv, Sound
  <2>12. Fits(cmd'[p], file', packages', langs', available', wiped', half')
    <3>1. \A a \in Aliases :
             /\ Activated.cus[a].digest = file.cus[a].digest
             /\ Activated.cus[a].language = file.cus[a].language
             /\ Activated.cus[a].activated = (a \in Pending \/ file.cus[a].activated)
             /\ Activated.cus[a] = NoSLC <=> file.cus[a] = NoSLC
             /\ a \notin Pending => Activated.cus[a] = file.cus[a]
      BY ActivatedFacts
    <3>2. ASSUME NEW a \in Aliases
          PROVE  /\ Activated.cus[a] # NoSLC /\ Image(a, Activated.cus[a]) \in available
                       => Activated.cus[a].activated
                 /\ Activated.cus[a].activated /\ a \notin wiped
                       => langs'[a] = Resolved(a, Activated.cus[a], half)
                 /\ a \in half => Activated.cus[a].activated
      <4>1. CASE a \in Pending
        <5>1. a \notin half /\ langs'[a] = BuildActivationURI(a, Activated.cus[a])
          BY <2>8, <2>9, <2>10, <3>1, <4>1 DEF BuildActivationURI
        <5> QED BY <3>1, <4>1, <5>1 DEF Resolved
      <4>2. CASE a \notin Pending
        BY <2>8, <2>9, <2>10, <3>1, <4>2
      <4> QED BY <4>1, <4>2
    <3>3. cmd'[p].mounted => \A a \in Recorded(file) \ wiped : Image(a, file.cus[a]) \in available
      BY <1>1, <2>7 DEF LInv, Fits
    <3> QED BY <1>1, <2>4, <2>7, <3>1, <3>2, <3>3 DEF Fits, Fresh
  <2> QED BY <1>1, <1>3, <2>2, <2>7, <2>11, <2>12, LFrame
<1> QED BY <1>2, <1>3 DEF ReconcileCustomSLCs, Activated

\* The record of the activation.
LEMMA ActivateLInv ==
    ASSUME AInv, LInv, NEW p \in Procs, ActivateWrite(p) PROVE LInv'
<1>1. /\ cmd[p].pc = "activate" /\ cmd[p].pc # "idle" /\ lock = p /\ lock' = "free"
      /\ AfterStart(p) /\ UNCHANGED <<packages, langs, available, wiped, half>>
  BY DEF ActivateWrite, LInv, Locks, Held, Free, files
<1>2. CASE UNCHANGED file
  BY <1>1, <1>2, AfterLInv DEF Quiet
<1>3. CASE file' = cmd[p].snap
  <2>1. \A a \in Aliases :
           /\ file'.cus[a].digest = file.cus[a].digest
           /\ file'.cus[a] = NoSLC <=> file.cus[a] = NoSLC
           /\ file'.cus[a].activated /\ a \notin wiped
                 => langs[a] = Resolved(a, file'.cus[a], half)
           /\ a \in half => file'.cus[a].activated
    BY <1>1, <1>3 DEF LInv, Fits
  <2>2. Recorded(file') = Recorded(file)
    BY <2>1 DEF Recorded
  <2>3. \A a \in Recorded(file) : a \in Aliases /\ Image(a, file'.cus[a]) = Image(a, file.cus[a])
    BY <2>1 DEF Recorded, Image
  <2>4. Sound(file', packages', langs', wiped', half')
    BY <1>1, <2>1, <2>2, <2>3 DEF LInv, Sound
  <2>5. CASE Done(p)
    BY <1>1, <2>4, <2>5, HeldEnd
  <2>6. CASE Go(p, "verify")
    <3>0. "verify" \in Loose \cup Held /\ "verify" \notin Held
      BY DEF Loose, Held
    <3>1. /\ cmd' \in [Procs -> CmdType] /\ \A q \in Procs \ {p} : cmd'[q] = cmd[q]
          /\ cmd'[p].pc = "verify" /\ cmd'[p].op = cmd[p].op
      BY <2>6, <3>0, GoFacts DEF AInv, Types
    <3>2. Fits(cmd'[p], file', packages', langs', available', wiped', half')
      BY <3>1 DEF Fits, Fresh
    <3> QED BY <1>1, <2>4, <3>0, <3>1, <3>2, LFrame
  <2> QED BY <1>1, <2>5, <2>6 DEF AfterStart
<1> QED BY <1>2, <1>3 DEF ActivateWrite

\* Destroy: what is recorded has lost its database and its package.
LEMMA DestroyLInv ==
    ASSUME AInv, LInv, NEW p \in Procs, DestroyRun(p) PROVE LInv'
<1>1. /\ cmd[p].pc = "destroy" /\ cmd[p].pc \in Fresh /\ lock = p /\ lock' = "free" /\ Done(p)
  BY DEF DestroyRun, LInv, Locks, Held, Fresh, Free
<1>2. {"initialized", "interrupted"} \subseteq Workflows
  BY DEF Workflows
<1>3. file'.cus = file.cus
  BY <1>1, <1>2, CopyQuiet DEF DestroyRun
<1>4. CASE wiped' = Recorded(file) /\ half' = {}
  <2>1. Recorded(file') = Recorded(file)
    BY <1>3 DEF Recorded
  <2>2. Sound(file', packages', langs', wiped', half')
    BY <1>4, <2>1 DEF Sound
  <2> QED BY <1>1, <2>2, HeldEnd
<1>5. CASE UNCHANGED <<langs, packages, wiped, half>>
  <2>1. Sound(file', packages', langs', wiped', half')
    BY <1>3, <1>5, SoundCus DEF LInv
  <2> QED BY <1>1, <2>1, HeldEnd
<1> QED BY <1>4, <1>5 DEF DestroyRun, files

\* Every command as it begins.
LEMMA CommandLInv ==
    ASSUME AInv, LInv, OfficialAlone, NEW p \in Procs, Command(p) PROVE LInv'
<1>1. PICK c \in CmdType : Begins(p, c)
  BY CommandFacts
<1>2. /\ cmd' \in [Procs -> CmdType] /\ \A q \in Procs \ {p} : cmd'[q] = cmd[q]
      /\ cmd'[p] = c /\ cmd[p].pc = "idle"
      /\ \A q \in Procs \ {p} :
            cmd[q].pc = "idle" \/ (cmd[q].op \notin Official /\ c.op \notin Official)
  BY <1>1, BeginFacts DEF AInv, Types, Begins
<1>3. file'.cus = file.cus /\ UNCHANGED <<packages, langs, available, wiped, half>>
  <2>1. file \in FileType
    BY DEF AInv, Types
  <2>2. file' = file \/ \E wf \in Workflows : file' = [file EXCEPT !.wf = wf]
    BY <1>1 DEF Begins
  <2>3. file'.cus = file.cus
    BY <2>1, <2>2, WorkflowWrite
  <2>4. UNCHANGED <<packages, langs, available, wiped, half>>
    BY <1>1 DEF Begins, files
  <2> QED BY <2>3, <2>4
<1>4. "free" \notin Procs /\ "dead" \notin Procs /\ "idle" \notin Held
  BY SLCAssumption DEF Held
<1>5. Locks'
  <2>1. CASE c.pc \in Held
    <3>1. lock = "free" /\ lock' = p
      BY <1>1, <2>1 DEF Begins
    <3> QED BY <1>2, <1>4, <2>1, <3>1 DEF LInv, Locks
  <2>2. CASE c.pc \notin Held
    <3>1. lock' = lock
      BY <1>1, <2>2 DEF Begins
    <3> QED BY <1>2, <1>4, <2>2, <3>1 DEF LInv, Locks
  <2> QED BY <2>1, <2>2
<1>6. Alone'
  <2> SUFFICES ASSUME NEW r \in Procs, NEW q \in Procs, r # q, cmd'[r].op \in Official
               PROVE  cmd'[q].pc = "idle"
    BY DEF Alone
  <2>1. CASE r = p
    BY <1>2, <2>1
  <2>2. CASE r # p
    <3>1. cmd[r].op \in Official /\ cmd[r].pc # "idle"
      <4>1. NoCmd.op \notin Official
        BY DEF NoCmd, Official
      <4>2. cmd[r].op \in Official
        BY <1>2, <2>2
      <4> QED BY <4>1, <4>2 DEF AInv, CopyOK
    <3>2. FALSE
      BY <1>2, <2>2, <3>1
    <3> QED BY <3>2
  <2> QED BY <2>1, <2>2
<1>7. Fits(c, file', packages', langs', available', wiped', half')
  <2>1. c.pc \in Fresh => c.snap = file
    BY <1>1 DEF Begins, Fresh
  <2>2. /\ c.pc \notin {"record", "supersede", "unstage", "activate", "commit", "reconcile"}
        /\ c.pc = "deactivate" => c.req.alias \in Recorded(file) /\ file.cus[c.req.alias].activated
    BY <1>1 DEF Begins
  <2>3. Recorded(file') = Recorded(file)
    BY <1>3 DEF Recorded
  <2> QED BY <1>3, <2>1, <2>2, <2>3 DEF Fits
<1>8. \A q \in Procs : Fits(cmd'[q], file', packages', langs', available', wiped', half')
  <2> TAKE q \in Procs
  <2>1. CASE q = p
    BY <1>2, <1>7, <2>1
  <2>2. CASE q # p
    <3>1. cmd'[q] = cmd[q] /\ Fits(cmd[q], file, packages, langs, available, wiped, half)
      BY <1>2, <2>2 DEF LInv
    <3> QED BY <1>3, <3>1 DEF Fits, Recorded
  <2> QED BY <2>1, <2>2
<1>9. (\A q \in Procs : Fits(cmd[q], file, packages, langs, available, wiped, half))'
  BY <1>8 DEF Fits, Recorded
<1>10. Sound(file, packages, langs, wiped, half)'
  BY <1>3, SoundCus DEF LInv, Sound, Recorded
<1> QED BY <1>5, <1>6, <1>9, <1>10 DEF LInv

\* The initial states.
LEMMA InitLInv == Init => LInv
<1> SUFFICES ASSUME Init PROVE LInv
  OBVIOUS
<1>1. \A p \in Procs : cmd[p] = NoCmd
  BY DEF Init
<1>2. NoCmd.pc = "idle" /\ NoCmd.op \notin Official /\ "idle" \notin Held
  BY DEF NoCmd, Official, Held
<1>3. Locks /\ Alone
  BY <1>1, <1>2, SLCAssumption DEF Init, Locks, Alone
<1>4. \A p \in Procs : Fits(cmd[p], file, packages, langs, available, wiped, half)
  BY <1>1, <1>2 DEF Fits, Fresh
<1>5. Sound(file, packages, langs, wiped, half)
  <2>1. file.cus = [a \in Aliases |-> NoSLC]
    BY DEF Init, Empty
  <2>2. Recorded(file) = {} /\ wiped \cup half = {}
    BY <2>1 DEF Recorded, Init
  <2> QED BY <2>2 DEF Sound
<1> QED BY <1>3, <1>4, <1>5 DEF LInv

\* The world around the commands.
LEMMA WorldLInv ==
    ASSUME AInv, LInv, Unlock \/ OtherPrunes \/ LauncherUpgraded \/ UNCHANGED vars PROVE LInv'
<1>1. UNCHANGED <<file, cmd, packages, langs, available, wiped, half>>
  BY DEF Unlock, OtherPrunes, LauncherUpgraded, vars, files
<1>2. lock' = lock \/ (lock = "dead" /\ lock' = "free")
  BY DEF Unlock, OtherPrunes, LauncherUpgraded, vars, Free
<1>3. Locks'
  BY <1>1, <1>2, SLCAssumption DEF LInv, Locks
<1>4. Alone'
  BY <1>1 DEF LInv, Alone
<1>5. (\A q \in Procs : Fits(cmd[q], file, packages, langs, available, wiped, half))'
  BY <1>1 DEF LInv, Fits, Recorded
<1>6. Sound(file, packages, langs, wiped, half)'
  BY <1>1 DEF LInv, Sound, Recorded
<1> QED BY <1>3, <1>4, <1>5, <1>6 DEF LInv

\* Every step keeps the invariant.
LEMMA NextLInv == ASSUME OfficialAlone PROVE AInv /\ LInv /\ [Next]_vars => LInv'
<1> SUFFICES ASSUME AInv, LInv, [Next]_vars PROVE LInv'
  OBVIOUS
<1>1. ASSUME NEW p \in Procs, Step(p) PROVE LInv'
  BY <1>1, ConfirmLInv, ApplyLInv, FetchLInv, RecordLInv, SupersedeLInv, VerifyLInv,
     DeactivateLInv, DropLInv, UnstageLInv, StopBeginLInv, StopEndLInv, StartBeginLInv,
     StartRunLInv, StartCommitLInv, ReconcileLInv, ActivateLInv, DestroyLInv DEF Step
<1>2. ASSUME NEW p \in Procs, Crash(p) PROVE LInv'
  <2>1. Quiet /\ Done(p) /\ cmd[p].pc # "idle"
    BY <1>2 DEF Crash, Quiet, files
  <2>2. \/ lock' = lock /\ cmd[p].pc \notin Held
        \/ lock = p /\ lock' \in {"free", "dead"}
    BY <1>2 DEF Crash, LInv, Locks
  <2> QED BY <2>1, <2>2, QuietEnd
<1> QED BY <1>1, <1>2, CommandLInv, WorldLInv DEF Next

\* It holds in every reachable state.
LEMMA LInvariance == ASSUME OfficialAlone PROVE Spec => []LInv
<1>1. AInv /\ LInv /\ [Next]_vars => LInv'
  BY NextLInv
<1> QED BY <1>1, InitLInv, AInvariance, PTL DEF Spec

\* A container that is active is recorded.
LEMMA ActiveRecorded ==
    ASSUME AInv, NEW a \in Aliases, file.cus[a].activated PROVE a \in Recorded(file)
<1>1. NoSLC.activated = FALSE
  BY DEF NoSLC
<1> QED BY <1>1 DEF Recorded

\* The state stays well-typed: the lock is held only by a process that works under it, and
\* what a destroy or a removal has taken is recorded.
THEOREM SLCTypeCorrect == ASSUME OfficialAlone PROVE Spec => []TypeOK
<1>1. AInv /\ LInv => TypeOK
  <2> SUFFICES ASSUME AInv, LInv PROVE TypeOK
    OBVIOUS
  <2>1. \A p \in Procs : lock = p => cmd[p].pc \notin {"confirm", "apply", "stop", "start", "verify"}
    BY DEF LInv, Locks, Held
  <2>2. /\ file.wf \in Workflows /\ file.off \subseteq Entries /\ DOMAIN file.cus = Aliases
    BY DEF AInv, Types, FileType
  <2> QED BY <2>1, <2>2 DEF AInv, Types, LInv, Locks, Sound, TypeOK, Workflows, Entries
<1> QED BY <1>1, AInvariance, LInvariance, PTL

\* Whatever step a command is killed or fails at, and whatever another deployment prunes,
\* the package of every recorded container is staged, unless a destroy has taken it: the
\* package is promoted before the record is written, and dropped after.
THEOREM PackagesKept == ASSUME OfficialAlone PROVE Spec => []RecordedHasPackage
<1>1. LInv => RecordedHasPackage
  BY DEF LInv, Sound, RecordedHasPackage
<1> QED BY <1>1, LInvariance, PTL

\* A container that `slc list` shows as available is one its alias resolves to, with the two
\* exceptions AvailableResolves states: a destroy has taken the database, or a removal
\* was cut short after the database and before the state file, and the alias is then as the
\* removal left it.
THEOREM ListIsTrue == ASSUME OfficialAlone PROVE Spec => []AvailableResolves
<1>1. LInv => AvailableResolves
  BY DEF LInv, Sound, Resolved, WithoutCustom, AvailableResolves, CustomSLCStatuses
<1> QED BY <1>1, LInvariance, PTL

\* A custom install or update that reports success has its container active, and its alias
\* resolves to it: the check reads the file without the lock, and what it reads there is
\* already in the database.
THEOREM SuccessIsTrue == ASSUME OfficialAlone PROVE Spec => SuccessIsActive
<1> DEFINE A == \A p \in Procs :
                   /\ cmd[p].pc = "verify" /\ cmd'[p].pc = "idle" /\ trouble' = trouble
                   /\ Applied(file.cus[cmd[p].req.alias], cmd[p].req)
                   => LET a == cmd[p].req.alias IN
                      /\ file.cus[a].activated
                      /\ a \in wiped \cup half \/ langs[a] = BuildActivationURI(a, cmd[p].req)
<1>1. AInv /\ LInv /\ [Next]_vars => [A]_vars
  <2> SUFFICES ASSUME AInv, LInv, NEW p \in Procs,
                      Applied(file.cus[cmd[p].req.alias], cmd[p].req)
               PROVE  LET a == cmd[p].req.alias IN
                      /\ file.cus[a].activated
                      /\ a \in wiped \cup half \/ langs[a] = BuildActivationURI(a, cmd[p].req)
    OBVIOUS
  <2> DEFINE a == cmd[p].req.alias
  <2>1. a \in Aliases
    BY DEF AInv, Types, CmdType, ReqType
  <2>2. file.cus[a].activated /\ file.cus[a].language = cmd[p].req.language
    BY DEF Applied, Unchanged
  <2>3. a \in Recorded(file)
    BY <2>1, <2>2, ActiveRecorded
  <2>4. BuildActivationURI(a, file.cus[a]) = BuildActivationURI(a, cmd[p].req)
    BY <2>2 DEF BuildActivationURI
  <2> QED BY <2>2, <2>3, <2>4 DEF LInv, Sound, Resolved
<1> QED BY <1>1, AInvariance, LInvariance, PTL DEF Spec, SuccessIsActive

\* A start that starts the database itself, could import every image and meets no failure
\* afterwards leaves no recorded container inactive, a change recorded with --no-restart
\* included.  A start that finds the container running is outside it: it mounts nothing.
THEOREM StartActivates == ASSUME OfficialAlone PROVE Spec => DeferredTakesEffect
<1> DEFINE A == \A p \in Procs :
                   /\ cmd[p].pc \in {"reconcile", "activate"} /\ lock = p /\ lock' = "free"
                   /\ cmd[p].mounted /\ trouble' = trouble /\ up
                   => \A a \in Recorded(file') \ wiped : file'.cus[a].activated
<1>1. AInv /\ LInv /\ [Next]_vars => [A]_vars
  <2> SUFFICES ASSUME AInv, LInv, Next, NEW p \in Procs,
                      cmd[p].pc \in {"reconcile", "activate"}, lock = p, lock' = "free",
                      cmd[p].mounted, trouble' = trouble, up,
                      NEW a \in Recorded(file') \ wiped
               PROVE  file'.cus[a].activated
    OBVIOUS
  <2>0. "free" \notin Procs /\ "dead" # p /\ lock # "free" /\ ~Trouble
    <3>1. trouble \in Nat
      BY SLCAssumption DEF AInv, Types
    <3> QED BY <3>1, SLCAssumption DEF Trouble
  <2>1. \A q \in Procs : q # p => cmd[q].pc \notin Held
    BY DEF LInv, Locks
  <2>2. \A q \in Procs : ~Crash(q)
    BY <2>0 DEF Crash
  <2>3. \A q \in Procs : ~Command(q)
    <3> SUFFICES ASSUME NEW q \in Procs, Command(q) PROVE FALSE
      OBVIOUS
    <3>1. PICK c \in CmdType : Begins(q, c)
      BY CommandFacts
    <3> QED BY <2>0, <3>1 DEF Begins
  <2>4. ~(Unlock \/ OtherPrunes \/ LauncherUpgraded)
    BY <2>0 DEF Unlock, OtherPrunes, LauncherUpgraded
  <2>5. PICK q \in Procs : Step(q)
    BY <2>2, <2>3, <2>4 DEF Next
  <2>6. q = p
    <3> SUFFICES ASSUME q # p PROVE FALSE
      OBVIOUS
    <3>1. cmd[q].pc \notin Held
      BY <2>1
    <3>2. lock' = lock \/ lock' = q
      BY <2>0, <2>5, <3>1 DEF Step, Held, ConfirmOfficial, ApplySLCChange, FetchCustom,
         RecordCustom, SupersedeCustom, VerifyCustom, DeactivateCustom, DropCustom,
         UnstageCustom, StopBegin, StopEnd, StartBegin, StartRun, StartCommit,
         ReconcileCustomSLCs, ActivateWrite, DestroyRun
    <3> QED BY <2>0, <3>2
  <2>7. ReconcileCustomSLCs(p) \/ ActivateWrite(p)
    BY <2>5, <2>6 DEF Step, ConfirmOfficial, ApplySLCChange, FetchCustom,
       RecordCustom, SupersedeCustom, VerifyCustom, DeactivateCustom, DropCustom,
       UnstageCustom, StopBegin, StopEnd, StartBegin, StartRun, StartCommit, DestroyRun
  <2>8. CASE ReconcileCustomSLCs(p)
    <3>1. Pending = {} /\ file' = file
      BY <2>0, <2>8 DEF ReconcileCustomSLCs
    <3>2. a \in Recorded(file) \ wiped
      BY <3>1
    <3>3. Image(a, file.cus[a]) \in available
      BY <3>2 DEF LInv, Fits
    <3> QED BY <3>1, <3>2, <3>3 DEF Pending
  <2>9. CASE ActivateWrite(p)
    <3>1. file' = cmd[p].snap /\ cmd[p].pc = "activate"
      BY <2>0, <2>9 DEF ActivateWrite
    <3>2. a \in Aliases /\ cmd[p].snap.cus[a] # NoSLC /\ a \notin wiped
      BY <3>1 DEF Recorded
    <3>3. a \in Recorded(file) \ wiped /\ Image(a, cmd[p].snap.cus[a]) = Image(a, file.cus[a])
      BY <3>1, <3>2 DEF LInv, Fits, Recorded, Image
    <3>4. Image(a, file.cus[a]) \in available
      BY <3>1, <3>3 DEF LInv, Fits
    <3> QED BY <3>1, <3>2, <3>3, <3>4 DEF LInv, Fits
  <2> QED BY <2>7, <2>8, <2>9
<1> QED BY <1>1, AInvariance, LInvariance, PTL DEF Spec, DeferredTakesEffect
=============================================================================
