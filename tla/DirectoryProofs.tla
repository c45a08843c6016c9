-------------------------- MODULE DirectoryProofs ---------------------------
(***************************************************************************)
(* Theorems about Directory, for any number of launchers, commands, ports, *)
(* deployments and failures: the types of its files; that a directory left *)
(* by commands nothing has interrupted can be initialised or removed; that *)
(* the engine that has the data stays configured; and, while one launcher  *)
(* initialises the directory, that its files are of one deployment, that   *)
(* accepted values persist, that a started deployment has ports of its own *)
(* and that one with resources is not reconfigured.                        *)
(***************************************************************************)
EXTENDS Directory, WellFoundedInduction, TLAPS

-----------------------------------------------------------------------------
(* The choice of ports *)

\* A nonempty set of naturals has a least element.
LEMMA LeastNatural ==
    ASSUME NEW S \in SUBSET Nat, S # {}
    PROVE  \E n \in S : \A m \in S : n <= m
<1>1. PICK x \in S : \A y \in S : <<y, x>> \notin OpToRel(<, Nat)
  BY NatLessThanWellFounded, WFMin
<1>2. \A y \in S : ~(y < x)
  BY <1>1 DEF OpToRel
<1> QED BY <1>2

\* What holds of the ports while they are being allocated.
Between(ports) ==
    {m \in [Services -> Unset..MaxPort] :
        Distinct(m) /\ \A s \in Services : ports[s] > 0 => m[s] = ports[s]}

\* selectPort returns a port outside the reserved ones, or none.
LEMMA SelectPortType ==
    ASSUME NEW reserved, NEW busy
    PROVE  SelectPort(reserved, busy) \in 0..MaxPort /\
           (SelectPort(reserved, busy) > 0 => SelectPort(reserved, busy) \notin reserved)
<1> DEFINE free == (1..MaxPort) \ (reserved \cup busy)
           above == {n \in free : n >= DefaultPort}
           Least(S) == CHOOSE n \in S : \A m \in S : n <= m
<1>0. MaxPort \in Nat BY ConfigurationAssumption
<1>1. ASSUME NEW S \in SUBSET free, S # {} PROVE Least(S) \in S
  <2>1. \E n \in S : \A m \in S : n <= m BY <1>0, <1>1, LeastNatural
  <2> QED BY <2>1
<1>2. SelectPort(reserved, busy) = IF above # {} THEN Least(above) ELSE IF free # {} THEN Least(free) ELSE 0
  BY DEF SelectPort
<1>3. above # {} => Least(above) \in free BY <1>1
<1>4. free # {} => Least(free) \in free BY <1>1
<1> HIDE DEF Least, above
<1>5. SelectPort(reserved, busy) \in free \cup {0} BY <1>2, <1>3, <1>4
<1> QED BY <1>5, <1>0

\* A port given to one service keeps the ports distinct and those that were given.
LEMMA AllocateOne ==
    ASSUME NEW ports, NEW busy, NEW m \in Between(ports), NEW s \in Services, ~(m[s] > 0)
    PROVE  [m EXCEPT ![s] = SelectPort({m[t] : t \in Services} \ {0, Unset}, busy)] \in Between(ports)
<1> DEFINE n == SelectPort({m[t] : t \in Services} \ {0, Unset}, busy)
           k == [m EXCEPT ![s] = n]
<1>0. MaxPort \in Nat BY ConfigurationAssumption
<1>1. n \in 0..MaxPort /\ (n > 0 => n \notin {m[t] : t \in Services} \ {0, Unset})
  BY SelectPortType
<1>2. m \in [Services -> Unset..MaxPort] /\ Distinct(m) /\ \A t \in Services : ports[t] > 0 => m[t] = ports[t]
  BY DEF Between
<1>3. n > 0 => \A t \in Services : m[t] # n BY <1>1, <1>0 DEF Unset
<1> HIDE DEF n
<1>4. k \in [Services -> Unset..MaxPort] BY <1>1, <1>2, <1>0 DEF Unset
<1>5. Distinct(k)
  BY <1>2, <1>3, <1>1, <1>0 DEF Distinct, Unset
<1>6. \A t \in Services : ports[t] > 0 => k[t] = ports[t]
  BY <1>2
<1> QED BY <1>4, <1>5, <1>6 DEF Between, n

\* One service is given a port.
AllocateNext(m, n, busy) ==
    LET s == Catalog[n]
    IN IF m[s] > 0 THEN m
       ELSE [m EXCEPT ![s] = SelectPort({m[t] : t \in Services} \ {0, Unset}, busy)]

\* The same of one turn of the loop over the catalog.
LEMMA AllocateNextType ==
    ASSUME NEW ports, NEW busy, NEW m \in Between(ports), NEW n \in 1..Len(Catalog)
    PROVE  AllocateNext(m, n, busy) \in Between(ports)
<1>1. Catalog[n] \in Services BY ConfigurationAssumption
<1> QED BY <1>1, AllocateOne DEF AllocateNext

\* The ports the allocator returns are distinct, and those that were given are kept: by
\* induction on the turns of the loop.
LEMMA AllocateBetween ==
    ASSUME NEW ports \in [Services -> Unset..MaxPort], Distinct(ports), NEW busy
    PROVE  Allocate(ports, busy) \in Between(ports)
<1> DEFINE F(g, n) == IF n = 0 THEN ports ELSE AllocateNext(g[n - 1], n, busy)
           L == Len(Catalog)
           after == CHOOSE g : g = [n \in 0..L |-> F(g, n)]
           Steps(g, k) == g \in [0..k -> Between(ports)] /\ \A n \in 0..k : g[n] = F(g, n)
           Good == {k \in 0..L : \E g : Steps(g, k)}
<1>0. L \in Nat BY ConfigurationAssumption
<1>1. Allocate(ports, busy) = after[L]
  BY DEF Allocate, AllocateNext
<1>2. ports \in Between(ports) BY DEF Between
<1>3. L \in Good
  <2>1. SUFFICES ASSUME L \notin Good PROVE FALSE OBVIOUS
  <2> DEFINE Rest == (0..L) \ Good
  <2>a. Rest \in SUBSET Nat /\ Rest # {} BY <2>1, <1>0
  <2>2. PICK k \in Rest : \A j \in Rest : k <= j
    <3> HIDE DEF Rest
    <3> QED BY <2>a, LeastNatural
  <2>3. CASE k = 0
    <3> DEFINE h == [i \in 0..0 |-> ports]
    <3>1. Steps(h, 0) BY <1>2
    <3> QED BY <3>1, <2>2, <2>3
  <2>4. CASE k # 0
    <3>1. k - 1 \in Good
      <4> HIDE DEF Good
      <4>1. k - 1 \in 0..L /\ ~(k <= k - 1) BY <2>2, <2>4, <1>0
      <4> QED BY <2>2, <4>1
    <3>2. PICK g : Steps(g, k - 1) BY <3>1
    <3> DEFINE next == AllocateNext(g[k - 1], k, busy)
               h == [i \in 0..k |-> IF i = k THEN next ELSE g[i]]
    <3>3. k - 1 \in 0..(k - 1) /\ k \in 1..L BY <2>2, <2>4, <1>0
    <3>4. next \in Between(ports)
      BY <3>2, <3>3, AllocateNextType
    <3>5. h[k] = F(h, k)
      BY <3>3, <2>4
    <3>6. \A n \in 0..(k - 1) : h[n] = F(h, n)
      <4> HIDE DEF next
      <4>1. TAKE n \in 0..(k - 1)
      <4>2. h[n] = g[n] BY <3>3
      <4>3. g[n] = F(g, n) BY <3>2
      <4>4. n # 0 => h[n - 1] = g[n - 1] BY <3>3
      <4> QED BY <4>2, <4>3, <4>4
    <3>7. h \in [0..k -> Between(ports)]
      <4> HIDE DEF next
      <4> QED BY <3>2, <3>3, <3>4
    <3> HIDE DEF h
    <3>8. Steps(h, k)
      <4>1. \A n \in 0..k : n = k \/ n \in 0..(k - 1) BY <3>3
      <4> QED BY <3>5, <3>6, <3>7, <4>1
    <3> QED BY <3>8, <2>2
  <2> QED BY <2>3, <2>4
<1>4. PICK g : Steps(g, L) BY <1>3
<1>5. g = [n \in 0..L |-> F(g, n)]
  <2> HIDE DEF F
  <2> QED BY <1>4
<1>6. after = [n \in 0..L |-> F(after, n)]
  <2> HIDE DEF F
  <2> QED BY <1>5
<1>7. \A n \in 0..L : after[n] = F(after, n)
  <2> HIDE DEF F, after
  <2> QED BY <1>6
<1> HIDE DEF after
<1> DEFINE Wrong == {n \in 0..L : after[n] \notin Between(ports)}
<1>8. Wrong = {}
  <2>1. SUFFICES ASSUME Wrong # {} PROVE FALSE OBVIOUS
  <2>a. Wrong \in SUBSET Nat BY <1>0
  <2>2. PICK k \in Wrong : \A j \in Wrong : k <= j
    <3> HIDE DEF Wrong
    <3> QED BY <2>1, <2>a, LeastNatural
  <2>3. k # 0 BY <2>2, <1>7, <1>2
  <2>4. after[k - 1] \in Between(ports) BY <2>2, <2>3, <1>0
  <2>5. after[k] = AllocateNext(after[k - 1], k, busy) BY <1>7, <2>2, <2>3
  <2> QED BY <2>4, <2>5, <2>2, <2>3, <1>0, AllocateNextType
<1> QED BY <1>1, <1>8, <1>0

-----------------------------------------------------------------------------
(* The values of options *)

Conf == [size : {"s0", "s1"}, ports : [Services -> Unset..MaxPort],
         engine : {"auto", "podman", "docker"}, memory : {"m0", "m1"}]
RawConf == [size : {"s0", "s1", "bad"}, ports : PortMaps,
            engine : {"auto", "podman", "docker", "bad"}, memory : {"m0", "m1", "low"}]
ConfOptions == {"size", "ports", "engine", "memory"}

\* Ports that are all automatic are a choice of ports.
LEMMA AutoType == AutoPorts \in [Services -> Unset..MaxPort] /\ Distinct(AutoPorts)
BY ConfigurationAssumption DEF AutoPorts, Distinct, Unset

\* The defaults are a configuration.
LEMMA DefaultsType == RawDefaults \in Conf /\ DOMAIN RawDefaults = ConfOptions
BY AutoType DEF RawDefaults, Conf, ConfOptions

\* A stored configuration is one a command can start from.
LEMMA ConfIsRaw == \A c \in Conf : c \in RawConf /\ DOMAIN c = ConfOptions
<1>1. Unset..MaxPort \subseteq Unset..Malformed BY ConfigurationAssumption DEF Unset, Malformed
<1> QED BY <1>1 DEF Conf, RawConf, ConfOptions, PortMaps

\* Patching changes the options that are named and no others.
LEMMA PatchType ==
    ASSUME NEW c \in RawConf, NEW raw \in Raw
    PROVE  /\ PatchConfigurationValues(c, raw) \in RawConf
           /\ \A o \in ConfOptions :
                PatchConfigurationValues(c, raw)[o] = IF o \in raw.names THEN raw[o] ELSE c[o]
<1> DEFINE k == PatchConfigurationValues(c, raw)
<1>1. DOMAIN c = ConfOptions BY DEF RawConf, ConfOptions
<1>2. k = [o \in ConfOptions |-> IF o \in raw.names THEN raw[o] ELSE c[o]]
  BY <1>1 DEF PatchConfigurationValues
<1>3. \A o \in ConfOptions : k[o] = IF o \in raw.names THEN raw[o] ELSE c[o]
  BY <1>2
<1>4. /\ raw.size \in {"s0", "s1", "bad"} /\ raw.ports \in PortMaps
      /\ raw.engine \in {"auto", "podman", "docker", "bad"} /\ raw.memory \in {"m0", "m1", "low"}
  BY DEF Raw
<1>5. k = [size |-> k.size, ports |-> k.ports, engine |-> k.engine, memory |-> k.memory]
  BY <1>2 DEF ConfOptions
<1>6. k.size \in {"s0", "s1", "bad"} /\ k.ports \in PortMaps
      /\ k.engine \in {"auto", "podman", "docker", "bad"} /\ k.memory \in {"m0", "m1", "low"}
  BY <1>3, <1>4 DEF RawConf, ConfOptions
<1> HIDE DEF k
<1> QED BY <1>3, <1>5, <1>6 DEF RawConf, k

\* What the backend stores of values it accepts: the options it has, and for a local
\* backend distinct ports that are all chosen.
LEMMA StoredType ==
    ASSUME NEW kind \in {"cloud", "host", "vm"}, NEW raw \in RawConf, NEW busy, NEW recorded,
           InfraAccepted(kind, raw, recorded, busy)
    PROVE  LET c == Stored(kind, raw, busy) IN
           /\ c \in Conf /\ Distinct(c.ports)
           /\ c.size = IF kind = "cloud" THEN raw.size ELSE "s0"
           /\ c.engine = IF kind = "host" THEN raw.engine ELSE "auto"
           /\ c.memory = IF kind = "vm" THEN raw.memory ELSE "m0"
           /\ kind = "cloud" => c.ports = AutoPorts
           /\ kind # "cloud" => /\ \A s \in ToSet(Catalog) : c.ports[s] > 0
                                /\ \A s \in Services : raw.ports[s] > 0 => c.ports[s] = raw.ports[s]
<1> DEFINE c == Stored(kind, raw, busy)
<1>0. MaxPort \in Nat BY ConfigurationAssumption
<1>1. DOMAIN raw = ConfOptions BY DEF RawConf, ConfOptions
<1>2. c = [o \in ConfOptions |-> IF o \notin InfraOptions(kind) THEN RawDefaults[o]
        ELSE IF o = "ports" THEN Allocate(raw.ports, busy) ELSE raw[o]]
  BY <1>1 DEF Stored
<1>3. /\ c.size = IF kind = "cloud" THEN raw.size ELSE "s0"
      /\ c.engine = IF kind = "host" THEN raw.engine ELSE "auto"
      /\ c.memory = IF kind = "vm" THEN raw.memory ELSE "m0"
      /\ c.ports = IF kind = "cloud" THEN AutoPorts ELSE Allocate(raw.ports, busy)
  BY <1>2 DEF ConfOptions, InfraOptions, RawDefaults
<1>4. CASE kind # "cloud"
  <2>1. Resolvable(raw.ports, busy) BY <1>4 DEF InfraAccepted
  <2>2. Parses(raw.ports) /\ Distinct(raw.ports) /\ \A s \in ToSet(Catalog) : Allocate(raw.ports, busy)[s] > 0
    BY <2>1 DEF Resolvable
  <2>3. raw.ports \in [Services -> Unset..MaxPort]
    BY <2>2, <1>0 DEF Parses, RawConf, PortMaps, Malformed, Unset
  <2>4. Allocate(raw.ports, busy) \in Between(raw.ports) BY <2>2, <2>3, AllocateBetween
  <2>5. /\ c.ports \in [Services -> Unset..MaxPort] /\ Distinct(c.ports)
        /\ \A s \in ToSet(Catalog) : c.ports[s] > 0
        /\ \A s \in Services : raw.ports[s] > 0 => c.ports[s] = raw.ports[s]
    BY <1>3, <1>4, <2>2, <2>4 DEF Between
  <2>6. c = [size |-> c.size, ports |-> c.ports, engine |-> c.engine, memory |-> c.memory]
    BY <1>2 DEF ConfOptions
  <2>7. c.size \in {"s0", "s1"} BY <1>3, <1>4
  <2>8. c.engine \in {"auto", "podman", "docker"}
    BY <1>3, <1>4 DEF RawConf, InfraAccepted, EngineAccepted
  <2>9. c.memory \in {"m0", "m1"}
    BY <1>3, <1>4 DEF RawConf, InfraAccepted, MemoryAccepted
  <2> HIDE DEF c
  <2>10. c \in Conf BY <2>5, <2>6, <2>7, <2>8, <2>9 DEF Conf
  <2> QED BY <2>5, <2>10, <1>3, <1>4 DEF c
<1>5. CASE kind = "cloud"
  <2>6. c = [size |-> c.size, ports |-> c.ports, engine |-> c.engine, memory |-> c.memory]
    BY <1>2 DEF ConfOptions
  <2>7. c.size \in {"s0", "s1"} BY <1>3, <1>5 DEF InfraAccepted, RawConf
  <2> HIDE DEF c
  <2>10. c \in Conf BY <2>6, <2>7, <1>3, <1>5, AutoType DEF Conf
  <2> QED BY <2>10, <1>3, <1>5, AutoType DEF c
<1> QED BY <1>4, <1>5

-----------------------------------------------------------------------------
(* Types, control points and the lock *)

Pcs == {"idle", "seen", "match", "ready", "backfill", "log", "lock", "shared", "infra", "inst",
        "configure", "variables", "state", "marker", "read", "print", "check", "recheck", "delmarker",
        "delstate", "delrest", "delinfra", "delinst", "rmdir", "prepare", "operate", "finish", "unlock"}
Deleting == {"delmarker", "delstate", "delrest", "delinfra", "delinst"}
Cmds == {"none", "init", "get", "set", "reset", "remove"} \cup Lifecycle
Levels == {"l0", "l1", "bad"}
Wfs == {"initialized", "running", "stopped", "failed"} \cup Lifecycle

DirType == [root : BOOLEAN, shared : BOOLEAN, log : BOOLEAN, legacy : BOOLEAN]
InfraType == [is : Presence, kind : Kinds \cup {"cloud"}, file : FileStates, id : Nat, conf : Conf]
InstType == [is : Presence, file : FileStates, id : Nat, level : {"l0", "l1"}]
StateType == [is : FileStates, id : Nat, ident : Kinds \cup {"blank"}, wf : Wfs]
LockType == [ex : Procs \cup {"none", "stale"}, sh : SUBSET Procs, left : BOOLEAN]
ChosenType == [size : {"s0", "s1", "bad", "any"}, ports : PortMaps,
               engine : {"auto", "podman", "docker", "bad", "any"},
               memory : {"m0", "m1", "low", "any"}, level : Levels \cup {"any"}]
ProcType == [pc : Pcs, cmd : Cmds, then : {"none", "deploy", "remove"}, kind : Kinds \cup {"cloud"},
             raw : Raw, conf : RawConf, level : Levels, old : StateType, id : Nat, ok : BOOLEAN]

Types ==
    /\ dir \in DirType /\ infra \in InfraType /\ inst \in InstType /\ state \in StateType
    /\ infra.is = "full" => infra.kind \in Kinds
    /\ marker \in Nat \cup {EmptyMarker} /\ engine \in {"none", "podman", "docker"}
    /\ lock \in LockType /\ live \in {"none", "some", "running", "stopped"}
    /\ chosen \in ChosenType /\ lost \in BOOLEAN /\ nextId \in Nat /\ trouble \in 0..MaxTrouble
    /\ proc \in [Procs -> ProcType]

Control(p, r) ==
    /\ r.pc = "idle" <=> r.cmd = "none"
    /\ r.pc \in {"seen", "match", "ready", "backfill", "shared", "infra", "inst", "state", "marker"}
          => r.cmd = "init"
    /\ r.pc \in {"configure", "variables"} => r.cmd \in {"init", "set", "reset"}
    /\ r.pc = "read" => r.cmd \in {"set", "reset"}
    /\ r.pc = "print" => r.cmd = "get"
    /\ r.pc \in {"check", "recheck", "rmdir"} \cup Deleting => r.cmd = "remove"
    /\ r.pc \in {"prepare", "operate", "finish"} => r.cmd \in Lifecycle
    /\ r.pc # "unlock" => r.ok
    /\ r.cmd = "init" /\ r.ok => r.kind \in Kinds
    /\ r.cmd = "init" => Initializes(p)
    /\ \A o \in Options \ r.raw.names : r.raw[o] = NoRaw[o]

Exclusive(r) ==
    \/ r.pc \in {"shared", "infra", "inst", "configure", "variables", "state", "marker", "read",
                 "recheck", "prepare", "operate", "finish"} \cup Deleting
    \/ r.pc = "unlock" /\ r.cmd # "get"
Sharing(r) == r.pc = "print" \/ (r.pc = "unlock" /\ r.cmd = "get")

Locking ==
    /\ \A p \in Procs : /\ Exclusive(proc[p]) => lock.ex = p
                        /\ Sharing(proc[p]) => p \in lock.sh
    /\ lock.ex # "none" => lock.sh = {} /\ ~lock.left
    /\ lock.ex # "none" \/ lock.sh # {} \/ lock.left => dir.root

Base == Types /\ (\A p \in Procs : Control(p, proc[p])) /\ Locking

\* A command without options has options.
LEMMA NoRawType == NoRaw \in Raw
BY AutoType, ConfIsRaw, ConfigurationAssumption DEF NoRaw, Raw, PortMaps, Unset, Malformed, Conf

\* An idle process is a process.
LEMMA IdleType == Idle \in ProcType /\ \A p : Control(p, Idle)
<1>1. NoRaw \in Raw BY NoRawType
<1>2. RawDefaults \in RawConf BY DefaultsType, ConfIsRaw
<1>3. NoState \in StateType BY DEF NoState, StateType, FileStates, Wfs
<1>4. \A o \in Options \ Idle.raw.names : Idle.raw[o] = NoRaw[o] BY DEF Idle
<1> HIDE DEF Options
<1> QED BY <1>1, <1>2, <1>3, <1>4 DEF Idle, ProcType, Pcs, Cmds, Levels, Control, Deleting, Lifecycle

\* An absent preset, an absent state file: they have their types.
LEMMA DefaultTypes == NoInfra \in InfraType /\ NoInst \in InstType /\ NoState \in StateType
BY DefaultsType DEF NoInfra, NoInst, NoState, InfraType, InstType, StateType, Presence, FileStates, Wfs

\* Values nobody has chosen have their type.
LEMMA AnythingType == Anything \in ChosenType
BY NoRawType DEF Anything, ChosenType, NoRaw, Raw

FoundPorts(fixed) == [s \in Services |-> IF s \in fixed THEN DefaultPort ELSE Unset]

\* A directory is found without a deployment, or with one an earlier launcher made.
LEMMA InitCases ==
    ASSUME Init
    PROVE  \/ dir \in DirType /\ infra = NoInfra /\ inst = NoInst /\ state = NoState
              /\ marker = NoVersion /\ (dir.root \/ (~dir.shared /\ ~dir.legacy)) /\ (dir.shared => dir.legacy)
           \/ \E kind \in Kinds, fixed \in SUBSET Unknown : Found(kind, FoundPorts(fixed))
<1> USE DEF FoundPorts
<1>1. CASE \E kind \in Kinds : \E fixed \in SUBSET (IF kind = "cloud" THEN {} ELSE Unknown) :
               Found(kind, FoundPorts(fixed))
  <2>1. PICK kind \in Kinds : \E fixed \in SUBSET (IF kind = "cloud" THEN {} ELSE Unknown) :
               Found(kind, FoundPorts(fixed))
    BY <1>1
  <2>2. PICK fixed \in SUBSET (IF kind = "cloud" THEN {} ELSE Unknown) : Found(kind, FoundPorts(fixed))
    BY <2>1
  <2>3. fixed \in SUBSET Unknown BY <2>2
  <2> HIDE DEF FoundPorts
  <2> QED BY <2>2, <2>3
<1>2. CASE ~ \E kind \in Kinds : \E fixed \in SUBSET (IF kind = "cloud" THEN {} ELSE Unknown) :
               Found(kind, FoundPorts(fixed))
  <2>1. \/ /\ dir = [root |-> FALSE, shared |-> FALSE, log |-> FALSE, legacy |-> FALSE]
           /\ infra = NoInfra /\ inst = NoInst /\ state = NoState /\ marker = NoVersion
        \/ /\ dir = [root |-> TRUE, shared |-> TRUE, log |-> FALSE, legacy |-> TRUE]
           /\ infra = NoInfra /\ inst = NoInst /\ state = NoState /\ marker = NoVersion
    BY <1>2, Zenon DEF Init
  <2>2. /\ dir \in DirType /\ infra = NoInfra /\ inst = NoInst /\ state = NoState
        /\ marker = NoVersion /\ (dir.root \/ (~dir.shared /\ ~dir.legacy)) /\ (dir.shared => dir.legacy)
    <3>1. dir \in DirType
      <4>1. /\ [root |-> FALSE, shared |-> FALSE, log |-> FALSE, legacy |-> FALSE] \in DirType
            /\ [root |-> TRUE, shared |-> TRUE, log |-> FALSE, legacy |-> TRUE] \in DirType
        BY DEF DirType
      <4> QED BY <2>1, <4>1
    <3>2. dir.root \/ (dir.shared = FALSE /\ dir.legacy = FALSE) BY <2>1
    <3>3. dir.shared = FALSE \/ dir.legacy = TRUE BY <2>1
    <3> QED BY <2>1, <3>1, <3>2, <3>3
  <2> QED BY <2>2
<1> QED BY <1>1, <1>2

\* Types, control and locking hold initially.
LEMMA BaseInit == Init => Base
<1> SUFFICES ASSUME Init PROVE Base OBVIOUS
<1>1. proc = [p \in Procs |-> Idle] BY DEF Init
<1>2. \A p \in Procs : proc[p] = Idle /\ proc[p] \in ProcType /\ Control(p, proc[p]) BY <1>1, IdleType
<1>3. Locking
  BY <1>2 DEF Init, Locking, Exclusive, Sharing, Idle, Deleting
<1>4. /\ infra \in InfraType /\ (infra.is = "full" => infra.kind \in Kinds)
      /\ inst \in InstType /\ state \in StateType /\ dir \in DirType
      /\ marker \in Nat \cup {EmptyMarker}
  <2>1. CASE dir \in DirType /\ infra = NoInfra /\ inst = NoInst /\ state = NoState /\ marker = NoVersion
    BY <2>1, DefaultTypes DEF NoInfra, NoVersion
  <2>2. CASE \E kind \in Kinds, fixed \in SUBSET Unknown : Found(kind, FoundPorts(fixed))
    <3>0. PICK kind \in Kinds, fixed \in SUBSET Unknown : Found(kind, FoundPorts(fixed)) BY <2>2
    <3> DEFINE ports == FoundPorts(fixed)
    <3>1. ports \in [Services -> Unset..MaxPort] BY ConfigurationAssumption DEF Unset, FoundPorts
    <3> HIDE DEF ports
    <3>2. Found(kind, ports) BY <3>0 DEF ports
    <3>3. infra \in InfraType /\ infra.kind \in Kinds
      BY <3>1, <3>2, DefaultTypes DEF Found, InfraType, Conf, Presence, FileStates, NoInfra, RawDefaults
    <3>4. inst \in InstType /\ state \in StateType /\ dir \in DirType
      BY <3>2, DefaultTypes DEF Found, InstType, StateType, DirType, Presence, FileStates
    <3>5. marker \in Nat BY <3>2, DirectoryAssumption DEF Found
    <3> QED BY <3>3, <3>4, <3>5
  <2> QED BY <2>1, <2>2, InitCases
<1>7. lock \in LockType /\ chosen \in ChosenType BY AnythingType DEF Init, LockType
<1>8. trouble \in 0..MaxTrouble BY DirectoryAssumption DEF Init
<1> QED BY <1>1, <1>2, <1>3, <1>4, <1>7, <1>8 DEF Base, Types, Init

Moved(p, r) == r \in ProcType /\ Control(p, r) /\ proc' = [proc EXCEPT ![p] = r]

\* A step of one process leaves the others where they are.
LEMMA MovedBase ==
    ASSUME Base, NEW p \in Procs, NEW r, Moved(p, r)
    PROVE  /\ proc' \in [Procs -> ProcType] /\ \A q \in Procs : Control(q, proc'[q])
           /\ proc'[p] = r /\ \A q \in Procs \ {p} : proc'[q] = proc[q]
BY DEF Moved, Base, Types

Failed(p) == [Idle EXCEPT !.pc = "unlock", !.cmd = proc[p].cmd, !.ok = FALSE]
CommandAfter(p) == IF proc[p].then = "deploy" THEN [Idle EXCEPT !.pc = "log", !.cmd = "deploy"]
            ELSE IF proc[p].then = "remove" THEN [Idle EXCEPT !.pc = "check", !.cmd = "remove"]
            ELSE Idle

\* A command that returns leaves an idle process.
LEMMA ReturnMoved == ASSUME Base, NEW p \in Procs, Return(p) PROVE Moved(p, Idle)
BY IdleType DEF Return, Moved

\* What an idle process is.
LEMMA IdleFields ==
    /\ Idle.pc = "idle" /\ Idle.cmd = "none" /\ Idle.then = "none" /\ Idle.raw = NoRaw
    /\ Idle.ok /\ Idle.conf = RawDefaults /\ Idle.level = "l0" /\ Idle.old = NoState
BY DEF Idle

\* A command that fails goes on to release the lock.
LEMMA ErrorMoved ==
    ASSUME Base, NEW p \in Procs, Error(p), proc[p].pc # "idle" PROVE Moved(p, Failed(p))
<1>1. proc[p] \in ProcType /\ Control(p, proc[p]) BY DEF Base, Types
<1>2. Failed(p) \in ProcType
  BY <1>1, IdleType DEF Failed, ProcType, Pcs
<1>3. Failed(p).raw = NoRaw /\ Failed(p).cmd = proc[p].cmd /\ Failed(p).pc = "unlock" /\ ~Failed(p).ok
  BY DEF Failed, Idle
<1> HIDE DEF Failed
<1>4. Control(p, Failed(p))
  BY <1>1, <1>3 DEF Control, Deleting
<1>5. proc' = [proc EXCEPT ![p] = Failed(p)] BY DEF Error, Failed
<1> QED BY <1>2, <1>4, <1>5 DEF Moved

\* A command that has ended goes on to the next one of install or purge.
LEMMA GoOnMoved ==
    ASSUME Base, NEW p \in Procs, GoOn(p) PROVE Moved(p, CommandAfter(p))
<1>1. CommandAfter(p) \in ProcType
  <2>1. [Idle EXCEPT !.pc = "log", !.cmd = "deploy"] \in ProcType
    BY IdleType DEF ProcType, Pcs, Cmds, Lifecycle
  <2>2. [Idle EXCEPT !.pc = "check", !.cmd = "remove"] \in ProcType
    BY IdleType DEF ProcType, Pcs, Cmds
  <2> QED BY <2>1, <2>2, IdleType DEF CommandAfter
<1>2. Control(p, CommandAfter(p)) BY IdleType, IdleFields DEF CommandAfter, Control, Deleting, Idle, Lifecycle
<1>3. proc' = [proc EXCEPT ![p] = CommandAfter(p)] BY DEF GoOn, CommandAfter
<1> QED BY <1>1, <1>2, <1>3 DEF Moved

\* A step to another point of the same command.
LEMMA GoMoved ==
    ASSUME Base, NEW p \in Procs, NEW pc \in Pcs, Go(p, pc),
           Control(p, [proc[p] EXCEPT !.pc = pc])
    PROVE  Moved(p, [proc[p] EXCEPT !.pc = pc])
<1>1. proc[p] \in ProcType BY DEF Base, Types
<1>2. [proc[p] EXCEPT !.pc = pc] \in ProcType BY <1>1 DEF ProcType
<1>3. proc' = [proc EXCEPT ![p] = [proc[p] EXCEPT !.pc = pc]]
  BY DEF Go, Base, Types
<1> QED BY <1>2, <1>3 DEF Moved

Globals ==
    /\ dir \in DirType /\ infra \in InfraType /\ inst \in InstType /\ state \in StateType
    /\ infra.is = "full" => infra.kind \in Kinds
    /\ marker \in Nat \cup {EmptyMarker} /\ engine \in {"none", "podman", "docker"}
    /\ lock \in LockType /\ live \in {"none", "some", "running", "stopped"}
    /\ chosen \in ChosenType /\ lost \in BOOLEAN /\ nextId \in Nat /\ trouble \in 0..MaxTrouble

\* The types of the shared state are part of Base.
LEMMA GlobalsHold == Base => Globals
BY DEF Base, Types, Globals

\* What is to be shown of a step to keep Base.
LEMMA BaseNext ==
    ASSUME Base, NEW p \in Procs, NEW r, Moved(p, r), Globals', Locking' PROVE Base'
<1>1. proc' \in [Procs -> ProcType] /\ \A q \in Procs : Control(q, proc'[q]) BY MovedBase
<1>2. Types' BY <1>1 DEF Types, Globals
<1> QED BY <1>1, <1>2 DEF Base

\* A step that does not touch the lock keeps the locking.
LEMMA LockingKept ==
    ASSUME Base, NEW p \in Procs, NEW r, Moved(p, r), lock' = lock,
           dir.root => dir'.root, Exclusive(r) => Exclusive(proc[p]), Sharing(r) => Sharing(proc[p])
    PROVE  Locking'
<1>1. proc'[p] = r /\ \A q \in Procs \ {p} : proc'[q] = proc[q] BY MovedBase
<1>2. \A q \in Procs : /\ Exclusive(proc'[q]) => Exclusive(proc[q])
                       /\ Sharing(proc'[q]) => Sharing(proc[q])
  BY <1>1
<1>3. Locking BY DEF Base
<1> HIDE DEF Exclusive, Sharing
<1>4. \A q \in Procs : /\ Exclusive(proc'[q]) => lock'.ex = q
                       /\ Sharing(proc'[q]) => q \in lock'.sh
  BY <1>2, <1>3 DEF Locking
<1> QED BY <1>3, <1>4 DEF Locking

\* A step that changes no more than the record of its process, and does not enter the lock.
LEMMA BaseMoved ==
    ASSUME Base, NEW p \in Procs, NEW r, Moved(p, r), lock' = lock,
           dir.root => dir'.root, Exclusive(r) => Exclusive(proc[p]), Sharing(r) => Sharing(proc[p]),
           Globals'
    PROVE  Base'
BY LockingKept, BaseNext

\* A process has its type and is where its command can be.
LEMMA ProcTyped == ASSUME Base, NEW p \in Procs
                   PROVE  proc[p] \in ProcType /\ Control(p, proc[p]) /\ Globals
BY DEF Base, Types, Globals

\* An idle process has no lock.
LEMMA IdleOutside == ~Exclusive(Idle) /\ ~Sharing(Idle)
BY DEF Exclusive, Sharing, Idle, Deleting

\* A command that fails keeps the lock it has, and takes no other.
LEMMA FailedOutside ==
    ASSUME Base, NEW p \in Procs, Exclusive(proc[p]) \/ Sharing(proc[p]), proc[p].pc # "idle"
    PROVE  /\ Exclusive(Failed(p)) => Exclusive(proc[p])
           /\ Sharing(Failed(p)) => Sharing(proc[p])
<1>1. Control(p, proc[p]) BY DEF Base
<1>2. Failed(p).pc = "unlock" /\ Failed(p).cmd = proc[p].cmd BY DEF Failed, Idle
<1> QED BY <1>1, <1>2 DEF Exclusive, Sharing, Control, Deleting, Lifecycle

\* A command that begins has no lock.
LEMMA CommandAfterOutside == ASSUME NEW p PROVE ~Exclusive(CommandAfter(p)) /\ ~Sharing(CommandAfter(p))
BY DEF CommandAfter, Exclusive, Sharing, Idle, Deleting

\* Shared state that does not change keeps its types.
LEMMA GlobalsSame ==
    ASSUME Base, UNCHANGED <<files, lock, live, chosen, nextId, lost, trouble>> PROVE Globals'
BY GlobalsHold DEF Globals, files

\* The commands are commands of the launcher, with options it knows.
LEMMA CommandTypes ==
    ASSUME NEW p \in Procs, NEW c \in Commands[p]
    PROVE  /\ c.cmd \in CommandNames /\ c.kind \in Kinds /\ c.raw \in Raw
           /\ \A o \in Options \ c.raw.names : c.raw[o] = NoRaw[o]
<1>1. c \in [cmd : CommandNames, kind : Kinds, raw : Raw]
  BY DirectoryAssumption
<1>2. \A o \in Options \ c.raw.names : c.raw[o] = NoRaw[o]
  BY DirectoryAssumption
<1> QED BY <1>1, <1>2

Begun(c) ==
    [Idle EXCEPT
       !.cmd = CASE c.cmd = "install" -> "init" [] c.cmd = "purge" -> "destroy" [] OTHER -> c.cmd,
       !.then = CASE c.cmd = "install" -> "deploy" [] c.cmd = "purge" -> "remove" [] OTHER -> "none",
       !.pc = CASE c.cmd \in {"init", "install"} -> "seen" [] c.cmd = "remove" -> "check"
                [] c.cmd = "purge" -> "lock" [] OTHER -> "log",
       !.kind = IF c.cmd \in {"init", "install"} THEN c.kind ELSE @,
       !.raw = c.raw]

\* What a command is when it begins.
LEMMA BegunFields ==
    ASSUME NEW c, c.cmd \in CommandNames, c.kind \in Kinds
    PROVE  /\ Begun(c).cmd \in Cmds \ {"none"} /\ Begun(c).then \in {"none", "deploy", "remove"}
           /\ Begun(c).pc \in {"seen", "check", "lock", "log"} /\ Begun(c).kind \in Kinds \cup {"cloud"}
           /\ Begun(c).raw = c.raw /\ Begun(c).ok = TRUE
           /\ Begun(c).pc = "seen" => Begun(c).cmd = "init"
           /\ Begun(c).pc = "check" => Begun(c).cmd = "remove"
           /\ Begun(c).pc = "lock" => Begun(c).cmd = "destroy"
           /\ Begun(c).pc = "log" => Begun(c).cmd # "init"
           /\ Begun(c).cmd = "init" => Begun(c).kind \in Kinds /\ c.cmd \in {"init", "install"}
           /\ Begun(c).conf = Idle.conf /\ Begun(c).level = Idle.level
           /\ Begun(c).old = Idle.old /\ Begun(c).id = Idle.id
           /\ Begun(c) \in ProcType <=> c.raw \in Raw
<1> DEFINE r == Begun(c)
<1> DEFINE cmd == CASE c.cmd = "install" -> "init" [] c.cmd = "purge" -> "destroy" [] OTHER -> c.cmd
           then == CASE c.cmd = "install" -> "deploy" [] c.cmd = "purge" -> "remove" [] OTHER -> "none"
           pc == CASE c.cmd \in {"init", "install"} -> "seen" [] c.cmd = "remove" -> "check"
                  [] c.cmd = "purge" -> "lock" [] OTHER -> "log"
           kind == IF c.cmd \in {"init", "install"} THEN c.kind ELSE "cloud"
<1>0. r = [Idle EXCEPT !.cmd = cmd, !.then = then, !.pc = pc, !.kind = kind, !.raw = c.raw]
  BY DEF Begun, Idle
<1>1. /\ r.raw = c.raw /\ r.ok = TRUE /\ r.conf = Idle.conf /\ r.level = Idle.level
      /\ r.old = Idle.old /\ r.id = Idle.id
      /\ r.kind = kind /\ r.cmd = cmd /\ r.then = then /\ r.pc = pc
      /\ r = [pc |-> r.pc, cmd |-> r.cmd, then |-> r.then, kind |-> r.kind, raw |-> r.raw, conf |-> r.conf,
              level |-> r.level, old |-> r.old, id |-> r.id, ok |-> r.ok]
  <2> HIDE DEF r, cmd, then, pc, kind
  <2> QED BY <1>0 DEF Idle
<1> HIDE DEF r
<1>2. /\ r.cmd \in Cmds \ {"none"} /\ r.then \in {"none", "deploy", "remove"}
      /\ r.pc \in {"seen", "check", "lock", "log"} /\ r.kind \in Kinds \cup {"cloud"}
  BY <1>1 DEF CommandNames, Cmds, Lifecycle
<1>3. /\ r.pc = "seen" => r.cmd = "init"
      /\ r.pc = "check" => r.cmd = "remove"
      /\ r.pc = "lock" => r.cmd = "destroy"
      /\ r.pc = "log" => r.cmd # "init"
      /\ r.cmd = "init" => r.kind \in Kinds /\ c.cmd \in {"init", "install"}
  BY <1>1 DEF CommandNames
<1>4. r \in ProcType <=> c.raw \in Raw
  <2>1. r.pc \in Pcs BY <1>2 DEF Pcs
  <2>2. r.cmd \in Cmds BY <1>2
  <2>3. r.conf \in RawConf /\ r.level \in Levels /\ r.old \in StateType /\ r.id \in Nat
    BY <1>1, IdleType DEF ProcType
  <2> QED BY <1>1, <1>2, <2>1, <2>2, <2>3 DEF ProcType
<1> QED BY <1>1, <1>2, <1>3, <1>4 DEF r

\* A step of process p to the record r that does not enter the lock.
Kept(p, r) ==
    /\ Moved(p, r)
    /\ Exclusive(r) => Exclusive(proc[p])
    /\ Sharing(r) => Sharing(proc[p])

\* A record from which nothing is to be said of the files.
Harmless(r) ==
    /\ r.pc \in {"idle", "seen", "match", "ready", "log", "lock", "read", "print", "check", "recheck",
                 "rmdir", "prepare", "unlock", "marker", "delmarker"}
    /\ r.pc = "lock" => r.cmd # "init"

\* A step that does not enter the lock keeps Base with the types.
LEMMA BaseKept ==
    ASSUME Base, NEW p \in Procs, NEW r, Kept(p, r), lock' = lock, dir.root => dir'.root, Globals'
    PROVE  Base'
BY BaseMoved DEF Kept

\* A step that changes nothing but its process keeps Base.
LEMMA BaseSame ==
    ASSUME Base, NEW p \in Procs, NEW r, Kept(p, r),
           UNCHANGED <<files, lock, live, chosen, nextId, lost, trouble>>
    PROVE  Base'
BY BaseKept, GlobalsSame DEF files

Now(p, pc) == [proc[p] EXCEPT !.pc = pc]

\* A step to another point changes nothing else of a process.
LEMMA NowFields ==
    ASSUME Base, NEW p \in Procs, NEW pc
    PROVE  /\ Now(p, pc).pc = pc /\ Now(p, pc).cmd = proc[p].cmd /\ Now(p, pc).then = proc[p].then
           /\ Now(p, pc).kind = proc[p].kind /\ Now(p, pc).raw = proc[p].raw
           /\ Now(p, pc).conf = proc[p].conf /\ Now(p, pc).level = proc[p].level
           /\ Now(p, pc).old = proc[p].old /\ Now(p, pc).id = proc[p].id /\ Now(p, pc).ok = proc[p].ok
BY DEF Now, Base, Types, ProcType

\* A step to another point that does not enter the lock.
LEMMA GoKept ==
    ASSUME Base, NEW p \in Procs, NEW pc \in Pcs, Go(p, pc), Control(p, Now(p, pc)),
           Exclusive(Now(p, pc)) => Exclusive(proc[p]), Sharing(Now(p, pc)) => Sharing(proc[p])
    PROVE  Kept(p, Now(p, pc))
BY GoMoved DEF Kept, Now

\* A return does not enter the lock.
LEMMA ReturnKept == ASSUME Base, NEW p \in Procs, Return(p) PROVE Kept(p, Idle)
BY ReturnMoved, IdleOutside DEF Kept

\* Nor does a failure under the lock.
LEMMA ErrorKept ==
    ASSUME Base, NEW p \in Procs, Error(p), proc[p].pc # "idle", Exclusive(proc[p]) \/ Sharing(proc[p])
    PROVE  Kept(p, Failed(p))
BY ErrorMoved, FailedOutside DEF Kept

\* Nor does the command that follows.
LEMMA GoOnKept == ASSUME Base, NEW p \in Procs, GoOn(p) PROVE Kept(p, CommandAfter(p))
BY GoOnMoved, CommandAfterOutside DEF Kept

\* init opens the log, or goes on to deploy.
InitialisedStep(p) == IF proc[p].then = "none" THEN Now(p, "log") ELSE CommandAfter(p)

\* Nor does the end of init.
LEMMA InitialisedKept ==
    ASSUME Base, NEW p \in Procs, Initialised(p), proc[p].cmd = "init", proc[p].ok
    PROVE  Kept(p, InitialisedStep(p))
<1>1. CASE proc[p].then = "none"
  <2>1. Go(p, "log") BY <1>1 DEF Initialised
  <2>2. Control(p, proc[p]) BY ProcTyped
  <2>3. Control(p, Now(p, "log")) BY <2>2, NowFields DEF Control, Deleting
  <2>4. ~Exclusive(Now(p, "log")) /\ ~Sharing(Now(p, "log")) BY NowFields DEF Exclusive, Sharing, Deleting
  <2>5. Kept(p, Now(p, "log")) BY <2>1, <2>3, <2>4, GoKept DEF Pcs
  <2> QED BY <2>5, <1>1 DEF InitialisedStep
<1>2. CASE proc[p].then # "none"
  BY <1>2, GoOnKept DEF Initialised, InitialisedStep
<1> QED BY <1>1, <1>2

\* Nothing is to be said of an idle process.
LEMMA IdleHarmless == Harmless(Idle) /\ Idle.pc = "idle"
BY DEF Harmless, Idle

\* Nor of one whose command has failed.
LEMMA FailedHarmless == ASSUME NEW p
                        PROVE /\ Harmless(Failed(p)) /\ Failed(p).pc = "unlock"
                              /\ Failed(p).cmd = proc[p].cmd /\ Failed(p).ok = FALSE
BY DEF Harmless, Failed, Idle

\* Nor of one that begins the next command.
LEMMA CommandAfterHarmless == ASSUME NEW p
                       PROVE Harmless(CommandAfter(p)) /\ CommandAfter(p).pc \in {"log", "check", "idle"}
BY DEF Harmless, CommandAfter, Idle

\* Nor of one at a point where it has yet to read, or has written.
LEMMA NowHarmless ==
    ASSUME Base, NEW p \in Procs,
           NEW pc \in {"idle", "seen", "match", "ready", "log", "read", "print", "check", "recheck",
                 "rmdir", "prepare", "unlock", "marker", "delmarker"}
    PROVE  Harmless(Now(p, pc))
BY NowFields DEF Harmless

\* What the start of a command does.
LEMMA BeginCases ==
    ASSUME Base, NEW p \in Procs, NEW c \in Commands[p], Begin(p, c.cmd, c.kind, c.raw)
    PROVE  /\ Kept(p, Begun(c)) /\ Harmless(Begun(c)) /\ proc[p].pc = "idle"
           /\ UNCHANGED <<files, lock, live, chosen, nextId, lost, trouble>>
           /\ c.cmd \in {"init", "install"} => nextId <= MaxId
<1> DEFINE r == Begun(c)
<1>1. /\ c.cmd \in CommandNames /\ c.kind \in Kinds /\ c.raw \in Raw
      /\ \A o \in Options \ c.raw.names : c.raw[o] = NoRaw[o]
  BY CommandTypes
<1>2. /\ r.cmd # "none" /\ r.pc \in {"seen", "check", "lock", "log"} /\ r.raw = c.raw /\ r.ok = TRUE
      /\ (r.pc = "seen" => r.cmd = "init") /\ (r.pc = "check" => r.cmd = "remove")
      /\ (r.pc = "lock" => r.cmd = "destroy")
      /\ r.cmd = "init" => r.kind \in Kinds /\ c.cmd \in {"init", "install"}
      /\ r \in ProcType
  BY <1>1, BegunFields
<1>3. proc' = [proc EXCEPT ![p] = r] BY DEF Begin, Begun
<1> HIDE DEF r
<1>5. Control(p, r) BY <1>1, <1>2 DEF Control, Initializes, Deleting
<1>6. Moved(p, r) BY <1>2, <1>3, <1>5 DEF Moved
<1>7. ~Exclusive(r) /\ ~Sharing(r) BY <1>2 DEF Exclusive, Sharing, Deleting
<1>8. Harmless(r) BY <1>2 DEF Harmless
<1> QED BY <1>6, <1>7, <1>8 DEF Kept, Begin, At, r

\* Begin keeps types, control and locking.
LEMMA Base_Begin ==
    ASSUME Base, NEW p \in Procs, NEW c \in Commands[p], Begin(p, c.cmd, c.kind, c.raw) PROVE Base'
BY BeginCases, BaseSame

\* What StartLog does.
LEMMA StartLogCases ==
    ASSUME Base, NEW p \in Procs, StartLog(p)
    PROVE  /\ proc[p].pc = "log" /\ \E r : Kept(p, r) /\ Harmless(r)
           /\ dir' \in DirType /\ dir'.root /\ dir'.shared = dir.shared /\ dir'.legacy = dir.legacy
           /\ UNCHANGED <<infra, inst, state, marker, engine, lock, live, chosen, nextId, lost, trouble>>
<1>0. proc[p].pc = "log" /\ Control(p, proc[p]) /\ Globals BY ProcTyped DEF StartLog, At
<1>1. dir' \in DirType /\ dir'.root /\ dir'.shared = dir.shared /\ dir'.legacy = dir.legacy
  BY <1>0 DEF StartLog, Globals, DirType
<1>2. CASE Return(p) BY <1>0, <1>1, <1>2, ReturnKept, IdleHarmless DEF StartLog
<1>3. CASE Go(p, "lock") /\ proc[p].cmd # "init"
  <2>1. Control(p, Now(p, "lock")) BY <1>0, NowFields DEF Control, Deleting
  <2>2. ~Exclusive(Now(p, "lock")) /\ ~Sharing(Now(p, "lock")) BY NowFields DEF Exclusive, Sharing, Deleting
  <2>3. Kept(p, Now(p, "lock")) BY <2>1, <2>2, <1>3, GoKept DEF Pcs
  <2>4. Harmless(Now(p, "lock")) BY <1>3, NowFields DEF Harmless
  <2> QED BY <2>3, <2>4, <1>0, <1>1 DEF StartLog
<1> QED BY <1>2, <1>3 DEF StartLog

\* StartLog keeps types, control and locking.
LEMMA Base_StartLog == ASSUME Base, NEW p \in Procs, StartLog(p) PROVE Base'
<1>1. Globals BY ProcTyped
<1>2. Globals' BY <1>1, StartLogCases DEF Globals
<1> QED BY <1>2, StartLogCases, BaseKept

-----------------------------------------------------------------------------
(* The steps of init, and the lock *)

\* What SeeState does.
LEMMA SeeStateCases ==
    ASSUME Base, NEW p \in Procs, SeeState(p)
    PROVE  /\ proc[p].pc = "seen" /\ \E r : Kept(p, r) /\ Harmless(r)
           /\ UNCHANGED <<files, lock, live, chosen, nextId, lost, trouble>>
<1>0. Control(p, proc[p]) /\ proc[p].pc = "seen" BY ProcTyped DEF SeeState, At
<1>1. UNCHANGED <<files, lock, live, chosen, nextId, lost, trouble>> BY DEF SeeState
<1>2. CASE Return(p) BY <1>0, <1>1, <1>2, ReturnKept, IdleHarmless
<1>3. ASSUME NEW pc \in {"match", "ready"}, Go(p, pc) PROVE \E r : Kept(p, r) /\ Harmless(r)
  <2>1. Control(p, Now(p, pc)) BY <1>0, NowFields DEF Control, Deleting
  <2>2. ~Exclusive(Now(p, pc)) /\ ~Sharing(Now(p, pc)) BY NowFields DEF Exclusive, Sharing, Deleting
  <2>3. Kept(p, Now(p, pc)) BY <2>1, <2>2, <1>3, GoKept DEF Pcs
  <2> QED BY <2>3, NowHarmless
<1> QED BY <1>0, <1>1, <1>2, <1>3 DEF SeeState

\* SeeState keeps types, control and locking.
LEMMA Base_SeeState == ASSUME Base, NEW p \in Procs, SeeState(p) PROVE Base'
BY SeeStateCases, BaseSame

\* What EnsureDeploymentDirReady does.
LEMMA EnsureCases ==
    ASSUME Base, NEW p \in Procs, EnsureDeploymentDirReady(p)
    PROVE  /\ proc[p].pc = "ready" /\ proc[p].cmd = "init" /\ dir' \in DirType /\ (dir.root => dir'.root)
           /\ dir'.shared = dir.shared /\ dir'.legacy = dir.legacy
           /\ UNCHANGED <<infra, inst, state, marker, engine, lock, live, chosen, nextId, lost, trouble>>
           /\ \/ Kept(p, Idle)
              \/ Kept(p, Now(p, "lock")) /\ Empty
<1>0. Control(p, proc[p]) /\ proc[p].pc = "ready" /\ Globals BY ProcTyped DEF EnsureDeploymentDirReady, At
<1>c. proc[p].cmd = "init" BY <1>0 DEF Control
<1>1. /\ dir' \in DirType /\ (dir.root => dir'.root) /\ dir'.shared = dir.shared /\ dir'.legacy = dir.legacy
      /\ UNCHANGED <<infra, inst, state, marker, engine, lock, live, chosen, nextId, lost, trouble>>
  BY <1>0 DEF EnsureDeploymentDirReady, Globals, DirType
<1>2. CASE Return(p) BY <1>0, <1>c, <1>1, <1>2, ReturnKept
<1>3. CASE Go(p, "lock") /\ Empty
  <2>1. Control(p, Now(p, "lock")) BY <1>0, NowFields DEF Control, Deleting
  <2>2. ~Exclusive(Now(p, "lock")) /\ ~Sharing(Now(p, "lock")) BY NowFields DEF Exclusive, Sharing, Deleting
  <2>3. Kept(p, Now(p, "lock")) BY <2>1, <2>2, <1>3, GoKept DEF Pcs
  <2> QED BY <2>3, <1>0, <1>c, <1>1, <1>3
<1> QED BY <1>2, <1>3 DEF EnsureDeploymentDirReady

\* EnsureDeploymentDirReady keeps types, control and locking.
LEMMA Base_EnsureDeploymentDirReady ==
    ASSUME Base, NEW p \in Procs, EnsureDeploymentDirReady(p) PROVE Base'
<1>1. Globals BY ProcTyped
<1>2. Globals' BY <1>1, EnsureCases DEF Globals
<1> QED BY <1>2, EnsureCases, BaseKept

\* init goes on to set the options it was given.
Patching(p) == [proc[p] EXCEPT !.cmd = "set", !.pc = IF proc[p].then = "none" THEN "log" ELSE "lock"]

\* What init is when it goes on as config set.
LEMMA PatchingFields ==
    ASSUME Base, NEW p \in Procs
    PROVE  /\ Patching(p).pc \in {"log", "lock"} /\ Patching(p).cmd = "set"
           /\ Patching(p).then = proc[p].then
           /\ Patching(p).kind = proc[p].kind /\ Patching(p).raw = proc[p].raw
           /\ Patching(p).conf = proc[p].conf /\ Patching(p).level = proc[p].level
           /\ Patching(p).old = proc[p].old /\ Patching(p).id = proc[p].id /\ Patching(p).ok = proc[p].ok
BY DEF Patching, Base, Types, ProcType

\* What init does where it finds a deployment: it refuses another preset, and goes on to
\* patch with the options it was given.
LEMMA MatchedKept ==
    ASSUME Base, NEW p \in Procs, NEW ident, Matched(p, ident), proc[p].cmd = "init", proc[p].ok
    PROVE  /\ \/ Kept(p, Idle)
              \/ Kept(p, InitialisedStep(p)) /\ proc[p].raw.names = {} /\ ident = proc[p].kind
              \/ Kept(p, Patching(p)) /\ ident = proc[p].kind
<1>0. Control(p, proc[p]) /\ proc[p] \in ProcType BY ProcTyped
<1>1. CASE Return(p) BY <1>1, ReturnKept
<1>2. CASE Initialised(p) /\ proc[p].raw.names = {} /\ ident = proc[p].kind BY <1>2, InitialisedKept
<1>3. CASE /\ ident = proc[p].kind
           /\ proc' = [proc EXCEPT ![p].cmd = "set",
                                   ![p].pc = IF proc[p].then = "none" THEN "log" ELSE "lock"]
  <2>1. Patching(p) \in ProcType BY <1>0 DEF Patching, ProcType, Pcs, Cmds
  <2>2. Control(p, Patching(p)) BY <1>0, PatchingFields DEF Control, Deleting
  <2>3. ~Exclusive(Patching(p)) /\ ~Sharing(Patching(p)) BY PatchingFields DEF Exclusive, Sharing, Deleting
  <2>4. proc' = [proc EXCEPT ![p] = Patching(p)] BY <1>3 DEF Patching, Base, Types
  <2> QED BY <2>1, <2>2, <2>3, <2>4, <1>3 DEF Kept, Moved
<1> QED BY <1>1, <1>2, <1>3 DEF Matched, ApplyPatchIfProvided

Backfilling(p) == [proc[p] EXCEPT !.pc = "backfill", !.old = Backfilled(state)]

\* Filling in the preset's name changes nothing else of the state.
LEMMA BackfilledType ==
    ASSUME state \in StateType, state.ident = "blank" => infra.kind \in Kinds
    PROVE  /\ Backfilled(state) \in StateType /\ Backfilled(state).is = state.is
           /\ Backfilled(state).id = state.id /\ Backfilled(state).wf = state.wf
           /\ Backfilled(state).ident = IF state.ident = "blank" THEN infra.kind ELSE state.ident
BY DEF Backfilled, StateType

\* What init holds when it is about to fill in the name.
LEMMA BackfillingFields ==
    ASSUME Base, NEW p \in Procs
    PROVE  /\ Backfilling(p).pc = "backfill" /\ Backfilling(p).cmd = proc[p].cmd
           /\ Backfilling(p).then = proc[p].then
           /\ Backfilling(p).kind = proc[p].kind /\ Backfilling(p).raw = proc[p].raw
           /\ Backfilling(p).conf = proc[p].conf /\ Backfilling(p).level = proc[p].level
           /\ Backfilling(p).old = Backfilled(state) /\ Backfilling(p).id = proc[p].id
           /\ Backfilling(p).ok = proc[p].ok
BY DEF Backfilling, Base, Types, ProcType

\* That step does not enter the lock.
LEMMA BackfillingKept ==
    ASSUME Base, NEW p \in Procs, proc[p].pc = "match", state.ident = "blank", Readable,
           proc' = [proc EXCEPT ![p].pc = "backfill", ![p].old = Backfilled(state)]
    PROVE  Kept(p, Backfilling(p))
<1>0. Control(p, proc[p]) /\ proc[p] \in ProcType /\ Globals BY ProcTyped
<1>1. Backfilled(state) \in StateType BY <1>0, BackfilledType DEF Globals, Readable, ManifestReadable
<1>2. Backfilling(p) \in ProcType BY <1>0, <1>1 DEF Backfilling, ProcType, Pcs
<1>3. Control(p, Backfilling(p)) BY <1>0, BackfillingFields DEF Control, Deleting
<1>4. ~Exclusive(Backfilling(p)) /\ ~Sharing(Backfilling(p)) BY BackfillingFields DEF Exclusive, Sharing, Deleting
<1>5. proc' = [proc EXCEPT ![p] = Backfilling(p)] BY DEF Backfilling, Base, Types
<1> QED BY <1>2, <1>3, <1>4, <1>5 DEF Kept, Moved

\* Nothing is to be said of an init that has ended.
LEMMA InitialisedHarmless ==
    ASSUME Base, NEW p \in Procs PROVE Harmless(InitialisedStep(p))
BY CommandAfterHarmless, NowHarmless DEF InitialisedStep

\* Nor of one that has found a deployment.
LEMMA MatchedHarmless ==
    ASSUME Base, NEW p \in Procs, NEW ident, Matched(p, ident), proc[p].cmd = "init", proc[p].ok
    PROVE  \E r : Kept(p, r) /\ Harmless(r)
<1>1. Harmless(Patching(p)) BY PatchingFields DEF Harmless
<1> QED BY <1>1, MatchedKept, InitialisedHarmless, IdleHarmless

\* What MatchPresets does.
LEMMA MatchCases ==
    ASSUME Base, NEW p \in Procs, MatchPresets(p)
    PROVE  /\ proc[p].pc = "match" /\ proc[p].cmd = "init"
           /\ UNCHANGED <<files, lock, live, chosen, nextId, lost, trouble>>
           /\ \/ \E r : Kept(p, r) /\ Harmless(r)
              \/ Kept(p, Backfilling(p)) /\ StateReadable /\ Readable /\ state.ident = "blank"
<1>0. Control(p, proc[p]) /\ proc[p].pc = "match" BY ProcTyped DEF MatchPresets, At
<1>1. UNCHANGED <<files, lock, live, chosen, nextId, lost, trouble>> BY DEF MatchPresets
<1>c. proc[p].cmd = "init" /\ proc[p].ok BY <1>0 DEF Control
<1>2. CASE Return(p) BY <1>0, <1>c, <1>1, <1>2, ReturnKept, IdleHarmless
<1>3. CASE /\ state.ident = "blank" /\ Readable /\ StateReadable
           /\ proc' = [proc EXCEPT ![p].pc = "backfill", ![p].old = Backfilled(state)]
  BY <1>0, <1>c, <1>1, <1>3, BackfillingKept
<1>4. CASE Matched(p, state.ident)
  <2>1. \E r : Kept(p, r) /\ Harmless(r) BY <1>4, <1>c, MatchedHarmless
  <2> QED BY <2>1, <1>0, <1>c, <1>1
<1> QED BY <1>2, <1>3, <1>4 DEF MatchPresets

\* MatchPresets keeps types, control and locking.
LEMMA Base_MatchPresets == ASSUME Base, NEW p \in Procs, MatchPresets(p) PROVE Base'
BY MatchCases, BaseSame

\* What BackfillIdentity does.
LEMMA BackfillCases ==
    ASSUME Base, NEW p \in Procs, BackfillIdentity(p)
    PROVE  /\ proc[p].pc = "backfill" /\ proc[p].cmd = "init"
           /\ \E r : Kept(p, r) /\ Harmless(r)
           /\ UNCHANGED <<dir, infra, inst, marker, engine, lock, live, chosen, nextId>>
           /\ lost' = (lost \/ (dir.root /\ [state EXCEPT !.ident = proc[p].old.ident] # proc[p].old))
           /\ \/ dir.root /\ state' = proc[p].old /\ trouble' = trouble
              \/ dir.root /\ Trouble /\ state' = [state EXCEPT !.is = "torn"]
              \/ ~dir.root /\ state' = state /\ trouble' = trouble
<1>0. Control(p, proc[p]) /\ proc[p].pc = "backfill" BY ProcTyped DEF BackfillIdentity, At
<1>c. proc[p].cmd = "init" /\ proc[p].ok BY <1>0 DEF Control
<1>1. \E r : Kept(p, r) /\ Harmless(r)
  <2>1. CASE Return(p) BY <2>1, ReturnKept, IdleHarmless
  <2>2. CASE Matched(p, proc[p].old.ident) BY <2>2, <1>c, MatchedHarmless
  <2> QED BY <2>1, <2>2 DEF BackfillIdentity
<1> QED BY <1>0, <1>c, <1>1 DEF BackfillIdentity

\* BackfillIdentity keeps types, control and locking.
LEMMA Base_BackfillIdentity == ASSUME Base, NEW p \in Procs, BackfillIdentity(p) PROVE Base'
<1>0. Control(p, proc[p]) /\ proc[p].pc = "backfill" /\ Globals /\ proc[p] \in ProcType
  BY ProcTyped DEF BackfillIdentity, At
<1>c. proc[p].cmd = "init" /\ proc[p].ok BY <1>0 DEF Control
<1>1. \E r : Kept(p, r)
  <2>1. CASE Return(p) BY <2>1, ReturnKept
  <2>2. CASE Matched(p, proc[p].old.ident) BY <2>2, <1>c, MatchedKept, Zenon
  <2> QED BY <2>1, <2>2 DEF BackfillIdentity
<1>2. Globals'
  <2>1. state' \in StateType /\ trouble' \in 0..MaxTrouble
    BY <1>0, DirectoryAssumption DEF BackfillIdentity, Globals, StateType, ProcType, Trouble, FileStates
  <2>2. lost' \in BOOLEAN BY <1>0 DEF BackfillIdentity, Globals
  <2> QED BY <2>1, <2>2, <1>0 DEF BackfillIdentity, Globals
<1>3. lock' = lock /\ dir' = dir BY DEF BackfillIdentity
<1> QED BY <1>1, <1>2, <1>3, BaseKept

\* The locks of the other processes are those they had.
LEMMA OthersLock ==
    ASSUME Base, NEW p \in Procs, NEW r, Moved(p, r),
           Exclusive(r) => lock'.ex = p, Sharing(r) => p \in lock'.sh,
           \A q \in Procs \ {p} : /\ lock.ex = q => lock'.ex = q
                                  /\ q \in lock.sh => q \in lock'.sh,
           lock'.ex # "none" => lock'.sh = {} /\ ~lock'.left,
           lock'.ex # "none" \/ lock'.sh # {} \/ lock'.left => dir'.root
    PROVE  Locking'
<1>1. proc'[p] = r /\ \A q \in Procs \ {p} : proc'[q] = proc[q] BY MovedBase
<1>2. Locking BY DEF Base
<1> HIDE DEF Exclusive, Sharing
<1>4. \A q \in Procs : /\ Exclusive(proc'[q]) => lock'.ex = q
                       /\ Sharing(proc'[q]) => q \in lock'.sh
  BY <1>1, <1>2 DEF Locking
<1> QED BY <1>4 DEF Locking

\* What Acquire does.
LEMMA AcquireCases ==
    ASSUME Base, NEW p \in Procs, Acquire(p)
    PROVE  /\ proc[p].pc = "lock" /\ Moved(p, Now(p, FirstStep(proc[p].cmd)))
           /\ IF proc[p].cmd = "init" THEN FirstStep(proc[p].cmd) = "shared"
              ELSE Harmless(Now(p, FirstStep(proc[p].cmd)))
           /\ UNCHANGED <<files, live, chosen, nextId, lost, trouble>>
<1> DEFINE pc == FirstStep(proc[p].cmd)
           r == Now(p, pc)
<1>0. Control(p, proc[p]) /\ proc[p].pc = "lock" /\ Globals /\ proc[p] \in ProcType
  BY ProcTyped DEF Acquire, At
<1>p. proc[p].cmd \in Cmds \ {"none"} BY <1>0 DEF Control, ProcType
<1>1. /\ pc \in {"shared", "read", "print", "recheck", "prepare"}
      /\ (pc = "shared") <=> (proc[p].cmd = "init")
      /\ (pc = "read") <=> (proc[p].cmd \in {"set", "reset"})
      /\ (pc = "print") <=> (proc[p].cmd = "get")
      /\ (pc = "recheck") <=> (proc[p].cmd = "remove")
      /\ (pc = "prepare") => (proc[p].cmd \in Lifecycle)
  BY <1>p DEF FirstStep, Cmds, Lifecycle
<1>2. Go(p, pc) BY DEF Acquire
<1> HIDE DEF pc
<1>3. Control(p, r) BY <1>0, <1>1, NowFields DEF Control, Deleting
<1>4. Moved(p, r) BY <1>1, <1>2, <1>3, GoMoved DEF Now, Pcs
<1>5. pc # "shared" => Harmless(r) BY <1>1, NowHarmless
<1> QED BY <1>0, <1>1, <1>4, <1>5 DEF Acquire, pc

\* Acquire keeps types, control and locking.
LEMMA Base_Acquire == ASSUME Base, NEW p \in Procs, Acquire(p) PROVE Base'
<1> DEFINE pc == FirstStep(proc[p].cmd)
           r == Now(p, pc)
<1>0. Control(p, proc[p]) /\ proc[p].pc = "lock" /\ Globals /\ proc[p] \in ProcType
  BY ProcTyped DEF Acquire, At
<1>p. proc[p].cmd \in Cmds \ {"none"} BY <1>0 DEF Control, ProcType
<1>1. /\ pc \in {"shared", "read", "print", "recheck", "prepare"}
      /\ (pc = "shared") <=> (proc[p].cmd = "init")
      /\ (pc = "read") <=> (proc[p].cmd \in {"set", "reset"})
      /\ (pc = "print") <=> (proc[p].cmd = "get")
      /\ (pc = "recheck") <=> (proc[p].cmd = "remove")
      /\ (pc = "prepare") => (proc[p].cmd \in Lifecycle)
  BY <1>p DEF FirstStep, Cmds, Lifecycle
<1>2. Go(p, pc) BY DEF Acquire
<1> HIDE DEF pc
<1>3. Control(p, r) BY <1>0, <1>1, NowFields DEF Control, Deleting
<1>4. Moved(p, r) BY <1>1, <1>2, <1>3, GoMoved DEF Now, Pcs
<1>5. /\ dir' = dir /\ dir.root /\ lock.ex = "none"
      /\ IF proc[p].cmd = "get" THEN lock'.ex = "none" /\ lock'.sh = lock.sh \cup {p} /\ lock'.left = lock.left
         ELSE lock'.ex = p /\ lock'.sh = {} /\ lock'.left = FALSE
      /\ lock' \in LockType
  BY <1>0, DirectoryAssumption DEF Acquire, files, Available, Shared, Globals, LockType
<1>6. (Exclusive(r) => proc[p].cmd # "get") /\ (Sharing(r) => proc[p].cmd = "get")
  BY <1>1, NowFields DEF Exclusive, Sharing, Deleting
<1>7. Globals' BY <1>0, <1>5 DEF Acquire, Globals, files
<1>8. "none" \notin Procs BY DirectoryAssumption
<1>9. Locking'
  <2> HIDE DEF r
  <2>2. \A q \in Procs \ {p} : (lock.ex = q => lock'.ex = q) /\ (q \in lock.sh => q \in lock'.sh)
    BY <1>5, <1>8 DEF Acquire, Available, Shared
  <2> QED BY <1>4, <1>5, <1>6, <1>8, <2>2, OthersLock
<1> QED BY <1>4, <1>7, <1>9, BaseNext

\* AcquireTimeout keeps types, control and locking.
LEMMA Base_AcquireTimeout == ASSUME Base, NEW p \in Procs, AcquireTimeout(p) PROVE Base'
BY ReturnKept, BaseSame DEF AcquireTimeout

\* What a process does when it has released the lock.
Printing(p) == [Idle EXCEPT !.cmd = "get", !.pc = "lock", !.then = proc[p].then]

\* What config set and config reset do after they have written: print.
LEMMA PrintingMoved ==
    ASSUME Base, NEW p \in Procs, proc' = [proc EXCEPT ![p] = Printing(p)]
    PROVE  /\ Moved(p, Printing(p)) /\ ~Exclusive(Printing(p)) /\ ~Sharing(Printing(p))
           /\ Harmless(Printing(p))
<1>0. proc[p] \in ProcType BY ProcTyped
<1>1. Printing(p) \in ProcType BY <1>0, IdleType DEF Printing, ProcType, Pcs, Cmds
<1>2. Printing(p).pc = "lock" /\ Printing(p).cmd = "get" /\ Printing(p).ok /\ Printing(p).raw = NoRaw
  BY DEF Printing, Idle
<1>3. Control(p, Printing(p)) BY <1>2 DEF Control, Deleting
<1>4. ~Exclusive(Printing(p)) /\ ~Sharing(Printing(p)) BY <1>2 DEF Exclusive, Sharing, Deleting
<1>5. Harmless(Printing(p)) BY <1>2 DEF Harmless
<1> QED BY <1>1, <1>3, <1>4, <1>5 DEF Moved

\* Outside the lock.
Outside(r) == ~Exclusive(r) /\ ~Sharing(r)

\* What Release does.
LEMMA ReleaseCases ==
    ASSUME Base, NEW p \in Procs, Release(p)
    PROVE  \E r : /\ Moved(p, r) /\ Outside(r) /\ Harmless(r)
                  /\ \/ r = Idle
                     \/ r = Printing(p) /\ proc[p].cmd \in {"set", "reset"}
                     \/ r = Now(p, "rmdir") /\ proc[p].cmd = "remove"
                     \/ r = InitialisedStep(p) /\ proc[p].cmd = "init" /\ proc[p].ok
                     \/ r = CommandAfter(p)
<1>0. Control(p, proc[p]) /\ proc[p].pc = "unlock" BY ProcTyped DEF Release, At
<1>1. CASE Return(p) BY <1>1, ReturnKept, IdleOutside, IdleHarmless DEF Kept, Outside
<1>2. CASE proc' = [proc EXCEPT ![p] = Printing(p)] /\ proc[p].cmd \in {"set", "reset"}
  BY <1>2, PrintingMoved DEF Outside
<1>3. CASE Go(p, "rmdir") /\ proc[p].ok /\ proc[p].cmd = "remove"
  <2>1. Control(p, Now(p, "rmdir")) BY <1>0, <1>3, NowFields DEF Control, Deleting
  <2>2. Outside(Now(p, "rmdir")) BY NowFields DEF Exclusive, Sharing, Deleting, Outside
  <2>3. Kept(p, Now(p, "rmdir")) BY <2>1, <2>2, <1>3, GoKept DEF Pcs, Outside
  <2> QED BY <2>2, <2>3, <1>3, NowHarmless DEF Kept
<1>4. CASE Initialised(p) /\ proc[p].ok /\ proc[p].cmd = "init"
  <2>1. Kept(p, InitialisedStep(p)) BY <1>4, InitialisedKept
  <2>2. Outside(InitialisedStep(p))
    BY CommandAfterOutside, NowFields DEF InitialisedStep, Outside, Exclusive, Sharing, Deleting
  <2> QED BY <2>1, <2>2, <1>4, InitialisedHarmless DEF Kept
<1>5. CASE GoOn(p) BY <1>5, GoOnKept, CommandAfterHarmless, CommandAfterOutside DEF Kept, Outside
<1>6. \/ Return(p)
      \/ proc' = [proc EXCEPT ![p] = Printing(p)] /\ proc[p].cmd \in {"set", "reset"}
      \/ Go(p, "rmdir") /\ proc[p].ok /\ proc[p].cmd = "remove"
      \/ Initialised(p) /\ proc[p].ok /\ proc[p].cmd = "init"
      \/ GoOn(p)
  <2>1. CASE ~proc[p].ok BY <2>1 DEF Release
  <2>2. CASE proc[p].ok /\ proc[p].cmd \in {"set", "reset"} BY <2>2 DEF Release, Printing
  <2>3. CASE proc[p].ok /\ proc[p].cmd = "remove" BY <2>3 DEF Release
  <2>4. CASE proc[p].ok /\ proc[p].cmd = "init" BY <2>4 DEF Release
  <2>5. CASE proc[p].ok /\ proc[p].cmd \notin {"set", "reset", "remove", "init"} BY <2>5 DEF Release
  <2> QED BY <2>1, <2>2, <2>3, <2>4, <2>5
<1> QED BY <1>1, <1>2, <1>3, <1>4, <1>5, <1>6

\* Release keeps types, control and locking.
LEMMA Base_Release == ASSUME Base, NEW p \in Procs, Release(p) PROVE Base'
<1>1. PICK r : Moved(p, r) /\ Outside(r) BY ReleaseCases
<1>2. Globals BY ProcTyped
<1>3. /\ lock'.ex = (IF lock.ex = p THEN "none" ELSE lock.ex) /\ lock'.sh = lock.sh \ {p}
      /\ lock'.left = lock.left /\ lock' \in LockType
  BY <1>2 DEF Release, Globals, LockType
<1>4. Globals' BY <1>2, <1>3 DEF Release, Globals, files
<1>5. dir' = dir /\ Locking BY DEF Release, files, Base
<1>6. Locking'
  <2>1. lock'.ex # "none" => lock.ex # "none" BY <1>3
  <2>2. lock'.ex # "none" => lock'.sh = {} /\ ~lock'.left BY <1>3, <1>5, <2>1 DEF Locking
  <2>3. lock'.sh # {} => lock.sh # {} BY <1>3
  <2>4. lock'.ex # "none" \/ lock'.sh # {} \/ lock'.left => dir'.root
    BY <1>3, <1>5, <2>1, <2>3 DEF Locking
  <2> QED BY <1>1, <1>3, <2>2, <2>4, OthersLock DEF Outside
<1> QED BY <1>1, <1>4, <1>6, BaseNext

\* A step of a process that holds the lock and goes on holding it, or gives up.
LEMMA GoInside ==
    ASSUME Base, NEW p \in Procs, NEW pc \in Pcs, Go(p, pc), Control(p, Now(p, pc)),
           Exclusive(proc[p])
    PROVE  Kept(p, Now(p, pc))
<1>1. proc[p].cmd # "get"
  BY ProcTyped DEF Exclusive, Control, Deleting, Lifecycle
<1>2. ~Sharing(Now(p, pc)) \/ pc = "print" BY <1>1, NowFields DEF Sharing
<1>3. pc # "print" BY <1>1, NowFields DEF Control
<1> QED BY <1>2, <1>3, GoKept

\* The points of a command that holds the lock exclusively.
LEMMA InsideExclusive ==
    ASSUME NEW r, r.pc \in {"shared", "infra", "inst", "configure", "variables", "state", "marker", "read",
                 "recheck", "prepare", "operate", "finish"} \cup Deleting
    PROVE  Exclusive(r) /\ r.pc # "idle"
BY DEF Exclusive, Deleting

Extracting(p) == [proc[p] EXCEPT !.pc = "infra", !.id = nextId]

\* What init is when it has made a deployment's identifier.
LEMMA ExtractingFields ==
    ASSUME Base, NEW p \in Procs
    PROVE  /\ Extracting(p).pc = "infra" /\ Extracting(p).cmd = proc[p].cmd
           /\ Extracting(p).then = proc[p].then
           /\ Extracting(p).kind = proc[p].kind /\ Extracting(p).raw = proc[p].raw
           /\ Extracting(p).conf = proc[p].conf /\ Extracting(p).level = proc[p].level
           /\ Extracting(p).old = proc[p].old /\ Extracting(p).id = nextId
           /\ Extracting(p).ok = proc[p].ok
BY DEF Extracting, Base, Types, ProcType

\* What ExtractShared does.
LEMMA ExtractSharedCases ==
    ASSUME Base, NEW p \in Procs, ExtractShared(p)
    PROVE  \/ Kept(p, Extracting(p)) /\ trouble' = trouble
           \/ Kept(p, Failed(p)) /\ Trouble
<1>0. Control(p, proc[p]) /\ proc[p].pc = "shared" /\ Globals /\ proc[p] \in ProcType
  BY ProcTyped DEF ExtractShared, At
<1>e. Exclusive(proc[p]) /\ proc[p].pc # "idle" BY <1>0, InsideExclusive
<1>1. CASE Error(p) /\ Trouble BY <1>1, <1>e, ErrorKept
<1>2. CASE proc' = [proc EXCEPT ![p].pc = "infra", ![p].id = nextId] /\ trouble' = trouble
  <2>1. Extracting(p) \in ProcType BY <1>0 DEF Extracting, ProcType, Pcs, Globals
  <2>2. Control(p, Extracting(p)) BY <1>0, ExtractingFields DEF Control, Deleting
  <2>3. ~Sharing(Extracting(p)) BY ExtractingFields DEF Sharing
  <2>4. proc' = [proc EXCEPT ![p] = Extracting(p)] BY <1>2 DEF Extracting, Base, Types
  <2>5. Moved(p, Extracting(p)) BY <2>1, <2>2, <2>4 DEF Moved
  <2> QED BY <2>3, <2>5, <1>e, <1>2 DEF Kept
<1> QED BY <1>1, <1>2 DEF ExtractShared

\* Trouble stays within its bound.
LEMMA TroubleType == ASSUME Globals, Trouble \/ trouble' = trouble PROVE trouble' \in 0..MaxTrouble
BY DirectoryAssumption DEF Globals, Trouble

\* ExtractShared keeps types, control and locking.
LEMMA Base_ExtractShared == ASSUME Base, NEW p \in Procs, ExtractShared(p) PROVE Base'
<1>1. \E r : Kept(p, r) BY ExtractSharedCases
<1>2. Globals BY ProcTyped
<1>t. trouble' \in 0..MaxTrouble BY <1>2, TroubleType, ExtractSharedCases
<1>5. dir' \in DirType BY <1>2 DEF ExtractShared, Globals, DirType, WriteSharedDir
<1>6. nextId' \in Nat BY <1>2 DEF ExtractShared, Globals
<1>3. Globals' BY <1>2, <1>t, <1>5, <1>6 DEF ExtractShared, Globals
<1>4. lock' = lock /\ dir'.root = dir.root BY <1>2 DEF ExtractShared, WriteSharedDir, Globals, DirType
<1> QED BY <1>1, <1>3, <1>4, BaseKept

\* What ExtractInfra does.
LEMMA ExtractInfraCases ==
    ASSUME Base, NEW p \in Procs, ExtractInfra(p)
    PROVE  \/ /\ Kept(p, Now(p, "inst")) /\ trouble' = trouble
              /\ infra' = [NoInfra EXCEPT !.is = "full", !.kind = proc[p].kind]
           \/ Kept(p, Failed(p)) /\ Trouble /\ infra' = [NoInfra EXCEPT !.is = "partial"]
<1>0. Control(p, proc[p]) /\ proc[p].pc = "infra" BY ProcTyped DEF ExtractInfra, At
<1>e. Exclusive(proc[p]) /\ proc[p].pc # "idle" BY <1>0, InsideExclusive
<1>1. CASE Trouble /\ Error(p) /\ infra' = [NoInfra EXCEPT !.is = "partial"] BY <1>1, <1>e, ErrorKept
<1>2. CASE Go(p, "inst") /\ infra' = [NoInfra EXCEPT !.is = "full", !.kind = proc[p].kind] /\ trouble' = trouble
  <2>2. Control(p, Now(p, "inst")) BY <1>0, NowFields DEF Control, Deleting
  <2> QED BY <2>2, <1>e, <1>2, GoInside DEF Pcs
<1> QED BY <1>1, <1>2 DEF ExtractInfra

\* ExtractInfra keeps types, control and locking.
LEMMA Base_ExtractInfra == ASSUME Base, NEW p \in Procs, ExtractInfra(p) PROVE Base'
<1>0. Control(p, proc[p]) /\ proc[p].pc = "infra" /\ Globals BY ProcTyped DEF ExtractInfra, At
<1>1. \E r : Kept(p, r) BY ExtractInfraCases
<1>2. infra' \in InfraType /\ (infra'.is = "full" => infra'.kind \in Kinds) /\ trouble' \in 0..MaxTrouble
  <2>1. proc[p].kind \in Kinds BY <1>0 DEF Control
  <2>2. /\ [NoInfra EXCEPT !.is = "full", !.kind = proc[p].kind] \in InfraType
        /\ [NoInfra EXCEPT !.is = "full", !.kind = proc[p].kind].kind = proc[p].kind
        /\ [NoInfra EXCEPT !.is = "partial"] \in InfraType
        /\ [NoInfra EXCEPT !.is = "partial"].is = "partial"
    BY <2>1, DefaultTypes DEF InfraType, Presence, NoInfra
  <2>3. trouble' \in 0..MaxTrouble BY <1>0, TroubleType, ExtractInfraCases
  <2> QED BY <2>1, <2>2, <2>3, ExtractInfraCases
<1>3. Globals' BY <1>0, <1>2 DEF ExtractInfra, Globals
<1>4. lock' = lock /\ dir' = dir BY DEF ExtractInfra
<1> QED BY <1>1, <1>3, <1>4, BaseKept

InitConfigures(p) == [proc[p] EXCEPT !.pc = "configure",
                         !.conf = PatchConfigurationValues(RawDefaults, proc[p].raw),
                         !.level = proc[p].raw.level]

\* What init is when it configures: the defaults with the options it was given.
LEMMA InitConfiguresFields ==
    ASSUME Base, NEW p \in Procs
    PROVE  /\ InitConfigures(p).pc = "configure" /\ InitConfigures(p).cmd = proc[p].cmd
           /\ InitConfigures(p).then = proc[p].then
           /\ InitConfigures(p).kind = proc[p].kind /\ InitConfigures(p).raw = proc[p].raw
           /\ InitConfigures(p).conf = PatchConfigurationValues(RawDefaults, proc[p].raw)
           /\ InitConfigures(p).level = proc[p].raw.level
           /\ InitConfigures(p).old = proc[p].old /\ InitConfigures(p).id = proc[p].id
           /\ InitConfigures(p).ok = proc[p].ok
BY DEF InitConfigures, Base, Types, ProcType

\* What ExtractInst does.
LEMMA ExtractInstCases ==
    ASSUME Base, NEW p \in Procs, ExtractInst(p)
    PROVE  \/ /\ Kept(p, InitConfigures(p)) /\ trouble' = trouble
              /\ inst' = [NoInst EXCEPT !.is = "full"]
           \/ Kept(p, Failed(p)) /\ Trouble /\ inst' = [NoInst EXCEPT !.is = "partial"]
<1>0. Control(p, proc[p]) /\ proc[p].pc = "inst" /\ proc[p] \in ProcType BY ProcTyped DEF ExtractInst, At
<1>e. Exclusive(proc[p]) /\ proc[p].pc # "idle" BY <1>0, InsideExclusive
<1>1. CASE Trouble /\ Error(p) /\ inst' = [NoInst EXCEPT !.is = "partial"] BY <1>1, <1>e, ErrorKept
<1>2. CASE /\ proc' = [proc EXCEPT ![p].pc = "configure",
                         ![p].conf = PatchConfigurationValues(RawDefaults, proc[p].raw),
                         ![p].level = proc[p].raw.level]
           /\ inst' = [NoInst EXCEPT !.is = "full"] /\ trouble' = trouble
  <2>0. proc[p].raw \in Raw BY <1>0 DEF ProcType
  <2>1. PatchConfigurationValues(RawDefaults, proc[p].raw) \in RawConf
    BY <2>0, PatchType, DefaultsType, ConfIsRaw
  <2>2. proc[p].raw.level \in Levels BY <2>0 DEF Raw, Levels
  <2>3. InitConfigures(p) \in ProcType BY <1>0, <2>1, <2>2 DEF InitConfigures, ProcType, Pcs
  <2>4. Control(p, InitConfigures(p)) BY <1>0, InitConfiguresFields DEF Control, Deleting
  <2>5. ~Sharing(InitConfigures(p)) BY InitConfiguresFields DEF Sharing
  <2>6. proc' = [proc EXCEPT ![p] = InitConfigures(p)] BY <1>2 DEF InitConfigures, Base, Types
  <2> QED BY <2>3, <2>4, <2>5, <2>6, <1>e, <1>2 DEF Kept, Moved
<1> QED BY <1>1, <1>2 DEF ExtractInst

\* ExtractInst keeps types, control and locking.
LEMMA Base_ExtractInst == ASSUME Base, NEW p \in Procs, ExtractInst(p) PROVE Base'
<1>0. Control(p, proc[p]) /\ Globals BY ProcTyped
<1>1. \E r : Kept(p, r) BY ExtractInstCases
<1>2. inst' \in InstType /\ trouble' \in 0..MaxTrouble
  <2>2. /\ [NoInst EXCEPT !.is = "full"] \in InstType
        /\ [NoInst EXCEPT !.is = "partial"] \in InstType
    BY DefaultTypes DEF InstType, Presence, NoInst
  <2>3. trouble' \in 0..MaxTrouble BY <1>0, TroubleType, ExtractInstCases
  <2> QED BY <2>2, <2>3, ExtractInstCases
<1>3. Globals' BY <1>0, <1>2 DEF ExtractInst, Globals
<1>4. lock' = lock /\ dir' = dir BY DEF ExtractInst
<1> QED BY <1>1, <1>3, <1>4, BaseKept

WriteStateFile(p) == [is |-> "good", id |-> proc[p].id, ident |-> proc[p].kind, wf |-> "initialized"]
TornState == [NoState EXCEPT !.is = "torn"]

\* What WriteState does.
LEMMA WriteStateCases ==
    ASSUME Base, NEW p \in Procs, WriteState(p)
    PROVE  \/ /\ Kept(p, Now(p, "marker")) /\ trouble' = trouble
              /\ state' = WriteStateFile(p) /\ live' = "none"
           \/ Kept(p, Failed(p)) /\ Trouble /\ state' = TornState /\ live' = live
<1>0. Control(p, proc[p]) /\ proc[p].pc = "state" BY ProcTyped DEF WriteState, At
<1>e. Exclusive(proc[p]) /\ proc[p].pc # "idle" BY <1>0, InsideExclusive
<1>1. CASE Trouble /\ Error(p) /\ state' = TornState /\ live' = live BY <1>1, <1>e, ErrorKept
<1>2. CASE Go(p, "marker") /\ state' = WriteStateFile(p) /\ live' = "none" /\ trouble' = trouble
  <2>2. Control(p, Now(p, "marker")) BY <1>0, NowFields DEF Control, Deleting
  <2> QED BY <2>2, <1>e, <1>2, GoInside DEF Pcs
<1> QED BY <1>1, <1>2 DEF WriteState, WriteStateFile, TornState

\* A torn state file has no identity.
LEMMA TornType == TornState \in StateType /\ TornState.is = "torn" /\ TornState.id = 0
                  /\ TornState.ident = "blank"
BY DefaultTypes DEF TornState, StateType, FileStates, NoState

\* The state init writes: of the deployment it has made, initialized.
LEMMA WriteStateType ==
    ASSUME Base, NEW p \in Procs, proc[p].pc = "state"
    PROVE  /\ WriteStateFile(p) \in StateType /\ WriteStateFile(p).is = "good"
           /\ WriteStateFile(p).id = proc[p].id /\ WriteStateFile(p).ident = proc[p].kind
           /\ WriteStateFile(p).wf = "initialized" /\ proc[p].kind \in Kinds
<1>1. proc[p] \in ProcType /\ Control(p, proc[p]) BY ProcTyped
<1>2. proc[p].kind \in Kinds /\ proc[p].id \in Nat BY <1>1 DEF Control, ProcType
<1> QED BY <1>2 DEF WriteStateFile, StateType, FileStates, Wfs

\* WriteState keeps types, control and locking.
LEMMA Base_WriteState == ASSUME Base, NEW p \in Procs, WriteState(p) PROVE Base'
<1>0. Control(p, proc[p]) /\ Globals BY ProcTyped
<1>1. \E r : Kept(p, r) BY WriteStateCases
<1>2. state' \in StateType /\ trouble' \in 0..MaxTrouble /\ live' \in {"none", live}
  <2>1. trouble' \in 0..MaxTrouble BY <1>0, TroubleType, WriteStateCases
  <2>2. WriteStateFile(p) \in StateType BY WriteStateType DEF WriteState, At
  <2> QED BY <2>1, <2>2, TornType, WriteStateCases
<1>3. Globals' BY <1>0, <1>2 DEF WriteState, Globals
<1>4. lock' = lock /\ dir' = dir BY DEF WriteState
<1> QED BY <1>1, <1>3, <1>4, BaseKept

\* What WriteMarker does.
LEMMA WriteMarkerCases ==
    ASSUME Base, NEW p \in Procs, WriteMarker(p)
    PROVE  \/ Kept(p, Now(p, "unlock")) /\ trouble' = trouble /\ marker' = Version[p]
           \/ Kept(p, Failed(p)) /\ Trouble /\ marker' = EmptyMarker
<1>0. Control(p, proc[p]) /\ proc[p].pc = "marker" BY ProcTyped DEF WriteMarker, At
<1>e. Exclusive(proc[p]) /\ proc[p].pc # "idle" BY <1>0, InsideExclusive
<1>1. CASE Trouble /\ Error(p) /\ marker' = EmptyMarker BY <1>1, <1>e, ErrorKept
<1>2. CASE Go(p, "unlock") /\ marker' = Version[p] /\ trouble' = trouble
  <2>2. Control(p, Now(p, "unlock")) BY <1>0, NowFields DEF Control, Deleting
  <2> QED BY <2>2, <1>e, <1>2, GoInside DEF Pcs
<1> QED BY <1>1, <1>2 DEF WriteMarker

\* WriteMarker keeps types, control and locking.
LEMMA Base_WriteMarker == ASSUME Base, NEW p \in Procs, WriteMarker(p) PROVE Base'
<1>0. Control(p, proc[p]) /\ Globals BY ProcTyped
<1>1. \E r : Kept(p, r) BY WriteMarkerCases
<1>2. marker' \in Nat \cup {EmptyMarker} /\ trouble' \in 0..MaxTrouble
  <2>1. trouble' \in 0..MaxTrouble BY <1>0, TroubleType, WriteMarkerCases
  <2>2. Version[p] \in Nat BY DirectoryAssumption
  <2> QED BY <2>1, <2>2, WriteMarkerCases
<1>3. Globals' BY <1>0, <1>2 DEF WriteMarker, Globals
<1>4. lock' = lock /\ dir' = dir BY DEF WriteMarker
<1> QED BY <1>1, <1>3, <1>4, BaseKept

-----------------------------------------------------------------------------
(* Configuration *)

Configures(p, raw) == [proc[p] EXCEPT !.pc = "configure", !.raw = raw,
          !.conf = PatchConfigurationValues(StoredInfra, raw),
          !.level = IF "level" \in raw.names THEN raw.level ELSE StoredLevel]

\* What config set and config reset are when they configure: what is stored, patched.
LEMMA ConfiguresFields ==
    ASSUME Base, NEW p \in Procs, NEW raw
    PROVE  /\ Configures(p, raw).pc = "configure" /\ Configures(p, raw).cmd = proc[p].cmd
           /\ Configures(p, raw).then = proc[p].then
           /\ Configures(p, raw).kind = proc[p].kind /\ Configures(p, raw).raw = raw
           /\ Configures(p, raw).conf = PatchConfigurationValues(StoredInfra, raw)
           /\ Configures(p, raw).level = (IF "level" \in raw.names THEN raw.level ELSE StoredLevel)
           /\ Configures(p, raw).old = proc[p].old /\ Configures(p, raw).id = proc[p].id
           /\ Configures(p, raw).ok = proc[p].ok
BY DEF Configures, Base, Types, ProcType

\* What is read of the two files has its type.
LEMMA StoredTypes == ASSUME Globals PROVE StoredInfra \in Conf /\ StoredLevel \in {"l0", "l1"}
<1>1. infra.conf \in Conf /\ DOMAIN infra.conf = ConfOptions
  BY ConfIsRaw DEF Globals, InfraType
<1>2. RawDefaults \in Conf /\ DOMAIN RawDefaults = ConfOptions BY DefaultsType
<1>3. TofuConfiguration \in {infra.conf, RawDefaults}
  <2>1. CASE infra.file = "good"
    <3>1. TofuConfiguration = [o \in ConfOptions |-> infra.conf[o]]
      BY <1>1, <1>2, <2>1 DEF TofuConfiguration, Loaded
    <3>2. infra.conf = [o \in ConfOptions |-> infra.conf[o]] BY <1>1 DEF Conf
    <3> QED BY <3>1, <3>2
  <2>2. CASE infra.file # "good"
    <3>1. TofuConfiguration = [o \in ConfOptions |-> RawDefaults[o]]
      BY <1>1, <1>2, <2>2 DEF TofuConfiguration, Loaded
    <3>2. RawDefaults = [o \in ConfOptions |-> RawDefaults[o]] BY <1>2 DEF Conf
    <3> QED BY <3>1, <3>2
  <2> QED BY <2>1, <2>2
<1>4. StoredInfra \in Conf BY <1>1, <1>2, <1>3 DEF StoredInfra, LocalConfiguration
<1>5. StoredLevel \in {"l0", "l1"} BY DEF StoredLevel, Globals, InstType
<1> QED BY <1>4, <1>5

\* config reset names the options it is given and gives their defaults.
LEMMA DefaultsRaw ==
    ASSUME NEW raw \in Raw
    PROVE  /\ Defaults(raw) \in Raw /\ Defaults(raw).names = raw.names
           /\ \A o \in Options : Defaults(raw)[o] = NoRaw[o]
<1>1. NoRaw \in Raw BY NoRawType
<1>2. raw.names \in SUBSET {"size", "ports", "engine", "memory", "level"} BY DEF Raw
<1>3. NoRaw.names = {} /\ Options \subseteq DOMAIN NoRaw /\ "names" \notin Options BY DEF NoRaw, Options
<1>4. Defaults(raw) \in Raw BY <1>1, <1>2 DEF Defaults, Raw
<1>5. Defaults(raw).names = raw.names BY <1>1 DEF Defaults, Raw
<1>6. \A o \in Options : Defaults(raw)[o] = NoRaw[o]
  BY <1>3 DEF Defaults
<1> QED BY <1>4, <1>5, <1>6

\* config set and config reset, at the read.
Given(p) == IF proc[p].cmd = "reset" THEN Defaults(proc[p].raw) ELSE proc[p].raw

\* A patch does not enter the lock.
LEMMA PatchKept ==
    ASSUME Base, NEW p \in Procs, proc[p].pc = "read", Patch(p, Given(p))
    PROVE  Kept(p, Configures(p, Given(p)))
<1> DEFINE raw == Given(p)
<1>0. proc[p] \in ProcType /\ Control(p, proc[p]) /\ Globals BY ProcTyped
<1>1. proc[p].raw \in Raw BY <1>0 DEF ProcType
<1>2. raw \in Raw /\ \A o \in Options \ raw.names : raw[o] = NoRaw[o]
  BY <1>0, <1>1, DefaultsRaw DEF Given, Control
<1>3. StoredInfra \in Conf /\ StoredLevel \in {"l0", "l1"} BY <1>0, StoredTypes
<1>4. PatchConfigurationValues(StoredInfra, raw) \in RawConf
  BY <1>2, <1>3, PatchType, ConfIsRaw
<1>5. (IF "level" \in raw.names THEN raw.level ELSE StoredLevel) \in Levels
  BY <1>2, <1>3 DEF Raw, Levels
<1>p. proc' = [proc EXCEPT ![p] = Configures(p, raw)] BY DEF Patch, Configures, Base, Types
<1> HIDE DEF raw
<1>6. Configures(p, raw) \in ProcType BY <1>0, <1>2, <1>4, <1>5 DEF Configures, ProcType, Pcs
<1>7. Control(p, Configures(p, raw)) BY <1>0, <1>2, ConfiguresFields DEF Control, Deleting
<1>8. ~Sharing(Configures(p, raw)) BY ConfiguresFields DEF Sharing
<1>9. Exclusive(proc[p]) BY InsideExclusive
<1>10. Moved(p, Configures(p, raw)) BY <1>6, <1>7, <1>p DEF Moved
<1> QED BY <1>8, <1>9, <1>10 DEF Kept, raw

\* A step of config set or config reset.
Configuring(p) == SetConfiguration(p) \/ ResetConfiguration(p)

\* What a step of config set or config reset does.
LEMMA ConfiguringCases ==
    ASSUME Base, NEW p \in Procs, Configuring(p)
    PROVE  /\ proc[p].pc = "read" /\ proc[p].cmd \in {"set", "reset"}
           /\ UNCHANGED <<dir, infra, inst, marker, engine, lock, live, chosen, nextId, lost, trouble>>
           /\ \/ Kept(p, Failed(p)) /\ state' = state
              \/ /\ Kept(p, Configures(p, Given(p))) /\ state' = Backfilled(state)
                 /\ StateReadable /\ PermitsConfigure /\ Readable
<1>1. /\ proc[p].pc = "read" /\ proc[p].cmd \in {"set", "reset"}
      /\ UNCHANGED <<dir, infra, inst, marker, engine, lock, live, chosen, nextId, lost, trouble>>
      /\ IF ~StateReadable \/ ~PermitsConfigure \/ ~Readable THEN Error(p) /\ UNCHANGED state
         ELSE Patch(p, Given(p))
  BY DEF Configuring, SetConfiguration, ResetConfiguration, At, Given
<1>e. Exclusive(proc[p]) /\ proc[p].pc # "idle" BY <1>1, InsideExclusive
<1>2. CASE Error(p) /\ state' = state BY <1>1, <1>2, <1>e, ErrorKept
<1>3. CASE Patch(p, Given(p)) /\ StateReadable /\ PermitsConfigure /\ Readable
  <2>1. Kept(p, Configures(p, Given(p))) BY <1>1, <1>3, PatchKept
  <2>2. state' = Backfilled(state) BY <1>3 DEF Patch
  <2> QED BY <2>1, <2>2, <1>1, <1>3
<1> QED BY <1>1, <1>2, <1>3

\* Configuring keeps types, control and locking.
LEMMA Base_Configuring == ASSUME Base, NEW p \in Procs, Configuring(p) PROVE Base'
<1>0. Globals BY ProcTyped
<1>1. \E r : Kept(p, r) BY ConfiguringCases
<1>2. state' \in StateType
  BY <1>0, ConfiguringCases, BackfilledType DEF Globals, Readable, ManifestReadable
<1>3. UNCHANGED <<dir, infra, inst, marker, engine, lock, live, chosen, nextId, lost, trouble>>
  BY ConfiguringCases
<1>4. Globals' BY <1>0, <1>2, <1>3 DEF Globals
<1> QED BY <1>1, <1>3, <1>4, BaseKept

\* What an accepted value is.
LEMMA AcceptType ==
    ASSUME Base, NEW p \in Procs, NEW options, options \subseteq Options, Accept(p, options)
    PROVE  /\ chosen' \in ChosenType
           /\ \A o \in Options : chosen'[o] =
                 IF o \in options /\ (proc[p].cmd = "init" \/ o \in proc[p].raw.names)
                 THEN IF o = "level" THEN proc[p].level ELSE proc[p].raw[o]
                 ELSE chosen[o]
<1>0. proc[p].raw \in Raw /\ proc[p].level \in Levels /\ chosen \in ChosenType
  BY ProcTyped DEF ProcType, Globals
<1>1. DOMAIN chosen = Options BY <1>0 DEF ChosenType, Options
<1>2. \A o \in Options : chosen'[o] =
                 IF o \in options /\ (proc[p].cmd = "init" \/ o \in proc[p].raw.names)
                 THEN IF o = "level" THEN proc[p].level ELSE proc[p].raw[o]
                 ELSE chosen[o]
  BY <1>1 DEF Accept
<1>3. chosen' = [size |-> chosen'.size, ports |-> chosen'.ports, engine |-> chosen'.engine,
                 memory |-> chosen'.memory, level |-> chosen'.level]
  BY <1>1 DEF Accept, Options
<1>4. /\ chosen'.size \in {"s0", "s1", "bad", "any"} /\ chosen'.ports \in PortMaps
      /\ chosen'.engine \in {"auto", "podman", "docker", "bad", "any"}
      /\ chosen'.memory \in {"m0", "m1", "low", "any"} /\ chosen'.level \in Levels \cup {"any"}
  BY <1>0, <1>2 DEF Options, Raw, ChosenType
<1>5. chosen' \in ChosenType BY <1>3, <1>4 DEF ChosenType
<1> QED BY <1>2, <1>5

\* A write that tears a file forgets the options in it.
LEMMA ForgetType ==
    ASSUME Base, NEW options, options \subseteq Options, Forget(options)
    PROVE  /\ chosen' \in ChosenType
           /\ \A o \in Options : chosen'[o] = IF o \in options THEN Anything[o] ELSE chosen[o]
<1>0. chosen \in ChosenType /\ Anything \in ChosenType BY AnythingType DEF Base, Types
<1>1. DOMAIN chosen = Options BY <1>0 DEF ChosenType, Options
<1>2. \A o \in Options : chosen'[o] = IF o \in options THEN Anything[o] ELSE chosen[o]
  BY <1>1 DEF Forget
<1>3. chosen' = [size |-> chosen'.size, ports |-> chosen'.ports, engine |-> chosen'.engine,
                 memory |-> chosen'.memory, level |-> chosen'.level]
  BY <1>1 DEF Forget, Options
<1>4. /\ chosen'.size \in {"s0", "s1", "bad", "any"} /\ chosen'.ports \in PortMaps
      /\ chosen'.engine \in {"auto", "podman", "docker", "bad", "any"}
      /\ chosen'.memory \in {"m0", "m1", "low", "any"} /\ chosen'.level \in Levels \cup {"any"}
  BY <1>0, <1>2 DEF Options, ChosenType
<1>5. chosen' \in ChosenType BY <1>3, <1>4 DEF ChosenType
<1> QED BY <1>2, <1>5

\* The options of every backend are options.
LEMMA InfraOptionsKnown == \A kind \in Kinds \cup {"cloud"} : InfraOptions(kind) \subseteq Options
BY DirectoryAssumption DEF InfraOptions, Options

\* What the backend's file is after the write.
ConfiguredInfra(p, busy) ==
    IF infra.kind = "cloud" THEN TofuConfigured(p) ELSE LocalConfigured(p, busy)

\* What the backend's file has after a write.
LEMMA ConfiguredFields ==
    ASSUME Base, NEW p \in Procs, NEW busy
    PROVE  LET f == ConfiguredInfra(p, busy) IN
           /\ f.is = infra.is /\ f.kind = infra.kind /\ f.file = "good"
           /\ f.id = IF infra.kind = "cloud" THEN MetadataId(p) ELSE infra.id
           /\ f.conf = Stored(infra.kind, proc[p].conf, IF infra.kind = "cloud" THEN {} ELSE busy)
           /\ f = [is |-> f.is, kind |-> f.kind, file |-> f.file, id |-> f.id, conf |-> f.conf]
<1>1. infra \in InfraType BY ProcTyped DEF Globals
<1>2. CASE infra.kind = "cloud"
  BY <1>1, <1>2 DEF ConfiguredInfra, TofuConfigured, InfraType
<1>3. CASE infra.kind # "cloud"
  BY <1>1, <1>3 DEF ConfiguredInfra, LocalConfigured, InfraType
<1> QED BY <1>2, <1>3

\* The backends there are.
LEMMA KindsKnown == Kinds \cup {"cloud"} \subseteq {"cloud", "host", "vm"}
BY DirectoryAssumption

\* What the options of a cloud deployment are does not depend on the ports that are in use.
LEMMA StoredCloud ==
    ASSUME NEW raw \in RawConf, NEW recorded, NEW b, NEW busy, InfraAccepted("cloud", raw, recorded, b)
    PROVE  InfraAccepted("cloud", raw, recorded, busy)
BY DEF InfraAccepted

\* What the backend's file has after a write that was accepted.
LEMMA ConfiguredStored ==
    ASSUME Base, NEW p \in Procs, NEW busy, InfraAccepted(infra.kind, proc[p].conf, engine, busy)
    PROVE  LET c == ConfiguredInfra(p, busy).conf IN
           /\ ConfiguredInfra(p, busy) \in InfraType
           /\ c \in Conf /\ Distinct(c.ports)
           /\ c.size = IF infra.kind = "cloud" THEN proc[p].conf.size ELSE "s0"
           /\ c.engine = IF infra.kind = "host" THEN proc[p].conf.engine ELSE "auto"
           /\ c.memory = IF infra.kind = "vm" THEN proc[p].conf.memory ELSE "m0"
           /\ infra.kind = "cloud" => c.ports = AutoPorts
           /\ infra.kind # "cloud" => /\ \A s \in ToSet(Catalog) : c.ports[s] > 0
                                      /\ \A s \in Services : proc[p].conf.ports[s] > 0
                                                              => c.ports[s] = proc[p].conf.ports[s]
<1> DEFINE f == ConfiguredInfra(p, busy)
           b == IF infra.kind = "cloud" THEN {} ELSE busy
<1>0. infra \in InfraType /\ proc[p].conf \in RawConf /\ proc[p].id \in Nat /\ state.id \in Nat
  BY ProcTyped DEF Globals, ProcType, StateType
<1>1. infra.kind \in {"cloud", "host", "vm"} BY <1>0, KindsKnown DEF InfraType
<1>2. InfraAccepted(infra.kind, proc[p].conf, engine, b)
  BY <1>0, StoredCloud
<1> HIDE DEF b
<1>3. f.conf = Stored(infra.kind, proc[p].conf, b) BY ConfiguredFields DEF b
<1>4. /\ f.conf \in Conf /\ Distinct(f.conf.ports)
      /\ f.conf.size = IF infra.kind = "cloud" THEN proc[p].conf.size ELSE "s0"
      /\ f.conf.engine = IF infra.kind = "host" THEN proc[p].conf.engine ELSE "auto"
      /\ f.conf.memory = IF infra.kind = "vm" THEN proc[p].conf.memory ELSE "m0"
      /\ infra.kind = "cloud" => f.conf.ports = AutoPorts
      /\ infra.kind # "cloud" => /\ \A s \in ToSet(Catalog) : f.conf.ports[s] > 0
                                 /\ \A s \in Services : proc[p].conf.ports[s] > 0
                                                        => f.conf.ports[s] = proc[p].conf.ports[s]
  BY <1>0, <1>1, <1>2, <1>3, StoredType
<1>5. f.id \in Nat BY <1>0, ConfiguredFields DEF MetadataId, InfraType
<1>6. f \in InfraType
  <2>1. /\ f.is \in Presence /\ f.kind \in Kinds \cup {"cloud"} /\ f.file \in FileStates
        /\ f = [is |-> f.is, kind |-> f.kind, file |-> f.file, id |-> f.id, conf |-> f.conf]
    BY <1>0, ConfiguredFields DEF InfraType, FileStates
  <2> HIDE DEF f
  <2> QED BY <2>1, <1>4, <1>5 DEF InfraType
<1> QED BY <1>4, <1>6

\* What ConfigureBackend does.
LEMMA ConfigureCases ==
    ASSUME Base, NEW p \in Procs, ConfigureBackend(p)
    PROVE  /\ proc[p].pc = "configure"
           /\ UNCHANGED <<dir, inst, state, marker, engine, lock, live, nextId, lost>>
           /\ \/ \E busy \in BusyPorts :
                    /\ InfraAccepted(infra.kind, proc[p].conf, engine, busy)
                    /\ infra' = ConfiguredInfra(p, busy) /\ Accept(p, InfraOptions(infra.kind))
                    /\ Kept(p, Now(p, "variables")) /\ trouble' = trouble
              \/ /\ Trouble /\ infra' = [infra EXCEPT !.file = "torn"]
                 /\ Forget(InfraOptions(infra.kind)) /\ Kept(p, Failed(p))
              \/ Kept(p, Failed(p)) /\ infra' = infra /\ chosen' = chosen /\ trouble' = trouble
<1>0. /\ proc[p].pc = "configure" /\ Control(p, proc[p])
      /\ UNCHANGED <<dir, inst, state, marker, engine, lock, live, nextId, lost>>
  BY ProcTyped DEF ConfigureBackend, At
<1>e. Exclusive(proc[p]) /\ proc[p].pc # "idle" BY <1>0, InsideExclusive
<1>1. ASSUME NEW busy \in BusyPorts, InfraAccepted(infra.kind, proc[p].conf, engine, busy), Configured(p, busy)
      PROVE  /\ infra' = ConfiguredInfra(p, busy) /\ Accept(p, InfraOptions(infra.kind))
             /\ Kept(p, Now(p, "variables")) /\ trouble' = trouble
  <2>1. Go(p, "variables") BY <1>1 DEF Configured
  <2>2. Control(p, Now(p, "variables")) BY <1>0, NowFields DEF Control, Deleting
  <2>3. Kept(p, Now(p, "variables")) BY <2>1, <2>2, <1>e, GoInside DEF Pcs
  <2> QED BY <2>3, <1>1 DEF Configured, ConfiguredInfra
<1>2. ASSUME Truncated(p)
      PROVE  /\ Trouble /\ infra' = [infra EXCEPT !.file = "torn"]
             /\ Forget(InfraOptions(infra.kind)) /\ Kept(p, Failed(p))
  BY <1>2, <1>e, ErrorKept DEF Truncated
<1>3. ASSUME Error(p) PROVE Kept(p, Failed(p))
  BY <1>3, <1>e, ErrorKept
<1>4. PICK busy \in BusyPorts :
       IF InfraAccepted(infra.kind, proc[p].conf, engine, busy)
       THEN Configured(p, busy) \/ Truncated(p)
       ELSE Error(p) /\ UNCHANGED <<infra, chosen, trouble>>
  BY DEF ConfigureBackend
<1> QED BY <1>0, <1>1, <1>2, <1>3, <1>4

\* A torn infrastructure file is torn, and nothing else has changed.
LEMMA TornInfra ==
    ASSUME Globals
    PROVE  /\ [infra EXCEPT !.file = "torn"] \in InfraType
           /\ [infra EXCEPT !.file = "torn"].is = infra.is
           /\ [infra EXCEPT !.file = "torn"].kind = infra.kind
           /\ [infra EXCEPT !.file = "torn"].file = "torn"
           /\ [infra EXCEPT !.file = "torn"].id = infra.id
           /\ [infra EXCEPT !.file = "torn"].conf = infra.conf
BY DEF Globals, InfraType, FileStates

\* ConfigureBackend keeps types, control and locking.
LEMMA Base_ConfigureBackend == ASSUME Base, NEW p \in Procs, ConfigureBackend(p) PROVE Base'
<1>0. Globals BY ProcTyped
<1>1. \E r : Kept(p, r) BY ConfigureCases
<1>3. UNCHANGED <<dir, inst, state, marker, engine, lock, live, nextId, lost>> BY ConfigureCases
<1>i. infra.kind \in Kinds \cup {"cloud"} BY <1>0 DEF Globals, InfraType
<1>o. InfraOptions(infra.kind) \subseteq Options BY <1>i, InfraOptionsKnown
<1> DEFINE Typed == /\ infra' \in InfraType /\ (infra'.is = "full" => infra'.kind \in Kinds)
                    /\ chosen' \in ChosenType /\ trouble' \in 0..MaxTrouble
<1>2. Typed
  <2>1. ASSUME NEW busy \in BusyPorts, InfraAccepted(infra.kind, proc[p].conf, engine, busy),
               infra' = ConfiguredInfra(p, busy), Accept(p, InfraOptions(infra.kind)), trouble' = trouble
        PROVE  Typed
    <3>1. infra' \in InfraType /\ infra'.is = infra.is /\ infra'.kind = infra.kind
      BY <2>1, ConfiguredStored, ConfiguredFields
    <3>2. chosen' \in ChosenType BY <2>1, <1>o, AcceptType
    <3> QED BY <3>1, <3>2, <2>1, <1>0 DEF Globals
  <2>2. ASSUME Trouble, infra' = [infra EXCEPT !.file = "torn"], Forget(InfraOptions(infra.kind))
        PROVE  Typed
    <3>1. infra' \in InfraType /\ infra'.is = infra.is /\ infra'.kind = infra.kind
      BY <2>2, <1>0, TornInfra
    <3>2. chosen' \in ChosenType BY <2>2, <1>o, ForgetType
    <3>3. trouble' \in 0..MaxTrouble BY <2>2, <1>0, TroubleType
    <3> QED BY <3>1, <3>2, <3>3, <1>0 DEF Globals
  <2>3. ASSUME infra' = infra /\ chosen' = chosen /\ trouble' = trouble
        PROVE  Typed
    BY <2>3, <1>0 DEF Globals
  <2> QED BY <2>1, <2>2, <2>3, ConfigureCases
<1>4. Globals' BY <1>0, <1>2, <1>3 DEF Globals
<1> QED BY <1>1, <1>3, <1>4, BaseKept

VarsWritten(p) == [inst EXCEPT !.file = "good", !.id = MetadataId(p), !.level = proc[p].level]
VarsTorn == [inst EXCEPT !.file = "torn"]
AfterVars(p) == IF proc[p].cmd = "init" THEN "state" ELSE "unlock"

\* What WriteInstallationVariables does.
LEMMA VariablesCases ==
    ASSUME Base, NEW p \in Procs, WriteInstallationVariables(p)
    PROVE  /\ proc[p].pc = "variables"
           /\ UNCHANGED <<dir, infra, state, marker, engine, lock, live, nextId, lost>>
           /\ \/ Kept(p, Failed(p)) /\ inst' = inst /\ chosen' = chosen /\ trouble' = trouble
              \/ /\ InstallAccepted(proc[p].level) /\ inst' = VarsWritten(p) /\ Accept(p, {"level"})
                 /\ Kept(p, Now(p, AfterVars(p))) /\ trouble' = trouble
              \/ Trouble /\ inst' = VarsTorn /\ Forget({"level"}) /\ Kept(p, Failed(p))
<1>0. /\ proc[p].pc = "variables" /\ Control(p, proc[p])
      /\ UNCHANGED <<dir, infra, state, marker, engine, lock, live, nextId, lost>>
  BY ProcTyped DEF WriteInstallationVariables, At
<1>e. Exclusive(proc[p]) /\ proc[p].pc # "idle" BY <1>0, InsideExclusive
<1>1. ASSUME Error(p) PROVE Kept(p, Failed(p)) BY <1>1, <1>e, ErrorKept
<1>2. ASSUME Go(p, AfterVars(p)) PROVE Kept(p, Now(p, AfterVars(p)))
  <2>1. (AfterVars(p) = "state" /\ proc[p].cmd = "init") \/ AfterVars(p) = "unlock" BY DEF AfterVars
  <2>2. Control(p, Now(p, AfterVars(p))) BY <1>0, <2>1, NowFields DEF Control, Deleting
  <2>3. AfterVars(p) \in Pcs BY <2>1 DEF Pcs
  <2> QED BY <1>2, <2>2, <2>3, <1>e, GoInside
<1> QED BY <1>0, <1>1, <1>2 DEF WriteInstallationVariables, VarsWritten, VarsTorn, AfterVars

\* The installation's file after a write, whole or torn.
LEMMA VarsTypes ==
    ASSUME Base, NEW p \in Procs
    PROVE  /\ VarsTorn \in InstType /\ VarsTorn.is = inst.is /\ VarsTorn.file = "torn"
           /\ VarsTorn.id = inst.id /\ VarsTorn.level = inst.level
           /\ InstallAccepted(proc[p].level) => VarsWritten(p) \in InstType
           /\ VarsWritten(p).is = inst.is /\ VarsWritten(p).file = "good"
           /\ VarsWritten(p).id = MetadataId(p) /\ VarsWritten(p).level = proc[p].level
<1>0. inst \in InstType /\ proc[p].level \in Levels /\ proc[p].id \in Nat /\ state.id \in Nat
  BY ProcTyped DEF Globals, ProcType, StateType
<1>1. MetadataId(p) \in Nat BY <1>0 DEF MetadataId
<1>2. InstallAccepted(proc[p].level) => proc[p].level \in {"l0", "l1"} BY <1>0 DEF Levels, InstallAccepted
<1> QED BY <1>0, <1>1, <1>2 DEF VarsTorn, VarsWritten, InstType, FileStates

\* WriteInstallationVariables keeps types, control and locking.
LEMMA Base_WriteInstallationVariables ==
    ASSUME Base, NEW p \in Procs, WriteInstallationVariables(p) PROVE Base'
<1>0. Globals BY ProcTyped
<1>1. \E r : Kept(p, r) BY VariablesCases
<1>3. UNCHANGED <<dir, infra, state, marker, engine, lock, live, nextId, lost>> BY VariablesCases
<1>2. inst' \in InstType /\ chosen' \in ChosenType /\ trouble' \in 0..MaxTrouble
  <2>o. {"level"} \subseteq Options BY DEF Options
  <2>1. trouble' \in 0..MaxTrouble BY <1>0, TroubleType, VariablesCases
  <2>2. inst' \in InstType BY <1>0, VarsTypes, VariablesCases DEF Globals
  <2>3. chosen' \in ChosenType BY <1>0, <2>o, AcceptType, ForgetType, VariablesCases DEF Globals
  <2> QED BY <2>1, <2>2, <2>3
<1>4. Globals' BY <1>0, <1>2, <1>3 DEF Globals
<1> QED BY <1>1, <1>3, <1>4, BaseKept

-----------------------------------------------------------------------------
(* Printing and removal *)

\* What PrintConfiguration does.
LEMMA PrintCases ==
    ASSUME Base, NEW p \in Procs, PrintConfiguration(p)
    PROVE  /\ proc[p].pc = "print"
           /\ UNCHANGED <<dir, infra, inst, marker, engine, lock, live, chosen, nextId, lost, trouble>>
           /\ \/ Kept(p, Failed(p)) /\ state' = state
              \/ Kept(p, Now(p, "unlock")) /\ state' = Backfilled(state) /\ StateReadable /\ Readable
<1>0. /\ proc[p].pc = "print" /\ Control(p, proc[p])
      /\ UNCHANGED <<dir, infra, inst, marker, engine, lock, live, chosen, nextId, lost, trouble>>
  BY ProcTyped DEF PrintConfiguration, At
<1>s. Sharing(proc[p]) /\ proc[p].pc # "idle" BY <1>0 DEF Sharing
<1>1. CASE Error(p) /\ state' = state BY <1>0, <1>1, <1>s, ErrorKept
<1>2. CASE state' = Backfilled(state) /\ Go(p, "unlock") /\ StateReadable /\ Readable
  <2>1. Control(p, Now(p, "unlock")) BY <1>0, NowFields DEF Control, Deleting
  <2>2. ~Exclusive(Now(p, "unlock")) BY <1>0, NowFields DEF Exclusive, Control, Deleting
  <2>3. Kept(p, Now(p, "unlock")) BY <2>1, <2>2, <1>s, <1>2, GoKept DEF Pcs
  <2> QED BY <2>3, <1>0, <1>2
<1> QED BY <1>0, <1>1, <1>2 DEF PrintConfiguration

\* PrintConfiguration keeps types, control and locking.
LEMMA Base_PrintConfiguration == ASSUME Base, NEW p \in Procs, PrintConfiguration(p) PROVE Base'
<1>0. Globals BY ProcTyped
<1>1. \E r : Kept(p, r) BY PrintCases
<1>2. state' \in StateType
  BY <1>0, PrintCases, BackfilledType DEF Globals, Readable, ManifestReadable
<1>3. UNCHANGED <<dir, infra, inst, marker, engine, lock, live, chosen, nextId, lost, trouble>>
  BY PrintCases
<1>4. Globals' BY <1>0, <1>2, <1>3 DEF Globals
<1> QED BY <1>1, <1>3, <1>4, BaseKept

\* What CheckRemoval does.
LEMMA CheckCases ==
    ASSUME Base, NEW p \in Procs, CheckRemoval(p)
    PROVE  Kept(p, Idle) \/ Kept(p, Now(p, "lock"))
<1>0. proc[p].pc = "check" /\ Control(p, proc[p]) BY ProcTyped DEF CheckRemoval, At
<1>1. CASE Return(p) BY <1>1, ReturnKept
<1>2. CASE Go(p, "lock")
  <2>1. Control(p, Now(p, "lock")) BY <1>0, NowFields DEF Control, Deleting
  <2>2. ~Exclusive(Now(p, "lock")) /\ ~Sharing(Now(p, "lock")) BY NowFields DEF Exclusive, Sharing, Deleting
  <2> QED BY <2>1, <2>2, <1>2, GoKept DEF Pcs
<1> QED BY <1>1, <1>2 DEF CheckRemoval

\* CheckRemoval keeps types, control and locking.
LEMMA Base_CheckRemoval == ASSUME Base, NEW p \in Procs, CheckRemoval(p) PROVE Base'
BY CheckCases, BaseSame DEF CheckRemoval

\* What RecheckRemoval does.
LEMMA RecheckCases ==
    ASSUME Base, NEW p \in Procs, RecheckRemoval(p)
    PROVE  Kept(p, Failed(p)) \/ Kept(p, Now(p, "delmarker"))
<1>0. proc[p].pc = "recheck" /\ Control(p, proc[p]) BY ProcTyped DEF RecheckRemoval, At
<1>e. Exclusive(proc[p]) /\ proc[p].pc # "idle" BY <1>0, InsideExclusive
<1>1. CASE Error(p) BY <1>1, <1>e, ErrorKept
<1>2. CASE Go(p, "delmarker")
  <2>1. Control(p, Now(p, "delmarker")) BY <1>0, NowFields DEF Control, Deleting
  <2> QED BY <2>1, <1>2, <1>e, GoInside DEF Pcs
<1> QED BY <1>1, <1>2 DEF RecheckRemoval

\* RecheckRemoval keeps types, control and locking.
LEMMA Base_RecheckRemoval == ASSUME Base, NEW p \in Procs, RecheckRemoval(p) PROVE Base'
BY RecheckCases, BaseSame DEF RecheckRemoval

\* The entry a removal deletes next, and what follows.
Follows(pc) == CASE pc = "delmarker" -> "delstate" [] pc = "delstate" -> "delrest"
                 [] pc = "delrest" -> "delinfra" [] pc = "delinfra" -> "delinst" [] OTHER -> "unlock"

\* What RemoveEntry does.
LEMMA RemoveCases ==
    ASSUME Base, NEW p \in Procs, RemoveEntry(p)
    PROVE  /\ Kept(p, Now(p, Follows(proc[p].pc)))
           /\ UNCHANGED <<lock, live, chosen, nextId, lost, trouble>>
           /\ \/ /\ proc[p].pc = "delmarker" /\ marker' = NoVersion
                 /\ UNCHANGED <<dir, infra, inst, state, engine>>
              \/ /\ proc[p].pc = "delstate" /\ state' = NoState
                 /\ dir' = [dir EXCEPT !.legacy = FALSE] /\ UNCHANGED <<infra, inst, marker, engine>>
              \/ /\ proc[p].pc = "delrest" /\ engine' = "none"
                 /\ dir' = [dir EXCEPT !.log = FALSE, !.shared = FALSE]
                 /\ UNCHANGED <<infra, inst, state, marker>>
              \/ /\ proc[p].pc = "delinfra" /\ infra' = NoInfra
                 /\ UNCHANGED <<dir, inst, state, marker, engine>>
              \/ /\ proc[p].pc = "delinst" /\ inst' = NoInst
                 /\ UNCHANGED <<dir, infra, state, marker, engine>>
<1>0. proc[p].pc \in Deleting /\ Control(p, proc[p]) BY ProcTyped DEF RemoveEntry, At, Deleting
<1>e. Exclusive(proc[p]) /\ proc[p].pc # "idle" BY <1>0, InsideExclusive DEF Deleting
<1>1. Go(p, Follows(proc[p].pc)) BY DEF RemoveEntry, At, Follows
<1>2. Follows(proc[p].pc) \in {"delstate", "delrest", "delinfra", "delinst", "unlock"} BY DEF Follows
<1>3. Control(p, Now(p, Follows(proc[p].pc))) BY <1>0, <1>2, NowFields DEF Control, Deleting
<1>4. Kept(p, Now(p, Follows(proc[p].pc))) BY <1>1, <1>2, <1>3, <1>e, GoInside DEF Pcs
<1> QED BY <1>4 DEF RemoveEntry, At

\* RemoveEntry keeps types, control and locking.
LEMMA Base_RemoveEntry == ASSUME Base, NEW p \in Procs, RemoveEntry(p) PROVE Base'
<1>0. Globals BY ProcTyped
<1>1. Kept(p, Now(p, Follows(proc[p].pc))) /\ UNCHANGED <<lock, live, chosen, nextId, lost, trouble>>
  BY RemoveCases
<1>2. dir' \in DirType /\ dir'.root = dir.root
  BY <1>0, RemoveCases DEF Globals, DirType
<1>3. /\ infra' \in InfraType /\ inst' \in InstType /\ state' \in StateType
      /\ (infra'.is = "full" => infra'.kind \in Kinds)
      /\ marker' \in Nat \cup {EmptyMarker} /\ engine' \in {"none", "podman", "docker"}
  <2>1. NoInfra.is = "none" /\ NoVersion \in Nat BY DEF NoInfra, NoVersion
  <2> QED BY <1>0, <2>1, RemoveCases, DefaultTypes DEF Globals
<1>4. Globals' BY <1>0, <1>1, <1>2, <1>3 DEF Globals
<1> QED BY <1>1, <1>2, <1>4, BaseKept

\* RemoveEntryFails keeps types, control and locking.
LEMMA Base_RemoveEntryFails == ASSUME Base, NEW p \in Procs, RemoveEntryFails(p) PROVE Base'
<1>0. proc[p].pc \in Deleting /\ Globals BY ProcTyped DEF RemoveEntryFails, Deleting
<1>e. Exclusive(proc[p]) /\ proc[p].pc # "idle" BY <1>0, InsideExclusive DEF Deleting
<1>1. Kept(p, Failed(p)) BY <1>e, ErrorKept DEF RemoveEntryFails
<1>2. trouble' \in 0..MaxTrouble BY <1>0, TroubleType DEF RemoveEntryFails
<1>3. Globals' BY <1>0, <1>2 DEF RemoveEntryFails, Globals, files
<1> QED BY <1>1, <1>3, BaseKept DEF RemoveEntryFails, files

\* RemoveRoot keeps types, control and locking.
LEMMA Base_RemoveRoot == ASSUME Base, NEW p \in Procs, RemoveRoot(p) PROVE Base'
<1>0. Globals BY ProcTyped
<1>1. Moved(p, Idle) BY ReturnMoved DEF RemoveRoot
<1>2. dir' \in DirType /\ dir'.root = (dir.root /\ ~Empty) BY <1>0 DEF RemoveRoot, Globals, DirType
<1>3. Globals' BY <1>0, <1>2 DEF RemoveRoot, Globals
<1>4. lock' = lock /\ Locking BY DEF RemoveRoot, Base
<1>5. lock.ex # "none" \/ lock.sh # {} \/ lock.left => dir'.root BY <1>2, <1>4 DEF Locking, Empty
<1>6. Locking' BY <1>1, <1>4, <1>5, IdleOutside, OthersLock DEF Locking
<1> QED BY <1>1, <1>3, <1>6, BaseNext

-----------------------------------------------------------------------------
(* Lifecycle commands *)

\* localBackend.Prepare makes the ports concrete.
Normalizes(op) == /\ infra.kind # "cloud" /\ op \in {"deploy", "start"}
                  /\ LocalPortsNeedNormalization(StoredInfra.ports)
Normalized(busy) == [infra EXCEPT !.file = "good", !.conf = Stored(infra.kind, StoredInfra, busy)]

Preparing(p) == [proc[p] EXCEPT !.pc = "operate", !.old = state]

\* What a lifecycle command holds when it is about to run its tool: a copy of the state.
LEMMA PreparingFields ==
    ASSUME Base, NEW p \in Procs
    PROVE  /\ Preparing(p).pc = "operate" /\ Preparing(p).cmd = proc[p].cmd /\ Preparing(p).old = state
           /\ Preparing(p).raw = proc[p].raw /\ Preparing(p).kind = proc[p].kind
           /\ Preparing(p).ok = proc[p].ok /\ Preparing(p).then = proc[p].then
           /\ Preparing(p).id = proc[p].id
<1>0. proc[p] \in ProcType BY ProcTyped
<1> QED BY <1>0 DEF Preparing, ProcType

\* That step stays under the lock.
LEMMA PreparingKept ==
    ASSUME Base, NEW p \in Procs, proc[p].pc = "prepare",
           proc' = [proc EXCEPT ![p].pc = "operate", ![p].old = state]
    PROVE  Kept(p, Preparing(p))
<1>0. Control(p, proc[p]) /\ proc[p] \in ProcType /\ Globals BY ProcTyped
<1>e. Exclusive(proc[p]) /\ proc[p].pc # "idle" BY <1>0, InsideExclusive
<1>1. /\ Preparing(p).pc = "operate" /\ Preparing(p).cmd = proc[p].cmd /\ Preparing(p).old = state
      /\ Preparing(p).raw = proc[p].raw /\ Preparing(p).kind = proc[p].kind
      /\ Preparing(p).ok = proc[p].ok /\ Preparing(p).then = proc[p].then
      /\ Preparing(p).id = proc[p].id
  BY PreparingFields
<1>2. Preparing(p) \in ProcType BY <1>0 DEF Preparing, ProcType, Pcs, Globals
<1>3. Control(p, Preparing(p)) BY <1>0, <1>1 DEF Control, Deleting
<1>4. ~Sharing(Preparing(p)) BY <1>1 DEF Sharing
<1>5. proc' = [proc EXCEPT ![p] = Preparing(p)] BY DEF Preparing, Base, Types
<1> QED BY <1>2, <1>3, <1>4, <1>5, <1>e DEF Kept, Moved

\* What Prepare does.
LEMMA PrepareCases ==
    ASSUME Base, NEW p \in Procs, Prepare(p)
    PROVE  /\ proc[p].pc = "prepare" /\ proc[p].cmd \in Lifecycle
           /\ UNCHANGED <<dir, inst, state, marker, lock, live, chosen, nextId, lost, trouble>>
           /\ \/ Kept(p, Failed(p)) /\ infra' = infra /\ engine' = engine
              \/ \E busy \in BusyPorts, detected \in {"podman", "docker"} :
                    /\ StateReadable /\ Permits(proc[p].cmd)
                    /\ proc[p].cmd # "destroy" => ManifestReadable
                    /\ Kept(p, Preparing(p))
                    /\ \/ ~Normalizes(proc[p].cmd) /\ infra' = infra
                       \/ /\ Normalizes(proc[p].cmd)
                          /\ InfraAccepted(infra.kind, StoredInfra, engine, busy)
                          /\ infra' = Normalized(busy)
                    /\ engine' = IF infra.kind # "host" \/ proc[p].cmd \notin {"deploy", "start"}
                                     \/ engine # "none" THEN engine
                                 ELSE IF StoredInfra.engine = "auto" THEN detected
                                 ELSE StoredInfra.engine
<1>0. proc[p].pc = "prepare" /\ Control(p, proc[p]) BY ProcTyped DEF Prepare, At
<1>e. Exclusive(proc[p]) /\ proc[p].pc # "idle" BY <1>0, InsideExclusive
<1>c. proc[p].cmd \in Lifecycle BY <1>0 DEF Control
<1>u. UNCHANGED <<dir, inst, state, marker, lock, live, chosen, nextId, lost, trouble>> BY DEF Prepare
<1>1. CASE Error(p) /\ infra' = infra /\ engine' = engine
  BY <1>0, <1>c, <1>u, <1>1, <1>e, ErrorKept
<1>2. ASSUME NEW busy \in BusyPorts, NEW detected \in {"podman", "docker"},
             StateReadable, Permits(proc[p].cmd), proc[p].cmd # "destroy" => ManifestReadable,
             ~Normalizes(proc[p].cmd) \/ InfraAccepted(infra.kind, StoredInfra, engine, busy),
             infra' = (IF ~Normalizes(proc[p].cmd) THEN infra ELSE Normalized(busy)),
             engine' = (IF infra.kind # "host" \/ proc[p].cmd \notin {"deploy", "start"}
                                     \/ engine # "none" THEN engine
                        ELSE IF StoredInfra.engine = "auto" THEN detected
                        ELSE StoredInfra.engine),
             proc' = [proc EXCEPT ![p].pc = "operate", ![p].old = state]
      PROVE  \E b \in BusyPorts, d \in {"podman", "docker"} :
                    /\ StateReadable /\ Permits(proc[p].cmd)
                    /\ proc[p].cmd # "destroy" => ManifestReadable
                    /\ Kept(p, Preparing(p))
                    /\ \/ ~Normalizes(proc[p].cmd) /\ infra' = infra
                       \/ /\ Normalizes(proc[p].cmd)
                          /\ InfraAccepted(infra.kind, StoredInfra, engine, b)
                          /\ infra' = Normalized(b)
                    /\ engine' = IF infra.kind # "host" \/ proc[p].cmd \notin {"deploy", "start"}
                                     \/ engine # "none" THEN engine
                                 ELSE IF StoredInfra.engine = "auto" THEN d
                                 ELSE StoredInfra.engine
  <2>2. Kept(p, Preparing(p)) BY <1>0, <1>2, PreparingKept
  <2>3. \/ ~Normalizes(proc[p].cmd) /\ infra' = infra
        \/ /\ Normalizes(proc[p].cmd)
           /\ InfraAccepted(infra.kind, StoredInfra, engine, busy)
           /\ infra' = Normalized(busy)
    BY <1>2
  <2> QED BY <1>2, <2>2, <2>3
<1>3. IF ~StateReadable \/ ~Permits(proc[p].cmd) \/ (proc[p].cmd # "destroy" /\ ~ManifestReadable)
          THEN Error(p) /\ UNCHANGED <<infra, engine>>
          ELSE \E busy \in BusyPorts :
             \/ /\ ~Normalizes(proc[p].cmd) \/ InfraAccepted(infra.kind, StoredInfra, engine, busy)
                /\ infra' = IF ~Normalizes(proc[p].cmd) THEN infra ELSE Normalized(busy)
                /\ \E detected \in {"podman", "docker"} :
                   engine' = IF infra.kind # "host" \/ proc[p].cmd \notin {"deploy", "start"}
                                \/ engine # "none" THEN engine
                             ELSE IF StoredInfra.engine = "auto" THEN detected
                             ELSE StoredInfra.engine
                /\ proc' = [proc EXCEPT ![p].pc = "operate", ![p].old = state]
             \/ /\ Normalizes(proc[p].cmd) /\ ~InfraAccepted(infra.kind, StoredInfra, engine, busy)
                /\ Error(p) /\ UNCHANGED <<infra, engine>>
  BY DEF Prepare, Normalizes, Normalized
<1> QED BY <1>0, <1>c, <1>u, <1>1, <1>2, <1>3

\* Ports made concrete: distinct, all of them chosen, those that were chosen the same,
\* and no other option changed.
LEMMA NormalizedFields ==
    ASSUME Base, NEW busy, InfraAccepted(infra.kind, StoredInfra, engine, busy),
           infra.kind # "cloud"
    PROVE  LET f == Normalized(busy) IN
           /\ f \in InfraType /\ f.is = infra.is /\ f.kind = infra.kind /\ f.file = "good" /\ f.id = infra.id
           /\ Distinct(f.conf.ports) /\ \A s \in ToSet(Catalog) : f.conf.ports[s] > 0
           /\ \A s \in Services : infra.conf.ports[s] > 0 => f.conf.ports[s] = infra.conf.ports[s]
           /\ f.conf.size = "s0"
           /\ f.conf.engine = IF infra.kind = "host" THEN infra.conf.engine ELSE "auto"
           /\ f.conf.memory = IF infra.kind = "vm" THEN infra.conf.memory ELSE "m0"
<1> DEFINE f == Normalized(busy)
           c == Stored(infra.kind, StoredInfra, busy)
<1>0. Globals /\ infra \in InfraType BY ProcTyped, GlobalsHold DEF Globals
<1>1. infra.kind \in {"cloud", "host", "vm"} BY <1>0, KindsKnown DEF InfraType
<1>2. StoredInfra = infra.conf BY DEF StoredInfra, LocalConfiguration
<1>3. infra.conf \in RawConf BY <1>0, ConfIsRaw DEF InfraType
<1>4. /\ c \in Conf /\ Distinct(c.ports)
      /\ c.size = "s0"
      /\ c.engine = IF infra.kind = "host" THEN infra.conf.engine ELSE "auto"
      /\ c.memory = IF infra.kind = "vm" THEN infra.conf.memory ELSE "m0"
      /\ \A s \in ToSet(Catalog) : c.ports[s] > 0
      /\ \A s \in Services : infra.conf.ports[s] > 0 => c.ports[s] = infra.conf.ports[s]
  BY <1>1, <1>2, <1>3, StoredType
<1> HIDE DEF c
<1>5. f = [infra EXCEPT !.file = "good", !.conf = c] BY DEF Normalized, c
<1>6. f.is = infra.is /\ f.kind = infra.kind /\ f.file = "good" /\ f.id = infra.id /\ f.conf = c
      /\ f \in InfraType
  <2> HIDE DEF f
  <2> QED BY <1>0, <1>4, <1>5 DEF InfraType, FileStates
<1> HIDE DEF f
<1> QED BY <1>4, <1>6 DEF f

\* Prepare keeps types, control and locking.
LEMMA Base_Prepare == ASSUME Base, NEW p \in Procs, Prepare(p) PROVE Base'
<1>0. Globals BY ProcTyped
<1>1. \E r : Kept(p, r) BY PrepareCases
<1>3. UNCHANGED <<dir, inst, state, marker, lock, live, chosen, nextId, lost, trouble>> BY PrepareCases
<1> DEFINE Typed == /\ infra' \in InfraType /\ (infra'.is = "full" => infra'.kind \in Kinds)
                    /\ engine' \in {"none", "podman", "docker"}
<1>2. Typed
  <2>1. CASE infra' = infra /\ engine' = engine BY <1>0, <2>1 DEF Globals
  <2>2. ASSUME NEW busy \in BusyPorts, NEW detected \in {"podman", "docker"},
               \/ infra' = infra
               \/ /\ infra.kind # "cloud" /\ InfraAccepted(infra.kind, StoredInfra, engine, busy)
                  /\ infra' = Normalized(busy),
               engine' = (IF infra.kind # "host" \/ proc[p].cmd \notin {"deploy", "start"}
                                     \/ engine # "none" THEN engine
                          ELSE IF StoredInfra.engine = "auto" THEN detected
                          ELSE StoredInfra.engine)
        PROVE  Typed
    <3>1. infra' \in InfraType /\ infra'.is = infra.is /\ infra'.kind = infra.kind
      BY <2>2, <1>0, NormalizedFields DEF Globals
    <3>2. StoredInfra.engine \in {"auto", "podman", "docker"} BY <1>0, StoredTypes DEF Conf
    <3>3. engine' \in {"none", "podman", "docker"} BY <2>2, <3>2, <1>0 DEF Globals
    <3> QED BY <3>1, <3>3, <1>0 DEF Globals
  <2> HIDE DEF Typed
  <2> QED BY <2>1, <2>2, PrepareCases DEF Normalizes
<1>4. Globals' BY <1>0, <1>2, <1>3 DEF Globals
<1> QED BY <1>1, <1>3, <1>4, BaseKept

\* What Operate does.
LEMMA OperateCases ==
    ASSUME Base, NEW p \in Procs, Operate(p)
    PROVE  /\ proc[p].pc = "operate" /\ proc[p].cmd \in Lifecycle /\ Kept(p, Now(p, "finish"))
           /\ state' = [proc[p].old EXCEPT !.wf = proc[p].cmd] /\ state' \in StateType
           /\ state'.is = proc[p].old.is /\ state'.id = proc[p].old.id
           /\ state'.ident = proc[p].old.ident /\ state'.wf = proc[p].cmd
           /\ live' = (IF live = "none" /\ proc[p].cmd \in {"stop", "destroy"} THEN "none" ELSE "some")
           /\ UNCHANGED <<dir, infra, inst, marker, engine, lock, chosen, nextId, lost, trouble>>
<1>0. proc[p].pc = "operate" /\ Control(p, proc[p]) /\ proc[p] \in ProcType /\ Globals
  BY ProcTyped DEF Operate, At
<1>e. Exclusive(proc[p]) /\ proc[p].pc # "idle" BY <1>0, InsideExclusive
<1>c. proc[p].cmd \in Lifecycle BY <1>0 DEF Control
<1>1. Control(p, Now(p, "finish")) BY <1>0, NowFields DEF Control, Deleting
<1>2. Kept(p, Now(p, "finish")) BY <1>1, <1>e, GoInside DEF Operate, Pcs
<1>3. proc[p].old \in StateType BY <1>0 DEF ProcType
<1>7. /\ [proc[p].old EXCEPT !.wf = proc[p].cmd] \in StateType
      /\ \A s : s = [proc[p].old EXCEPT !.wf = proc[p].cmd] =>
            /\ s.is = proc[p].old.is /\ s.id = proc[p].old.id
            /\ s.ident = proc[p].old.ident /\ s.wf = proc[p].cmd
  BY <1>3, <1>c DEF StateType, Wfs
<1> QED BY <1>0, <1>c, <1>2, <1>7 DEF Operate

\* Operate keeps types, control and locking.
LEMMA Base_Operate == ASSUME Base, NEW p \in Procs, Operate(p) PROVE Base'
<1>0. Globals BY ProcTyped
<1>1. Globals' BY <1>0, OperateCases DEF Globals
<1> QED BY <1>1, OperateCases, BaseKept

Final(op) == CASE op \in {"deploy", "start"} -> "running" [] op = "stop" -> "stopped"
               [] OTHER -> "initialized"

\* What Finish does.
LEMMA FinishCases ==
    ASSUME Base, NEW p \in Procs, Finish(p)
    PROVE  /\ proc[p].pc = "finish" /\ proc[p].cmd \in Lifecycle
           /\ UNCHANGED <<dir, infra, inst, marker, lock, chosen, nextId, lost>>
           /\ \/ /\ Kept(p, Now(p, "unlock")) /\ state' = [proc[p].old EXCEPT !.wf = Final(proc[p].cmd)]
                 /\ ManifestReadable
                 /\ live' = (IF proc[p].cmd = "destroy" \/ live = "none" THEN "none" ELSE Final(proc[p].cmd))
                 /\ engine' = (IF proc[p].cmd = "destroy" THEN "none" ELSE engine)
                 /\ trouble' = trouble
              \/ /\ Kept(p, Failed(p)) /\ live' = live /\ engine' = engine
                 /\ IF ManifestReadable THEN Trouble ELSE UNCHANGED trouble
                 /\ state' = [proc[p].old EXCEPT !.wf = IF proc[p].cmd = "deploy" THEN "failed" ELSE proc[p].cmd]
              \/ /\ Kept(p, Failed(p)) /\ engine' = engine /\ Trouble /\ infra.kind # "cloud"
                 /\ \/ proc[p].cmd = "deploy" /\ proc[p].old.wf = "initialized" /\ live' = "none"
                    \/ proc[p].cmd = "start" /\ proc[p].old.wf = "stopped" /\ live' = "stopped"
                 /\ state' = [proc[p].old EXCEPT !.wf = proc[p].old.wf]
<1>0. /\ proc[p].pc = "finish" /\ Control(p, proc[p])
      /\ UNCHANGED <<dir, infra, inst, marker, lock, chosen, nextId, lost>>
  BY ProcTyped DEF Finish, At
<1>e. Exclusive(proc[p]) /\ proc[p].pc # "idle" BY <1>0, InsideExclusive
<1>c. proc[p].cmd \in Lifecycle BY <1>0 DEF Control
<1>1. ASSUME Error(p) PROVE Kept(p, Failed(p)) BY <1>1, <1>e, ErrorKept
<1>2. ASSUME Go(p, "unlock") PROVE Kept(p, Now(p, "unlock"))
  <2>1. Control(p, Now(p, "unlock")) BY <1>0, NowFields DEF Control, Deleting
  <2> QED BY <2>1, <1>2, <1>e, GoInside DEF Pcs
<1>3. \/ /\ Go(p, "unlock") /\ state' = [proc[p].old EXCEPT !.wf = Final(proc[p].cmd)]
         /\ ManifestReadable
         /\ live' = (IF proc[p].cmd = "destroy" \/ live = "none" THEN "none" ELSE Final(proc[p].cmd))
         /\ engine' = (IF proc[p].cmd = "destroy" THEN "none" ELSE engine)
         /\ trouble' = trouble
      \/ /\ Error(p) /\ live' = live /\ engine' = engine
         /\ IF ManifestReadable THEN Trouble ELSE UNCHANGED trouble
         /\ state' = [proc[p].old EXCEPT !.wf = IF proc[p].cmd = "deploy" THEN "failed" ELSE proc[p].cmd]
      \/ /\ Error(p) /\ engine' = engine /\ Trouble /\ infra.kind # "cloud"
         /\ \/ proc[p].cmd = "deploy" /\ proc[p].old.wf = "initialized" /\ live' = "none"
            \/ proc[p].cmd = "start" /\ proc[p].old.wf = "stopped" /\ live' = "stopped"
         /\ state' = [proc[p].old EXCEPT !.wf = proc[p].old.wf]
  BY Zenon DEF Finish, Final
<1> QED BY <1>0, <1>c, <1>1, <1>2, <1>3

\* Finish keeps types, control and locking.
LEMMA Base_Finish == ASSUME Base, NEW p \in Procs, Finish(p) PROVE Base'
<1>0. Globals /\ proc[p] \in ProcType BY ProcTyped
<1>1. \E r : Kept(p, r) BY FinishCases
<1>2. UNCHANGED <<dir, infra, inst, marker, lock, chosen, nextId, lost>> /\ proc[p].cmd \in Lifecycle
  BY FinishCases
<1>3. state' \in StateType
  <2>1. \A wf \in Wfs : [proc[p].old EXCEPT !.wf = wf] \in StateType
    BY <1>0 DEF ProcType, StateType
  <2>2. Final(proc[p].cmd) \in Wfs BY DEF Final, Wfs
  <2>3. (IF proc[p].cmd = "deploy" THEN "failed" ELSE proc[p].cmd) \in Wfs BY <1>2 DEF Wfs
  <2>4. proc[p].old.wf \in Wfs BY <1>0 DEF ProcType, StateType
  <2> QED BY <2>1, <2>2, <2>3, <2>4, FinishCases
<1>4. trouble' \in 0..MaxTrouble BY <1>0, TroubleType, FinishCases
<1>5. live' \in {"none", "some", "running", "stopped"}
  BY <1>0, <1>2, FinishCases DEF Globals, Final, Lifecycle
<1>6. engine' \in {"none", "podman", "docker"} BY <1>0, FinishCases DEF Globals
<1>7. Globals' BY <1>0, <1>2, <1>3, <1>4, <1>5, <1>6 DEF Globals
<1> QED BY <1>1, <1>2, <1>7, BaseKept

\* Kill keeps types, control and locking.
LEMMA Base_Kill == ASSUME Base, NEW p \in Procs, Kill(p) PROVE Base'
<1>0. Globals /\ Locking BY ProcTyped DEF Base
<1>1. Moved(p, Idle) BY ReturnMoved DEF Kill
<1>2. trouble' \in 0..MaxTrouble BY <1>0, TroubleType DEF Kill
<1>3. /\ lock'.ex = (IF lock.ex = p THEN "stale" ELSE lock.ex) /\ lock'.sh = lock.sh \ {p}
      /\ lock'.left = (lock.left \/ p \in lock.sh) /\ lock' \in LockType
  BY <1>0 DEF Kill, Globals, LockType
<1>4. Globals' BY <1>0, <1>2, <1>3 DEF Kill, Globals, files
<1>5. dir' = dir BY DEF Kill, files
<1>6. "none" \notin Procs /\ "stale" \notin Procs BY DirectoryAssumption
<1>7. Locking'
  <2>1. lock'.ex # "none" => lock.ex # "none" BY <1>3, <1>6
  <2>2. lock'.ex # "none" => lock'.sh = {} /\ ~lock'.left BY <1>0, <1>3, <2>1 DEF Locking
  <2>3. lock'.sh # {} \/ lock'.left => lock.sh # {} \/ lock.left BY <1>3
  <2>4. lock'.ex # "none" \/ lock'.sh # {} \/ lock'.left => dir'.root
    BY <1>0, <1>5, <2>1, <2>3 DEF Locking
  <2> QED BY <1>1, <1>3, <1>6, <2>2, <2>4, IdleOutside, OthersLock
<1> QED BY <1>1, <1>4, <1>7, BaseNext

\* Unlock keeps types, control and locking.
LEMMA Base_Unlock == ASSUME Base, NEW p \in Procs, Unlock(p) PROVE Base'
<1>0. Globals BY ProcTyped
<1>1. proc' = proc /\ \A q \in Procs : proc[q].pc = "idle" BY DEF Unlock, At
<1>2. /\ lock'.ex = "none" /\ lock'.sh = {} /\ lock'.left = FALSE /\ lock' \in LockType
  BY DEF Unlock, LockType
<1>3. Globals' BY <1>0, <1>2 DEF Unlock, Globals, files
<1>4. Locking' BY <1>1, <1>2 DEF Locking, Exclusive, Sharing, Deleting
<1>5. Types' BY <1>1, <1>3 DEF Base, Types, Globals
<1> QED BY <1>1, <1>4, <1>5 DEF Base

\* Every step keeps types, control and locking.
LEMMA BaseStep == Base /\ [Next]_vars => Base'
<1> SUFFICES ASSUME Base, [Next]_vars PROVE Base' OBVIOUS
<1>1. CASE UNCHANGED vars
  BY <1>1 DEF vars, files, Base, Types, Locking
<1>2. ASSUME NEW p \in Procs, NEW c \in Commands[p], Begin(p, c.cmd, c.kind, c.raw) PROVE Base'
  BY <1>2, Base_Begin
<1>3. ASSUME NEW p \in Procs, Step(p) PROVE Base'
  BY <1>3, Base_StartLog, Base_SeeState, Base_EnsureDeploymentDirReady, Base_MatchPresets,
     Base_BackfillIdentity, Base_Acquire, Base_AcquireTimeout, Base_Release, Base_ExtractShared,
     Base_ExtractInfra, Base_ExtractInst, Base_WriteState, Base_WriteMarker, Base_Configuring,
     Base_ConfigureBackend, Base_WriteInstallationVariables, Base_PrintConfiguration,
     Base_CheckRemoval, Base_RecheckRemoval, Base_RemoveEntry, Base_RemoveEntryFails,
     Base_RemoveRoot, Base_Prepare, Base_Operate, Base_Finish DEF Step, Configuring
<1>4. ASSUME NEW p \in Procs, Kill(p) PROVE Base' BY <1>4, Base_Kill
<1>5. ASSUME NEW p \in Procs, Unlock(p) PROVE Base' BY <1>5, Base_Unlock
<1> QED BY <1>1, <1>2, <1>3, <1>4, <1>5 DEF Next

-----------------------------------------------------------------------------
(* The engine that has the data *)

\* The recorded engine is the configured one initially.
LEMMA EngineInit == Init => EnginePinned
BY DEF Init, EnginePinned

\* The steps that write the infrastructure file or record an engine.
Infrastructure(p) ==
    ExtractInfra(p) \/ ConfigureBackend(p) \/ RemoveEntry(p) \/ Prepare(p) \/ Finish(p)

\* No other step touches what the engine depends on.
LEMMA OtherSteps ==
    ASSUME Next PROVE (infra' = infra /\ engine' = engine) \/ \E p \in Procs : Infrastructure(p)
<1>1. ASSUME NEW p \in Procs, NEW c \in Commands[p], Begin(p, c.cmd, c.kind, c.raw)
      PROVE  infra' = infra /\ engine' = engine
  BY <1>1 DEF Begin, files
<1>2. ASSUME NEW p \in Procs, Step(p) PROVE (infra' = infra /\ engine' = engine) \/ Infrastructure(p)
  BY <1>2 DEF Step, Infrastructure, files, StartLog, SeeState, EnsureDeploymentDirReady, MatchPresets,
     BackfillIdentity, Acquire, AcquireTimeout, Release, ExtractShared, ExtractInst, WriteState,
     WriteMarker, SetConfiguration, ResetConfiguration, WriteInstallationVariables,
     PrintConfiguration, CheckRemoval, RecheckRemoval, RemoveEntryFails, RemoveRoot, Operate
<1>3. ASSUME NEW p \in Procs, Kill(p) \/ Unlock(p) PROVE infra' = infra /\ engine' = engine
  BY <1>3 DEF Kill, Unlock, files
<1> QED BY <1>1, <1>2, <1>3 DEF Next

\* ExtractInfra keeps the recorded engine the configured one.
LEMMA Engine_ExtractInfra ==
    ASSUME Base, EnginePinned, NEW p \in Procs, ExtractInfra(p) PROVE EnginePinned'
<1>1. \A kind : [NoInfra EXCEPT !.is = "full", !.kind = kind].conf.engine = "auto"
  BY DEF NoInfra, RawDefaults
<1>2. [NoInfra EXCEPT !.is = "partial"].is # "full" BY DEF NoInfra
<1> QED BY <1>1, <1>2, ExtractInfraCases DEF EnginePinned

\* ConfigureBackend keeps the recorded engine the configured one.
LEMMA Engine_ConfigureBackend ==
    ASSUME Base, EnginePinned, NEW p \in Procs, ConfigureBackend(p) PROVE EnginePinned'
<1>0. Globals /\ engine' = engine BY ProcTyped, ConfigureCases
<1>1. ASSUME NEW busy \in BusyPorts, InfraAccepted(infra.kind, proc[p].conf, engine, busy),
             infra' = ConfiguredInfra(p, busy)
      PROVE  EnginePinned'
  <2>1. infra.kind = "host" => EngineAccepted(proc[p].conf.engine, engine) BY <1>1 DEF InfraAccepted
  <2>2. infra'.conf.engine = IF infra.kind = "host" THEN proc[p].conf.engine ELSE "auto"
    BY <1>1, ConfiguredStored
  <2> QED BY <1>0, <2>1, <2>2 DEF EngineAccepted, EnginePinned
<1>2. CASE infra' = [infra EXCEPT !.file = "torn"]
  BY <1>0, <1>2, TornInfra DEF EnginePinned
<1>3. CASE infra' = infra BY <1>0, <1>3 DEF EnginePinned
<1> QED BY <1>1, <1>2, <1>3, ConfigureCases

\* Prepare keeps the recorded engine the configured one.
LEMMA Engine_Prepare == ASSUME Base, EnginePinned, NEW p \in Procs, Prepare(p) PROVE EnginePinned'
<1>0. Globals BY ProcTyped
<1>1. CASE infra' = infra /\ engine' = engine BY <1>1 DEF EnginePinned
<1>2. ASSUME NEW busy \in BusyPorts, NEW detected \in {"podman", "docker"},
             \/ ~Normalizes(proc[p].cmd) /\ infra' = infra
             \/ /\ Normalizes(proc[p].cmd)
                /\ InfraAccepted(infra.kind, StoredInfra, engine, busy)
                /\ infra' = Normalized(busy),
             engine' = (IF infra.kind # "host" \/ proc[p].cmd \notin {"deploy", "start"}
                                     \/ engine # "none" THEN engine
                        ELSE IF StoredInfra.engine = "auto" THEN detected
                        ELSE StoredInfra.engine)
      PROVE  EnginePinned'
  <2>1. /\ infra'.is = infra.is
        /\ infra'.conf.engine = infra.conf.engine \/ infra'.conf.engine = "auto"
    BY <1>2, NormalizedFields DEF Normalizes
  <2>2. CASE engine' = engine BY <2>1, <2>2 DEF EnginePinned
  <2>3. CASE infra.kind = "host" /\ engine' # engine
    <3>1. StoredInfra = infra.conf BY <2>3 DEF StoredInfra, LocalConfiguration
    <3> QED BY <1>2, <2>1, <2>3, <3>1 DEF EnginePinned
  <2> QED BY <1>2, <2>2, <2>3
<1> QED BY <1>1, <1>2, PrepareCases

\* Every step keeps the recorded engine the configured one.
LEMMA EngineStep == Base /\ EnginePinned /\ [Next]_vars => EnginePinned'
<1> SUFFICES ASSUME Base, EnginePinned, [Next]_vars PROVE EnginePinned' OBVIOUS
<1>1. CASE infra' = infra /\ engine' = engine BY <1>1 DEF EnginePinned
<1>2. ASSUME NEW p \in Procs, Infrastructure(p) PROVE EnginePinned'
  <2>1. CASE RemoveEntry(p)
    BY <2>1, RemoveCases DEF EnginePinned, NoInfra
  <2>2. CASE Finish(p)
    BY <2>2, FinishCases DEF EnginePinned
  <2> QED BY <1>2, <2>1, <2>2, Engine_ExtractInfra, Engine_ConfigureBackend, Engine_Prepare
          DEF Infrastructure
<1>3. UNCHANGED vars => infra' = infra /\ engine' = engine BY DEF vars, files
<1> QED BY <1>1, <1>2, <1>3, OtherSteps

-----------------------------------------------------------------------------
(* What a removal goes by *)

Clean == ~dir.shared /\ infra.is = "none" /\ inst.is = "none" /\ engine = "none"
Busy == {"infra", "inst"} \cup Deleting

\* What a command is at while it takes files away or adds them.
Progress(r) ==
    /\ r.pc = "inst" => infra.is = "full"
    /\ r.pc \in {"delinfra", "delinst"} => ~dir.shared /\ engine = "none"
    /\ r.pc = "delinst" => infra.is = "none"
    /\ r.pc \in {"backfill", "operate", "finish"} => r.old.is = "good"

\* The same of the record a step leaves, said of the variables after it.
Proceeds(r) ==
    /\ r.pc = "inst" => infra'.is = "full"
    /\ r.pc \in {"delinfra", "delinst"} => ~dir'.shared /\ engine' = "none"
    /\ r.pc = "delinst" => infra'.is = "none"
    /\ r.pc \in {"backfill", "operate", "finish"} => r.old.is = "good"

Removal ==
    /\ ~dir.root => Clean
    /\ \A p \in Procs : Progress(proc[p])
    /\ trouble = 0 /\ dir.root => Removable \/ Clean \/ \E p \in Procs : proc[p].pc \in Busy

\* A removal has something to go by initially.
LEMMA RemovalInit == Init => Removal
<1> SUFFICES ASSUME Init PROVE Removal OBVIOUS
<1>1. \A p \in Procs : proc[p].pc = "idle" BY DEF Init, Idle
<1>2. engine = "none" BY DEF Init
<1>3. CASE /\ infra = NoInfra /\ inst = NoInst
           /\ (dir.root \/ (~dir.shared /\ ~dir.legacy)) /\ (dir.shared => dir.legacy)
  BY <1>1, <1>2, <1>3 DEF Removal, Progress, Proceeds, Clean, Removable, NoInfra, NoInst
<1>4. CASE \E kind \in Kinds, fixed \in SUBSET Unknown : Found(kind, FoundPorts(fixed))
  <2>1. PICK kind \in Kinds, fixed \in SUBSET Unknown : Found(kind, FoundPorts(fixed)) BY <1>4
  <2>2. dir.root /\ state.is = "good" BY <2>1 DEF Found, NoState
  <2> QED BY <1>1, <2>2 DEF Removal, Progress, Proceeds, Removable, Initialized
<1> QED BY <1>3, <1>4, InitCases

\* While one process holds the lock, the others are outside.
LEMMA OthersOutside ==
    ASSUME Base, NEW p \in Procs, Exclusive(proc[p])
    PROVE  \A q \in Procs \ {p} :
              /\ proc[q].pc \notin {"shared", "infra", "inst", "configure", "variables", "state",
                   "marker", "read", "recheck", "prepare", "operate", "finish", "print"} \cup Deleting
              /\ Outside(proc[q])
<1>1. lock.ex = p /\ lock.sh = {} /\ \A q \in Procs \ {p} : lock.ex # q
  BY DirectoryAssumption DEF Base, Locking
<1>2. \A q \in Procs \ {p} : ~Exclusive(proc[q]) /\ ~Sharing(proc[q]) BY <1>1 DEF Base, Locking
<1> QED BY <1>2 DEF Outside, Exclusive, Sharing

\* A step that moves one process and changes neither the directory's entries nor the
\* presets, or does so without touching what a removal goes by.
LEMMA RemovalKept ==
    ASSUME Base, Removal, NEW p \in Procs, NEW r, Moved(p, r),
           infra' = infra, inst' = inst, engine' = engine, marker' = marker,
           state'.is = state.is,
           dir'.shared = dir.shared, dir'.legacy = dir.legacy, dir.root => dir'.root,
           Proceeds(r),
           proc[p].pc \in Busy => r.pc \in Busy \/ trouble' # 0,
           trouble' # 0 \/ trouble' = trouble
    PROVE  Removal'
<1>1. proc'[p] = r /\ \A q \in Procs \ {p} : proc'[q] = proc[q] BY MovedBase
<1>2. \A q \in Procs : Progress(proc[q])'
  BY <1>1 DEF Removal, Progress, Proceeds
<1>3. Removable => Removable' \/ ~dir'.root BY DEF Removable, Initialized
<1>4. Clean => Clean' BY DEF Clean
<1>5. trouble' = 0 => ((\E q \in Procs : proc[q].pc \in Busy) => \E q \in Procs : proc'[q].pc \in Busy)
  BY <1>1
<1>6. dir'.root /\ ~dir.root => Clean' BY <1>4 DEF Removal
<1> QED BY <1>2, <1>3, <1>4, <1>5, <1>6 DEF Removal

\* Trouble is remembered.
LEMMA TroubleCounts == ASSUME Globals, Trouble PROVE trouble' # 0
BY DirectoryAssumption DEF Globals, Trouble

\* The steps that only move a process, to a record of which nothing is to be said.
Quiet(p) ==
    \/ \E c \in Commands[p] : Begin(p, c.cmd, c.kind, c.raw)
    \/ StartLog(p) \/ SeeState(p) \/ (EnsureDeploymentDirReady(p) /\ ~Empty)
    \/ (Acquire(p) /\ proc[p].cmd # "init") \/ AcquireTimeout(p) \/ Release(p)
    \/ CheckRemoval(p) \/ RecheckRemoval(p) \/ RemoveEntryFails(p) \/ RemoveRoot(p) \/ Kill(p)

QuietFrame == UNCHANGED <<infra, inst, state, marker, engine, live, chosen, lost, nextId>>

QuietEffect(p) ==
    /\ \E r : /\ Moved(p, r) /\ Harmless(r)
              /\ proc[p].pc \in Busy => r.pc \in Busy \/ trouble' # 0
    /\ UNCHANGED <<infra, inst, state, marker, engine, live, chosen, lost, nextId>>
    /\ dir'.shared = dir.shared /\ dir'.legacy = dir.legacy
    /\ (dir.root => dir'.root) \/ RemoveRoot(p)
    /\ trouble' # 0 \/ trouble' = trouble

\* What a quiet step does.
LEMMA QuietCases == ASSUME Base, NEW p \in Procs, Quiet(p) PROVE QuietEffect(p)
<1>0. Globals BY ProcTyped
<1>1. ASSUME NEW c \in Commands[p], Begin(p, c.cmd, c.kind, c.raw) PROVE QuietEffect(p)
  BY <1>1, BeginCases DEF QuietEffect, Kept, files, Busy, Deleting
<1>2. CASE StartLog(p) BY <1>2, StartLogCases DEF QuietEffect, Kept, Busy, Deleting
<1>3. CASE SeeState(p) BY <1>3, SeeStateCases DEF QuietEffect, Kept, files, Busy, Deleting
<1>4. CASE EnsureDeploymentDirReady(p) /\ ~Empty
  BY <1>4, EnsureCases, IdleHarmless DEF QuietEffect, Kept, Busy, Deleting
<1>5. CASE Acquire(p) /\ proc[p].cmd # "init"
  BY <1>5, AcquireCases DEF QuietEffect, files, Busy, Deleting
<1>6. CASE AcquireTimeout(p)
  <2>1. Kept(p, Idle) /\ proc[p].pc = "lock" BY <1>6, ReturnKept DEF AcquireTimeout, At
  <2> QED BY <1>6, <2>1, IdleHarmless DEF AcquireTimeout, QuietEffect, Kept, files, Busy, Deleting
<1>7. CASE Release(p)
  <2>1. proc[p].pc = "unlock" BY <1>7 DEF Release, At
  <2>2. \E r : Moved(p, r) /\ Harmless(r) BY <1>7, ReleaseCases
  <2> QED BY <1>7, <2>1, <2>2 DEF Release, QuietEffect, files, Busy, Deleting
<1>8. CASE CheckRemoval(p)
  <2>1. proc[p].pc = "check" /\ proc[p].cmd = "remove" BY <1>8, ProcTyped DEF CheckRemoval, At, Control
  <2>2. Harmless(Now(p, "lock")) BY <2>1, NowFields DEF Harmless
  <2> QED BY <1>8, <2>1, <2>2, CheckCases, IdleHarmless DEF CheckRemoval, QuietEffect, Kept, files, Busy, Deleting
<1>9. CASE RecheckRemoval(p)
  <2>1. proc[p].pc = "recheck" BY <1>9 DEF RecheckRemoval, At
  <2> QED BY <1>9, <2>1, RecheckCases, FailedHarmless, NowHarmless
          DEF RecheckRemoval, QuietEffect, Kept, files, Busy, Deleting
<1>10. CASE RemoveEntryFails(p)
  <2>0. proc[p].pc \in Deleting BY <1>10 DEF RemoveEntryFails, Deleting
  <2>e. Exclusive(proc[p]) /\ proc[p].pc # "idle" BY <2>0, InsideExclusive DEF Deleting
  <2>1. Kept(p, Failed(p)) BY <1>10, <2>e, ErrorKept DEF RemoveEntryFails
  <2>2. trouble' # 0 BY <1>10, <1>0, TroubleCounts DEF RemoveEntryFails
  <2> QED BY <1>10, <2>1, <2>2, FailedHarmless DEF RemoveEntryFails, QuietEffect, Kept, files
<1>11. CASE RemoveRoot(p)
  <2>1. Kept(p, Idle) /\ proc[p].pc = "rmdir" BY <1>11, ReturnKept DEF RemoveRoot, At
  <2>2. dir'.shared = dir.shared /\ dir'.legacy = dir.legacy
    BY <1>0, <1>11 DEF RemoveRoot, Globals, DirType
  <2> QED BY <1>11, <2>1, <2>2, IdleHarmless DEF RemoveRoot, QuietEffect, Kept, Busy, Deleting
<1>12. CASE Kill(p)
  <2>1. Kept(p, Idle) BY <1>12, ReturnKept DEF Kill
  <2>2. trouble' # 0 BY <1>12, <1>0, TroubleCounts DEF Kill
  <2> QED BY <1>12, <2>1, <2>2, IdleHarmless DEF Kill, QuietEffect, Kept, files
<1> QED BY <1>1, <1>2, <1>3, <1>4, <1>5, <1>6, <1>7, <1>8, <1>9, <1>10, <1>11, <1>12 DEF Quiet

\* A quiet step keeps what a removal goes by.
LEMMA Removal_Quiet == ASSUME Base, Removal, NEW p \in Procs, Quiet(p) PROVE Removal'
<1>1. QuietEffect(p) BY QuietCases
<1>2. PICK r : /\ Moved(p, r) /\ Harmless(r)
               /\ proc[p].pc \in Busy => r.pc \in Busy \/ trouble' # 0
  BY <1>1 DEF QuietEffect
<1>3. Proceeds(r) BY <1>2 DEF Harmless, Progress, Proceeds
<1>4. CASE dir.root => dir'.root
  BY <1>1, <1>2, <1>3, <1>4, RemovalKept DEF QuietEffect
<1>5. CASE RemoveRoot(p) /\ dir.root /\ ~dir'.root
  <2>1. Empty /\ infra' = infra /\ inst' = inst /\ engine' = engine /\ dir'.shared = dir.shared
    BY <1>5, <1>1, ProcTyped DEF RemoveRoot, Globals, DirType, QuietEffect
  <2>2. Clean' BY <2>1 DEF Empty, Clean
  <2>3. proc'[p] = r /\ \A q \in Procs \ {p} : proc'[q] = proc[q] BY <1>2, MovedBase
  <2>4. \A q \in Procs : Progress(proc[q])'
    <3>1. TAKE q \in Procs
    <3>2. CASE q = p BY <2>3, <3>2, <1>3 DEF Progress, Proceeds
    <3>3. CASE q # p BY <2>1, <2>3, <3>3 DEF Removal, Progress, Proceeds
    <3> QED BY <3>2, <3>3
  <2> QED BY <1>5, <2>2, <2>4 DEF Removal
<1> QED BY <1>1, <1>4, <1>5 DEF QuietEffect

\* The steps of init, match and config that leave what a removal goes by as it is.
LEMMA HarmlessProgress == ASSUME NEW r, Harmless(r) PROVE Proceeds(r)
BY DEF Progress, Proceeds, Harmless

\* Nor of one that is not in the middle of the files.
LEMMA FarFromBusy ==
    ASSUME NEW r, r.pc \notin {"inst", "delinfra", "delinst", "backfill", "operate", "finish"}
    PROVE  Proceeds(r)
BY DEF Progress, Proceeds

\* A step that changes none of these files keeps what a removal goes by.
LEMMA Removal_Simple ==
    ASSUME Base, Removal, NEW p \in Procs,
           \/ EnsureDeploymentDirReady(p) /\ Empty
           \/ MatchPresets(p)
           \/ Acquire(p) /\ proc[p].cmd = "init"
           \/ Configuring(p) \/ PrintConfiguration(p)
    PROVE  Removal'
<1>0. Globals BY ProcTyped
<1>1. CASE EnsureDeploymentDirReady(p) /\ Empty
  <2>1. Proceeds(Now(p, "lock")) /\ Proceeds(Idle) BY NowFields, IdleHarmless, FarFromBusy
  <2> QED BY <1>1, <2>1, EnsureCases, RemovalKept DEF Kept, Busy, Deleting
<1>2. CASE MatchPresets(p)
  <2>1. Readable /\ StateReadable => Backfilled(state).is = "good"
    BY <1>0, BackfilledType DEF Globals, Readable, ManifestReadable, StateReadable
  <2>2. Readable /\ StateReadable => Proceeds(Backfilling(p)) BY <2>1, BackfillingFields DEF Progress, Proceeds
  <2>3. \E r : Kept(p, r) /\ Proceeds(r)
    BY <1>2, <2>2, MatchCases, HarmlessProgress
  <2> QED BY <1>2, <2>3, MatchCases, RemovalKept DEF Kept, Busy, Deleting, files
<1>3. CASE Acquire(p) /\ proc[p].cmd = "init"
  <2>1. Proceeds(Now(p, "shared")) BY NowFields, FarFromBusy
  <2> QED BY <1>3, <2>1, AcquireCases, RemovalKept DEF Busy, Deleting, files
<1>4. CASE Configuring(p)
  <2>1. Proceeds(Configures(p, Given(p))) /\ Proceeds(Failed(p))
    BY ConfiguresFields, FailedHarmless, FarFromBusy
  <2>2. state'.is = state.is
    BY <1>0, <1>4, ConfiguringCases, BackfilledType DEF Globals, Readable, ManifestReadable
  <2> QED BY <1>4, <2>1, <2>2, ConfiguringCases, RemovalKept DEF Kept, Busy, Deleting
<1>5. CASE PrintConfiguration(p)
  <2>f. Proceeds(Failed(p)) BY FailedHarmless, HarmlessProgress
  <2>1. Proceeds(Now(p, "unlock")) BY NowFields, FarFromBusy
  <2>2. state'.is = state.is
    BY <1>0, <1>5, PrintCases, BackfilledType DEF Globals, Readable, ManifestReadable
  <2> QED BY <1>5, <2>f, <2>1, <2>2, PrintCases, RemovalKept DEF Kept, Busy, Deleting
<1> QED BY <1>1, <1>2, <1>3, <1>4, <1>5

\* A step after which something is left that remove goes by, or something has failed.
LEMMA RemovalLeft ==
    ASSUME Base, Removal, NEW p \in Procs, NEW r, Moved(p, r), lock.ex = p => dir.root,
           dir.root, dir'.root, Proceeds(r),
           \A q \in Procs \ {p} : proc[q].pc \in {"inst", "delinfra", "delinst"} =>
               infra' = infra /\ engine' = engine /\ dir'.shared = dir.shared,
           trouble' # 0 \/ Removable' \/ Clean' \/ r.pc \in Busy
    PROVE  Removal'
<1>1. proc'[p] = r /\ \A q \in Procs \ {p} : proc'[q] = proc[q] BY MovedBase
<1>2. \A q \in Procs : Progress(proc[q])'
  <2>1. TAKE q \in Procs
  <2>2. CASE q = p BY <1>1, <2>2 DEF Progress, Proceeds
  <2>3. CASE q # p BY <1>1, <2>3 DEF Removal, Progress, Proceeds
  <2> QED BY <2>2, <2>3
<1> QED BY <1>1, <1>2 DEF Removal

\* The same, of a process that holds the lock.
LEMMA RemovalLocked ==
    ASSUME Base, Removal, NEW p \in Procs, Exclusive(proc[p]), NEW r, Moved(p, r), dir'.root = dir.root,
           Proceeds(r), trouble' # 0 \/ Removable' \/ Clean' \/ r.pc \in Busy
    PROVE  Removal'
<1>1. dir.root BY DirectoryAssumption DEF Base, Locking
<1>2. \A q \in Procs \ {p} : proc[q].pc \notin {"inst", "delinfra", "delinst"}
  BY OthersOutside DEF Deleting
<1> QED BY <1>1, <1>2, RemovalLeft

\* BackfillIdentity keeps what a removal goes by.
LEMMA Removal_BackfillIdentity ==
    ASSUME Base, Removal, NEW p \in Procs, BackfillIdentity(p) PROVE Removal'
<1>0. Globals /\ proc[p].old.is = "good" /\ proc[p].pc = "backfill"
  BY ProcTyped, BackfillCases DEF Removal, Progress, Proceeds
<1>1. PICK r : Kept(p, r) /\ Harmless(r) BY BackfillCases
<1>2. Moved(p, r) /\ Proceeds(r) BY <1>1, HarmlessProgress DEF Kept
<1>u. UNCHANGED <<dir, infra, inst, marker, engine>> BY BackfillCases
<1>3. CASE state' = state /\ trouble' = trouble
  BY <1>0, <1>2, <1>3, <1>u, RemovalKept DEF Busy, Deleting
<1>4. CASE dir.root /\ (trouble' # 0 \/ state' = proc[p].old)
  <2>1. Removable' \/ trouble' # 0 BY <1>0, <1>u, <1>4 DEF Removable, Initialized
  <2> QED BY <1>2, <1>4, <2>1, <1>u, RemovalLeft
<1> QED BY <1>0, <1>3, <1>4, TroubleCounts, BackfillCases

\* Unpacking the presets keeps what a removal goes by.
LEMMA Removal_Extract ==
    ASSUME Base, Removal, NEW p \in Procs, ExtractShared(p) \/ ExtractInfra(p) \/ ExtractInst(p)
    PROVE  Removal'
<1>0. Globals BY ProcTyped
<1>f. Proceeds(Failed(p)) BY FailedHarmless, HarmlessProgress
<1>1. CASE ExtractShared(p)
  <2>1. Exclusive(proc[p]) BY <1>1, InsideExclusive DEF ExtractShared, At
  <2>2. dir'.root = dir.root BY <1>0, <1>1 DEF ExtractShared, WriteSharedDir, Globals, DirType
  <2>3. Proceeds(Extracting(p)) /\ Extracting(p).pc \in Busy BY ExtractingFields, FarFromBusy DEF Busy
  <2> QED BY <1>0, <1>1, <1>f, <2>1, <2>2, <2>3, ExtractSharedCases, TroubleCounts, RemovalLocked DEF Kept
<1>2. CASE ExtractInfra(p)
  <2>1. Exclusive(proc[p]) /\ dir' = dir BY <1>2, InsideExclusive DEF ExtractInfra, At
  <2>2. [NoInfra EXCEPT !.is = "full", !.kind = proc[p].kind].is = "full" BY DEF NoInfra
  <2>3. infra'.is = "full" => Proceeds(Now(p, "inst")) BY NowFields DEF Progress, Proceeds
  <2>4. Now(p, "inst").pc \in Busy BY NowFields DEF Busy
  <2> QED BY <1>0, <1>2, <1>f, <2>1, <2>2, <2>3, <2>4, ExtractInfraCases, TroubleCounts, RemovalLocked DEF Kept
<1>3. CASE ExtractInst(p)
  <2>0. proc[p].pc = "inst" BY <1>3 DEF ExtractInst, At
  <2>1. Exclusive(proc[p]) /\ dir' = dir /\ infra' = infra BY <1>3, <2>0, InsideExclusive DEF ExtractInst
  <2>2. [NoInst EXCEPT !.is = "full"].is = "full" BY DEF NoInst
  <2>3. Proceeds(InitConfigures(p)) BY InitConfiguresFields, FarFromBusy
  <2>4. infra.is = "full" BY <2>0 DEF Removal, Progress, Proceeds
  <2>5. dir.root BY <2>1, DirectoryAssumption DEF Base, Locking
  <2>6. inst'.is = "full" => Removable' BY <2>1, <2>4, <2>5 DEF Removable
  <2> QED BY <1>0, <1>3, <1>f, <2>1, <2>2, <2>3, <2>6, ExtractInstCases, TroubleCounts, RemovalLocked DEF Kept
<1> QED BY <1>1, <1>2, <1>3

\* Writing the state or the marker keeps what a removal goes by.
LEMMA Removal_Write ==
    ASSUME Base, Removal, NEW p \in Procs, WriteState(p) \/ WriteMarker(p)
    PROVE  Removal'
<1>0. Globals BY ProcTyped
<1>f. Proceeds(Failed(p)) BY FailedHarmless, HarmlessProgress
<1>1. CASE WriteState(p)
  <2>0. proc[p].pc = "state" BY <1>1 DEF WriteState, At
  <2>1. Exclusive(proc[p]) /\ dir' = dir BY <1>1, <2>0, InsideExclusive DEF WriteState
  <2>2. WriteStateFile(p).is = "good" BY <2>0, WriteStateType
  <2>3. Proceeds(Now(p, "marker")) BY NowFields, FarFromBusy
  <2>5. dir.root BY <2>1, DirectoryAssumption DEF Base, Locking
  <2>6. state' = WriteStateFile(p) => Removable' BY <2>1, <2>2, <2>5 DEF Removable, Initialized
  <2> QED BY <1>0, <1>1, <1>f, <2>1, <2>3, <2>6, WriteStateCases, TroubleCounts, RemovalLocked DEF Kept
<1>2. CASE WriteMarker(p)
  <2>0. proc[p].pc = "marker" BY <1>2 DEF WriteMarker, At
  <2>1. Exclusive(proc[p]) /\ dir' = dir BY <1>2, <2>0, InsideExclusive DEF WriteMarker
  <2>2. Version[p] # NoVersion BY DirectoryAssumption DEF NoVersion
  <2>3. Proceeds(Now(p, "unlock")) BY NowFields, FarFromBusy
  <2>5. dir.root BY <2>1, DirectoryAssumption DEF Base, Locking
  <2>6. marker' = Version[p] => Removable' BY <2>1, <2>2, <2>5 DEF Removable
  <2> QED BY <1>0, <1>2, <1>f, <2>1, <2>3, <2>6, WriteMarkerCases, TroubleCounts, RemovalLocked DEF Kept
<1> QED BY <1>1, <1>2

\* Writing the configuration keeps what a removal goes by.
LEMMA Removal_Configure ==
    ASSUME Base, Removal, NEW p \in Procs, ConfigureBackend(p) \/ WriteInstallationVariables(p)
    PROVE  Removal'
<1>0. Globals BY ProcTyped
<1>e. Exclusive(proc[p]) /\ proc[p].pc \notin Busy
  BY ConfigureCases, VariablesCases, InsideExclusive DEF Busy, Deleting
<1>f. Proceeds(Failed(p)) BY FailedHarmless, HarmlessProgress
<1>u. UNCHANGED <<dir, state, marker, engine>> BY ConfigureCases, VariablesCases
<1>1. infra'.is = infra.is /\ inst'.is = inst.is
  <2>1. \A busy : ConfiguredInfra(p, busy).is = infra.is BY ConfiguredFields
  <2>2. [infra EXCEPT !.file = "torn"].is = infra.is BY <1>0, TornInfra
  <2>3. CASE ConfigureBackend(p) BY <2>1, <2>2, <2>3, ConfigureCases
  <2>4. CASE WriteInstallationVariables(p) BY <2>4, VariablesCases, VarsTypes
  <2> QED BY <2>3, <2>4
<1>2. \E r : Moved(p, r) /\ Proceeds(r)
  <2>1. Proceeds(Now(p, "variables")) /\ Proceeds(Now(p, AfterVars(p)))
    BY NowFields, FarFromBusy DEF AfterVars
  <2> QED BY <2>1, <1>f, ConfigureCases, VariablesCases DEF Kept
<1>3. trouble' # 0 \/ trouble' = trouble BY <1>0, TroubleCounts, ConfigureCases, VariablesCases
<1>4. trouble' # 0 \/ Removable' \/ Clean'
  <2>1. dir.root BY <1>e, DirectoryAssumption DEF Base, Locking
  <2>2. \A q \in Procs : proc[q].pc \notin Busy BY <1>e, OthersOutside DEF Busy
  <2>3. trouble = 0 => Removable \/ Clean BY <2>1, <2>2 DEF Removal
  <2>4. Removable => Removable' BY <1>u, <1>1 DEF Removable, Initialized
  <2>5. Clean => Clean' BY <1>u, <1>1 DEF Clean
  <2> QED BY <1>3, <2>3, <2>4, <2>5
<1> QED BY <1>e, <1>2, <1>4, <1>u, RemovalLocked

\* RemoveEntry keeps what a removal goes by.
LEMMA Removal_RemoveEntry == ASSUME Base, Removal, NEW p \in Procs, RemoveEntry(p) PROVE Removal'
<1> DEFINE r == Now(p, Follows(proc[p].pc))
<1>0. Globals BY ProcTyped
<1>1. proc[p].pc \in Deleting BY RemoveCases DEF Deleting
<1>e. Exclusive(proc[p]) BY <1>1, InsideExclusive DEF Deleting
<1>2. r.pc = Follows(proc[p].pc) /\ Moved(p, r) BY NowFields, RemoveCases DEF Kept
<1>3. dir'.root = dir.root BY <1>0, RemoveCases DEF Globals, DirType
<1>4. CASE proc[p].pc \in {"delmarker", "delstate"}
  <2>1. r.pc \in {"delstate", "delrest"} BY <1>2, <1>4 DEF Follows
  <2> HIDE DEF r
  <2>2. Proceeds(r) /\ r.pc \in Busy BY <2>1, FarFromBusy DEF Busy, Deleting
  <2> QED BY <1>e, <1>2, <1>3, <2>2, RemovalLocked
<1>5. CASE proc[p].pc = "delrest"
  <2>1. r.pc = "delinfra" BY <1>2, <1>5 DEF Follows
  <2>2. ~dir'.shared /\ engine' = "none" BY <1>0, <1>5, RemoveCases DEF Globals, DirType
  <2> HIDE DEF r
  <2>3. Proceeds(r) /\ r.pc \in Busy BY <2>1, <2>2 DEF Progress, Proceeds, Busy, Deleting
  <2> QED BY <1>e, <1>2, <1>3, <2>3, RemovalLocked
<1>6. CASE proc[p].pc = "delinfra"
  <2>1. r.pc = "delinst" BY <1>2, <1>6 DEF Follows
  <2>2. ~dir'.shared /\ engine' = "none" /\ infra'.is = "none"
    BY <1>6, RemoveCases DEF Removal, Progress, Proceeds, NoInfra
  <2> HIDE DEF r
  <2>3. Proceeds(r) /\ r.pc \in Busy BY <2>1, <2>2 DEF Progress, Proceeds, Busy, Deleting
  <2> QED BY <1>e, <1>2, <1>3, <2>3, RemovalLocked
<1>7. CASE proc[p].pc = "delinst"
  <2>1. r.pc = "unlock" BY <1>2, <1>7 DEF Follows
  <2>2. Clean' BY <1>7, RemoveCases DEF Removal, Progress, Proceeds, Clean, NoInst
  <2> HIDE DEF r
  <2>3. Proceeds(r) BY <2>1, FarFromBusy
  <2> QED BY <1>e, <1>2, <1>3, <2>2, <2>3, RemovalLocked
<1> QED BY <1>1, <1>4, <1>5, <1>6, <1>7 DEF Deleting

\* A lifecycle command keeps what a removal goes by.
LEMMA Removal_Lifecycle ==
    ASSUME Base, Removal, NEW p \in Procs, Prepare(p) \/ Operate(p) \/ Finish(p) PROVE Removal'
<1>0. Globals BY ProcTyped
<1>f. Proceeds(Failed(p)) BY FailedHarmless, HarmlessProgress
<1>e. Exclusive(proc[p]) /\ proc[p].pc \notin Busy
  BY PrepareCases, OperateCases, FinishCases, InsideExclusive DEF Busy, Deleting
<1>r. dir.root BY <1>e, DirectoryAssumption DEF Base, Locking
<1>1. CASE Prepare(p)
  <2>u. UNCHANGED <<dir, inst, state, marker, trouble>> BY <1>1, PrepareCases
  <2>1. CASE Kept(p, Failed(p)) /\ infra' = infra /\ engine' = engine
    BY <1>1, <1>f, <1>e, <2>1, <2>u, RemovalKept DEF Kept
  <2>2. CASE StateReadable /\ Kept(p, Preparing(p))
    <3>0. Preparing(p).pc = "operate" /\ Preparing(p).old.is = "good"
      BY <1>1, <2>2, PrepareCases, PreparingFields DEF StateReadable
    <3>1. Proceeds(Preparing(p)) BY <3>0 DEF Proceeds
    <3>2. Removable' BY <1>r, <2>2, <2>u DEF Removable, Initialized, StateReadable
    <3> QED BY <1>e, <2>2, <2>u, <3>1, <3>2, RemovalLocked DEF Kept
  <2> QED BY <1>1, <2>1, <2>2, PrepareCases
<1>2. CASE Operate(p)
  <2>1. proc[p].old.is = "good" BY <1>2, OperateCases DEF Removal, Progress, Proceeds
  <2>2. Proceeds(Now(p, "finish")) BY <2>1, NowFields DEF Progress, Proceeds
  <2>3. Removable' BY <1>r, <1>2, <2>1, OperateCases DEF Removable, Initialized
  <2> QED BY <1>e, <1>2, <2>2, <2>3, OperateCases, RemovalLocked DEF Kept
<1>3. CASE Finish(p)
  <2>1. proc[p].old.is = "good" BY <1>3, FinishCases DEF Removal, Progress, Proceeds
  <2>2. \A wf : [proc[p].old EXCEPT !.wf = wf].is = "good"
    BY <2>1, ProcTyped DEF ProcType, StateType
  <2>3. state'.is = "good" /\ dir' = dir
    <3>1. dir' = dir /\ \E wf : state' = [proc[p].old EXCEPT !.wf = wf] BY <1>3, FinishCases
    <3> QED BY <3>1, <2>2
  <2>4. Removable' BY <1>r, <2>3 DEF Removable, Initialized
  <2>5. Proceeds(Now(p, "unlock")) BY NowFields, FarFromBusy
  <2> QED BY <1>e, <1>f, <1>3, <2>3, <2>4, <2>5, FinishCases, RemovalLocked DEF Kept
<1> QED BY <1>1, <1>2, <1>3

\* Every step keeps what a removal goes by.
LEMMA RemovalStep == Base /\ Removal /\ [Next]_vars => Removal'
<1> SUFFICES ASSUME Base, Removal, [Next]_vars PROVE Removal' OBVIOUS
<1>1. CASE UNCHANGED vars
  BY <1>1 DEF vars, files, Removal, Progress, Proceeds, Clean, Removable, Initialized
<1>2. ASSUME NEW p \in Procs, Quiet(p) PROVE Removal' BY <1>2, Removal_Quiet
<1>3. ASSUME NEW p \in Procs, Step(p) PROVE Removal'
  BY <1>3, <1>2, Removal_Simple, Removal_BackfillIdentity, Removal_Extract, Removal_Write,
     Removal_Configure, Removal_RemoveEntry, Removal_Lifecycle DEF Step, Quiet, Configuring
<1>4. ASSUME NEW p \in Procs, Unlock(p) PROVE Removal'
  BY <1>4 DEF Unlock, files, Removal, Progress, Proceeds, Clean, Removable, Initialized
<1>5. ASSUME NEW p \in Procs, NEW c \in Commands[p], Begin(p, c.cmd, c.kind, c.raw) PROVE Removal'
  BY <1>5, <1>2 DEF Quiet
<1>6. ASSUME NEW p \in Procs, Kill(p) PROVE Removal' BY <1>6, <1>2 DEF Quiet
<1> QED BY <1>1, <1>3, <1>4, <1>5, <1>6 DEF Next

\* Whatever commands are interleaved, rejected options included: while no write has
\* failed and no launcher was killed, an idle directory has been removed, has the file
\* or marker that `remove` goes by, or has nothing of a deployment in it, so that init
\* accepts it.
THEOREM DirectoryRecoverable == Spec => []Recoverable
<1>1. Init => Base /\ Removal BY BaseInit, RemovalInit
<1>2. Base /\ Removal /\ [Next]_vars => (Base /\ Removal)' BY BaseStep, RemovalStep
<1>3. Base /\ Removal => Recoverable
  BY DEF Removal, Recoverable, Clean, At, Busy, Deleting
<1> QED BY <1>1, <1>2, <1>3, PTL DEF Spec

\* The engine a host deployment is configured for never contradicts the recorded one,
\* which has its data, whatever fails: reconfiguring refuses another engine
\* (localConfigure) and a start records the configured one.
THEOREM DirectoryEnginePinned == Spec => []EnginePinned
BY BaseInit, BaseStep, EngineInit, EngineStep, PTL DEF Spec

-----------------------------------------------------------------------------
(* One deployment *)

\* A copy of the state that is still to be written.
Pending(r) == r.pc \in {"backfill", "operate", "finish"}

\* The files f and i of the presets are of the deployment the record s names.
Agrees(s, f, i) ==
    /\ s.is = "good" /\ s.id # 0
    /\ f.is = "full" => s.ident \in {"blank", f.kind} /\ f.file # "none" /\ f.id \in {0, s.id}
    /\ i.is = "full" => i.file # "none" /\ (i.file = "good" => i.id = s.id)

\* An initialisation goes on in a directory that has no deployment, step by step.
Initialising(r) ==
    r.cmd = "init" /\ r.pc \in {"lock", "shared", "infra", "inst", "configure", "variables", "state"}
Fresh(r, s, f, i) ==
    /\ s.is = "none"
    /\ r.pc \notin {"lock", "shared"} => r.id # 0
    /\ r.pc \in {"lock", "shared", "infra"} => f.is = "none"
    /\ r.pc \in {"lock", "shared", "infra", "inst"} => i.is = "none"
    /\ r.pc \notin {"lock", "shared", "infra"} => f.is = "full" /\ f.kind = r.kind
    /\ r.pc \in {"inst", "configure"} => f.file = "none" /\ f.id = 0
    /\ r.pc \in {"configure", "variables"} => i.is = "full" /\ i.file = "none"
    /\ r.pc \in {"variables", "state"} => f.file = "good" /\ f.id \in {0, r.id}
    /\ r.pc = "state" => i.is = "full" /\ i.file = "good" /\ i.id = r.id

\* config set and config reset go on in a directory that has one.
Resetting(r) == r.cmd \in {"set", "reset"} /\ r.pc \in {"configure", "variables"}

\* What a command that is under way relies on.
Owns(r, s, f, i) ==
    /\ Pending(r) => /\ Agrees(r.old, f, i)
                     /\ s.is = "good" => s.id = r.old.id
                     /\ s.is # IF r.pc = "backfill" THEN "torn" ELSE "none"
    /\ Initialising(r) => Fresh(r, s, f, i)
    /\ Resetting(r) => /\ s.is # "none" /\ f.is = "full" /\ i.is = "full"
                       /\ f.file # "none" /\ i.file # "none"

Identity ==
    /\ nextId # 0
    /\ state.is = "good" => Agrees(state, infra, inst)
    /\ \A p \in Procs : Owns(proc[p], state, infra, inst)

\* The files agree initially.
LEMMA IdentityInit == Init => Identity
<1> SUFFICES ASSUME Init PROVE Identity OBVIOUS
<1>0. nextId = 2 BY DEF Init
<1>1. \A p \in Procs : proc[p] = Idle BY DEF Init
<1>2. \A p \in Procs : Owns(proc[p], state, infra, inst)
  BY <1>1, IdleFields DEF Owns, Pending, Initialising, Resetting
<1>3. CASE state = NoState BY <1>0, <1>2, <1>3 DEF Identity, NoState
<1>4. CASE \E kind \in Kinds, fixed \in SUBSET Unknown : Found(kind, FoundPorts(fixed))
  <2>1. PICK kind \in Kinds, fixed \in SUBSET Unknown : Found(kind, FoundPorts(fixed)) BY <1>4
  <2>2. state.is = "good" /\ state.id = 1 /\ state.ident = "blank" BY <2>1 DEF Found, NoState
  <2>3. infra.file = "good" /\ infra.id \in {0, 1} BY <2>1 DEF Found, NoInfra
  <2>4. inst.file = "good" /\ inst.id = 1 BY <2>1 DEF Found, NoInst
  <2> QED BY <1>0, <1>2, <2>2, <2>3, <2>4 DEF Identity, Agrees
<1> QED BY <1>3, <1>4, InitCases

\* What is to be shown of a step to keep the files in agreement.
LEMMA IdentityNext ==
    ASSUME Base, NEW p \in Procs, NEW r, Moved(p, r), nextId' # 0,
           state'.is = "good" => Agrees(state', infra', inst'),
           Owns(r, state', infra', inst'),
           \A q \in Procs \ {p} : Owns(proc[q], state', infra', inst')
    PROVE  Identity'
<1>1. proc'[p] = r /\ \A q \in Procs \ {p} : proc'[q] = proc[q] BY MovedBase
<1>2. \A q \in Procs : Owns(proc'[q], state', infra', inst')
  BY <1>1
<1> QED BY <1>2 DEF Identity

\* A command outside those steps relies on nothing.
LEMMA Disowned ==
    ASSUME NEW r, ~Pending(r), ~Initialising(r), ~Resetting(r), NEW s, NEW f, NEW i
    PROVE  Owns(r, s, f, i)
BY DEF Owns

\* Nor does one of which nothing is to be said.
LEMMA HarmlessOwns == ASSUME NEW r, Harmless(r), NEW s, NEW f, NEW i PROVE Owns(r, s, f, i)
BY Disowned DEF Harmless, Pending, Initialising, Resetting

\* A step that leaves the files the identity is about as they are.
LEMMA IdentityKept ==
    ASSUME Base, Identity, NEW p \in Procs, NEW r, Moved(p, r), Owns(r, state, infra, inst),
           infra' = infra, inst' = inst, state' = state, nextId' = nextId
    PROVE  Identity'
BY IdentityNext DEF Identity

\* The initialisation under way is the only command that has anything at stake.
LEMMA FreshAlone ==
    ASSUME Base, Identity, OneInitializer, NEW p \in Procs, Initialising(proc[p])
    PROVE  /\ Fresh(proc[p], state, infra, inst) /\ state.is = "none"
           /\ \A q \in Procs \ {p} : ~Pending(proc[q]) /\ ~Initialising(proc[q]) /\ ~Resetting(proc[q])
<1>1. Fresh(proc[p], state, infra, inst) BY DEF Identity, Owns
<1>2. state.is = "none" BY <1>1 DEF Fresh
<1>3. Initializes(p) BY ProcTyped DEF Initialising, Control
<1>4. ASSUME NEW q \in Procs \ {p}
      PROVE  ~Pending(proc[q]) /\ ~Initialising(proc[q]) /\ ~Resetting(proc[q])
  <2>1. ~Initializes(q) BY <1>3 DEF OneInitializer
  <2>2. proc[q].cmd # "init" /\ proc[q].pc # "backfill" BY <2>1, ProcTyped DEF Control
  <2>3. Owns(proc[q], state, infra, inst) BY DEF Identity
  <2> QED BY <1>2, <2>2, <2>3 DEF Owns, Pending, Initialising, Resetting
<1> QED BY <1>1, <1>2, <1>4

\* Two copies of the state that are still to be written are of one deployment.
LEMMA PendingAgree ==
    ASSUME Base, Identity, OneInitializer, NEW p \in Procs, NEW q \in Procs \ {p},
           Pending(proc[p]), Pending(proc[q])
    PROVE  state.is = "good" /\ proc[p].old.id = state.id /\ proc[q].old.id = state.id
<1>1. ~(proc[p].pc = "backfill" /\ proc[q].pc = "backfill")
  BY ProcTyped DEF OneInitializer, Control
<1>2. ~(proc[p].pc # "backfill" /\ proc[q].pc # "backfill")
  BY OthersOutside, InsideExclusive DEF Pending
<1>3. Owns(proc[p], state, infra, inst) /\ Owns(proc[q], state, infra, inst) BY DEF Identity
<1>4. state.is \in FileStates BY ProcTyped DEF Globals, StateType
<1> QED BY <1>1, <1>2, <1>3, <1>4 DEF Owns, FileStates

\* A quiet step keeps the files in agreement.
LEMMA Identity_Quiet ==
    ASSUME Base, Identity, NEW p \in Procs, Quiet(p) PROVE Identity'
<1>1. QuietEffect(p) BY QuietCases
<1>2. PICK r : Moved(p, r) /\ Harmless(r) BY <1>1 DEF QuietEffect
<1> QED BY <1>1, <1>2, HarmlessOwns, IdentityKept DEF QuietEffect

\* EnsureDeploymentDirReady keeps the files in agreement.
LEMMA Identity_EnsureReady ==
    ASSUME Base, Identity, NEW p \in Procs, EnsureDeploymentDirReady(p), Empty PROVE Identity'
<1>1. Kept(p, Idle) \/ Kept(p, Now(p, "lock")) BY EnsureCases
<1>2. Owns(Idle, state, infra, inst) BY IdleHarmless, HarmlessOwns
<1>3. Now(p, "lock").pc = "lock" BY NowFields
<1>4. Owns(Now(p, "lock"), state, infra, inst)
  BY <1>3 DEF Owns, Pending, Initialising, Resetting, Fresh, Empty, Initialized
<1> QED BY <1>1, <1>2, <1>4, EnsureCases, IdentityKept DEF Kept

\* MatchPresets keeps the files in agreement.
LEMMA Identity_MatchPresets ==
    ASSUME Base, Identity, NEW p \in Procs, MatchPresets(p) PROVE Identity'
<1>0. Globals /\ UNCHANGED <<infra, inst, state, nextId>> BY ProcTyped, MatchCases DEF files
<1>1. ASSUME NEW r, Kept(p, r), Harmless(r) PROVE Identity'
  BY <1>0, <1>1, HarmlessOwns, IdentityKept DEF Kept
<1>2. CASE Kept(p, Backfilling(p)) /\ StateReadable /\ Readable /\ state.ident = "blank"
  <2>1. Agrees(state, infra, inst) /\ infra.is = "full"
    BY <1>2 DEF Identity, StateReadable, Readable, ManifestReadable
  <2>2. /\ Backfilled(state).is = state.is /\ Backfilled(state).id = state.id
        /\ Backfilled(state).ident = infra.kind
    BY <1>0, <1>2, <2>1, BackfilledType DEF Globals
  <2>3. Agrees(Backfilled(state), infra, inst) BY <2>1, <2>2 DEF Agrees
  <2>4. Backfilling(p).pc = "backfill" /\ Backfilling(p).old = Backfilled(state) BY BackfillingFields
  <2>5. Owns(Backfilling(p), state, infra, inst)
    BY <1>2, <2>2, <2>3, <2>4 DEF Owns, Pending, Initialising, Resetting, StateReadable
  <2> QED BY <1>0, <1>2, <2>5, IdentityKept DEF Kept
<1> QED BY <1>1, <1>2, MatchCases

\* Acquire keeps the files in agreement.
LEMMA Identity_Acquire ==
    ASSUME Base, Identity, NEW p \in Procs, Acquire(p), proc[p].cmd = "init" PROVE Identity'
<1>1. proc[p].pc = "lock" /\ Moved(p, Now(p, "shared")) BY AcquireCases
<1>2. Fresh(proc[p], state, infra, inst) BY <1>1 DEF Identity, Owns, Initialising
<1>3. Now(p, "shared").pc = "shared" BY NowFields
<1>4. Owns(Now(p, "shared"), state, infra, inst)
  BY <1>1, <1>2, <1>3 DEF Owns, Pending, Initialising, Resetting, Fresh
<1> QED BY <1>1, <1>4, AcquireCases, IdentityKept DEF files

\* BackfillIdentity keeps the files in agreement.
LEMMA Identity_BackfillIdentity ==
    ASSUME Base, Identity, OneInitializer, NEW p \in Procs, BackfillIdentity(p) PROVE Identity'
<1>0. /\ proc[p].pc = "backfill" /\ UNCHANGED <<infra, inst, nextId>> /\ Pending(proc[p])
  BY BackfillCases DEF Pending
<1>1. PICK r : Moved(p, r) /\ Harmless(r) BY BackfillCases DEF Kept
<1>2. Agrees(proc[p].old, infra, inst) BY <1>0 DEF Identity, Owns
<1>3. CASE state' = state BY <1>0, <1>1, <1>3, HarmlessOwns, IdentityKept
<1>4. ASSUME state' = proc[p].old \/ state' = [state EXCEPT !.is = "torn"] PROVE Identity'
  <2>1. state'.is = "good" => state' = proc[p].old
    BY <1>4, ProcTyped DEF Globals, StateType
  <2>2. state'.is \in {"good", "torn"} BY <1>2, <1>4, ProcTyped DEF Agrees, Globals, StateType
  <2>3. ASSUME NEW q \in Procs \ {p} PROVE Owns(proc[q], state', infra', inst')
    <3>1. ~Initialising(proc[q]) /\ proc[q].pc # "backfill"
      BY <1>0, ProcTyped DEF OneInitializer, Control, Initialising
    <3>2. Owns(proc[q], state, infra, inst) BY DEF Identity
    <3>3. Pending(proc[q]) => proc[q].old.id = proc[p].old.id BY <1>0, PendingAgree
    <3> QED BY <1>0, <2>1, <2>2, <3>1, <3>2, <3>3 DEF Owns
  <2>4. Owns(r, state', infra', inst') BY <1>1, HarmlessOwns
  <2>5. state'.is = "good" => Agrees(state', infra', inst') BY <1>0, <1>2, <2>1
  <2> QED BY <1>0, <1>1, <2>3, <2>4, <2>5, IdentityNext DEF Identity
<1> QED BY <1>3, <1>4, BackfillCases

\* The steps of an initialisation, which is alone with the directory.
LEMMA IdentityFresh ==
    ASSUME Base, Identity, OneInitializer, NEW p \in Procs, Initialising(proc[p]),
           NEW r, Moved(p, r), nextId' # 0,
           state'.is = "good" => Agrees(state', infra', inst'), Owns(r, state', infra', inst')
    PROVE  Identity'
BY FreshAlone, Disowned, IdentityNext

\* Unpacking the presets keeps the files in agreement.
LEMMA Identity_Extract ==
    ASSUME Base, Identity, OneInitializer, NEW p \in Procs,
           ExtractShared(p) \/ ExtractInfra(p) \/ ExtractInst(p)
    PROVE  Identity'
<1>0. nextId \in Nat /\ nextId # 0 BY ProcTyped DEF Globals, Identity
<1>1. /\ proc[p].pc \in {"shared", "infra", "inst"} /\ proc[p].cmd = "init" /\ state' = state
  BY ProcTyped DEF ExtractShared, ExtractInfra, ExtractInst, At, Control
<1>2. Initialising(proc[p]) BY <1>1 DEF Initialising
<1>3. Fresh(proc[p], state, infra, inst) /\ state.is = "none" BY <1>2, FreshAlone
<1>f. Owns(Failed(p), state', infra', inst') BY FailedHarmless, HarmlessOwns
<1>4. CASE ExtractShared(p)
  <2>1. UNCHANGED <<infra, inst>> /\ nextId' # 0 /\ proc[p].pc = "shared" BY <1>0, <1>4 DEF ExtractShared, At
  <2>2. Owns(Extracting(p), state', infra', inst')
    BY <1>0, <1>1, <1>3, <2>1, ExtractingFields DEF Owns, Pending, Initialising, Resetting, Fresh
  <2> QED BY <1>1, <1>2, <1>3, <1>4, <1>f, <2>1, <2>2, ExtractSharedCases, IdentityFresh DEF Kept
<1>5. CASE ExtractInfra(p)
  <2>1. inst' = inst /\ nextId' = nextId /\ proc[p].pc = "infra" BY <1>5 DEF ExtractInfra, At
  <2>4. infra' = [NoInfra EXCEPT !.is = "full", !.kind = proc[p].kind]
          => Owns(Now(p, "inst"), state', infra', inst')
    <3> SUFFICES ASSUME infra' = [NoInfra EXCEPT !.is = "full", !.kind = proc[p].kind]
                 PROVE  Owns(Now(p, "inst"), state', infra', inst')
      OBVIOUS
    <3>1. infra'.is = "full" /\ infra'.kind = proc[p].kind /\ infra'.file = "none" /\ infra'.id = 0
      BY DEF NoInfra
    <3> QED BY <1>1, <1>3, <2>1, <3>1, NowFields DEF Owns, Pending, Initialising, Resetting, Fresh
  <2> QED BY <1>0, <1>1, <1>2, <1>3, <1>5, <1>f, <2>1, <2>4, ExtractInfraCases, IdentityFresh DEF Kept
<1>6. CASE ExtractInst(p)
  <2>1. infra' = infra /\ nextId' = nextId /\ proc[p].pc = "inst" BY <1>6 DEF ExtractInst, At
  <2>4. inst' = [NoInst EXCEPT !.is = "full"] => Owns(InitConfigures(p), state', infra', inst')
    <3> SUFFICES ASSUME inst' = [NoInst EXCEPT !.is = "full"]
                 PROVE  Owns(InitConfigures(p), state', infra', inst')
      OBVIOUS
    <3>1. inst'.is = "full" /\ inst'.file = "none" BY DEF NoInst
    <3> QED BY <1>1, <1>3, <2>1, <3>1, InitConfiguresFields DEF Owns, Pending, Initialising, Resetting, Fresh
  <2> QED BY <1>0, <1>1, <1>2, <1>3, <1>6, <1>f, <2>1, <2>4, ExtractInstCases, IdentityFresh DEF Kept
<1> QED BY <1>4, <1>5, <1>6

\* WriteState keeps the files in agreement.
LEMMA Identity_WriteState ==
    ASSUME Base, Identity, OneInitializer, NEW p \in Procs, WriteState(p) PROVE Identity'
<1>1. /\ proc[p].pc = "state" /\ proc[p].cmd = "init" /\ UNCHANGED <<infra, inst, nextId>>
  BY ProcTyped DEF WriteState, At, Control
<1>2. Initialising(proc[p]) BY <1>1 DEF Initialising
<1>3. Fresh(proc[p], state, infra, inst) BY <1>2, FreshAlone
<1>f. Owns(Failed(p), state', infra', inst') BY FailedHarmless, HarmlessOwns
<1>4. Owns(Now(p, "marker"), state', infra', inst') BY NowHarmless, HarmlessOwns
<1>5. state' = WriteStateFile(p) => Agrees(state', infra', inst')
  BY <1>1, <1>3, WriteStateType DEF Agrees, Fresh
<1>6. state' = TornState => state'.is # "good" BY TornType
<1> QED BY <1>1, <1>2, <1>f, <1>4, <1>5, <1>6, WriteStateCases, IdentityFresh DEF Kept, Identity

\* Filling in the preset's name, read from the preset, keeps the agreement.
LEMMA BackfilledAgrees ==
    ASSUME Globals, StateReadable, Readable, Agrees(state, infra, inst)
    PROVE  /\ Agrees(Backfilled(state), infra, inst) /\ Backfilled(state).is = "good"
           /\ Backfilled(state).id = state.id /\ Backfilled(state).wf = state.wf
           /\ Backfilled(state).ident = IF state.ident = "blank" THEN infra.kind ELSE state.ident
<1>1. infra.is = "full" /\ infra.kind \in Kinds BY DEF Globals, Readable, ManifestReadable
<1>2. /\ Backfilled(state).is = state.is /\ Backfilled(state).id = state.id
      /\ Backfilled(state).wf = state.wf
      /\ Backfilled(state).ident = IF state.ident = "blank" THEN infra.kind ELSE state.ident
  BY <1>1, BackfilledType DEF Globals
<1> QED BY <1>1, <1>2 DEF Agrees, StateReadable

\* A write of the state that only fills in what it lacks.
LEMMA IdentityBackfilled ==
    ASSUME Base, Identity, NEW p \in Procs, NEW r, Moved(p, r), nextId' = nextId,
           StateReadable, Readable, state' = Backfilled(state), infra' = infra, inst' = inst,
           Owns(r, state', infra', inst')
    PROVE  Identity'
<1>0. Globals /\ Agrees(state, infra, inst) BY ProcTyped DEF Identity, StateReadable
<1>1. Agrees(state', infra', inst') /\ state'.is = "good" /\ state'.id = state.id /\ state.is = "good"
  BY <1>0, BackfilledAgrees DEF StateReadable
<1>2. ASSUME NEW q \in Procs PROVE Owns(proc[q], state', infra', inst')
  <2>1. Owns(proc[q], state, infra, inst) BY DEF Identity
  <2> QED BY <2>1, <1>1 DEF Owns, Fresh
<1> QED BY <1>1, <1>2, IdentityNext DEF Identity

\* Configuring keeps the files in agreement.
LEMMA Identity_Configuring ==
    ASSUME Base, Identity, NEW p \in Procs, Configuring(p) PROVE Identity'
<1>0. Globals /\ UNCHANGED <<infra, inst, nextId>> /\ proc[p].cmd \in {"set", "reset"}
  BY ProcTyped, ConfiguringCases
<1>1. CASE Kept(p, Failed(p)) /\ state' = state
  BY <1>0, <1>1, FailedHarmless, HarmlessOwns, IdentityKept DEF Kept
<1>2. CASE /\ Kept(p, Configures(p, Given(p))) /\ state' = Backfilled(state)
           /\ StateReadable /\ PermitsConfigure /\ Readable
  <2>1. Agrees(state, infra, inst) /\ state.is = "good" BY <1>2 DEF Identity, StateReadable
  <2>2. infra.is = "full" /\ inst.is = "full" /\ infra.file # "none" /\ inst.file # "none"
    BY <1>2, <2>1 DEF Agrees, Readable, ManifestReadable
  <2>3. state'.is = "good" BY <1>0, <1>2, <2>1, BackfilledAgrees
  <2>4. Configures(p, Given(p)).pc = "configure" /\ Configures(p, Given(p)).cmd = proc[p].cmd
    BY ConfiguresFields
  <2>5. Owns(Configures(p, Given(p)), state', infra', inst')
    BY <1>0, <2>2, <2>3, <2>4 DEF Owns, Pending, Initialising, Resetting
  <2> QED BY <1>0, <1>2, <2>5, IdentityBackfilled DEF Kept
<1> QED BY <1>1, <1>2, ConfiguringCases

\* PrintConfiguration keeps the files in agreement.
LEMMA Identity_PrintConfiguration ==
    ASSUME Base, Identity, NEW p \in Procs, PrintConfiguration(p) PROVE Identity'
<1>0. UNCHANGED <<infra, inst, nextId>> BY PrintCases
<1>1. CASE Kept(p, Failed(p)) /\ state' = state
  BY <1>0, <1>1, FailedHarmless, HarmlessOwns, IdentityKept DEF Kept
<1>2. CASE Kept(p, Now(p, "unlock")) /\ state' = Backfilled(state) /\ StateReadable /\ Readable
  <2>1. Owns(Now(p, "unlock"), state', infra', inst') BY NowHarmless, HarmlessOwns
  <2> QED BY <1>0, <1>2, <2>1, IdentityBackfilled DEF Kept
<1> QED BY <1>1, <1>2, PrintCases

\* A write of the two files by config set or config reset.
LEMMA IdentityReset ==
    ASSUME Base, Identity, NEW p \in Procs, NEW r, Moved(p, r), nextId' = nextId, state' = state,
           Resetting(proc[p]), Owns(r, state', infra', inst'),
           infra'.is = infra.is, infra'.kind = infra.kind, infra'.file # "none",
           infra'.id \in {infra.id, state.id},
           inst'.is = inst.is, inst'.file # "none",
           inst'.file = "good" => inst'.id = state.id \/ inst' = inst
    PROVE  Identity'
<1>0. state.is \in FileStates BY ProcTyped DEF Globals, StateType
<1>1. state.is # "none" BY DEF Identity, Owns
<1>2. ASSUME NEW q \in Procs PROVE Owns(proc[q], state', infra', inst')
  <2>1. Owns(proc[q], state, infra, inst) BY DEF Identity
  <2>2. ~Initialising(proc[q]) BY <1>1, <2>1 DEF Owns, Fresh
  <2>3. Resetting(proc[q]) => Owns(proc[q], state', infra', inst')
    BY <2>1 DEF Owns, Pending, Initialising, Resetting
  <2>4. ASSUME Pending(proc[q]) PROVE Owns(proc[q], state', infra', inst')
    <3>1. proc[q].pc = "backfill"
      <4>1. Exclusive(proc[p]) BY InsideExclusive DEF Resetting
      <4>2. proc[p].pc \notin {"operate", "finish"} BY DEF Resetting
      <4> QED BY <2>4, <4>1, <4>2, OthersOutside DEF Pending
    <3>2. state.is = "good" BY <1>0, <1>1, <2>1, <2>4, <3>1 DEF Owns, FileStates
    <3>3. Agrees(proc[q].old, infra', inst') BY <2>1, <2>4, <3>2 DEF Owns, Agrees
    <3> QED BY <2>1, <2>2, <2>4, <3>1, <3>2, <3>3 DEF Owns, Resetting
  <2> QED BY <2>2, <2>3, <2>4, Disowned
<1>3. state'.is = "good" => Agrees(state', infra', inst')
  BY DEF Identity, Agrees
<1> QED BY <1>2, <1>3, IdentityNext DEF Identity

\* ConfigureBackend keeps the files in agreement.
LEMMA Identity_ConfigureBackend ==
    ASSUME Base, Identity, OneInitializer, NEW p \in Procs, ConfigureBackend(p) PROVE Identity'
<1>0. /\ proc[p].pc = "configure" /\ UNCHANGED <<inst, state, nextId>> /\ Globals
      /\ proc[p].cmd \in {"init", "set", "reset"}
  BY ProcTyped, ConfigureCases DEF Control
<1>f. Owns(Failed(p), state', infra', inst') BY FailedHarmless, HarmlessOwns
<1>n. nextId' # 0 BY <1>0 DEF Identity
<1>1. \/ /\ Moved(p, Now(p, "variables"))
         /\ infra'.is = infra.is /\ infra'.kind = infra.kind /\ infra'.file = "good"
         /\ infra'.id = IF infra.kind = "cloud" THEN MetadataId(p) ELSE infra.id
      \/ /\ Moved(p, Failed(p))
         /\ infra' = infra \/ infra' = [infra EXCEPT !.file = "torn"]
  BY ConfigureCases, ConfiguredFields DEF Kept
<1>2. Now(p, "variables").pc = "variables" /\ Now(p, "variables").cmd = proc[p].cmd
      /\ Now(p, "variables").id = proc[p].id /\ Now(p, "variables").kind = proc[p].kind
  BY NowFields
<1>3. CASE proc[p].cmd = "init"
  <2>1. Initialising(proc[p]) BY <1>0, <1>3 DEF Initialising
  <2>2. Fresh(proc[p], state, infra, inst) /\ state'.is # "good" BY <1>0, <2>1, FreshAlone
  <2>3. CASE /\ Moved(p, Now(p, "variables"))
             /\ infra'.is = infra.is /\ infra'.kind = infra.kind /\ infra'.file = "good"
             /\ infra'.id = IF infra.kind = "cloud" THEN MetadataId(p) ELSE infra.id
    <3>1. Owns(Now(p, "variables"), state', infra', inst')
      BY <1>0, <1>2, <1>3, <2>2, <2>3
         DEF Owns, Pending, Initialising, Resetting, Fresh, MetadataId
    <3> QED BY <1>n, <2>1, <2>2, <2>3, <3>1, IdentityFresh
  <2> QED BY <1>1, <1>f, <1>n, <2>1, <2>2, <2>3, IdentityFresh
<1>4. CASE proc[p].cmd \in {"set", "reset"}
  <2>1. Resetting(proc[p]) BY <1>0, <1>4 DEF Resetting
  <2>2. infra.is = "full" /\ inst.is = "full" /\ infra.file # "none" /\ inst.file # "none" /\ state.is # "none"
    BY <2>1 DEF Identity, Owns
  <2>3. CASE /\ Moved(p, Now(p, "variables"))
             /\ infra'.is = infra.is /\ infra'.kind = infra.kind /\ infra'.file = "good"
             /\ infra'.id = IF infra.kind = "cloud" THEN MetadataId(p) ELSE infra.id
    <3>1. Owns(Now(p, "variables"), state', infra', inst')
      BY <1>0, <1>2, <1>4, <2>2, <2>3 DEF Owns, Pending, Initialising, Resetting
    <3>2. infra'.id \in {infra.id, state.id} BY <1>4, <2>3 DEF MetadataId
    <3> QED BY <1>0, <2>1, <2>2, <2>3, <3>1, <3>2, IdentityReset
  <2>4. CASE Moved(p, Failed(p)) /\ (infra' = infra \/ infra' = [infra EXCEPT !.file = "torn"])
    <3>1. infra'.is = infra.is /\ infra'.kind = infra.kind /\ infra'.file # "none" /\ infra'.id = infra.id
      BY <1>0, <2>2, <2>4, TornInfra
    <3> QED BY <1>0, <1>f, <2>1, <2>2, <2>4, <3>1, IdentityReset
  <2> QED BY <1>1, <2>3, <2>4
<1> QED BY <1>0, <1>3, <1>4

\* WriteInstallationVariables keeps the files in agreement.
LEMMA Identity_WriteInstallationVariables ==
    ASSUME Base, Identity, OneInitializer, NEW p \in Procs, WriteInstallationVariables(p)
    PROVE  Identity'
<1>0. /\ proc[p].pc = "variables" /\ UNCHANGED <<infra, state, nextId>>
      /\ proc[p].cmd \in {"init", "set", "reset"}
  BY ProcTyped, VariablesCases DEF Control
<1>f. Owns(Failed(p), state', infra', inst') BY FailedHarmless, HarmlessOwns
<1>n. nextId' # 0 BY <1>0 DEF Identity
<1>1. \/ /\ Moved(p, Now(p, AfterVars(p))) /\ inst'.is = inst.is /\ inst'.file = "good"
         /\ inst'.id = MetadataId(p)
      \/ /\ Moved(p, Failed(p))
         /\ inst' = inst \/ (inst'.is = inst.is /\ inst'.file = "torn")
  BY VariablesCases, VarsTypes DEF Kept
<1>3. CASE proc[p].cmd = "init"
  <2>1. Initialising(proc[p]) BY <1>0, <1>3 DEF Initialising
  <2>2. Fresh(proc[p], state, infra, inst) /\ state'.is # "good" BY <1>0, <2>1, FreshAlone
  <2>3. CASE /\ Moved(p, Now(p, AfterVars(p))) /\ inst'.is = inst.is /\ inst'.file = "good"
             /\ inst'.id = MetadataId(p)
    <3>0. AfterVars(p) = "state" /\ MetadataId(p) = proc[p].id BY <1>3 DEF AfterVars, MetadataId
    <3>1. Now(p, "state").pc = "state" /\ Now(p, "state").cmd = proc[p].cmd
          /\ Now(p, "state").id = proc[p].id /\ Now(p, "state").kind = proc[p].kind
      BY NowFields
    <3>2. Owns(Now(p, "state"), state', infra', inst')
      BY <1>0, <1>3, <2>2, <2>3, <3>0, <3>1 DEF Owns, Pending, Initialising, Resetting, Fresh
    <3> QED BY <1>n, <2>1, <2>2, <2>3, <3>0, <3>2, IdentityFresh
  <2> QED BY <1>1, <1>f, <1>n, <2>1, <2>2, <2>3, IdentityFresh
<1>4. CASE proc[p].cmd \in {"set", "reset"}
  <2>1. Resetting(proc[p]) BY <1>0, <1>4 DEF Resetting
  <2>2. infra.is = "full" /\ inst.is = "full" /\ infra.file # "none" /\ inst.file # "none" /\ state.is # "none"
    BY <2>1 DEF Identity, Owns
  <2>3. CASE /\ Moved(p, Now(p, AfterVars(p))) /\ inst'.is = inst.is /\ inst'.file = "good"
             /\ inst'.id = MetadataId(p)
    <3>0. AfterVars(p) = "unlock" /\ MetadataId(p) = state.id BY <1>4 DEF AfterVars, MetadataId
    <3>1. Owns(Now(p, "unlock"), state', infra', inst') BY NowHarmless, HarmlessOwns
    <3> QED BY <1>0, <2>1, <2>2, <2>3, <3>0, <3>1, IdentityReset
  <2>4. CASE Moved(p, Failed(p)) /\ (inst' = inst \/ (inst'.is = inst.is /\ inst'.file = "torn"))
    BY <1>0, <1>f, <2>1, <2>2, <2>4, IdentityReset
  <2> QED BY <1>1, <2>3, <2>4
<1> QED BY <1>0, <1>3, <1>4

\* WriteMarker keeps the files in agreement.
LEMMA Identity_WriteMarker ==
    ASSUME Base, Identity, NEW p \in Procs, WriteMarker(p) PROVE Identity'
<1>0. UNCHANGED <<infra, inst, state, nextId>> BY DEF WriteMarker
<1>1. \E r : Moved(p, r) /\ Harmless(r)
  BY WriteMarkerCases, FailedHarmless, NowHarmless DEF Kept
<1> QED BY <1>0, <1>1, HarmlessOwns, IdentityKept

\* While files are deleted nobody relies on them.
LEMMA Identity_RemoveEntry ==
    ASSUME Base, Identity, NEW p \in Procs, RemoveEntry(p) PROVE Identity'
<1> DEFINE r == Now(p, Follows(proc[p].pc))
<1>1. proc[p].pc \in Deleting /\ Moved(p, r) /\ nextId' = nextId
  BY RemoveCases DEF Deleting, Kept
<1>2. r.pc \in {"delstate", "delrest", "delinfra", "delinst", "unlock"}
  BY <1>1, NowFields DEF Follows, Deleting
<1> HIDE DEF r
<1>3. Owns(r, state', infra', inst')
  BY <1>2 DEF Owns, Pending, Initialising, Resetting
<1>4. /\ infra' = infra \/ infra'.is = "none"
      /\ inst' = inst \/ inst'.is = "none"
      /\ state' = state \/ state'.is = "none"
  BY RemoveCases DEF NoInfra, NoInst, NoState
<1>5. ASSUME NEW q \in Procs \ {p} PROVE Owns(proc[q], state', infra', inst')
  <2>1. Exclusive(proc[p]) BY <1>1, InsideExclusive
  <2>2. proc[q].pc \notin {"shared", "infra", "inst", "configure", "variables", "state", "operate", "finish"}
    BY <2>1, OthersOutside
  <2>3. Owns(proc[q], state, infra, inst) BY DEF Identity
  <2> QED BY <1>4, <2>2, <2>3 DEF Owns, Pending, Initialising, Resetting, Fresh, Agrees
<1>6. state'.is = "good" => Agrees(state', infra', inst')
  BY <1>4 DEF Identity, Agrees
<1> QED BY <1>1, <1>3, <1>5, <1>6, IdentityNext DEF Identity

\* Prepare keeps the files in agreement.
LEMMA Identity_Prepare ==
    ASSUME Base, Identity, NEW p \in Procs, Prepare(p) PROVE Identity'
<1>0. UNCHANGED <<inst, state, nextId>> /\ proc[p].pc = "prepare" BY PrepareCases
<1>1. CASE Kept(p, Failed(p)) /\ infra' = infra
  BY <1>0, <1>1, FailedHarmless, HarmlessOwns, IdentityKept DEF Kept
<1>2. CASE /\ StateReadable /\ Kept(p, Preparing(p))
           /\ \/ infra' = infra
              \/ infra'.is = infra.is /\ infra'.kind = infra.kind /\ infra'.file = "good"
                   /\ infra'.id = infra.id
  <2>1. state.is = "good" /\ Agrees(state, infra, inst) BY <1>2 DEF StateReadable, Identity
  <2>2. Agrees(state', infra', inst') /\ state'.is = "good" BY <1>0, <1>2, <2>1 DEF Agrees
  <2>3. Preparing(p).pc = "operate" /\ Preparing(p).old = state BY PreparingFields
  <2>4. Owns(Preparing(p), state', infra', inst')
    BY <1>0, <2>2, <2>3 DEF Owns, Pending, Initialising, Resetting
  <2>5. ASSUME NEW q \in Procs PROVE Owns(proc[q], state', infra', inst')
    <3>1. Owns(proc[q], state, infra, inst) BY DEF Identity
    <3> QED BY <1>0, <1>2, <2>1, <3>1 DEF Owns, Agrees, Fresh
  <2> QED BY <1>0, <1>2, <2>2, <2>4, <2>5, IdentityNext DEF Kept, Identity
<1> QED BY <1>1, <1>2, PrepareCases, NormalizedFields DEF Normalizes

\* A write of the state from the copy a lifecycle command has read.
LEMMA IdentityOperated ==
    ASSUME Base, Identity, OneInitializer, NEW p \in Procs, proc[p].pc \in {"operate", "finish"},
           NEW r, Moved(p, r), UNCHANGED <<infra, inst, nextId>>,
           state'.is = proc[p].old.is, state'.id = proc[p].old.id, state'.ident = proc[p].old.ident,
           r.pc = "finish" => r.old = proc[p].old, r.pc \in {"finish", "unlock"}
    PROVE  Identity'
<1>1. Agrees(proc[p].old, infra, inst) /\ Pending(proc[p]) /\ state.is # "none"
  BY DEF Identity, Owns, Pending
<1>2. Agrees(state', infra', inst') /\ state'.is = "good" BY <1>1 DEF Agrees
<1>3. Owns(r, state', infra', inst')
  BY <1>1, <1>2 DEF Owns, Pending, Initialising, Resetting
<1>4. ASSUME NEW q \in Procs \ {p} PROVE Owns(proc[q], state', infra', inst')
  <2>1. Owns(proc[q], state, infra, inst) BY DEF Identity
  <2>2. ~Initialising(proc[q]) BY <1>1, <2>1 DEF Owns, Fresh
  <2>3. Pending(proc[q]) => proc[q].old.id = proc[p].old.id BY <1>1, PendingAgree
  <2> QED BY <1>2, <2>1, <2>2, <2>3 DEF Owns
<1> QED BY <1>2, <1>3, <1>4, IdentityNext DEF Identity

\* Operate keeps the files in agreement.
LEMMA Identity_Operate ==
    ASSUME Base, Identity, OneInitializer, NEW p \in Procs, Operate(p) PROVE Identity'
BY OperateCases, NowFields, IdentityOperated DEF Kept

\* Finish keeps the files in agreement.
LEMMA Identity_Finish ==
    ASSUME Base, Identity, OneInitializer, NEW p \in Procs, Finish(p) PROVE Identity'
<1>1. proc[p].pc = "finish" /\ UNCHANGED <<infra, inst, nextId>> BY FinishCases
<1>2. PICK wf : state' = [proc[p].old EXCEPT !.wf = wf] BY FinishCases
<1>3. /\ state'.is = proc[p].old.is /\ state'.id = proc[p].old.id
      /\ state'.ident = proc[p].old.ident
  BY <1>2, ProcTyped DEF ProcType, StateType
<1>4. Now(p, "unlock").pc = "unlock" /\ Failed(p).pc = "unlock" BY NowFields, FailedHarmless
<1>5. \E r : Moved(p, r) /\ r.pc = "unlock" BY <1>4, FinishCases DEF Kept
<1> QED BY <1>1, <1>3, <1>5, IdentityOperated

\* Every step keeps the files in agreement.
LEMMA IdentityStep == Base /\ OneInitializer /\ Identity /\ [Next]_vars => Identity'
<1> SUFFICES ASSUME Base, OneInitializer, Identity, [Next]_vars PROVE Identity' OBVIOUS
<1>1. CASE UNCHANGED vars BY <1>1 DEF vars, files, Identity
<1>2. ASSUME NEW p \in Procs, Quiet(p) PROVE Identity' BY <1>2, Identity_Quiet
<1>3. ASSUME NEW p \in Procs, Step(p) PROVE Identity'
  BY <1>3, <1>2, Identity_EnsureReady, Identity_MatchPresets, Identity_Acquire,
     Identity_BackfillIdentity, Identity_Extract, Identity_WriteState, Identity_WriteMarker,
     Identity_Configuring, Identity_PrintConfiguration, Identity_ConfigureBackend,
     Identity_WriteInstallationVariables, Identity_RemoveEntry, Identity_Prepare, Identity_Operate,
     Identity_Finish DEF Step, Quiet, Configuring
<1>4. ASSUME NEW p \in Procs, Unlock(p) PROVE Identity' BY <1>4 DEF Unlock, files, Identity
<1>5. ASSUME NEW p \in Procs, NEW c \in Commands[p], Begin(p, c.cmd, c.kind, c.raw) PROVE Identity'
  BY <1>5, <1>2 DEF Quiet
<1>6. ASSUME NEW p \in Procs, Kill(p) PROVE Identity' BY <1>6, <1>2 DEF Quiet
<1> QED BY <1>1, <1>3, <1>4, <1>5, <1>6 DEF Next

\* The state file, the infrastructure and the installation of a directory are of one
\* deployment, whatever fails, as long as one launcher initialises the directory: init
\* looks at it before it has the lock.
THEOREM DirectoryFilesAgree == ASSUME OneInitializer PROVE Spec => []FilesAgree
<1>1. Init => Base /\ Identity BY BaseInit, IdentityInit
<1>2. Base /\ Identity /\ [Next]_vars => (Base /\ Identity)' BY BaseStep, IdentityStep
<1>3. Base /\ Identity => FilesAgree BY DEF Identity, FilesAgree, Agrees
<1> QED BY <1>1, <1>2, <1>3, PTL DEF Spec

-----------------------------------------------------------------------------
(* Values that were accepted *)

\* A configuration has the value last accepted for an option.
Holds(c, conf, o) ==
    IF o = "ports" THEN \A s \in Services : c.ports[s] > 0 => conf.ports[s] = c.ports[s]
    ELSE c[o] \in {"any", conf[o]}

\* The command gives the option a value.
Gives(r, o) == r.cmd = "init" \/ o \in r.raw.names

\* What is read from the two files.
StoredOf(f) == IF f.file = "good" \/ f.kind # "cloud" THEN f.conf ELSE RawDefaults
LevelOf(i) == IF i.file = "good" THEN i.level ELSE "l0"

\* The values a command has computed are those it gives and those that hold.
Computes(r, f, c) ==
    /\ r.pc = "configure" => \A o \in InfraOptions(f.kind) :
          IF Gives(r, o) THEN r.conf[o] = r.raw[o] ELSE Holds(c, r.conf, o)
    /\ r.pc \in {"configure", "variables"} /\ ~Gives(r, "level") => c.level \in {"any", r.level}

FilesHold(f, i, c) ==
    /\ f.is = "full" /\ f.file # "none" => \A o \in InfraOptions(f.kind) : Holds(c, StoredOf(f), o)
    /\ i.is = "full" /\ i.file # "none" => c.level \in {"any", LevelOf(i)}

Values ==
    /\ FilesHold(infra, inst, chosen)
    /\ \A p \in Procs : Computes(proc[p], infra, chosen)

\* What is read of the two files, from the files alone.
LEMMA StoredIs == ASSUME Globals PROVE StoredInfra = StoredOf(infra) /\ StoredLevel = LevelOf(inst)
<1>1. infra.conf \in Conf /\ DOMAIN infra.conf = ConfOptions /\ DOMAIN RawDefaults = ConfOptions
  BY ConfIsRaw, DefaultsType DEF Globals, InfraType
<1>2. infra.conf = [o \in ConfOptions |-> infra.conf[o]] BY <1>1 DEF Conf, ConfOptions
<1>3. RawDefaults = [o \in ConfOptions |-> RawDefaults[o]] BY <1>1, DefaultsType DEF Conf, ConfOptions
<1>4. StoredLevel = LevelOf(inst) BY DEF StoredLevel, LevelOf
<1>5. CASE infra.kind # "cloud"
  BY <1>4, <1>5 DEF StoredInfra, StoredOf, LocalConfiguration
<1>6. CASE infra.kind = "cloud" /\ infra.file = "good"
  BY <1>1, <1>2, <1>4, <1>6 DEF StoredInfra, StoredOf, TofuConfiguration, Loaded
<1>7. CASE infra.kind = "cloud" /\ infra.file # "good"
  BY <1>1, <1>3, <1>4, <1>7 DEF StoredInfra, StoredOf, TofuConfiguration, Loaded
<1> QED BY <1>5, <1>6, <1>7

\* The options each backend has.
LEMMA InfraOptionsAre ==
    ASSUME NEW kind \in Kinds \cup {"cloud"}
    PROVE  /\ InfraOptions(kind) \subseteq ConfOptions /\ "level" \notin InfraOptions(kind)
           /\ "size" \in InfraOptions(kind) => kind = "cloud"
           /\ "engine" \in InfraOptions(kind) => kind = "host"
           /\ "memory" \in InfraOptions(kind) => kind = "vm"
           /\ "ports" \in InfraOptions(kind) => kind # "cloud"
BY KindsKnown DEF InfraOptions, ConfOptions

\* Nothing is asked of a value that has been forgotten.
LEMMA AnythingHolds ==
    ASSUME NEW c, NEW conf, NEW o \in ConfOptions,
           o = "ports" => c.ports = AutoPorts, o # "ports" => c[o] = "any"
    PROVE  Holds(c, conf, o)
BY DEF Holds, AutoPorts, Unset

\* No value is asked for of options nobody has chosen.
LEMMA AnythingIs ==
    /\ \A o \in {"size", "engine", "memory", "level"} : Anything[o] = "any"
    /\ Anything.ports = AutoPorts
BY DEF Anything

\* The stored values are those accepted initially.
LEMMA ValuesInit == Init => Values
<1> SUFFICES ASSUME Init PROVE Values OBVIOUS
<1>0. Globals BY BaseInit, GlobalsHold
<1>1. \A p \in Procs : proc[p] = Idle BY DEF Init
<1>2. chosen = Anything BY DEF Init
<1>3. \A p \in Procs : Computes(proc[p], infra, chosen) BY <1>1, IdleFields DEF Computes
<1>4. chosen.level = "any" BY <1>2, AnythingIs
<1>5. ASSUME NEW o \in ConfOptions PROVE Holds(chosen, StoredOf(infra), o)
  BY <1>2, AnythingIs, AnythingHolds DEF ConfOptions
<1>6. infra.kind \in Kinds \cup {"cloud"} BY <1>0 DEF Globals, InfraType
<1> QED BY <1>3, <1>4, <1>5, <1>6, InfraOptionsAre DEF Values, FilesHold

\* A step that writes neither file and computes no values.
LEMMA ValuesSame ==
    ASSUME Base, Values, NEW p \in Procs, NEW r, Moved(p, r), r.pc \notin {"configure", "variables"},
           UNCHANGED <<infra, inst, chosen>>
    PROVE  Values'
<1>1. proc'[p] = r /\ \A q \in Procs \ {p} : proc'[q] = proc[q] BY MovedBase
<1>2. \A q \in Procs : Computes(proc'[q], infra', chosen') BY <1>1 DEF Values, Computes
<1>3. FilesHold(infra', inst', chosen') BY DEF Values
<1> QED BY <1>2, <1>3 DEF Values

\* The values under a process that has the lock: nobody else has computed any.
LEMMA ValuesNext ==
    ASSUME Base, NEW p \in Procs, Exclusive(proc[p]), NEW r, Moved(p, r),
           FilesHold(infra', inst', chosen'), Computes(r, infra', chosen')
    PROVE  Values'
<1>1. proc'[p] = r /\ \A q \in Procs \ {p} : proc'[q] = proc[q] BY MovedBase
<1>2. \A q \in Procs \ {p} : proc[q].pc \notin {"configure", "variables"} BY OthersOutside
<1>3. \A q \in Procs : Computes(proc'[q], infra', chosen') BY <1>1, <1>2 DEF Computes
<1> QED BY <1>3 DEF Values

\* A process of which nothing is to be said has computed no values.
LEMMA HarmlessComputes ==
    ASSUME NEW r, Harmless(r) PROVE r.pc \notin {"configure", "variables"}
BY DEF Harmless

\* Steps that write neither file keep the values.
LEMMA Values_Still ==
    ASSUME Base, Values, NEW p \in Procs,
           \/ Quiet(p) \/ (EnsureDeploymentDirReady(p) /\ Empty) \/ MatchPresets(p)
           \/ Acquire(p) /\ proc[p].cmd = "init"
           \/ BackfillIdentity(p) \/ ExtractShared(p) \/ WriteState(p) \/ WriteMarker(p)
           \/ PrintConfiguration(p) \/ Operate(p) \/ Finish(p)
    PROVE  Values'
<1> DEFINE Still == /\ \E r : Moved(p, r) /\ r.pc \notin {"configure", "variables"}
                    /\ UNCHANGED <<infra, inst, chosen>>
<1>f. Failed(p).pc = "unlock" /\ Idle.pc = "idle" BY FailedHarmless, IdleHarmless
<1>n. \A pc : Now(p, pc).pc = pc BY NowFields
<1>12. Still
  <2>1. CASE Quiet(p) BY <2>1, QuietCases, HarmlessComputes DEF QuietEffect
  <2>2. CASE EnsureDeploymentDirReady(p) BY <2>2, <1>f, <1>n, EnsureCases DEF Kept
  <2>3. CASE MatchPresets(p) BY <2>3, MatchCases, HarmlessComputes, BackfillingFields DEF Kept, files
  <2>4. CASE Acquire(p) /\ proc[p].cmd = "init"
    BY <2>4, <1>n, AcquireCases DEF files
  <2>5. CASE BackfillIdentity(p) BY <2>5, BackfillCases, HarmlessComputes DEF Kept
  <2>6. CASE ExtractShared(p)
    BY <2>6, <1>f, ExtractSharedCases, ExtractingFields DEF Kept, ExtractShared
  <2>7. CASE WriteState(p) BY <2>7, <1>f, <1>n, WriteStateCases DEF Kept, WriteState
  <2>8. CASE WriteMarker(p) BY <2>8, <1>f, <1>n, WriteMarkerCases DEF Kept, WriteMarker
  <2>9. CASE PrintConfiguration(p) BY <2>9, <1>f, <1>n, PrintCases DEF Kept
  <2>10. CASE Operate(p) BY <2>10, <1>n, OperateCases DEF Kept
  <2>11. CASE Finish(p) BY <2>11, <1>f, <1>n, FinishCases DEF Kept
  <2> QED BY <2>1, <2>2, <2>3, <2>4, <2>5, <2>6, <2>7, <2>8, <2>9, <2>10, <2>11
<1> QED BY <1>12, ValuesSame

\* ExtractInfra keeps the values those accepted last.
LEMMA Values_ExtractInfra ==
    ASSUME Base, Values, NEW p \in Procs, ExtractInfra(p) PROVE Values'
<1>1. Exclusive(proc[p]) /\ inst' = inst /\ chosen' = chosen
  BY InsideExclusive DEF ExtractInfra, At
<1>2. infra'.file = "none" BY ExtractInfraCases DEF NoInfra
<1>p. Now(p, "inst").pc = "inst" /\ Failed(p).pc = "unlock" BY NowFields, FailedHarmless
<1>3. \E r : Moved(p, r) /\ r.pc \notin {"configure", "variables"}
  BY <1>p, ExtractInfraCases DEF Kept
<1>4. FilesHold(infra', inst', chosen') BY <1>1, <1>2 DEF FilesHold, Values
<1>5. ASSUME NEW r, r.pc \notin {"configure", "variables"} PROVE Computes(r, infra', chosen')
  BY <1>5 DEF Computes
<1> QED BY <1>1, <1>3, <1>4, <1>5, ValuesNext

\* An option that was not named has its default.
LEMMA Unnamed ==
    ASSUME Base, NEW p \in Procs, NEW o \in ConfOptions, o \notin proc[p].raw.names
    PROVE  proc[p].raw[o] = RawDefaults[o]
<1>1. o \in Options \ proc[p].raw.names BY DEF Options, ConfOptions
<1>2. proc[p].raw[o] = NoRaw[o] BY <1>1, ProcTyped DEF Control
<1>3. NoRaw[o] = RawDefaults[o] BY DEF NoRaw, RawDefaults, ConfOptions
<1> QED BY <1>2, <1>3

\* ExtractInst keeps the values those accepted last.
LEMMA Values_ExtractInst ==
    ASSUME Base, Values, NEW p \in Procs, ExtractInst(p) PROVE Values'
<1>0. proc[p] \in ProcType /\ infra.kind \in Kinds \cup {"cloud"} /\ proc[p].cmd = "init"
  BY ProcTyped DEF Globals, InfraType, ExtractInst, At, Control
<1>1. Exclusive(proc[p]) /\ infra' = infra /\ chosen' = chosen
  BY InsideExclusive DEF ExtractInst, At
<1>2. inst'.file = "none" BY ExtractInstCases DEF NoInst
<1>3. FilesHold(infra', inst', chosen') BY <1>1, <1>2 DEF FilesHold, Values
<1>4. Computes(Failed(p), infra', chosen') BY FailedHarmless DEF Computes
<1>5. Computes(InitConfigures(p), infra', chosen')
  <2> DEFINE conf == PatchConfigurationValues(RawDefaults, proc[p].raw)
  <2>1. \A o \in ConfOptions : conf[o] = IF o \in proc[p].raw.names THEN proc[p].raw[o] ELSE RawDefaults[o]
    BY <1>0, PatchType, DefaultsType, ConfIsRaw DEF ProcType
  <2>2. \A o \in ConfOptions : conf[o] = proc[p].raw[o] BY <2>1, Unnamed
  <2>3. /\ InitConfigures(p).conf = conf /\ InitConfigures(p).cmd = "init"
        /\ InitConfigures(p).raw = proc[p].raw
    BY <1>0, InitConfiguresFields
  <2> HIDE DEF conf
  <2> QED BY <1>0, <1>1, <2>2, <2>3, InfraOptionsAre DEF Computes, Gives
<1> QED BY <1>1, <1>3, <1>4, <1>5, ExtractInstCases, ValuesNext DEF Kept

\* Configuring keeps the values those accepted last.
LEMMA Values_Configuring ==
    ASSUME Base, Identity, Values, NEW p \in Procs, Configuring(p) PROVE Values'
<1>0. /\ proc[p].pc = "read" /\ UNCHANGED <<infra, inst, chosen>> /\ Globals /\ proc[p] \in ProcType
      /\ infra.kind \in Kinds \cup {"cloud"} /\ proc[p].cmd \in {"set", "reset"}
  BY ConfiguringCases, ProcTyped DEF Globals, InfraType
<1>1. Exclusive(proc[p]) BY <1>0, InsideExclusive
<1>3. FilesHold(infra', inst', chosen') BY <1>0 DEF Values
<1>4. Computes(Failed(p), infra', chosen') BY FailedHarmless DEF Computes
<1>5. ASSUME StateReadable, Readable PROVE Computes(Configures(p, Given(p)), infra', chosen')
  <2> DEFINE raw == Given(p)
             conf == PatchConfigurationValues(StoredInfra, raw)
  <2>0. raw \in Raw BY <1>0, DefaultsRaw DEF Given, ProcType
  <2>1. StoredInfra \in RawConf BY <1>0, StoredTypes, ConfIsRaw
  <2> HIDE DEF raw
  <2>2. \A o \in ConfOptions : conf[o] = IF o \in raw.names THEN raw[o] ELSE StoredInfra[o]
    BY <2>0, <2>1, PatchType
  <2>a. Agrees(state, infra, inst) BY <1>5 DEF Identity, StateReadable
  <2>3. infra.is = "full" /\ inst.is = "full" /\ infra.file # "none" /\ inst.file # "none"
    BY <1>5, <2>a DEF Agrees, Readable, ManifestReadable
  <2>4. /\ \A o \in InfraOptions(infra.kind) : Holds(chosen, StoredInfra, o)
        /\ chosen.level \in {"any", StoredLevel}
    BY <1>0, <2>3, StoredIs DEF Values, FilesHold
  <2>5. /\ Configures(p, raw).conf = conf /\ Configures(p, raw).raw = raw
        /\ Configures(p, raw).cmd = proc[p].cmd
        /\ Configures(p, raw).level = (IF "level" \in raw.names THEN raw.level ELSE StoredLevel)
    BY ConfiguresFields
  <2> HIDE DEF conf
  <2>6. ASSUME NEW o \in InfraOptions(infra.kind), o \notin raw.names PROVE Holds(chosen, conf, o)
    <3>1. o \in ConfOptions BY <1>0, InfraOptionsAre
    <3>2. conf[o] = StoredInfra[o] BY <2>2, <2>6, <3>1
    <3> QED BY <2>4, <3>2 DEF Holds
  <2>7. \A o \in InfraOptions(infra.kind) : o \in raw.names => conf[o] = raw[o]
    BY <1>0, <2>2, InfraOptionsAre
  <2>8. Computes(Configures(p, raw), infra', chosen')
    BY <1>0, <2>4, <2>5, <2>6, <2>7 DEF Computes, Gives
  <2> QED BY <2>8 DEF raw
<1> QED BY <1>1, <1>3, <1>4, <1>5, ConfiguringCases, ValuesNext DEF Kept

\* What the backend accepts, its file has.
LEMMA ConfiguredHolds ==
    ASSUME Base, Values, NEW p \in Procs, proc[p].pc = "configure", NEW busy,
           InfraAccepted(infra.kind, proc[p].conf, engine, busy),
           infra' = ConfiguredInfra(p, busy), Accept(p, InfraOptions(infra.kind)),
           NEW o \in InfraOptions(infra.kind)
    PROVE  Holds(chosen', infra'.conf, o)
<1> DEFINE r == proc[p]
           c == ConfiguredInfra(p, busy).conf
<1>0. /\ infra.kind \in Kinds \cup {"cloud"} /\ r.conf \in RawConf /\ r.raw \in Raw
      /\ chosen \in ChosenType
  BY ProcTyped DEF Globals, InfraType, ProcType
<1>1. o \in ConfOptions /\ o \in Options /\ o # "level"
  BY <1>0, InfraOptionsAre, InfraOptionsKnown
<1>2. /\ o = "size" => c[o] = r.conf[o]
      /\ o = "engine" => c[o] = r.conf[o]
      /\ o = "memory" => c[o] = r.conf[o]
      /\ o = "ports" => \A s \in Services : r.conf.ports[s] > 0 => c.ports[s] = r.conf.ports[s]
  BY <1>0, InfraOptionsAre, ConfiguredStored
<1>3. chosen'[o] = IF Gives(r, o) THEN r.raw[o] ELSE chosen[o]
  BY <1>0, <1>1, AcceptType, InfraOptionsKnown DEF Gives
<1>4. IF Gives(r, o) THEN r.conf[o] = r.raw[o] ELSE Holds(chosen, r.conf, o)
  BY DEF Values, Computes
<1>5. infra'.conf = c OBVIOUS
<1> HIDE DEF c, r
<1>6. CASE o # "ports"
  <2>1. c[o] = r.conf[o] BY <1>1, <1>2, <1>6 DEF ConfOptions
  <2> QED BY <1>3, <1>4, <1>5, <1>6, <2>1 DEF Holds
<1>7. CASE o = "ports"
  <2>1. \A s \in Services : chosen'.ports[s] > 0 => r.conf.ports[s] = chosen'.ports[s]
    BY <1>3, <1>4, <1>7 DEF Holds
  <2>2. \A s \in Services : chosen'.ports[s] > 0 => c.ports[s] = chosen'.ports[s]
    BY <1>2, <1>7, <2>1
  <2> QED BY <1>5, <1>7, <2>2 DEF Holds
<1> QED BY <1>6, <1>7

\* ConfigureBackend keeps the values those accepted last.
LEMMA Values_ConfigureBackend ==
    ASSUME Base, Values, NEW p \in Procs, ConfigureBackend(p) PROVE Values'
<1>0. /\ proc[p].pc = "configure" /\ inst' = inst /\ Globals
      /\ infra.kind \in Kinds \cup {"cloud"}
  BY ProcTyped, ConfigureCases DEF Globals, InfraType
<1>1. Exclusive(proc[p]) BY <1>0, InsideExclusive
<1>2. "level" \notin InfraOptions(infra.kind) /\ InfraOptions(infra.kind) \subseteq ConfOptions
      /\ InfraOptions(infra.kind) \subseteq Options
  BY <1>0, InfraOptionsAre, InfraOptionsKnown
<1>f. Computes(Failed(p), infra', chosen') BY FailedHarmless DEF Computes
<1>3. ASSUME NEW busy, InfraAccepted(infra.kind, proc[p].conf, engine, busy),
             infra' = ConfiguredInfra(p, busy), Accept(p, InfraOptions(infra.kind)),
             Kept(p, Now(p, "variables"))
      PROVE  Values'
  <2>1. infra'.kind = infra.kind /\ infra'.file = "good" BY <1>3, ConfiguredFields
  <2>2. StoredOf(infra') = infra'.conf BY <2>1 DEF StoredOf
  <2>3. \A o \in InfraOptions(infra.kind) : Holds(chosen', infra'.conf, o)
    BY <1>0, <1>3, ConfiguredHolds
  <2>4. chosen'.level = chosen.level
    <3>1. "level" \in Options BY DEF Options
    <3> QED BY <1>2, <1>3, <3>1, AcceptType
  <2>5. FilesHold(infra', inst', chosen') BY <1>0, <2>1, <2>2, <2>3, <2>4 DEF FilesHold, Values
  <2>6. Computes(Now(p, "variables"), infra', chosen')
    BY <1>0, <2>4, NowFields DEF Computes, Values, Gives
  <2> QED BY <1>1, <1>3, <2>5, <2>6, ValuesNext DEF Kept
<1>4. CASE infra' = [infra EXCEPT !.file = "torn"] /\ Forget(InfraOptions(infra.kind)) /\ Kept(p, Failed(p))
  <2>1. infra'.kind = infra.kind BY <1>0, <1>4, TornInfra
  <2>2. \A o \in Options : chosen'[o] = IF o \in InfraOptions(infra.kind) THEN Anything[o] ELSE chosen[o]
    BY <1>2, <1>4, ForgetType
  <2>3. chosen'.level = chosen.level BY <1>2, <2>2 DEF Options
  <2>4. \A o \in InfraOptions(infra.kind) : Holds(chosen', StoredOf(infra'), o)
    <3> SUFFICES ASSUME NEW o \in InfraOptions(infra.kind) PROVE Holds(chosen', StoredOf(infra'), o)
      OBVIOUS
    <3>1. chosen'[o] = Anything[o] BY <1>2, <2>2
    <3>2. o \in ConfOptions BY <1>2
    <3> QED BY <3>1, <3>2, AnythingIs, AnythingHolds DEF ConfOptions
  <2>5. FilesHold(infra', inst', chosen') BY <1>0, <2>1, <2>3, <2>4 DEF FilesHold, Values
  <2> QED BY <1>1, <1>4, <1>f, <2>5, ValuesNext DEF Kept
<1>5. CASE Kept(p, Failed(p)) /\ infra' = infra /\ chosen' = chosen
  BY <1>0, <1>1, <1>5, <1>f, ValuesNext DEF Kept, Values
<1> QED BY <1>3, <1>4, <1>5, ConfigureCases

\* WriteInstallationVariables keeps the values those accepted last.
LEMMA Values_WriteInstallationVariables ==
    ASSUME Base, Values, NEW p \in Procs, WriteInstallationVariables(p) PROVE Values'
<1>0. /\ proc[p].pc = "variables" /\ infra' = infra /\ Globals
      /\ infra.kind \in Kinds \cup {"cloud"}
  BY ProcTyped, VariablesCases DEF Globals, InfraType
<1>1. Exclusive(proc[p]) BY <1>0, InsideExclusive
<1>2. "level" \notin InfraOptions(infra.kind) /\ InfraOptions(infra.kind) \subseteq Options
  BY <1>0, InfraOptionsAre, InfraOptionsKnown
<1>o. "level" \in Options /\ {"level"} \subseteq Options BY DEF Options
<1>f. Computes(Failed(p), infra', chosen') BY FailedHarmless DEF Computes
<1>n. AfterVars(p) \notin {"configure", "variables"} BY DEF AfterVars
<1>g. Computes(Now(p, AfterVars(p)), infra', chosen') BY <1>n, NowFields DEF Computes
<1>3. ASSUME \A o \in Options \ {"level"} : chosen'[o] = chosen[o],
             inst'.is = "full" /\ inst'.file # "none" => chosen'.level \in {"any", LevelOf(inst')}
      PROVE  FilesHold(infra', inst', chosen')
  <2>1. \A o \in InfraOptions(infra.kind) : chosen'[o] = chosen[o] BY <1>2, <1>3
  <2>2. "ports" \in InfraOptions(infra.kind) => chosen'.ports = chosen.ports BY <2>1
  <2> QED BY <1>0, <1>3, <2>1, <2>2 DEF FilesHold, Values, Holds
<1>4. CASE inst' = VarsWritten(p) /\ Accept(p, {"level"}) /\ Kept(p, Now(p, AfterVars(p)))
  <2>1. \A o \in Options : chosen'[o] =
           IF o \in {"level"} /\ (proc[p].cmd = "init" \/ o \in proc[p].raw.names)
           THEN IF o = "level" THEN proc[p].level ELSE proc[p].raw[o] ELSE chosen[o]
    BY <1>4, <1>o, AcceptType
  <2>2. inst'.file = "good" /\ inst'.level = proc[p].level BY <1>4, VarsTypes
  <2>3. chosen'.level \in {"any", LevelOf(inst')}
    BY <1>0, <1>o, <2>1, <2>2 DEF Values, Computes, Gives, LevelOf
  <2> QED BY <1>1, <1>3, <1>4, <1>g, <2>1, <2>3, ValuesNext DEF Kept
<1>5. CASE inst' = VarsTorn /\ Forget({"level"}) /\ Kept(p, Failed(p))
  <2>1. \A o \in Options : chosen'[o] = IF o \in {"level"} THEN Anything[o] ELSE chosen[o]
    BY <1>5, <1>o, ForgetType
  <2>2. chosen'.level = "any" BY <1>o, <2>1, AnythingIs
  <2> QED BY <1>1, <1>3, <1>5, <1>f, <2>1, <2>2, ValuesNext DEF Kept
<1>6. CASE Kept(p, Failed(p)) /\ inst' = inst /\ chosen' = chosen
  BY <1>0, <1>1, <1>6, <1>f, ValuesNext DEF Kept, Values
<1> QED BY <1>4, <1>5, <1>6, VariablesCases

\* RemoveEntry keeps the values those accepted last.
LEMMA Values_RemoveEntry ==
    ASSUME Base, Values, NEW p \in Procs, RemoveEntry(p) PROVE Values'
<1>1. proc[p].pc \in Deleting /\ chosen' = chosen BY RemoveCases DEF Deleting
<1>2. Exclusive(proc[p]) BY <1>1, InsideExclusive
<1>3. Follows(proc[p].pc) \notin {"configure", "variables"} BY DEF Follows
<1>4. Computes(Now(p, Follows(proc[p].pc)), infra', chosen') BY <1>3, NowFields DEF Computes
<1>5. (infra' = infra \/ infra'.is = "none") /\ (inst' = inst \/ inst'.is = "none")
  BY RemoveCases DEF NoInfra, NoInst
<1>6. FilesHold(infra', inst', chosen') BY <1>1, <1>5 DEF FilesHold, Values
<1> QED BY <1>2, <1>4, <1>6, RemoveCases, ValuesNext DEF Kept

\* Prepare keeps the values those accepted last.
LEMMA Values_Prepare ==
    ASSUME Base, Identity, Values, NEW p \in Procs, Prepare(p) PROVE Values'
<1>0. /\ proc[p].pc = "prepare" /\ inst' = inst /\ chosen' = chosen /\ Globals
      /\ infra.kind \in Kinds \cup {"cloud"}
  BY PrepareCases, ProcTyped DEF Globals, InfraType
<1>1. Exclusive(proc[p]) BY <1>0, InsideExclusive
<1>2. Failed(p).pc = "unlock" /\ Preparing(p).pc = "operate" BY FailedHarmless, PreparingFields
<1>3. CASE infra' = infra
  BY <1>0, <1>2, <1>3, PrepareCases, ValuesSame DEF Kept
<1>4. ASSUME NEW busy, StateReadable, Kept(p, Preparing(p)), infra.kind # "cloud",
             InfraAccepted(infra.kind, StoredInfra, engine, busy), infra' = Normalized(busy)
      PROVE  Values'
  <2>1. /\ infra'.is = infra.is /\ infra'.kind = infra.kind /\ infra'.file = "good"
        /\ \A s \in Services : infra.conf.ports[s] > 0 => infra'.conf.ports[s] = infra.conf.ports[s]
        /\ infra'.conf.engine = IF infra.kind = "host" THEN infra.conf.engine ELSE "auto"
        /\ infra'.conf.memory = IF infra.kind = "vm" THEN infra.conf.memory ELSE "m0"
    BY <1>4, NormalizedFields
  <2>2. infra.is = "full" => infra.file # "none" BY <1>4 DEF Identity, Agrees, StateReadable
  <2>3. StoredOf(infra) = infra.conf /\ StoredOf(infra') = infra'.conf BY <1>4, <2>1 DEF StoredOf
  <2>4. ASSUME NEW o \in InfraOptions(infra.kind), Holds(chosen, infra.conf, o)
        PROVE  Holds(chosen, infra'.conf, o)
    <3>1. o \in ConfOptions \ {"size"} BY <1>0, <1>4, InfraOptionsAre
    <3>2. CASE o = "ports" BY <2>1, <2>4, <3>2 DEF Holds
    <3>3. CASE o # "ports"
      <4>1. infra'.conf[o] = infra.conf[o]
        BY <1>0, <2>1, <3>1, <3>3, InfraOptionsAre DEF ConfOptions
      <4> QED BY <2>4, <3>3, <4>1 DEF Holds
    <3> QED BY <3>2, <3>3
  <2>5. FilesHold(infra', inst', chosen')
    BY <1>0, <2>1, <2>2, <2>3, <2>4 DEF FilesHold, Values
  <2>6. Computes(Preparing(p), infra', chosen') BY <1>2 DEF Computes
  <2> QED BY <1>1, <1>4, <2>5, <2>6, ValuesNext DEF Kept
<1> QED BY <1>3, <1>4, PrepareCases DEF Normalizes

\* Every step keeps the stored values those accepted last.
LEMMA ValuesStep == Base /\ Identity /\ Values /\ [Next]_vars => Values'
<1> SUFFICES ASSUME Base, Identity, Values, [Next]_vars PROVE Values' OBVIOUS
<1>1. CASE UNCHANGED vars BY <1>1 DEF vars, files, Values
<1>2. ASSUME NEW p \in Procs, Quiet(p) PROVE Values' BY <1>2, Values_Still
<1>3. ASSUME NEW p \in Procs, Step(p) PROVE Values'
  BY <1>3, <1>2, Values_Still, Values_ExtractInfra, Values_ExtractInst, Values_Configuring,
     Values_ConfigureBackend, Values_WriteInstallationVariables, Values_RemoveEntry, Values_Prepare
     DEF Step, Quiet, Configuring
<1>4. ASSUME NEW p \in Procs, Unlock(p) PROVE Values' BY <1>4 DEF Unlock, files, Values
<1>5. ASSUME NEW p \in Procs, NEW c \in Commands[p], Begin(p, c.cmd, c.kind, c.raw) PROVE Values'
  BY <1>5, <1>2 DEF Quiet
<1>6. ASSUME NEW p \in Procs, Kill(p) PROVE Values' BY <1>6, <1>2 DEF Quiet
<1> QED BY <1>1, <1>3, <1>4, <1>5, <1>6 DEF Next

\* An option keeps the value a command last gave it, whatever other commands write the
\* same files, fail or are killed.
THEOREM DirectorySetsPersist == ASSUME OneInitializer PROVE Spec => []SetsPersist
<1>1. Init => Base /\ Identity /\ Values BY BaseInit, IdentityInit, ValuesInit
<1>2. Base /\ Identity /\ Values /\ [Next]_vars => (Base /\ Identity /\ Values)'
  BY BaseStep, IdentityStep, ValuesStep
<1>3. Values => SetsPersist
  BY DEF Values, FilesHold, Holds, StoredOf, LevelOf, SetsPersist
<1> QED BY <1>1, <1>2, <1>3, PTL DEF Spec

-----------------------------------------------------------------------------
(* Ports of a deployment that has been started *)

Local(f) == f.is = "full" /\ f.kind # "cloud"
Concrete(f) == \A s \in ToSet(Catalog) : f.conf.ports[s] > 0
Chosen(f) ==
    Local(f) => \/ Concrete(f) /\ Distinct(f.conf.ports)
                \/ \A s \in ToSet(Catalog) : f.conf.ports[s] = Unset

\* A deployment has been started, or is being started, on ports of its own.
Runs(r, f, l) ==
    r.pc \in {"operate", "finish"} /\ r.cmd \in {"deploy", "start"} =>
        /\ Local(f) => Concrete(f)
        /\ r.pc = "finish" => l # "none"

HasRecord == state.is = "good" \/ \E p \in Procs : Pending(proc[p])

Ports ==
    /\ Chosen(infra)
    /\ Local(infra) /\ HasRecord /\ live # "none" => Concrete(infra)
    /\ \A p \in Procs : Runs(proc[p], infra, live)

\* There is a service in the catalog.
LEMMA CatalogServed == \E s \in Services : s \in ToSet(Catalog)
<1>1. Catalog \in Seq(Services) /\ Catalog # <<>> BY ConfigurationAssumption
<1>2. 1 \in DOMAIN Catalog /\ Catalog[1] \in Services BY <1>1
<1>3. Catalog[1] \in ToSet(Catalog) BY <1>2 DEF ToSet
<1> QED BY <1>2, <1>3

\* The catalog has services that this launcher knows.
LEMMA CatalogIn == ToSet(Catalog) \subseteq Services /\ ToSet(Catalog) \cap Unknown = {}
BY ConfigurationAssumption DEF Services

\* By default no port of the catalog is chosen.
LEMMA DefaultsUnset == \A s \in ToSet(Catalog) : RawDefaults.ports[s] = Unset
BY CatalogIn DEF RawDefaults, AutoPorts

\* Ports are chosen together initially.
LEMMA PortsInit == Init => Ports
<1> SUFFICES ASSUME Init PROVE Ports OBVIOUS
<1>1. live = "none" /\ \A p \in Procs : proc[p].pc = "idle" BY IdleFields DEF Init
<1>2. \A p \in Procs : Runs(proc[p], infra, live) BY <1>1 DEF Runs
<1>3. CASE infra = NoInfra BY <1>1, <1>2, <1>3 DEF Ports, Chosen, Local, NoInfra
<1>4. CASE \E kind \in Kinds, fixed \in SUBSET Unknown : Found(kind, FoundPorts(fixed))
  <2>1. PICK kind \in Kinds, fixed \in SUBSET Unknown : Found(kind, FoundPorts(fixed)) BY <1>4
  <2>2. infra.conf.ports = FoundPorts(fixed) BY <2>1 DEF Found, NoInfra, RawDefaults
  <2>3. \A s \in ToSet(Catalog) : infra.conf.ports[s] = Unset
    BY <2>2, CatalogIn DEF FoundPorts
  <2> QED BY <1>1, <1>2, <2>3 DEF Ports, Chosen
<1> QED BY <1>3, <1>4, InitCases

\* What is to be shown of a step to keep ports chosen together.
LEMMA PortsNext ==
    ASSUME Base, NEW p \in Procs, NEW r, Moved(p, r), Chosen(infra'),
           (\/ state'.is = "good" \/ Pending(r)
            \/ \E q \in Procs \ {p} : Pending(proc[q]))
             => (Local(infra') /\ live' # "none" => Concrete(infra')),
           Runs(r, infra', live'), \A q \in Procs \ {p} : Runs(proc[q], infra', live')
    PROVE  Ports'
<1>1. proc'[p] = r /\ \A q \in Procs \ {p} : proc'[q] = proc[q] BY MovedBase
<1>2. \A q \in Procs : Runs(proc'[q], infra', live') BY <1>1
<1>3. HasRecord' => \/ state'.is = "good" \/ Pending(r)
                    \/ \E q \in Procs \ {p} : Pending(proc[q])
  BY <1>1 DEF HasRecord, Pending
<1>4. (Local(infra) /\ HasRecord /\ live # "none" => Concrete(infra))' BY <1>3 DEF Local, Concrete
<1> QED BY <1>2, <1>4 DEF Ports, Chosen, Local, Concrete

\* Nobody else runs an operation while a process has the lock.
LEMMA RunsAlone ==
    ASSUME Base, NEW p \in Procs, Exclusive(proc[p]), NEW f, NEW l
    PROVE  \A q \in Procs \ {p} : Runs(proc[q], f, l)
BY OthersOutside DEF Runs

\* A step that writes neither the infrastructure nor resources, from records there were.
LEMMA PortsSame ==
    ASSUME Base, Ports, NEW p \in Procs, NEW r, Moved(p, r), r.pc \notin {"operate", "finish"},
           infra' = infra, live' = live, state'.is = "good" \/ Pending(r) => HasRecord
    PROVE  Ports'
<1>1. Runs(r, infra', live') BY DEF Runs
<1>2. \A q \in Procs \ {p} : Pending(proc[q]) => HasRecord BY DEF HasRecord
<1> QED BY <1>1, <1>2, PortsNext DEF Ports

\* A process of which nothing is to be said runs no operation.
LEMMA HarmlessRuns ==
    ASSUME NEW r, Harmless(r) PROVE r.pc \notin {"operate", "finish"} /\ ~Pending(r)
BY DEF Harmless, Pending

\* Steps that write neither ports nor resources keep the ports.
LEMMA Ports_Still ==
    ASSUME Base, Identity, Ports, NEW p \in Procs,
           \/ Quiet(p) \/ (EnsureDeploymentDirReady(p) /\ Empty) \/ MatchPresets(p)
           \/ Acquire(p) /\ proc[p].cmd = "init"
           \/ BackfillIdentity(p) \/ ExtractShared(p) \/ ExtractInst(p) \/ WriteMarker(p)
           \/ Configuring(p) \/ PrintConfiguration(p) \/ WriteInstallationVariables(p)
    PROVE  Ports'
<1> DEFINE Still == /\ \E r : Moved(p, r) /\ r.pc \notin {"operate", "finish"} /\ (Pending(r) => HasRecord)
                    /\ infra' = infra /\ live' = live /\ (state'.is = "good" => HasRecord)
<1>f. Failed(p).pc = "unlock" /\ Idle.pc = "idle" BY FailedHarmless, IdleHarmless
<1>n. \A pc : Now(p, pc).pc = pc BY NowFields
<1>s. state.is = "good" => HasRecord BY DEF HasRecord
<1>12. Still
  <2>1. CASE Quiet(p) BY <2>1, <1>s, QuietCases, HarmlessRuns DEF QuietEffect
  <2>2. CASE EnsureDeploymentDirReady(p) BY <2>2, <1>s, <1>f, <1>n, EnsureCases DEF Kept, Pending
  <2>3. CASE MatchPresets(p)
    BY <2>3, <1>s, MatchCases, HarmlessRuns, BackfillingFields DEF Kept, files, StateReadable
  <2>4. CASE Acquire(p) /\ proc[p].cmd = "init"
    BY <2>4, <1>s, <1>n, AcquireCases DEF files, Pending
  <2>5. CASE BackfillIdentity(p)
    <3>1. HasRecord BY <2>5, BackfillCases DEF HasRecord, Pending
    <3> QED BY <2>5, <3>1, BackfillCases, HarmlessRuns DEF Kept
  <2>6. CASE ExtractShared(p)
    BY <2>6, <1>s, <1>f, ExtractSharedCases, ExtractingFields DEF Kept, ExtractShared, Pending
  <2>7. CASE ExtractInst(p)
    BY <2>7, <1>s, <1>f, ExtractInstCases, InitConfiguresFields DEF Kept, ExtractInst, Pending
  <2>8. CASE WriteMarker(p) BY <2>8, <1>s, <1>f, <1>n, WriteMarkerCases DEF Kept, WriteMarker, Pending
  <2>9. CASE PrintConfiguration(p)
    BY <2>9, <1>s, <1>f, <1>n, PrintCases DEF Kept, Pending, StateReadable
  <2>10. CASE Configuring(p)
    BY <2>10, <1>s, <1>f, ConfiguresFields, ConfiguringCases DEF Kept, Pending, StateReadable
  <2>11. CASE WriteInstallationVariables(p)
    <3>1. Now(p, AfterVars(p)).pc \in {"state", "unlock"} BY <1>n DEF AfterVars
    <3> QED BY <2>11, <3>1, <1>s, <1>f, VariablesCases DEF Kept, Pending
  <2> QED BY <2>1, <2>2, <2>3, <2>4, <2>5, <2>6, <2>7, <2>8, <2>9, <2>10, <2>11
<1> QED BY <1>12, PortsSame

\* ExtractInfra keeps the ports chosen together.
LEMMA Ports_ExtractInfra ==
    ASSUME Base, Identity, OneInitializer, Ports, NEW p \in Procs, ExtractInfra(p) PROVE Ports'
<1>1. /\ proc[p].pc = "infra" /\ Initialising(proc[p]) /\ live' = live /\ state' = state
  BY ProcTyped DEF ExtractInfra, At, Control, Initialising
<1>2. state.is = "none" /\ \A q \in Procs \ {p} : ~Pending(proc[q]) BY <1>1, FreshAlone
<1>3. Chosen(infra') BY ExtractInfraCases, DefaultsUnset DEF NoInfra, Chosen, Local
<1>4. \E r : Moved(p, r) /\ r.pc \in {"inst", "unlock"}
  <2>1. Now(p, "inst").pc = "inst" /\ Failed(p).pc = "unlock" BY NowFields, FailedHarmless
  <2> QED BY <2>1, ExtractInfraCases DEF Kept
<1>5. \A q \in Procs \ {p} : Runs(proc[q], infra', live') BY <1>2 DEF Runs, Pending
<1>6. PICK r : Moved(p, r) /\ r.pc \in {"inst", "unlock"} BY <1>4
<1>7. Runs(r, infra', live') /\ ~Pending(r) BY <1>6 DEF Runs, Pending
<1> QED BY <1>1, <1>2, <1>3, <1>5, <1>6, <1>7, PortsNext

\* ConfigureBackend keeps the ports chosen together.
LEMMA Ports_ConfigureBackend ==
    ASSUME Base, Ports, NEW p \in Procs, ConfigureBackend(p) PROVE Ports'
<1>0. proc[p].pc = "configure" /\ live' = live /\ state' = state /\ Globals
  BY ProcTyped, ConfigureCases
<1>1. Exclusive(proc[p]) BY <1>0, InsideExclusive
<1>2. \A q \in Procs \ {p} : Runs(proc[q], infra', live') BY <1>1, RunsAlone
<1>3. ASSUME NEW busy, InfraAccepted(infra.kind, proc[p].conf, engine, busy),
             infra' = ConfiguredInfra(p, busy), Kept(p, Now(p, "variables"))
      PROVE  Ports'
  <2>1. infra'.kind = infra.kind BY <1>3, ConfiguredFields
  <2>2. Local(infra') => Concrete(infra') /\ Distinct(infra'.conf.ports)
    BY <1>3, <2>1, ConfiguredStored DEF Local, Concrete
  <2>3. Runs(Now(p, "variables"), infra', live') BY NowFields DEF Runs
  <2> QED BY <1>2, <1>3, <2>2, <2>3, PortsNext DEF Kept, Chosen
<1>4. CASE infra' = [infra EXCEPT !.file = "torn"] /\ Kept(p, Failed(p))
  <2>1. infra'.kind = infra.kind /\ infra'.is = infra.is /\ infra'.conf = infra.conf
    BY <1>0, <1>4, TornInfra
  <2>2. Chosen(infra') BY <2>1 DEF Ports, Chosen, Local, Concrete
  <2>3. Runs(Failed(p), infra', live') /\ ~Pending(Failed(p)) BY FailedHarmless, HarmlessRuns DEF Runs
  <2>4. Local(infra') /\ HasRecord /\ live' # "none" => Concrete(infra')
    BY <1>0, <2>1 DEF Ports, Local, Concrete
  <2> QED BY <1>0, <1>2, <1>4, <2>2, <2>3, <2>4, PortsNext DEF Kept, HasRecord
<1>5. CASE Kept(p, Failed(p)) /\ infra' = infra
  BY <1>0, <1>5, FailedHarmless, HarmlessRuns, PortsSame DEF Kept, HasRecord
<1> QED BY <1>3, <1>4, <1>5, ConfigureCases

\* WriteState keeps the ports chosen together.
LEMMA Ports_WriteState ==
    ASSUME Base, Ports, NEW p \in Procs, WriteState(p) PROVE Ports'
<1>0. proc[p].pc = "state" /\ infra' = infra BY DEF WriteState, At
<1>1. Exclusive(proc[p]) BY <1>0, InsideExclusive
<1>2. \A q \in Procs \ {p} : Runs(proc[q], infra', live') BY <1>1, RunsAlone
<1>3. Chosen(infra') BY <1>0 DEF Ports
<1>4. CASE Kept(p, Now(p, "marker")) /\ live' = "none"
  BY <1>2, <1>3, <1>4, NowHarmless, HarmlessRuns, PortsNext DEF Kept, Runs
<1>5. CASE Kept(p, Failed(p)) /\ state' = TornState /\ live' = live
  BY <1>0, <1>5, FailedHarmless, HarmlessRuns, TornType, PortsSame DEF Kept
<1> QED BY <1>4, <1>5, WriteStateCases

\* RemoveEntry keeps the ports chosen together.
LEMMA Ports_RemoveEntry ==
    ASSUME Base, Ports, NEW p \in Procs, RemoveEntry(p) PROVE Ports'
<1>1. proc[p].pc \in Deleting /\ live' = live BY RemoveCases DEF Deleting
<1>2. Exclusive(proc[p]) BY <1>1, InsideExclusive
<1>3. \A q \in Procs \ {p} : Runs(proc[q], infra', live') BY <1>2, RunsAlone
<1>4. Follows(proc[p].pc) \in {"delstate", "delrest", "delinfra", "delinst", "unlock"} BY DEF Follows
<1>5. Runs(Now(p, Follows(proc[p].pc)), infra', live') /\ ~Pending(Now(p, Follows(proc[p].pc)))
  BY <1>4, NowFields DEF Runs, Pending
<1>6. (infra' = infra \/ ~Local(infra')) /\ (state' = state \/ state'.is = "none")
  BY RemoveCases DEF NoInfra, NoState, Local
<1>7. Chosen(infra') BY <1>6 DEF Ports, Chosen
<1>8. HasRecord /\ Local(infra') /\ live' # "none" => Concrete(infra') BY <1>1, <1>6 DEF Ports
<1> QED BY <1>3, <1>5, <1>6, <1>7, <1>8, RemoveCases, PortsNext DEF Kept, HasRecord

\* A started deployment has no ports left to choose.
LEMMA NormalizedPorts ==
    ASSUME Globals, Ports, Local(infra), ~LocalPortsNeedNormalization(StoredInfra.ports)
    PROVE  Concrete(infra)
<1>1. StoredInfra = infra.conf BY DEF StoredInfra, LocalConfiguration, Local
<1>2. infra.conf.ports \in [Services -> Unset..MaxPort] BY DEF Globals, InfraType, Conf
<1>3. Parses(infra.conf.ports)
  BY <1>2, ConfigurationAssumption DEF Parses, Malformed, Unset
<1>4. \A s \in ToSet(Catalog) : infra.conf.ports[s] # Unset
  BY <1>1, <1>3 DEF LocalPortsNeedNormalization
<1> QED BY <1>4, CatalogServed DEF Ports, Chosen

\* Prepare keeps the ports chosen together.
LEMMA Ports_Prepare ==
    ASSUME Base, Ports, NEW p \in Procs, Prepare(p) PROVE Ports'
<1>0. proc[p].pc = "prepare" /\ live' = live /\ state' = state /\ Globals
  BY ProcTyped, PrepareCases
<1>1. Exclusive(proc[p]) BY <1>0, InsideExclusive
<1>2. \A q \in Procs \ {p} : Runs(proc[q], infra', live') BY <1>1, RunsAlone
<1>3. CASE Kept(p, Failed(p)) /\ infra' = infra
  BY <1>0, <1>3, FailedHarmless, HarmlessRuns, PortsSame DEF Kept, HasRecord
<1>4. ASSUME StateReadable, Kept(p, Preparing(p)),
             \/ ~Normalizes(proc[p].cmd) /\ infra' = infra
             \/ /\ infra'.is = infra.is /\ infra'.kind = infra.kind
                /\ Concrete(infra') /\ Distinct(infra'.conf.ports)
      PROVE  Ports'
  <2>1. HasRecord BY <1>4 DEF HasRecord, StateReadable
  <2>2. Chosen(infra') BY <1>4 DEF Ports, Chosen
  <2>3. Local(infra') /\ live' # "none" => Concrete(infra') BY <1>0, <1>4, <2>1 DEF Ports
  <2>4. proc[p].cmd \in {"deploy", "start"} /\ Local(infra') => Concrete(infra')
    BY <1>0, <1>4, NormalizedPorts DEF Normalizes, Local
  <2>5. Runs(Preparing(p), infra', live') BY <2>4, PreparingFields DEF Runs
  <2> QED BY <1>2, <1>4, <2>2, <2>3, <2>5, PortsNext DEF Kept
<1> QED BY <1>3, <1>4, PrepareCases, NormalizedFields DEF Normalizes, Concrete

\* Operate keeps the ports chosen together.
LEMMA Ports_Operate ==
    ASSUME Base, Ports, NEW p \in Procs, Operate(p) PROVE Ports'
<1>0. /\ proc[p].pc = "operate" /\ proc[p].cmd \in Lifecycle /\ infra' = infra
      /\ live' = (IF live = "none" /\ proc[p].cmd \in {"stop", "destroy"} THEN "none" ELSE "some")
  BY OperateCases
<1>1. Exclusive(proc[p]) /\ HasRecord BY <1>0, InsideExclusive DEF HasRecord, Pending
<1>2. \A q \in Procs \ {p} : Runs(proc[q], infra', live') BY <1>1, RunsAlone
<1>3. Runs(proc[p], infra, live) /\ Chosen(infra') BY <1>0 DEF Ports
<1>4. Local(infra') /\ live' # "none" => Concrete(infra')
  BY <1>0, <1>1, <1>3 DEF Ports, Runs, Lifecycle
<1>5. Runs(Now(p, "finish"), infra', live') BY <1>0, <1>3, NowFields DEF Runs
<1> QED BY <1>2, <1>3, <1>4, <1>5, OperateCases, PortsNext DEF Kept

\* Finish keeps the ports chosen together.
LEMMA Ports_Finish ==
    ASSUME Base, Ports, NEW p \in Procs, Finish(p) PROVE Ports'
<1>0. proc[p].pc = "finish" /\ proc[p].cmd \in Lifecycle /\ infra' = infra
  BY FinishCases
<1>1. Exclusive(proc[p]) /\ HasRecord BY <1>0, InsideExclusive DEF HasRecord, Pending
<1>2. \A q \in Procs \ {p} : Runs(proc[q], infra', live') BY <1>1, RunsAlone
<1>3. Runs(proc[p], infra, live) /\ Chosen(infra') BY <1>0 DEF Ports
<1>4. live' # "none" => live # "none" BY <1>0, <1>3, FinishCases DEF Runs
<1>5. Local(infra') /\ live' # "none" => Concrete(infra') BY <1>0, <1>1, <1>4 DEF Ports
<1>u. Now(p, "unlock").pc = "unlock" /\ Failed(p).pc = "unlock" BY NowFields, FailedHarmless
<1>6. \E r : Moved(p, r) /\ r.pc = "unlock" BY <1>u, FinishCases DEF Kept
<1>7. PICK r : Moved(p, r) /\ r.pc = "unlock" BY <1>6
<1>8. Runs(r, infra', live') BY <1>7 DEF Runs
<1> QED BY <1>2, <1>3, <1>5, <1>7, <1>8, PortsNext

\* Every step keeps the ports chosen together, and concrete under resources.
LEMMA PortsStep == Base /\ OneInitializer /\ Identity /\ Ports /\ [Next]_vars => Ports'
<1> SUFFICES ASSUME Base, OneInitializer, Identity, Ports, [Next]_vars PROVE Ports' OBVIOUS
<1>1. CASE UNCHANGED vars
  BY <1>1 DEF vars, files, Ports, HasRecord, Chosen, Local, Concrete
<1>2. ASSUME NEW p \in Procs, Quiet(p) PROVE Ports' BY <1>2, Ports_Still
<1>3. ASSUME NEW p \in Procs, Step(p) PROVE Ports'
  BY <1>3, <1>2, Ports_Still, Ports_ExtractInfra, Ports_ConfigureBackend, Ports_WriteState,
     Ports_RemoveEntry, Ports_Prepare, Ports_Operate, Ports_Finish DEF Step, Quiet, Configuring
<1>4. ASSUME NEW p \in Procs, Unlock(p) PROVE Ports'
  BY <1>4 DEF Unlock, files, Ports, HasRecord, Chosen, Local, Concrete
<1>5. ASSUME NEW p \in Procs, NEW c \in Commands[p], Begin(p, c.cmd, c.kind, c.raw) PROVE Ports'
  BY <1>5, <1>2 DEF Quiet
<1>6. ASSUME NEW p \in Procs, Kill(p) PROVE Ports' BY <1>6, <1>2 DEF Quiet
<1> QED BY <1>1, <1>3, <1>4, <1>5, <1>6 DEF Next

\* The configuration agrees with the identity of the deployment, with the engine that
\* has its data and with the ports of services that have been started.
THEOREM DirectoryConfigurationConsistent == ASSUME OneInitializer PROVE Spec => []ConfigurationConsistent
<1>1. Init => Base /\ Identity /\ EnginePinned /\ Ports BY BaseInit, IdentityInit, EngineInit, PortsInit
<1>2. Base /\ Identity /\ EnginePinned /\ Ports /\ [Next]_vars
        => (Base /\ Identity /\ EnginePinned /\ Ports)'
  BY BaseStep, IdentityStep, EngineStep, PortsStep
<1>3. Base /\ Identity => FilesAgree BY DEF Identity, FilesAgree, Agrees
<1>4. ASSUME Base, Ports PROVE LivePortsConcrete
  <2>1. ASSUME state.is = "good", Local(infra), live # "none"
        PROVE  Concrete(infra) /\ Distinct(infra.conf.ports)
    <3>1. Concrete(infra) BY <1>4, <2>1 DEF HasRecord, Ports
    <3>2. ~\A s \in ToSet(Catalog) : infra.conf.ports[s] = Unset
      BY <3>1, CatalogServed DEF Concrete, Unset
    <3> QED BY <1>4, <2>1, <3>1, <3>2 DEF Ports, Chosen
  <2> QED BY <2>1 DEF LivePortsConcrete, Local, Concrete
<1>5. Base /\ Identity /\ EnginePinned /\ Ports => ConfigurationConsistent
  BY <1>3, <1>4 DEF ConfigurationConsistent
<1> QED BY <1>1, <1>2, <1>5, PTL DEF Spec

-----------------------------------------------------------------------------
(* The recorded state and the resources *)

\* While no write of an old state has been lost, the recorded workflow state tells of
\* the resources.
Tells(s, l) ==
    s.is = "good" => /\ s.wf = "initialized" => l = "none"
                     /\ s.wf = "stopped" => l \in {"none", "stopped"}
Permitted(r, f, l) ==
    Resetting(r) /\ r.pc = "configure" => l = "none" \/ (f.kind # "cloud" /\ l = "stopped")

Workflow ==
    ~lost => /\ Tells(state, live)
             /\ \A p \in Procs : Permitted(proc[p], infra, live)

\* The recorded state tells of the resources initially.
LEMMA WorkflowInit == Init => Workflow
<1> SUFFICES ASSUME Init PROVE Workflow OBVIOUS
<1>1. live = "none" /\ \A p \in Procs : proc[p].pc = "idle" BY IdleFields DEF Init
<1> QED BY <1>1 DEF Workflow, Tells, Permitted

\* What is to be shown of a step to keep it telling of them.
LEMMA WorkflowNext ==
    ASSUME Base, NEW p \in Procs, NEW r, Moved(p, r), ~lost' => Tells(state', live'),
           ~lost' => Permitted(r, infra', live'),
           ~lost' => \A q \in Procs \ {p} : Permitted(proc[q], infra', live')
    PROVE  Workflow'
<1>1. proc'[p] = r /\ \A q \in Procs \ {p} : proc'[q] = proc[q] BY MovedBase
<1> QED BY <1>1 DEF Workflow

\* Nobody else configures while a process has the lock.
LEMMA PermittedAlone ==
    ASSUME Base, NEW p \in Procs, Exclusive(proc[p]), NEW f, NEW l
    PROVE  \A q \in Procs \ {p} : Permitted(proc[q], f, l)
BY OthersOutside DEF Permitted

\* A step that leaves resources alone and writes a state that tells of them.
LEMMA WorkflowSame ==
    ASSUME Base, Workflow, NEW p \in Procs, NEW r, Moved(p, r), r.pc # "configure",
           UNCHANGED <<infra, live, lost>>, ~lost => Tells(state', live)
    PROVE  Workflow'
<1>1. Permitted(r, infra', live') BY DEF Permitted
<1> QED BY <1>1, WorkflowNext DEF Workflow

\* The same under the lock, whatever it does to the resources.
LEMMA WorkflowLocked ==
    ASSUME Base, NEW p \in Procs, Exclusive(proc[p]), NEW r, Moved(p, r), r.pc # "configure",
           ~lost' => Tells(state', live')
    PROVE  Workflow'
<1>1. Permitted(r, infra', live') BY DEF Permitted
<1> QED BY <1>1, WorkflowNext, PermittedAlone

\* Filling in the preset's name leaves the workflow state as it is.
LEMMA BackfilledTells ==
    ASSUME Globals, Readable PROVE Tells(state, live) => Tells(Backfilled(state), live)
<1>1. state \in StateType /\ infra.kind \in Kinds BY DEF Globals, Readable, ManifestReadable
<1>2. Backfilled(state).is = state.is /\ Backfilled(state).wf = state.wf BY <1>1, BackfilledType
<1> QED BY <1>2 DEF Tells

\* Steps that write neither state nor resources keep the recorded state telling of them.
LEMMA Workflow_Still ==
    ASSUME Base, Workflow, NEW p \in Procs,
           \/ Quiet(p) \/ (EnsureDeploymentDirReady(p) /\ Empty) \/ MatchPresets(p)
           \/ Acquire(p) /\ proc[p].cmd = "init"
           \/ ExtractShared(p) \/ WriteMarker(p)
           \/ PrintConfiguration(p) \/ WriteInstallationVariables(p)
    PROVE  Workflow'
<1> DEFINE Still == /\ \E r : Moved(p, r) /\ r.pc # "configure"
                    /\ UNCHANGED <<infra, live, lost>> /\ (Tells(state, live) => Tells(state', live))
<1>0. Globals BY ProcTyped
<1>f. Failed(p).pc = "unlock" /\ Idle.pc = "idle" BY FailedHarmless, IdleHarmless
<1>n. \A pc : Now(p, pc).pc = pc BY NowFields
<1>12. Still
  <2>1. CASE Quiet(p) BY <2>1, QuietCases, HarmlessComputes DEF QuietEffect
  <2>2. CASE EnsureDeploymentDirReady(p) BY <2>2, <1>f, <1>n, EnsureCases DEF Kept
  <2>3. CASE MatchPresets(p)
    BY <2>3, MatchCases, HarmlessComputes, BackfillingFields DEF Kept, files
  <2>4. CASE Acquire(p) /\ proc[p].cmd = "init"
    BY <2>4, <1>n, AcquireCases DEF files
  <2>6. CASE ExtractShared(p)
    BY <2>6, <1>f, ExtractSharedCases, ExtractingFields DEF Kept, ExtractShared
  <2>8. CASE WriteMarker(p) BY <2>8, <1>f, <1>n, WriteMarkerCases DEF Kept, WriteMarker
  <2>9. CASE PrintConfiguration(p)
    BY <2>9, <1>0, <1>f, <1>n, PrintCases, BackfilledTells DEF Kept
  <2>11. CASE WriteInstallationVariables(p)
    <3>1. Now(p, AfterVars(p)).pc \in {"state", "unlock"} BY <1>n DEF AfterVars
    <3> QED BY <2>11, <3>1, <1>f, VariablesCases DEF Kept
  <2> QED BY <2>1, <2>2, <2>3, <2>4, <2>6, <2>8, <2>9, <2>11
<1> QED BY <1>12, WorkflowSame DEF Workflow

\* BackfillIdentity keeps the recorded state telling of the resources.
LEMMA Workflow_BackfillIdentity ==
    ASSUME Base, Workflow, NEW p \in Procs, BackfillIdentity(p) PROVE Workflow'
<1>0. UNCHANGED <<infra, live>> /\ state \in StateType BY BackfillCases, ProcTyped DEF Globals
<1>l. lost' = (lost \/ (dir.root /\ [state EXCEPT !.ident = proc[p].old.ident] # proc[p].old))
  BY BackfillCases
<1>1. PICK r : Moved(p, r) /\ r.pc # "configure" BY BackfillCases, HarmlessComputes DEF Kept
<1>2. ~lost' => ~lost /\ Tells(state', live)
  <2>1. CASE dir.root /\ state' = proc[p].old
    <3>1. ~lost' => state' = [state EXCEPT !.ident = proc[p].old.ident] BY <1>l, <2>1
    <3>2. [state EXCEPT !.ident = proc[p].old.ident].is = state.is
          /\ [state EXCEPT !.ident = proc[p].old.ident].wf = state.wf
      BY <1>0 DEF StateType
    <3> QED BY <1>l, <3>1, <3>2 DEF Workflow, Tells
  <2>2. CASE state' = [state EXCEPT !.is = "torn"]
    <3>1. state'.is = "torn" BY <1>0, <2>2 DEF StateType
    <3> QED BY <1>l, <3>1 DEF Tells
  <2>3. CASE state' = state BY <1>l, <2>3 DEF Workflow
  <2> QED BY <2>1, <2>2, <2>3, BackfillCases
<1>3. ~lost' => Permitted(r, infra', live') BY <1>1 DEF Permitted
<1> QED BY <1>0, <1>1, <1>2, <1>3, WorkflowNext DEF Workflow

\* Steps that write only the infrastructure keep it so.
LEMMA Workflow_Files ==
    ASSUME Base, Workflow, NEW p \in Procs, ExtractInfra(p) \/ ConfigureBackend(p) \/ RemoveEntry(p)
    PROVE  Workflow'
<1>1. Exclusive(proc[p]) /\ live' = live /\ lost' = lost /\ (state' = state \/ state' = NoState)
  BY InsideExclusive, ConfigureCases, RemoveCases DEF ExtractInfra, At, Deleting
<1>2. Tells(NoState, live) BY DEF Tells, NoState
<1>f. Failed(p).pc = "unlock" BY FailedHarmless
<1>n. \A pc : Now(p, pc).pc = pc BY NowFields
<1>3. Follows(proc[p].pc) # "configure" BY DEF Follows
<1>4. \E r : Moved(p, r) /\ r.pc # "configure"
  <2>1. CASE ExtractInfra(p) BY <2>1, <1>f, <1>n, ExtractInfraCases DEF Kept
  <2>2. CASE ConfigureBackend(p) BY <2>2, <1>f, <1>n, ConfigureCases DEF Kept
  <2>3. CASE RemoveEntry(p) BY <2>3, <1>n, <1>3, RemoveCases DEF Kept
  <2> QED BY <2>1, <2>2, <2>3
<1>5. ~lost' => Tells(state', live') BY <1>1, <1>2 DEF Workflow
<1> QED BY <1>1, <1>4, <1>5, WorkflowLocked

\* ExtractInst keeps the recorded state telling of the resources.
LEMMA Workflow_ExtractInst ==
    ASSUME Base, Workflow, NEW p \in Procs, ExtractInst(p) PROVE Workflow'
<1>1. /\ Exclusive(proc[p]) /\ live' = live /\ lost' = lost /\ state' = state
      /\ proc[p].pc = "inst" /\ proc[p].cmd = "init"
  BY InsideExclusive, ProcTyped DEF ExtractInst, At, Control
<1>2. Permitted(InitConfigures(p), infra', live')
  BY <1>1, InitConfiguresFields DEF Permitted, Resetting
<1>3. Permitted(Failed(p), infra', live') BY FailedHarmless DEF Permitted
<1> QED BY <1>1, <1>2, <1>3, ExtractInstCases, WorkflowNext, PermittedAlone DEF Kept, Workflow

\* WriteState keeps the recorded state telling of the resources.
LEMMA Workflow_WriteState ==
    ASSUME Base, Workflow, NEW p \in Procs, WriteState(p) PROVE Workflow'
<1>1. Exclusive(proc[p]) BY InsideExclusive DEF WriteState, At
<1>f. Failed(p).pc = "unlock" /\ Now(p, "marker").pc = "marker" BY FailedHarmless, NowFields
<1>2. Tells(TornState, live) BY TornType DEF Tells
<1>3. Tells(state', live') BY <1>2, WriteStateCases DEF Tells
<1>4. \E r : Moved(p, r) /\ r.pc # "configure" BY <1>f, WriteStateCases DEF Kept
<1> QED BY <1>1, <1>3, <1>4, WorkflowLocked

\* config set and config reset only begin where the recorded state permits it.
LEMMA Workflow_Configuring ==
    ASSUME Base, Workflow, NEW p \in Procs, Configuring(p) PROVE Workflow'
<1>0. proc[p].pc = "read" /\ UNCHANGED <<infra, live, lost>> /\ Globals
  BY ConfiguringCases, ProcTyped
<1>1. Exclusive(proc[p]) BY <1>0, InsideExclusive
<1>2. CASE Kept(p, Failed(p)) /\ state' = state
  BY <1>0, <1>2, FailedHarmless, WorkflowSame DEF Kept, Workflow
<1>3. CASE /\ Kept(p, Configures(p, Given(p))) /\ state' = Backfilled(state)
           /\ StateReadable /\ PermitsConfigure /\ Readable
  <2>1. ~lost => Tells(state', live) BY <1>0, <1>3, BackfilledTells DEF Workflow
  <2>2. ~lost => live = "none" \/ (infra.kind # "cloud" /\ live = "stopped")
    BY <1>3 DEF Workflow, Tells, StateReadable, PermitsConfigure
  <2>3. ~lost' => Permitted(Configures(p, Given(p)), infra', live') BY <1>0, <2>2 DEF Permitted
  <2> QED BY <1>0, <1>1, <1>3, <2>1, <2>3, WorkflowNext, PermittedAlone DEF Kept
<1> QED BY <1>2, <1>3, ConfiguringCases

\* Prepare keeps the recorded state telling of the resources.
LEMMA Workflow_Prepare ==
    ASSUME Base, Workflow, NEW p \in Procs, Prepare(p) PROVE Workflow'
<1>0. UNCHANGED <<state, live, lost>> /\ Exclusive(proc[p]) BY PrepareCases, InsideExclusive
<1>1. Failed(p).pc = "unlock" /\ Preparing(p).pc = "operate" BY FailedHarmless, PreparingFields
<1>2. \E r : Moved(p, r) /\ r.pc # "configure" BY <1>1, PrepareCases DEF Kept
<1>3. ~lost' => Tells(state', live') BY <1>0 DEF Workflow
<1> QED BY <1>0, <1>2, <1>3, WorkflowLocked

\* Operate keeps the recorded state telling of the resources.
LEMMA Workflow_Operate ==
    ASSUME Base, NEW p \in Procs, Operate(p) PROVE Workflow'
<1>1. Exclusive(proc[p]) BY OperateCases, InsideExclusive
<1>2. Now(p, "finish").pc = "finish" BY NowFields
<1>3. Tells(state', live') BY OperateCases DEF Tells, Lifecycle
<1> QED BY <1>1, <1>2, <1>3, OperateCases, WorkflowLocked DEF Kept

\* Finish keeps the recorded state telling of the resources.
LEMMA Workflow_Finish ==
    ASSUME Base, NEW p \in Procs, Finish(p) PROVE Workflow'
<1>0. Exclusive(proc[p]) /\ proc[p].cmd \in Lifecycle BY FinishCases, InsideExclusive
<1>1. \A wf : [proc[p].old EXCEPT !.wf = wf].wf = wf
  BY ProcTyped DEF ProcType, StateType
<1>u. Now(p, "unlock").pc = "unlock" /\ Failed(p).pc = "unlock" BY NowFields, FailedHarmless
<1>2. \E r : Moved(p, r) /\ r.pc # "configure" BY <1>u, FinishCases DEF Kept
<1>3. Tells(state', live')
  <2>1. CASE /\ state' = [proc[p].old EXCEPT !.wf = Final(proc[p].cmd)]
             /\ live' = (IF proc[p].cmd = "destroy" \/ live = "none" THEN "none" ELSE Final(proc[p].cmd))
    <3>1. state'.wf = Final(proc[p].cmd) BY <1>1, <2>1
    <3>2. \/ proc[p].cmd \in {"deploy", "start"} /\ Final(proc[p].cmd) = "running"
          \/ proc[p].cmd = "stop" /\ Final(proc[p].cmd) = "stopped"
          \/ proc[p].cmd = "destroy" /\ Final(proc[p].cmd) = "initialized"
      BY <1>0 DEF Lifecycle, Final
    <3> QED BY <2>1, <3>1, <3>2 DEF Tells
  <2>2. CASE state' = [proc[p].old EXCEPT !.wf = IF proc[p].cmd = "deploy" THEN "failed" ELSE proc[p].cmd]
    <3>1. state'.wf = IF proc[p].cmd = "deploy" THEN "failed" ELSE proc[p].cmd BY <1>1, <2>2
    <3>2. state'.wf \notin {"initialized", "stopped"} BY <1>0, <3>1 DEF Lifecycle
    <3> QED BY <3>2 DEF Tells
  <2>3. CASE /\ \/ proc[p].old.wf = "initialized" /\ live' = "none"
                \/ proc[p].old.wf = "stopped" /\ live' = "stopped"
             /\ state' = [proc[p].old EXCEPT !.wf = proc[p].old.wf]
    <3>1. state'.wf = proc[p].old.wf BY <1>1, <2>3
    <3> QED BY <2>3, <3>1 DEF Tells
  <2> QED BY <2>1, <2>2, <2>3, FinishCases
<1> QED BY <1>0, <1>2, <1>3, WorkflowLocked

\* Every step keeps the recorded state telling of the resources.
LEMMA WorkflowStep == Base /\ Workflow /\ [Next]_vars => Workflow'
<1> SUFFICES ASSUME Base, Workflow, [Next]_vars PROVE Workflow' OBVIOUS
<1>1. CASE UNCHANGED vars
  BY <1>1 DEF vars, files, Workflow
<1>2. ASSUME NEW p \in Procs, Quiet(p) PROVE Workflow' BY <1>2, Workflow_Still
<1>3. ASSUME NEW p \in Procs, Step(p) PROVE Workflow'
  BY <1>3, <1>2, Workflow_Still, Workflow_BackfillIdentity, Workflow_Files, Workflow_ExtractInst,
     Workflow_WriteState, Workflow_Configuring, Workflow_Prepare, Workflow_Operate, Workflow_Finish
     DEF Step, Quiet, Configuring
<1>4. ASSUME NEW p \in Procs, Unlock(p) PROVE Workflow' BY <1>4 DEF Unlock, files, Workflow
<1>5. ASSUME NEW p \in Procs, NEW c \in Commands[p], Begin(p, c.cmd, c.kind, c.raw) PROVE Workflow'
  BY <1>5, <1>2 DEF Quiet
<1>6. ASSUME NEW p \in Procs, Kill(p) PROVE Workflow' BY <1>6, <1>2 DEF Quiet
<1> QED BY <1>1, <1>3, <1>4, <1>5, <1>6 DEF Next

\* Ports that are concrete are not made so again.
LEMMA ConcreteStays ==
    ASSUME Globals, Local(infra), Concrete(infra)
    PROVE  ~LocalPortsNeedNormalization(StoredInfra.ports)
<1>1. StoredInfra = infra.conf BY DEF StoredInfra, LocalConfiguration, Local
<1>2. PICK s \in Services : s \in ToSet(Catalog) BY CatalogServed
<1>3. infra.conf.ports[s] > 0 BY <1>2 DEF Concrete
<1>4. infra.conf.ports # AutoPorts BY <1>2, <1>3 DEF AutoPorts, Unset
<1>5. \A t \in ToSet(Catalog) : infra.conf.ports[t] \notin {Unset, 0} BY DEF Concrete, Unset
<1> QED BY <1>1, <1>4, <1>5 DEF LocalPortsNeedNormalization

\* What a step may do to the configuration of a deployment with resources.
LiveConfigKept ==
    state.is = "good" /\ infra.is = "full" /\ ~lost
      /\ (infra'.conf # infra.conf \/ infra'.file # infra.file)
    => \/ live = "none" \/ infra'.is # "full"
       \/ infra.kind # "cloud" /\ live = "stopped"

\* No step touches the configuration of a deployment with resources.
LEMMA LiveConfigStep ==
    Base /\ OneInitializer /\ Identity /\ Ports /\ Workflow /\ [Next]_vars => LiveConfigKept
<1> SUFFICES ASSUME Base, OneInitializer, Identity, Ports, Workflow, [Next]_vars,
                    state.is = "good", infra.is = "full", ~lost, infra' # infra
             PROVE  \/ live = "none" \/ infra'.is # "full"
                    \/ infra.kind # "cloud" /\ live = "stopped"
  BY DEF LiveConfigKept
<1>1. PICK p \in Procs : Infrastructure(p) BY OtherSteps DEF vars, files
<1>0. Globals BY ProcTyped
<1>2. ~Initialising(proc[p]) BY FreshAlone
<1>3. ~ExtractInfra(p) BY <1>2, ProcTyped DEF ExtractInfra, At, Control, Initialising
<1>4. CASE ConfigureBackend(p)
  <2>1. Resetting(proc[p]) /\ proc[p].pc = "configure"
    BY <1>2, <1>4, ConfigureCases, ProcTyped DEF Control, Initialising, Resetting
  <2> QED BY <2>1 DEF Workflow, Permitted
<1>5. CASE RemoveEntry(p) BY <1>5, RemoveCases DEF NoInfra
<1>6. CASE Prepare(p)
  <2>1. Normalizes(proc[p].cmd) /\ infra.kind # "cloud" BY <1>6, PrepareCases DEF Normalizes
  <2>2. Local(infra) /\ HasRecord BY <2>1 DEF Local, HasRecord
  <2>3. ~Concrete(infra) BY <1>0, <2>1, <2>2, ConcreteStays DEF Normalizes
  <2> QED BY <2>2, <2>3 DEF Ports
<1>7. ~Finish(p) BY FinishCases
<1> QED BY <1>1, <1>3, <1>4, <1>5, <1>6, <1>7 DEF Infrastructure

\* A deployment with resources is not reconfigured, unless it is local and stopped,
\* however commands are interleaved, fail or are killed, as long as the unlocked
\* backfill has not brought an old state back.
THEOREM DirectoryLiveKeepsConfig == ASSUME OneInitializer PROVE Spec => LiveKeepsConfig
<1>1. Init => Base /\ Identity /\ Ports /\ Workflow BY BaseInit, IdentityInit, PortsInit, WorkflowInit
<1>2. Base /\ Identity /\ Ports /\ Workflow /\ [Next]_vars => (Base /\ Identity /\ Ports /\ Workflow)'
  BY BaseStep, IdentityStep, PortsStep, WorkflowStep
<1>3. Base /\ Identity /\ Ports /\ Workflow /\ [Next]_vars => LiveConfigKept
  BY LiveConfigStep
<1> QED BY <1>1, <1>2, <1>3, PTL DEF Spec, LiveKeepsConfig, LiveConfigKept

-----------------------------------------------------------------------------
(* The types the model states *)

\* What Base says of the files is what TypeOK says of them.
LEMMA BaseTypes == Base => TypeOK
<1> SUFFICES ASSUME Base PROVE TypeOK
  OBVIOUS
<1>1. infra.conf \in Conf
  BY DEF Base, Types, InfraType
<1>2. Parses(infra.conf.ports)
  BY <1>1, ConfigurationAssumption DEF Conf, Parses, Malformed, Unset
<1>3. \A p \in Procs : proc[p].pc = "idle" <=> proc[p].cmd = "none"
  BY DEF Base, Control
<1>4. /\ infra.is \in Presence /\ infra.file \in FileStates /\ infra.id \in Nat
      /\ inst.is \in Presence /\ inst.file \in FileStates /\ inst.id \in Nat
      /\ inst.level \in {"l0", "l1"}
      /\ infra.conf.size \in {"s0", "s1"} /\ infra.conf.engine \in {"auto", "podman", "docker"}
      /\ infra.conf.memory \in {"m0", "m1"}
  BY <1>1 DEF Base, Types, InfraType, InstType, Conf
<1>5. /\ state.is \in FileStates /\ state.id \in Nat /\ state.ident \in Kinds \cup {"blank"}
      /\ state.wf \in {"initialized", "running", "stopped", "failed"} \cup Lifecycle
  BY DEF Base, Types, StateType, Wfs
<1> QED
  BY <1>2, <1>3, <1>4, <1>5 DEF Base, Types, TypeOK, DirType, LockType

\* The files have their types in every state, whatever commands the launchers run.
THEOREM DirectoryTyped == Spec => []TypeOK
<1>1. Spec => []Base BY BaseInit, BaseStep, PTL DEF Spec
<1> QED BY <1>1, BaseTypes, PTL

=============================================================================
