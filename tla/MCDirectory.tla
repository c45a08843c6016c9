---------------------------- MODULE MCDirectory ----------------------------
(* The deployment directory for TLC: two processes, an older and a newer launcher. *)
EXTENDS Directory

KnownServices == <<"db">>
CatalogDef == KnownServices
Versions == [p \in Procs |-> IF p = "p1" THEN 2 ELSE 3]
VersionDef == Versions
With(db, ui) == [s \in Services |-> IF s = "db" THEN db ELSE ui]
C(cmd, kind, raw) == [cmd |-> cmd, kind |-> kind, raw |-> raw]
Rejected == [NoRaw EXCEPT !.names = {"size", "level"}, !.size = "s1", !.level = "bad"]
Level == [NoRaw EXCEPT !.names = {"level"}, !.level = "l1"]
Docker == [NoRaw EXCEPT !.names = {"engine"}, !.engine = "docker"]
Memory == [NoRaw EXCEPT !.names = {"memory"}, !.memory = "m1"]
Low == [NoRaw EXCEPT !.names = {"memory"}, !.memory = "low"]
Ports == [NoRaw EXCEPT !.names = {"ports"}, !.ports = With(0, 2)]
Plain(p, kind) ==
    CASE p = "p1" -> {"remove", "purge"}
      [] p # "p1" /\ kind = "vm" -> {"deploy", "destroy"}
      [] p # "p1" /\ kind = "cloud" -> {"deploy", "stop", "destroy"}
      [] OTHER -> {"deploy", "start", "stop", "destroy"}
CommandLines == [p \in Procs |->
    UNION {{C(cmd, kind, NoRaw) : cmd \in Plain(p, kind)} : kind \in Kinds} \cup
    (IF p = "p1"
     THEN {C("init", "cloud", NoRaw), C("install", "host", Ports),
           C("install", "cloud", Rejected), C("init", "vm", Low), C("init", "vm", Memory),
           C("set", "cloud", Level), C("reset", "vm", Memory)}
     ELSE {C("set", "cloud", Rejected), C("set", "host", Docker)})]
WrittenDef == {1, 4}
CommandsDef == CommandLines
Busy == {{}, {1, 2}}
BusyDef == Busy

\* The command lines are such as the theorems of DirectoryProofs suppose.
ASSUME MCHypotheses == OneInitializer

=============================================================================
