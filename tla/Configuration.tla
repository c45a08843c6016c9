--------------------------- MODULE Configuration ---------------------------
(***************************************************************************)
(* What the options of a deployment mean: how overrides are patched into   *)
(* the stored configuration, which values each backend refuses, and how    *)
(* the host ports of a local deployment are chosen                         *)
(* (internal/deploy/configuration.go, local_backend.go, local_ports.go,    *)
(* installation_variables.go and internal/tofu).                           *)
(*                                                                         *)
(* Three kinds of deployment are told apart: "cloud" (OpenTofu), "host"    *)
(* (containers on the user's machine) and "vm" (the macOS machine).  One   *)
(* infrastructure variable (size) and one installation variable (level)    *)
(* stand for those of a preset; "bad" is a raw value that does not parse.  *)
(***************************************************************************)
EXTENDS Integers, SequencesExt

CONSTANTS
    Catalog,        \* localServiceCatalog: the services the launcher knows, in order
    Unknown,        \* names of services it does not know
    MaxPort,        \* the largest port; 1 is the smallest one it selects
    DefaultPort     \* the default host port of a service

Services == ToSet(Catalog) \cup Unknown
Unset == -1
AutoPorts == [s \in Services |-> Unset]
Malformed == MaxPort + 1

ASSUME ConfigurationAssumption ==
    /\ Catalog \in Seq(Services) /\ Catalog # <<>> /\ IsInjective(Catalog) /\ ToSet(Catalog) \cap Unknown = {}
    /\ MaxPort \in Nat /\ DefaultPort \in 1..MaxPort

PortMaps == [Services -> Unset..Malformed]
InfraOptions(kind) ==
    CASE kind = "cloud" -> {"size"}
      [] kind = "host" -> {"ports", "engine"}
      [] kind = "vm" -> {"ports", "memory"}

\* What a preset declares when nothing has been configured.
RawDefaults == [size |-> "s0", ports |-> AutoPorts, engine |-> "auto", memory |-> "m0"]

\* The overrides of a command: the options it names, and the raw value of each.
Raw == [names : SUBSET {"size", "ports", "engine", "memory", "level"},
        size : {"s0", "s1", "bad"}, ports : PortMaps,
        engine : {"auto", "podman", "docker", "bad"}, memory : {"m0", "m1", "low"},
        level : {"l0", "l1", "bad"}]

\* patchConfigurationValues and configValuesRawMap: the named options are replaced.
PatchConfigurationValues(conf, raw) ==
    [o \in DOMAIN conf |-> IF o \in raw.names THEN raw[o] ELSE conf[o]]

-----------------------------------------------------------------------------
(* Local ports *)

\* parseLocalPortMappings: a port outside 0..MaxPort is refused.
Parses(ports) == \A s \in Services : ports[s] # Malformed

\* The check of resolve on the positive ports of a mapping.
Distinct(ports) ==
    \A s, t \in Services : s # t /\ ports[s] > 0 => ports[s] # ports[t]

\* selectPort and tryPort: from the default upwards, then from the smallest port
\* to the default; 0 when no port is left.
SelectPort(reserved, busy) ==
    LET free == (1..MaxPort) \ (reserved \cup busy)
        above == {n \in free : n >= DefaultPort}
        Least(S) == CHOOSE n \in S : \A m \in S : n <= m
    IN IF above # {} THEN Least(above) ELSE IF free # {} THEN Least(free) ELSE 0

\* localPortAllocator.resolve: every service of the catalog that has no positive
\* port gets one that no other service and no listener of the host uses.
Allocate(ports, busy) ==
    LET after[n \in 0..Len(Catalog)] ==
          IF n = 0 THEN ports
          ELSE LET m == after[n - 1]
                   s == Catalog[n]
               IN IF m[s] > 0 THEN m
                  ELSE [m EXCEPT ![s] = SelectPort({m[t] : t \in Services} \ {0, Unset}, busy)]
    IN after[Len(Catalog)]

\* The mappings resolve returns without an error.
Resolvable(ports, busy) ==
    /\ Parses(ports) /\ Distinct(ports)
    /\ \A s \in ToSet(Catalog) : Allocate(ports, busy)[s] > 0
    /\ \A s \in Unknown : ports[s] # 0

\* localPortsNeedNormalization
LocalPortsNeedNormalization(ports) ==
    ports = AutoPorts \/ (Parses(ports) /\ \E s \in ToSet(Catalog) : ports[s] \in {Unset, 0})

-----------------------------------------------------------------------------
(* The backends' Configure *)

\* Mutant: the recorded engine is not asked.
AcceptsAnyEngine(choice, recorded) == choice # "bad"

\* rejectRecordedContainerEngineChange and applyLocalContainerEngineOverride.
EngineAccepted(choice, recorded) ==
    /\ choice # "bad"
    /\ choice # "auto" /\ recorded # "none" => choice = recorded

\* validateLocalRuntimeConfig and validateLocalInitMemory, which only macOS asks.
MemoryAccepted(kind, raw) == kind = "vm" => raw.memory # "low"

\* tofu.ParseOverrideStrings, or localBackend.Configure up to its write.
InfraAccepted(kind, raw, recorded, busy) ==
    CASE kind = "cloud" -> raw.size # "bad"
      [] kind = "host" -> EngineAccepted(raw.engine, recorded) /\ Resolvable(raw.ports, busy)
      [] kind = "vm" -> Resolvable(raw.ports, busy) /\ MemoryAccepted(kind, raw)

\* What the backend stores: options of other kinds are dropped, ports are concrete.
Stored(kind, raw, busy) ==
    [o \in DOMAIN raw |->
        IF o \notin InfraOptions(kind) THEN RawDefaults[o]
        ELSE IF o = "ports" THEN Allocate(raw.ports, busy) ELSE raw[o]]

\* parseInstallVarValue
InstallAccepted(level) == level # "bad"

=============================================================================
