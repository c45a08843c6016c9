\* Two launchers of different versions on one directory, two deployments, one thing that goes wrong.
SPECIFICATION Spec
CONSTANTS
    Catalog <- CatalogDef
    Unknown = {"ui"}
    MaxPort = 2
    DefaultPort = 2
    Procs = {"p1", "p2"}
    Commands <- CommandsDef
    Kinds = {"cloud", "host", "vm"}
    Version <- VersionDef
    Written <- WrittenDef
    BusyPorts <- BusyDef
    MaxId = 2
    MaxTrouble = 1
INVARIANTS SetsPersist ConfigurationConsistent Recoverable
PROPERTY LiveKeepsConfig
CHECK_DEADLOCK FALSE
