\* Both platforms, new and legacy deployments, four commands, three things that go wrong.
SPECIFICATION Spec
CONSTANTS
    Scenarios = {"mac", "macLegacy", "host", "overlay"}
    Careful = TRUE
    Downgrades = FALSE
    MaxRunner = 2
    MaxCommands = 4
    MaxTrouble = 3
INVARIANTS DataKept ServedIsNewest PasswordsKept RecordsTrue
PROPERTIES CommandsEnd
CHECK_DEADLOCK FALSE
