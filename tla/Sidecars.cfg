\* Both runtimes, two sidecars, two things that go wrong.
SPECIFICATION Spec
CONSTANTS
    Names <- MCNames
    Catalog <- MCCatalog
    Runtimes = {"host", "vm"}
    Window = 2
    Delay = 1
    MaxTrouble = 2
INVARIANTS Converged InitializedIsEmpty
PROPERTIES DisabledIsGone CommandsEnd
