SPECIFICATION Spec
CONSTANTS
    p1 = p1
    p2 = p2
    tool = tool
    archive = archive
    preset = preset
    image = image
    Procs = {p1, p2}
    Keys = {tool, preset, archive}
    Checked = {tool}
    Embedded = {preset}
    Local = {archive}
    Git = {}
    Extracted = {tool, archive}
    CleanModes = {"stale", "invalid", "all", "partial-downloads", "dry-run"}
    Faults = {"crash", "signal", "io", "index"}
    MaxVersion = 2
    MaxCalls = 3
INVARIANT HandedSound
INVARIANT FullCleanupEmpties
PROPERTY InUseKept
CHECK_DEADLOCK FALSE
SYMMETRY Symmetry
