SPECIFICATION CheckSpec
CONSTANTS
    None = None
    Procs = {p1}
    PruneOnly = {}
    MaxHeight = 3
    MaxFile = 2
    Keep = 1
    Window = 2
    MaxDamage = 0
    RetainFrom = 1
    UseCeiling = FALSE
    KeepLatest = 1
    BatchFiles = 2
    PruneAfter = TRUE
    MaxFaults = 0
    MaxAdvance = 1
    MaxLag = 3
    p1 = p1
INVARIANT AwaitingMeansPrunable
CHECK_DEADLOCK FALSE
