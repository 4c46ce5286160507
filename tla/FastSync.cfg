SPECIFICATION Spec
CONSTANTS
    None = None
    Procs = {p1}
    PruneOnly = {}
    MaxHeight = 4
    MaxFile = 3
    Keep = 1
    Window = 3
    MaxDamage = 0
    RetainFrom = None
    UseCeiling = FALSE
    KeepLatest = 1
    BatchFiles = 2
    PruneAfter = TRUE
    MaxFaults = 0
    MaxAdvance = 3
    p1 = p1
INVARIANT NothingLost
