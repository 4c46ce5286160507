SPECIFICATION FairSpec
CONSTANTS
    None = None
    Procs = {p1}
    PruneOnly = {}
    MaxHeight = 3
    MaxFile = 2
    Keep = 1
    Window = 2
    MaxDamage = 0
    RetainFrom = None
    UseCeiling = FALSE
    KeepLatest = 1
    BatchFiles = 1
    PruneAfter = TRUE
    MaxFaults = 1
    MaxAdvance = 1
    p1 = p1
PROPERTIES PassEnds Heals BacklogIsPruned
