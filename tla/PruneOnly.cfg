SPECIFICATION Spec
CONSTANTS
    None = None
    Procs = {p1,p2}
    PruneOnly = {p2}
    MaxHeight = 3
    MaxFile = 3
    Keep = 1
    Window = 2
    MaxDamage = 1
    RetainFrom = 1
    UseCeiling = TRUE
    KeepLatest = 1
    BatchFiles = 1
    PruneAfter = FALSE
    MaxFaults = 1
    MaxAdvance = 1
    p1 = p1
    p2 = p2
INVARIANTS ConsumerNotStarved RetainedFilesStay
PROPERTY DeletedWereVerified
