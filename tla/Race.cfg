SPECIFICATION Spec
CONSTANTS
    None = None
    Procs = {p1,p2}
    PruneOnly = {}
    MaxHeight = 3
    MaxFile = 2
    Keep = 1
    Window = 1
    MaxDamage = 0
    RetainFrom = None
    UseCeiling = FALSE
    KeepLatest = 0
    BatchFiles = 1
    PruneAfter = TRUE
    MaxFaults = 1
    MaxAdvance = 1
    p1 = p1
    p2 = p2
INVARIANT MarkerIsEvidence
PROPERTIES MarkersAdvance KeepsPromise MarksAgree
