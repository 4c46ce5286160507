SPECIFICATION PartsSpec
CONSTANTS
    Hashes = {a, b, c, d}
    a = a
    b = b
    c = c
    d = d
    MaxDepth = 3
    None = None
    Chunk = 4
    MaxCells = 12
    MaxPayload = 3
    MaxCrashes = 2
    Names = {n1, n2}
    n1 = n1
    n2 = n2
    NoFile = NoFile
    Torn = Torn
    MaxVersion = 2
    MaxFaults = 2
    Unset = Unset
    Refused = Refused
    MaxEdits = 2
SYMMETRY Symmetric
INVARIANTS HeightsTrue AskedOncePerGroup RangesFaithful
INVARIANTS AcceptedIsEvidence OwnMarkersAccepted ReaderNotMisled
INVARIANTS OnlyEndlessRaises
INVARIANTS CompletedFileReadsInFull NothingStoredIsMissed
