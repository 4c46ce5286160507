SPECIFICATION Spec
CONSTANTS
    MaxSnapshots = 2
    MaxFaults = 2
INVARIANTS LatestIsComplete RestoredTogether NeverMixed
PROPERTIES PublishedStays KeepsPromise
