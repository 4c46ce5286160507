SPECIFICATION OverlapSpec
CONSTANTS
    MaxSnapshots = 2
    MaxFaults = 2
INVARIANT LatestIsComplete
