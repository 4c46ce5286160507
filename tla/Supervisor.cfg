SPECIFICATION FairSpec
CONSTANTS
    MaxOps = 2
    MaxFaults = 2
INVARIANTS NothingOutlives StopsOnce AtMostOneMore
PROPERTIES LowDiskStopsCore UnsafeCoreStopped StopEnds
