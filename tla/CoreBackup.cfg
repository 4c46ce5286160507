SPECIFICATION FairSpec
CONSTANTS
    Core = core
    Consumers = {archiver, dumplings}
    MaxRuns = 2
    MaxFaults = 2
    MaxSignals = 2
INVARIANTS CopiedOffline NoHiddenOutage
PROPERTIES CoreFirst Resumed
