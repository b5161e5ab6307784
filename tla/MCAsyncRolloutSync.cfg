SPECIFICATION Spec
CONSTANTS
    Total = 3
    Configs <- SyncConfigs
    PendingMax = 2
    TestFreq = 2
    MaxFailures = 0
INVARIANT
    NoTaskDuringSync
