SPECIFICATION Spec
CONSTANTS
    Total = 5
    Configs <- LongConfigs
    PendingMax = 2
    TestFreq = 2
    MaxFailures = 0
INVARIANTS
    FreshnessBound
    LagBound
    DropsBounded
