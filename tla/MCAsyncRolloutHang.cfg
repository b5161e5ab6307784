SPECIFICATION Spec
CONSTANTS
    Total = 3
    Configs <- HangConfigs
    PendingMax = 2
    TestFreq = 2
    MaxFailures = 0
PROPERTY
    RolloutRecovers
