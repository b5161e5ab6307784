SPECIFICATION Spec
CONSTANTS
    Total = 3
    Configs <- MCConfigs
    PendingMax = 2
    TestFreq = 2
    MaxFailures = 1
INVARIANTS
    SampleInOnePlace
    NoGenerationDuringSync
PROPERTY
    TrainingEnds
