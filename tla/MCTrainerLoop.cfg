CONSTANTS
  EpochLen = 2
  TotalEpochs = 3
  TotalSteps = 5
  SaveFreq = 3
  EsiInstance = TRUE
  CriticWarmup = 2
  MaxKeep = 2
  EpochEndResume = {"empty", "fresh"}
  MaxLives = 4
SPECIFICATION Spec
INVARIANTS
  TrackedCheckpointComplete
  NoBatchTwice
  TrainingComplete
  FailsOnTornTrackerOnly
PROPERTIES
  Ends
  DurableSpec
CHECK_DEADLOCK FALSE
