CONSTANTS
  r1 = r1
  r2 = r2
  Replicas = {r1, r2}
  BatchSizes = {1, 2, 3}
  RolloutN = 1
  NumWorkers = 2
  MaxSteps = 1
  WorldSize = 5
  AdvEstimator = "token_gae"
SPECIFICATION Spec
INVARIANTS
  EveryStepOnce
PROPERTIES
  IterationEnds
CHECK_DEADLOCK FALSE
