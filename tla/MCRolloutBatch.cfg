CONSTANTS
  r1 = r1
  r2 = r2
  Replicas = {r1, r2}
  BatchSizes = {1, 2}
  RolloutN = 2
  NumWorkers = 2
  MaxSteps = 2
  WorldSize = 2
  AdvEstimator = "gae"
SPECIFICATION Spec
INVARIANTS
  FlowsRunAwake
  RowsAligned
  EveryStepOnce
PROPERTIES
  IterationEnds
  CallSpec
CHECK_DEADLOCK FALSE
