CONSTANTS
  q1 = q1
  q2 = q2
  p1 = p1
  p2 = p2
  Papers = {p1, p2}
  Score <- MCScore
  MaxSteps = 3
  MaxParallelCalls = 2
  MaxEmittedCalls = 3
  Queries = {q1}
  RewardTopK = 1
  SearchCost = 1
  ExpandCost = 0
  UseDiscreteReward = FALSE
  RewardThreshold = 2
SPECIFICATION Spec
INVARIANTS
  CreditedOnce
  ExpandedOnce
  QueryInOneStep
  ExpandsWhatWasListed
  RewardBackedByPool
PROPERTIES
  Terminates
  LedgerSpec
