CONSTANTS
  a = a
  b = b
  c = c
  x = x
  y = y
  o1 = o1
  o2 = o2
  o3 = o3
  Trajectories = {a, b, c}
  Prompts = {x, y}
  Estimators = {"gae", "token_gae", "reinforce_plus_plus", "reinforce_plus_plus_baseline", "grpo", "rloo", "gigpo"}
  MaxSteps = 2
  MaxRows = 3
  RespLen = 3
  RowKinds <- MCRowKinds
  Score <- MCScore
  Value <- MCValue
  Gamma = 2
  Lam = 3
  StepAdvantageW = 5
  GigpoMode = "mean_std_norm"
  EnableSimilarity = TRUE
  Similar <- MCSimilar
SPECIFICATION Spec
SYMMETRY MCSymmetry
INVARIANTS
  StepAdvantages
  TokenAdvantages
  OutcomeAdvantages
  GigpoAdvantages
CHECK_DEADLOCK FALSE
