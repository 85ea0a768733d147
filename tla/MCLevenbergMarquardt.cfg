CONSTANTS
  Graph = {"valley", "ridge", "still"}
  NoVariables = {"still"}
  Estimate <- MCEstimate
  Cost <- MCCost
  Stationary <- MCStationary
  MaxIterations = 2
  MaxTrials = 3
  MinDamping = 0
  InitialDamping = 1
  MaxDamping = 3
SPECIFICATION Spec
INVARIANTS LoopInvariant VerdictIsEarned CovarianceOfTheResult
PROPERTIES OnlyDownhill RefinesEstimates
