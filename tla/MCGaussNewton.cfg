CONSTANTS
  Graph = {"valley", "ridge", "still"}
  NoVariables = {"still"}
  Estimate <- MCEstimate
  Cost <- MCCost
  Stationary <- MCStationary
  MaxIterations = 3
SPECIFICATION Spec
INVARIANTS LoopInvariant ReportIsTrue CovarianceOfTheResult
PROPERTIES RefinesEstimates CallsReturn
