CONSTANTS
  Capacity = 2
  MaxGeneration = 1
  x1 = x1
  x2 = x2
  y1 = y1
  f1 = f1
  f2 = f2
  f3 = f3
  priors_pool = priors_pool
  PoolId = {priors_pool}
  PriorsId = priors_pool
  State <- MCState
  Factor <- MCFactor
  Width <- MCWidth
  PoolOf <- MCPoolOf
  Deps <- MCDeps
SPECIFICATION Spec
INVARIANTS GraphInvariant SeparatorIsExact InformationOnce
PROPERTY RefinesInformationGraph
