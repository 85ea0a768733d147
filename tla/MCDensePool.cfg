CONSTANTS
  Capacity = 3
  MaxGeneration = 1
  self = self
  other = other
  Value = {a, b}
  PoolId <- MCPoolId
  Self <- self
  ForeignKeys <- MCForeignKeys
SPECIFICATION Spec
INVARIANTS PoolInvariant RefusedOnlyWhenSpent
PROPERTY RefinesHandleStore
