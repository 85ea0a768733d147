CONSTANTS
  Capacity = 2
  MaxGeneration = 0
  family = family
  directory = directory
  other = other
  Model = {m}
  FactorPayload = {a, b}
  PoolId <- MCPoolId
  BatchesId <- family
  LocationsId <- directory
  ForeignKeys <- MCForeignKeys
  ReserveSizes = {2}
  MaxIssued = 3
SPECIFICATION Spec
VIEW MCView
SYMMETRY MCSymmetry
INVARIANT BatchesStayAlive
