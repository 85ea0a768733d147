CONSTANTS
  Capacity = 3
  MaxGeneration = 1
  family = family
  directory = directory
  other = other
  Model = {m}
  FactorPayload = {a, b}
  PoolId <- MCPoolId
  BatchesId <- family
  LocationsId <- directory
  ForeignKeys <- MCForeignKeys
  ReserveSizes = {3}
  MaxIssued = 3
SPECIFICATION Spec
VIEW MCView
SYMMETRY MCSymmetry
INVARIANTS BatchInvariant SelectionExact
PROPERTY StoresRefined
