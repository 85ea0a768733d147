SPECIFICATION Spec
CONSTANTS
  P = 5
  Retained = 2
  RetainedWidth = 2
  EliminatedWidth = 1
  Emission <- MCEmission
  Dimensions <- MCDimensions
  MaxSent <- MCMaxSent
  Selections <- MCSelections
  Lambda = {0, 1}
  MaxRounds = 2
INVARIANTS
  NormalInvariant
  LsmrInvariant
  DiagnosticsVouch
  RangesJudgedExactly
  SchurInvariant
  EliminationIsExact
PROPERTIES
  RefinesLinearBackend
