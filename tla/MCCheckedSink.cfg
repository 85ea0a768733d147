CONSTANTS
  x = x
  y = y
  z = z
  Block = {x, y, z}
  Units <- MCUnits
  Position <- MCPosition
  Deps <- MCDeps
  MaxEmission = 2
  MaxCalls = 5
  MaxBlocks = 2
SPECIFICATION SinkSpec
INVARIANTS SinkInvariant VerdictsAreExact
