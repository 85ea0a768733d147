SPECIFICATION Spec
CONSTANTS
  p = p
  q = q
  m = m
  a1 = a1
  a2 = a2
  a3 = a3
  b1 = b1
  Problem = {p, q}
  Method = {m}
  Block = {a1, a2, a3, b1}
  Home <- MCHome
  Width <- MCWidth
  Initial <- MCInitial
  Request <- MCRequest
  Tolerance = {1}
  MaxVersion = 1
  MaxCalls = 2
INVARIANTS
  MatrixNamesItsBlocks
PROPERTIES
  JudgedBeforehand
