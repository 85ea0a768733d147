CONSTANTS
  t1 = t1
  t2 = t2
  t3 = t3
  Thread <- MCThread
  MaxId <- MCMaxId

SPECIFICATION IdsSpec
SYMMETRY Threads

INVARIANTS
  IdentitiesAreUnique
  PanicsOnlyWhenSpent
