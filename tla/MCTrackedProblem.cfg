CONSTANTS
  State = {x, y}
  Factor = {f, g}
  Version = {v, w}
  MaxChanges = 6
SPECIFICATION TrackedSpec
SYMMETRY MCSymmetry
INVARIANT JournalInvariant
PROPERTY VoidedFirst
