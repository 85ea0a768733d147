CONSTANTS
  Version = {0, 1}
  Offset <- MCOffset
SPECIFICATION TrialSpec
INVARIANT TrialInvariant
PROPERTY RefinesEstimates
