CONSTANTS
  Calls = {c1, c2}
  Threshold = 2
  ResetAfter = 1
SPECIFICATION FairSpec
INVARIANTS
  BreakerTypeOK
PROPERTIES
  Recovers
  Trips
