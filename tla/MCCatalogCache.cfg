SPECIFICATION MCSpec
CONSTANTS
  b1 = b1  b2 = b2
  None = None
  Barcodes = {b1, b2}
  Slots = {r1, r2}
  MaxWrites = 3
  MaxStock = 1
  Scenarios <- MCScenarios
  Samples <- MCSamples
SYMMETRY Symmetry
INVARIANTS
  CopiesFollowTheRow
  CopiesAgree
  PagesShownRight
PROPERTIES
  LookupSurvivesRedis
CHECK_DEADLOCK FALSE
