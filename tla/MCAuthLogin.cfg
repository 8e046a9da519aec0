SPECIFICATION MCSpec
CONSTANTS
  None = None
  Kid <- MCKid
  Key <- MCKey
  Samples <- MCSamples
  NoKid = NoKid
  Default = Default
  Bad = Bad
  Users = {u1}
  Devices = {d1, d2}
  IPs = {i1}
  Limit <- MCLimit
  Slots = {r1, r2}
  MaxSends = 2
  MaxTokens = 4
  MaxEnds = 1
  MaxWrong = 4
  Scenarios <- MCScenarios
SYMMETRY Symmetry
INVARIANTS
  TypeOK
  CodesAreLimited
  SignOutIsExact
  AuthViewsRight
CHECK_DEADLOCK FALSE
