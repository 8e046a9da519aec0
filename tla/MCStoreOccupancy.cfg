SPECIFICATION MCSpec
CONSTANTS
  u1 = u1  u2 = u2  m1 = m1  m2 = m2  s1 = s1  s2 = s2  c1 = c1  c2 = c2
  None = None
  Customers = {u1, u2}
  Staff = {m1, m2}
  Stores = {s1, s2}
  Capacity <- MCCapacity
  ChainOf <- MCChainOf
  TokenChain <- MCTokenChain
  Codes <- MCCodes
  Disabled = {}
  Slots = {r1, r2}
  MaxCount = 2
  Scenarios <- MCScenarios
  Samples <- MCSamples
INVARIANTS
  OccupancyIsCustomersInside
  CountStaysInBounds
  StoresShownRight
CHECK_DEADLOCK FALSE
