SPECIFICATION MCSpec
CONSTANTS
  p1 = p1  p2 = p2
  None = None
  Customers = {c1, c2}
  Products = {p1, p2}
  Supply <- MCSupply
  Prices <- MCPrices
  Close <- MCClose
  Quantities <- MCQuantities
  Surplus = 1
  Slots = {r1, r2}
  MaxOrders = 2
  MaxExpiries = 1
  Scenarios <- MCScenarios
  Samples <- MCSamples
SYMMETRY Symmetry
INVARIANTS
  UnitsAreKept
  OneCheckoutPerLock
  ScannedPriceIsCharged
  CartPricedRight
CHECK_DEADLOCK FALSE
