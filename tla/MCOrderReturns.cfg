SPECIFICATION ReturnsSpec
CONSTANTS
  a = a  b = b  c = c  o1 = o1  o2 = o2
  Orders = {o1, o2}
  Items = {a, b, c}
  OrderOf <- MCOrderOf
  QuantityOf <- MCQuantityOf
  PriceOf <- MCPriceOf
  Returnable = {a, b}
  Lists <- MCLists
  Inexact = {29, 58}
  Slots = {r1, r2}
  MaxReturns = 2
  MaxRestored = 2
  Conditions <- MCConditions
SYMMETRY Symmetry
INVARIANTS
  ReturnsTypeOK
  ReturnIsHandledOnce
  RefundIsInBounds
  AcceptedIsSettled
CHECK_DEADLOCK FALSE
