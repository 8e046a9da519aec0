SPECIFICATION MCSpec
CONSTANTS
  p1 = p1  p2 = p2
  m1 = m1  m2 = m2  m3 = m3
  None = None
  Messages = {m1, m2, m3}
  Payments = {p1, p2}
  PaymentOf <- MCPaymentOf
  Unsellable = {m3}
  Workers = {w1, w2}
  Requests = {g1}
  Attempts = 2
  Scenarios <- MCScenarios
INVARIANTS
  OneOrderPerPayment
  TokenIsKnown
  CommittedIsSettled
PROPERTIES
  OrderIsFulfilled
  PaymentIsSettled
CHECK_DEADLOCK FALSE
