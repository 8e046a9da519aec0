CONSTANTS
  p1 = p1
  a1 = a1
  a2 = a2
  a3 = a3
  auth = auth
  capt = capt
  fail = fail
  paid = paid
  drop = drop
  drop2 = drop2
  other = other
  r1 = r1
  r2 = r2
  d1 = d1
  d2 = d2
  None = None
  Payments = {p1}
  Slots = {d1, d2}
  Attempts = {a1, a2, a3}
  Events = {auth, capt, fail, paid, drop, drop2, other}
  Refunds = {r1, r2}
  PaymentOf <- MCPaymentOf
  AttemptOf <- MCAttemptOf
  KindOf <- MCKindOf
  IdOf <- MCIdOf
  Scenarios <- MCScenarios
SPECIFICATION Spec
SYMMETRY Symmetry
INVARIANTS
  EventAnnouncedOnce
  StatusIsBacked
  RefundIsRecorded
  AcknowledgedIsAccountedFor
