CONSTANTS
  t1 = t1
  s1 = s1
  s2 = s2
  u1 = u1
  u2 = u2
  NoRequest = NoRequest
  Tokens = {t1}
  Stores = {s1, s2}
  Users = {u1, u2}
  Requests = {r1, r2, r3}
  StoreOf <- MCStoreOf
  UserOf <- MCUserOf
  Scenarios <- MCScenarios
SPECIFICATION FairSpec
INVARIANTS
  ReleaseIsDue
  RefusalIsJust
PROPERTIES
  ImplementsOneTimeToken
  PresentedTokenIsHonoured
CHECK_DEADLOCK FALSE
