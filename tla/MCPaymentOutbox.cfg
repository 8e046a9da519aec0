CONSTANTS
  q1 = q1
  q2 = q2
  q3 = q3
  k1 = k1
  k2 = k2
  k3 = k3
  None = None
  Requests = {q1, q2, q3}
  Keys = {k1, k2, k3}
  KeyOf <- MCKeyOf
  Faults = {"db", "gateway", "crash"}
  Created <- MCCreated
  Relays = {r1, r2}
  Limit = 2
  Poison = {1}
  RelayFaults = {"db", "kafka", "crash", "sigterm"}
SPECIFICATION MCSpec
INVARIANTS
  OutboxIsFaithful
  MarkIsFinal
PROPERTIES
  EveryPaymentIsAnnounced
