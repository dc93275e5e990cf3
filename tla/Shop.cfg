SPECIFICATION ShopSpec
CONSTANTS
  o1 = o1
  c1 = c1
  a1 = a1
  q1 = q1
  q2 = q2
  u1 = u1
  u2 = u2
  s1 = s1
  s2 = s2
  p1 = p1
  p2 = p2
  m1 = m1
  m2 = m2
  w1 = w1
  w2 = w2
  Order <- Orders1
  Customer <- Customers1
  Net = 10
  Shipping = {1, 2}
  MaxVersion = 4
  Routes = {"paid", "processing", "shipped", "completed", "cancelled"}
  Revoked = revoked
  Missing = missing
  None = none
  Replica <- Replicas1
  Request <- Requests2
  Origin <- Origins2
  Shop <- Shops2
  TTL = 2
  Slow = 1
  Process <- Processes2
  Rules = 1
  Limit = 2
  Window = 2
  Skew = 1
  Mail <- Mails2
  Worker <- Workers2
  MaxDeliveries = 2
INVARIANTS
  AuditReplays
  ChecksHold
  PaidBeforeWork
  LimitsHold
  ToldOnce
PROPERTIES
  NoLostUpdate
  ImplementsLifecycle
  StaleForTTL
  MailsEnd
CHECK_DEADLOCK FALSE
