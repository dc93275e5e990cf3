SPECIFICATION BothSpec
CONSTANTS
  k1 = k1
  v1 = v1
  v2 = v2
  c1 = c1
  c2 = c2
  r1 = r1
  r2 = r2
  j1 = j1
  w1 = w1
  w2 = w2
  Guest = guest
  None = none
  NoJob = nojob
  Cart <- Carts
  Variant <- Variants2
  Customer <- Customers2
  Request <- Requests2
  MaxQty = 1
  Job <- Jobs1
  Worker <- Workers2
  Batches = 2
  MaxDeliveries = 2
  Slow = TRUE
INVARIANTS
  OrderIsCart
  LockSuffices
  DoneIsWhole
  AppliedOnceUnlessShared
  AckedUnlessUnrecorded
PROPERTIES
  OwnerStays
  ImplementsCartDecides
  TapsAnswered
  JobsEnd
CHECK_DEADLOCK FALSE
