SPECIFICATION FairPaySpec
CONSTANTS
  o1 = o1
  c1 = c1
  Order <- Orders1
  Customer <- Customers1
  Net = 1000
  Shipping = {0, 100}
  MaxVersion = 2
  Routes = {}
  MaxAttempts = 2
  MaxHooks = 1
INVARIANTS
  PaidInFull
PROPERTIES
  SettledIsRecorded
CHECK_DEADLOCK FALSE
