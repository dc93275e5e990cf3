SPECIFICATION PaySpec
CONSTANTS
  o1 = o1
  c1 = c1
  Order <- Orders1
  Customer <- Customers1
  Net = 1000
  Shipping = {0}
  MaxVersion = 1
  Routes = {"paid", "cancelled"}
  MaxAttempts = 2
  MaxHooks = 2
INVARIANTS
  OnePending
  PaidTogether
  AfterCancelTold
PROPERTIES
  PaidIsFinal
  ImplementsOrders
CHECK_DEADLOCK FALSE
