SPECIFICATION Spec
CONSTANTS
  c1 = c1
  c2 = c2
  m1 = m1
  m2 = m2
  g1 = g1
  g2 = g2
  s1 = s1
  r1 = r1
  r2 = r2
  None = none
  Customer <- Customers2
  Email <- Emails2
  Subject <- Subjects2
  Session <- Sessions1
  Req <- Reqs2
  MaxEpoch = 2
SYMMETRY Symmetry
INVARIANTS
  CanSignIn
  SignedOutStays
  LoginsErased
  SpentLinks
CHECK_DEADLOCK FALSE
