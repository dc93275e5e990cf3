SPECIFICATION StaffSpec
CONSTANTS
  u1 = u1
  u2 = u2
  t1 = t1
  t2 = t2
  r1 = r1
  r2 = r2
  e1 = e1
  e2 = e2
  None = none
  User <- Users2
  Token <- Tokens2
  Req <- Reqs2
  Editor <- Editors2
  MaxHash = 1
SYMMETRY Symmetry
PROPERTIES
  OwnerRemains
CHECK_DEADLOCK FALSE
