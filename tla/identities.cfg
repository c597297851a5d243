SPECIFICATION Spec
CONSTANTS
  a0 = a0
  a1 = a1
  a2 = a2
  x1 = x1
  l1 = l1
  x2 = x2
  u2 = u2
  l2 = l2
  s1 = s1
  d1 = d1
  d2 = d2
  u1 = u1
  w1 = w1
  w2 = w2
  q1 = q1
  t1 = t1
  t2 = t2
  None = None
  Accounts = {a0, a1, a2}
  Principals = {x1, x2}
  Sessions = {s1}
  Logins = {l1, l2}
  FreshOf <- TheirAccount
  MaxVersion = 3
  Destinations = {d1, d2}
  Usernames = {u1, u2}
  Addresses = {t1, t2}
  Writers = {w1, w2}
  Payers = {q1}
  MaxEdits = 4
  Bounds <- Regions
INVARIANTS
  LoginsFindTheirAccount
  AuditTellsState
  DirectoryIsUnambiguous
PROPERTIES
  PromotionKeepsAPrimary
  ImplementsMemory
SYMMETRY DirectorySymmetry
CHECK_DEADLOCK FALSE
