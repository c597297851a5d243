SPECIFICATION MCSpec
CONSTANTS
  p1 = p1
  p2 = p2
  s1 = s1
  s2 = s2
  n1 = n1
  n2 = n2
  b1 = b1
  b2 = b2
  d1 = d1
  d2 = d2
  e1 = e1
  Payments = {p1, p2}
  Signatures = {s1, s2}
  Slots = {n1, n2}
  Blockhashes = {b1, b2}
  Pdas = {d1, d2}
  RuntimeEvents = {e1}
  Notes = {"SUBMISSION_STARTED", "RECEIPT_VERIFIED"}
  MaxVersion <- Bounds
  Brought <- MCBrought
INVARIANTS
  HistoryTellsStatus
  SettlesOnePayment
  FailureKnowsSignature
PROPERTIES
  EvidenceStays
  ImplementsMemoryStore
SYMMETRY StoreSymmetry
CHECK_DEADLOCK FALSE
