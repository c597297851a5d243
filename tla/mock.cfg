SPECIFICATION FairSpec
CONSTANTS
  e1 = e1
  e2 = e2
  w1 = w1
  w2 = w2
  Executions = {e1, e2}
  Workers = {w1, w2}
  Scenarios <- AllScenarios
  Versions <- SmallVersions
  MaxFaults = 2
INVARIANTS
  SubmittedOnce
  DurableBeforeContact
  ReceiptIffSettled
PROPERTIES
  EventuallyTerminal
