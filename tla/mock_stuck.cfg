SPECIFICATION FairSpec
CONSTANTS
  e1 = e1
  e2 = e2
  w1 = w1
  w2 = w2
  Executions = {e1}
  Workers = {w1, w2}
  Scenarios <- ShippedScenario
  Versions <- SmallVersions
  MaxFaults = 1
PROPERTIES
  RecoveredSubmittingReconciles
