SPECIFICATION FairSpec
CONSTANTS
  r1 = r1
  r2 = r2
  p1 = p1
  h1 = h1
  h2 = h2
  t1 = t1
  t2 = t2
  Disagreements = {TRUE, FALSE}
  Requests = {r1}
  Retrying = {r1}
  Preparers = {}
  Reconcilers = {h1}
  Manual = {h1}
  WorkerOf <- OneWorker
  AheadWorkers = {}
  ClaimTimes = {t1}
  MaxGeneration = 2
INVARIANTS
  AggregateFollowsEvidence
PROPERTIES
  FinalizedEventuallyCompleted
  ImplementsSingleSettlement
CHECK_DEADLOCK FALSE
