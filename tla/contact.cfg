SPECIFICATION MCSpec
CONSTANTS
  r1 = r1
  r2 = r2
  p1 = p1
  h1 = h1
  h2 = h2
  t1 = t1
  t2 = t2
  Disagreements = {FALSE}
  Requests = {r1, r2}
  Retrying = {r1, r2}
  Preparers = {p1}
  Reconcilers = {h1, h2}
  Manual = {h1, h2}
  WorkerOf <- OneWorker
  AheadWorkers = {"worker"}
  ClaimTimes = {t1, t2}
  MaxGeneration = 2
INVARIANTS
  AtMostOneContact
  ContactFollowsCommitment
  SubmissionEvidenceTruthful
  DurableTruthMatchesChain
PROPERTIES
  NoStaleEvidence
SYMMETRY ContactSymmetry
CHECK_DEADLOCK FALSE
