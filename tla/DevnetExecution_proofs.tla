----------------------- MODULE DevnetExecution_proofs -----------------------
(***************************************************************************)
(* Theorems about DevnetExecution for every number of handlers, workers,   *)
(* claim instants and generations.                                         *)
(***************************************************************************)
EXTENDS DevnetExecution, TLAPS

\* Points at which a handler's snapshot names a generation that exists.
HoldingPoints ==
  {"replace", "commit", "authorized", "awaiting", "renew", "rpc", "renewAgain",
   "dedupe", "persist"} \cup RecordPoints

SnapshotsNameRows ==
  /\ \A p \in Procs : pc[p] \in HoldingPoints => snap[p].gen \in Generations
  /\ \A p \in Procs : pc[p] = "replace" => snap[p].gen < MaxGeneration

\* TypeOK, in the parts that different actions change.
AggregateTypes ==
  /\ payment \in PaymentStatuses
  /\ exec \in ExecutionStatuses
  /\ review \in BOOLEAN
  /\ mismatch \in BOOLEAN
  /\ receipt \in Generations \cup {NoGeneration}
EvidenceTypes ==
  /\ prep \in [Generations -> LifecycleStates]
  /\ commitment \in Generations \cup {NoGeneration}
  /\ submitted \subseteq SubmissionOutcomes
  /\ finality \subseteq TerminalTruth
  /\ latest \in Outcomes \cup {"NONE"}
LeaseTypes == lease \in [TaskKinds -> LeaseRows \cup {NoLease}]
NetworkTypes ==
  /\ expired \subseteq Generations
  /\ contacts \in [Generations -> Nat]
  /\ inflight \subseteq Generations
  /\ chain \in [Generations -> ChainStates]
ControlTypes ==
  /\ pc \in [Procs -> ControlPoints]
  /\ snap \in [Procs -> Snapshots]
  /\ SnapshotsNameRows
MemoryTypes ==
  /\ claimedAt \in [Handlers -> ClaimTimes \cup {NoClaim}]
  /\ reading \in [Reconcilers -> Outcomes \cup {"NONE"}]
  /\ overtaken \subseteq Reconcilers

TypeInv ==
  /\ AggregateTypes /\ EvidenceTypes /\ LeaseTypes
  /\ NetworkTypes /\ ControlTypes /\ MemoryTypes

LEMMA TypeInvImpliesTypeOK == TypeInv => TypeOK
BY DEF TypeInv, TypeOK, AggregateTypes, EvidenceTypes, LeaseTypes, NetworkTypes,
       ControlTypes, MemoryTypes

USE DEF Generations, NoGeneration, Handlers, Callers, Procs

LEMMA InitTypes == Init => TypeInv
<1> SUFFICES ASSUME Init PROVE TypeInv  OBVIOUS
<1> USE BoundAssumption, DisagreementAssumption, ProcessAssumption DEF Init
<1>1. AggregateTypes
  BY DEF AggregateTypes, PaymentStatuses, ExecutionStatuses
<1>2. EvidenceTypes
  BY DEF EvidenceTypes, LifecycleStates
<1>3. LeaseTypes
  BY DEF LeaseTypes
<1>4. NetworkTypes
  BY DEF NetworkTypes, ChainStates
<1>5. ControlTypes
  BY DEF ControlTypes, ControlPoints, NoSnap, Snapshots, LifecycleStates,
         SnapshotsNameRows, HoldingPoints, RecordPoints
<1>6. MemoryTypes
  BY DEF MemoryTypes
<1>7. QED
  BY <1>1, <1>2, <1>3, <1>4, <1>5, <1>6 DEF TypeInv

\* What a projection leaves behind has the types the schema gives it.
LEMMA ApplyTypes ==
  ASSUME AggregateTypes, NEW s \in Snapshots, ApplyLifecycle(s)
  PROVE  AggregateTypes'
<1>1. payment' \in PaymentStatuses
  BY DEF ApplyLifecycle, AggregateTypes, PaymentStatuses
<1>2. exec' \in ExecutionStatuses
  BY DEF ApplyLifecycle, AggregateTypes, ExecutionStatuses, PathEnd, ApplyTarget,
         AggregateStatus, TerminalTruth
<1>3. review' \in BOOLEAN /\ mismatch' \in BOOLEAN
  BY DEF ApplyLifecycle, AggregateTypes, Blocked
<1>4. receipt' \in Generations \cup {NoGeneration}
  BY DEF ApplyLifecycle, AggregateTypes, Snapshots
<1>5. QED BY <1>1, <1>2, <1>3, <1>4 DEF AggregateTypes

\* Only these steps touch the aggregate rows.
LEMMA AggregateFrame ==
  ASSUME Next, ~UNCHANGED aggregateVars
  PROVE  \/ ConfirmPayment
         \/ \E r \in Requests : CreateOrGet(r)
         \/ \E p \in Procs : ApplyLifecycle(snap[p])
BY DEF Next, RequestStep, PreparationStep, ReconcileStep, LeasedStep, NetworkStep,
  ValidateRequest, FindAfterFailure, SubmitFind, CommitSubmission, ReconstructFails,
  ContactRefused, ContactProvider, ProviderAccepts, AnswerUnavailable, RecordSubmission,
  AcceptedRecordThrows, ApplySubmitted, FindPreparation, PrepareFirst, PrepareFails,
  RefreshCheck, ReplaceExpired, ApplyPrepared, ClaimPreparation, ClaimReconciliation,
  Claims, ReadCommitted, RenewBeforeRpc, RenewBeforePersist, Renews, ObserveSignature,
  Deduplicate, PersistObservation, Project, ReadUnleased, ProjectUnleased, Release,
  LeaseExpires, HandlerFails, Crash, ProviderDelivers, ContactLost, Lands, Forks,
  Finalizes, ChainMoves, BlockhashExpires

\* Only these steps touch the preparations, the commitment and the observations.
LEMMA EvidenceFrame ==
  ASSUME Next, ~UNCHANGED evidenceVars
  PROVE  \/ \E c \in Callers : PrepareFirst(c) \/ ReplaceExpired(c)
         \/ \E r \in Requests :
              CommitSubmission(r) \/ RecordSubmission(r) \/ AcceptedRecordThrows(r)
         \/ \E h \in Reconcilers : PersistObservation(h)
BY DEF Next, RequestStep, PreparationStep, ReconcileStep, LeasedStep, NetworkStep, ConfirmPayment,
  ValidateRequest, CreateOrGet, FindAfterFailure, SubmitFind, ReconstructFails,
  ContactRefused, ContactProvider, ProviderAccepts, AnswerUnavailable,
  ApplySubmitted, FindPreparation, PrepareFails,
  RefreshCheck, ApplyPrepared, ClaimPreparation, ClaimReconciliation,
  Claims, ReadCommitted, RenewBeforeRpc, RenewBeforePersist, Renews, ObserveSignature,
  Deduplicate, Project, ReadUnleased, ProjectUnleased, Release,
  LeaseExpires, HandlerFails, Crash, ProviderDelivers, ContactLost, Lands, Forks,
  Finalizes, ChainMoves, BlockhashExpires

\* Only these steps touch the leases.
LEMMA LeaseFrame ==
  ASSUME Next, ~UNCHANGED lease
  PROVE  \/ \E h \in Handlers, kind \in TaskKinds, point \in {"find", "read"} :
              Claims(kind, h, point)
         \/ \E h \in Handlers : Release(h)
         \/ \E kind \in TaskKinds : LeaseExpires(kind)
BY DEF Next, RequestStep, PreparationStep, ReconcileStep, LeasedStep, NetworkStep, ConfirmPayment,
  ValidateRequest, CreateOrGet, FindAfterFailure, SubmitFind, CommitSubmission,
  ReconstructFails, ContactRefused, ContactProvider, ProviderAccepts, AnswerUnavailable,
  RecordSubmission, AcceptedRecordThrows, ApplySubmitted, FindPreparation, PrepareFirst,
  PrepareFails, RefreshCheck, ReplaceExpired, ApplyPrepared, ClaimPreparation,
  ClaimReconciliation, ReadCommitted, RenewBeforeRpc, RenewBeforePersist, Renews,
  ObserveSignature, Deduplicate, PersistObservation, Project, ReadUnleased,
  ProjectUnleased, HandlerFails, Crash, ProviderDelivers, ContactLost, Lands, Forks,
  Finalizes, ChainMoves, BlockhashExpires, TaskKinds

\* Only these steps touch the network's state.
LEMMA NetworkFrame ==
  ASSUME Next, ~UNCHANGED networkVars
  PROVE  \/ \E r \in Requests : ContactProvider(r)
         \/ \E g \in Generations : NetworkStep(g)
BY DEF Next, RequestStep, PreparationStep, ReconcileStep, LeasedStep, ConfirmPayment,
  ValidateRequest, CreateOrGet, FindAfterFailure, SubmitFind, CommitSubmission,
  ReconstructFails, ContactRefused, ProviderAccepts, AnswerUnavailable,
  RecordSubmission, AcceptedRecordThrows, ApplySubmitted, FindPreparation, PrepareFirst,
  PrepareFails, RefreshCheck, ReplaceExpired, ApplyPrepared, ClaimPreparation,
  ClaimReconciliation, Claims, ReadCommitted, RenewBeforeRpc, RenewBeforePersist, Renews,
  ObserveSignature, Deduplicate, PersistObservation, Project, ReadUnleased,
  ProjectUnleased, Release, LeaseExpires, HandlerFails, Crash

LEMMA AggregateStep == TypeInv /\ Next => AggregateTypes'
<1> SUFFICES ASSUME TypeInv, Next PROVE AggregateTypes'  OBVIOUS
<1> USE DEF TypeInv
<1>1. CASE UNCHANGED aggregateVars
  BY <1>1 DEF aggregateVars, AggregateTypes
<1>2. CASE ConfirmPayment
  BY <1>2 DEF ConfirmPayment, AggregateTypes, PaymentStatuses
<1>3. CASE \E r \in Requests : CreateOrGet(r)
  BY <1>3 DEF CreateOrGet, AggregateTypes, ExecutionStatuses
<1>4. ASSUME NEW p \in Procs, ApplyLifecycle(snap[p]) PROVE AggregateTypes'
  BY <1>4, ApplyTypes DEF ControlTypes
<1>5. QED
  BY <1>1, <1>2, <1>3, <1>4, AggregateFrame

\* Handlers that may change a row name one that exists.
LEMMA EvidenceStep == TypeInv /\ Next => EvidenceTypes'
<1> SUFFICES ASSUME TypeInv, Next PROVE EvidenceTypes'  OBVIOUS
<1> USE DEF TypeInv, EvidenceTypes, LifecycleStates, CommittedStates, TerminalTruth
<1>1. CASE UNCHANGED evidenceVars
  BY <1>1 DEF evidenceVars
<1>2. ASSUME NEW c \in Callers, PrepareFirst(c) PROVE EvidenceTypes'
  BY <1>2, BoundAssumption DEF PrepareFirst
<1>3. ASSUME NEW c \in Callers, ReplaceExpired(c) PROVE EvidenceTypes'
  <2>1. snap[c].gen \in Generations /\ snap[c].gen + 1 \in Generations
    BY <1>3, BoundAssumption
       DEF ReplaceExpired, ControlTypes, SnapshotsNameRows, HoldingPoints
  <2>2. QED BY <1>3, <2>1 DEF ReplaceExpired, Fetches, Fails
<1>4. ASSUME NEW r \in Requests, CommitSubmission(r) PROVE EvidenceTypes'
  <2>1. snap[r].gen \in Generations
    BY <1>4 DEF CommitSubmission, ControlTypes, SnapshotsNameRows, HoldingPoints
  <2>2. QED BY <1>4, <2>1 DEF CommitSubmission
<1>5. ASSUME NEW g, NEW o \in SubmissionOutcomes, AppendsSubmission(g, o)
      PROVE  EvidenceTypes'
  <2>1. SubmissionLifecycle(prep[g], o) \in LifecycleStates
    BY DEF SubmissionLifecycle
  <2>2. QED BY <1>5, <2>1 DEF AppendsSubmission
<1>6. ASSUME NEW r \in Requests, RecordSubmission(r) PROVE EvidenceTypes'
  <2>1. SubmissionOutcome(pc[r]) \in SubmissionOutcomes
    BY DEF SubmissionOutcome, SubmissionOutcomes
  <2>2. QED BY <1>5, <1>6, <2>1 DEF RecordSubmission
<1>7. ASSUME NEW r \in Requests, AcceptedRecordThrows(r) PROVE EvidenceTypes'
  <2>1. CASE AppendsSubmission(snap[r].gen, "ACCEPTED")
    BY <1>5, <2>1 DEF SubmissionOutcomes
  <2>2. CASE UNCHANGED evidenceVars
    BY <2>2 DEF evidenceVars
  <2>3. QED BY <1>7, <2>1, <2>2 DEF AcceptedRecordThrows
<1>8. ASSUME NEW h \in Reconcilers, PersistObservation(h) PROVE EvidenceTypes'
  <2>1. reading[h] \in Outcomes \cup {"NONE"}
    BY DEF MemoryTypes
  <2>2. CASE UNCHANGED evidenceVars
    BY <2>2 DEF evidenceVars
  <2>3. CASE ~UNCHANGED evidenceVars
    BY <1>8, <2>1, <2>3 DEF PersistObservation, ReconciliationLifecycle, Outcomes
  <2>4. QED BY <2>2, <2>3
<1>9. QED
  BY <1>1, <1>2, <1>3, <1>4, <1>6, <1>7, <1>8, EvidenceFrame

LEMMA LeaseStep == TypeInv /\ Next => LeaseTypes'
<1> SUFFICES ASSUME TypeInv, Next PROVE LeaseTypes'  OBVIOUS
<1> USE DEF TypeInv, LeaseTypes
<1>1. CASE UNCHANGED lease
  BY <1>1
<1>2. ASSUME NEW h \in Handlers, NEW kind \in TaskKinds, NEW point, Claims(kind, h, point)
      PROVE  LeaseTypes'
  BY <1>2 DEF Claims, LeaseRows, FreshInstants
<1>3. ASSUME NEW h \in Handlers, Release(h) PROVE LeaseTypes'
  BY <1>3 DEF Release
<1>4. ASSUME NEW kind \in TaskKinds, LeaseExpires(kind) PROVE LeaseTypes'
  <2>1. lease[kind] \in LeaseRows
    BY <1>4 DEF LeaseExpires, NoLease
  <2>2. [lease[kind] EXCEPT !.active = FALSE] \in LeaseRows
    BY <2>1 DEF LeaseRows
  <2>3. QED BY <1>4, <2>2 DEF LeaseExpires
<1>5. QED
  BY <1>1, <1>2, <1>3, <1>4, LeaseFrame

LEMMA NetworkStepTypes == TypeInv /\ Next => NetworkTypes'
<1> SUFFICES ASSUME TypeInv, Next PROVE NetworkTypes'  OBVIOUS
<1> USE DEF TypeInv, NetworkTypes
<1>1. CASE UNCHANGED networkVars
  BY <1>1 DEF networkVars
<1>2. ASSUME NEW r \in Requests, ContactProvider(r) PROVE NetworkTypes'
  <2>1. snap[r].gen \in Generations
    BY <1>2 DEF ContactProvider, ControlTypes, SnapshotsNameRows, HoldingPoints
  <2>2. contacts' \in [Generations -> Nat]
    BY <1>2, <2>1 DEF ContactProvider
  <2>3. QED BY <1>2, <2>1, <2>2 DEF ContactProvider
<1>3. ASSUME NEW g \in Generations, NetworkStep(g) PROVE NetworkTypes'
  BY <1>3 DEF NetworkStep, ProviderDelivers, ContactLost, Lands, Forks, Finalizes,
              ChainMoves, BlockhashExpires, ChainStates
<1>4. QED
  BY <1>1, <1>2, <1>3, NetworkFrame

LEMMA MemoryStep == TypeInv /\ Next => MemoryTypes'
<1> SUFFICES ASSUME TypeInv, Next PROVE MemoryTypes'  OBVIOUS
<1> USE DEF TypeInv, MemoryTypes
<1>1. CASE UNCHANGED memoryVars
  BY <1>1 DEF memoryVars
<1>2. ASSUME NEW p, Drops(p), UNCHANGED claimedAt PROVE MemoryTypes'
  BY <1>2 DEF Drops
<1>3. ASSUME NEW p, Forgets(p) PROVE MemoryTypes'
  BY <1>3 DEF Forgets, Drops
<1>4. ASSUME NEW h \in Handlers, NEW kind, NEW point, Claims(kind, h, point)
      PROVE  MemoryTypes'
  BY <1>4 DEF Claims, FreshInstants
<1>5. ASSUME NEW h \in Reconcilers, ObserveSignature(h) PROVE MemoryTypes'
  BY <1>5 DEF ObserveSignature, Answers, Outcomes, TerminalTruth
<1>6. ASSUME NEW h \in Reconcilers, PersistObservation(h) PROVE MemoryTypes'
  BY <1>2, <1>6 DEF PersistObservation, HoldsAnswer
<1>7. QED
  BY <1>1, <1>2, <1>3, <1>4, <1>5, <1>6
  DEF Next, RequestStep, PreparationStep, ReconcileStep, LeasedStep, NetworkStep, ConfirmPayment,
  ValidateRequest, CreateOrGet, FindAfterFailure, SubmitFind, CommitSubmission,
  ReconstructFails, ContactRefused, ContactProvider, ProviderAccepts, AnswerUnavailable,
  RecordSubmission, AcceptedRecordThrows, ApplySubmitted, FindPreparation, PrepareFirst,
  PrepareFails, RefreshCheck, ReplaceExpired, ApplyPrepared, ClaimPreparation,
  ClaimReconciliation, ReadCommitted, RenewBeforeRpc, RenewBeforePersist, Renews,
  Deduplicate, Project, ReadUnleased, ProjectUnleased, Release, LeaseExpires,
  HandlerFails, Crash, ProviderDelivers, ContactLost, Lands, Forks, Finalizes,
  ChainMoves, BlockhashExpires, localVars, memoryVars

\* A handler that goes elsewhere with a row, and one that keeps the row it has.
LEMMA MoveTypes ==
  ASSUME ControlTypes, NEW p \in Procs, NEW row \in Snapshots, NEW point \in ControlPoints,
         Fetches(p, row, point),
         point \in HoldingPoints => row.gen \in Generations,
         point = "replace" => row.gen < MaxGeneration
  PROVE  ControlTypes'
BY DEF ControlTypes, SnapshotsNameRows, Fetches, Goes, Keeps

LEMMA StayTypes ==
  ASSUME ControlTypes, NEW p \in Procs, NEW point \in ControlPoints,
         Goes(p, point), UNCHANGED snap,
         point \in HoldingPoints => snap[p].gen \in Generations,
         point = "replace" => snap[p].gen < MaxGeneration
  PROVE  ControlTypes'
BY DEF ControlTypes, SnapshotsNameRows, Goes

LEMMA RowTypes == ASSUME EvidenceTypes, NEW g \in Generations PROVE Row(g) \in Snapshots
BY DEF EvidenceTypes, Row, Snapshots

LEMMA NoSnapTypes == NoSnap \in Snapshots
BY DEF NoSnap, Snapshots, LifecycleStates

\* Where a handler ends up when its step throws, ends or dies.
LEMMA FailTypes == ASSUME ControlTypes, NEW p \in Procs, Fails(p) PROVE ControlTypes'
<1>1. Ended(p) \in ControlPoints \ HoldingPoints /\ "release" \in ControlPoints \ HoldingPoints
  BY DEF Ended, ControlPoints, HoldingPoints, RecordPoints
<1>2. QED BY <1>1, MoveTypes, NoSnapTypes DEF Fails, HoldingPoints
LEMMA ForgetTypes == ASSUME ControlTypes, NEW p \in Procs, Forgets(p) PROVE ControlTypes'
<1>1. Ended(p) \in ControlPoints \ HoldingPoints
  BY DEF Ended, ControlPoints, HoldingPoints, RecordPoints
<1>2. QED BY <1>1, MoveTypes, NoSnapTypes DEF Forgets, HoldingPoints

\* The points, for the leaves below.
LEMMA Points ==
  /\ {"idle", "done", "release"} \cup RequestPoints \cup RecordPoints
       \cup ReconcilePoints = ControlPoints
  /\ {"create", "find", "prepare", "refind", "refresh", "apply", "submit", "applyFinal",
      "release", "idle", "read", "project", "projectUnleased"}
       \subseteq ControlPoints \ HoldingPoints
  /\ HoldingPoints \subseteq ControlPoints
  /\ RecordPoints \subseteq HoldingPoints
BY DEF ControlPoints, RequestPoints, RecordPoints, ReconcilePoints, HoldingPoints

LEMMA RequestStepIsNext == \A r \in Requests : RequestStep(r) => Next
BY DEF Next

LEMMA RequestControl ==
  ASSUME TypeInv, NEW r \in Requests, RequestStep(r) PROVE ControlTypes'
<1> USE Points DEF TypeInv
<1>0. pc[r] \in HoldingPoints => snap[r].gen \in Generations
  BY DEF ControlTypes, SnapshotsNameRows
<1>1. ASSUME ValidateRequest(r) PROVE ControlTypes'
  BY <1>0, <1>1, StayTypes DEF ValidateRequest, localVars, HoldingPoints, RecordPoints
<1>2. ASSUME CreateOrGet(r) PROVE ControlTypes'
  BY <1>0, <1>2, StayTypes DEF CreateOrGet, localVars, HoldingPoints, RecordPoints
<1>3. ASSUME ReconstructFails(r) PROVE ControlTypes'
  BY <1>0, <1>3, StayTypes DEF ReconstructFails, localVars, HoldingPoints, RecordPoints
<1>4. ASSUME ContactRefused(r) PROVE ControlTypes'
  BY <1>0, <1>4, StayTypes DEF ContactRefused, localVars, HoldingPoints, RecordPoints
<1>5. ASSUME ContactProvider(r) PROVE ControlTypes'
  BY <1>0, <1>5, StayTypes DEF ContactProvider, localVars, HoldingPoints, RecordPoints
<1>6. ASSUME ProviderAccepts(r) PROVE ControlTypes'
  BY <1>0, <1>6, StayTypes DEF ProviderAccepts, localVars, HoldingPoints, RecordPoints
<1>7. ASSUME AnswerUnavailable(r) PROVE ControlTypes'
  BY <1>0, <1>7, StayTypes DEF AnswerUnavailable, localVars, HoldingPoints, RecordPoints
<1>8. ASSUME AcceptedRecordThrows(r) PROVE ControlTypes'
  BY <1>0, <1>8, StayTypes DEF AcceptedRecordThrows, localVars, HoldingPoints, RecordPoints
<1>9. ASSUME FindAfterFailure(r) PROVE ControlTypes'
  BY <1>9, MoveTypes, FailTypes, RowTypes DEF FindAfterFailure, AfterFind, Active, HoldingPoints
<1>10. ASSUME SubmitFind(r) PROVE ControlTypes'
  BY <1>10, MoveTypes, RowTypes DEF SubmitFind, Active, Row, HoldingPoints
<1>11. ASSUME CommitSubmission(r) PROVE ControlTypes'
  <2>1. snap[r].gen \in Generations
    BY <1>0, <1>11 DEF CommitSubmission, HoldingPoints
  <2>2. [gen |-> snap[r].gen, state |-> "COMMITTED"] \in Snapshots
    BY <2>1 DEF Snapshots, LifecycleStates, CommittedStates
  <2>3. QED
    BY <1>11, <2>1, <2>2, MoveTypes, FailTypes, RowTypes DEF CommitSubmission, HoldingPoints
<1>12. ASSUME RecordSubmission(r) PROVE ControlTypes'
  <2>1. snap[r].gen \in Generations
    BY <1>0, <1>12 DEF RecordSubmission
  <2>2. EvidenceTypes'
    BY EvidenceStep, RequestStepIsNext
  <2>3. [gen |-> snap[r].gen, state |-> prep'[snap[r].gen]] \in Snapshots
    BY <2>1, <2>2 DEF Snapshots, EvidenceTypes
  <2>4. QED
    BY <1>12, <2>3, MoveTypes DEF RecordSubmission, HoldingPoints
<1>13. ASSUME ApplySubmitted(r) PROVE ControlTypes'
  <2>1. Ended(r) \in ControlPoints \ HoldingPoints
    BY DEF Ended, ControlPoints, HoldingPoints, RecordPoints
  <2>2. QED BY <1>13, <2>1, MoveTypes, NoSnapTypes DEF ApplySubmitted, HoldingPoints
<1>14. QED
  BY <1>1, <1>2, <1>3, <1>4, <1>5, <1>6, <1>7, <1>8, <1>9, <1>10, <1>11, <1>12, <1>13 DEF RequestStep

LEMMA PreparationControl ==
  ASSUME TypeInv, NEW c \in Callers, PreparationStep(c) PROVE ControlTypes'
<1> USE Points DEF TypeInv
<1>1. ASSUME FindPreparation(c) PROVE ControlTypes'
  <2>1. CASE Fetches(c, NoSnap, "prepare")
    BY <2>1, MoveTypes, NoSnapTypes DEF HoldingPoints
  <2>2. ASSUME NEW g \in Active, Fetches(c, Row(g), AfterFind(c, prep[g])) PROVE ControlTypes'
    BY <2>2, MoveTypes, RowTypes DEF AfterFind, Active, HoldingPoints
  <2>3. QED BY <1>1, <2>1, <2>2 DEF FindPreparation
<1>2. ASSUME PrepareFirst(c) PROVE ControlTypes'
  <2>1. [gen |-> 1, state |-> "PREPARED"] \in Snapshots
    BY BoundAssumption DEF Snapshots, LifecycleStates
  <2>2. QED BY <1>2, <2>1, MoveTypes DEF PrepareFirst, HoldingPoints
<1>3. ASSUME PrepareFails(c) PROVE ControlTypes'
  BY <1>3, MoveTypes, FailTypes, NoSnapTypes DEF PrepareFails, HoldingPoints
<1>4. ASSUME RefreshCheck(c) PROVE ControlTypes'
  <2>1. CASE Goes(c, "apply") /\ UNCHANGED snap
    BY <2>1, StayTypes DEF HoldingPoints
  <2>2. CASE Goes(c, "release") /\ UNCHANGED snap
    BY <2>2, StayTypes DEF HoldingPoints
  <2>3. ASSUME NEW g \in Active, snap[c].gen = g, g < MaxGeneration,
               Goes(c, "replace"), UNCHANGED snap
        PROVE  ControlTypes'
    BY <2>3, StayTypes DEF Active, HoldingPoints
  <2>4. QED BY <1>4, <2>1, <2>2, <2>3, FailTypes DEF RefreshCheck
<1>5. ASSUME ReplaceExpired(c) PROVE ControlTypes'
  <2>1. snap[c].gen \in Generations /\ snap[c].gen + 1 \in Generations
    BY <1>5, BoundAssumption DEF ReplaceExpired, ControlTypes, SnapshotsNameRows, HoldingPoints
  <2>2. [gen |-> snap[c].gen + 1, state |-> "PREPARED"] \in Snapshots
    BY <2>1 DEF Snapshots, LifecycleStates
  <2>3. QED BY <1>5, <2>2, MoveTypes, FailTypes DEF ReplaceExpired, HoldingPoints
<1>6. ASSUME ApplyPrepared(c) PROVE ControlTypes'
  BY <1>6, MoveTypes, StayTypes, NoSnapTypes DEF ApplyPrepared, HoldingPoints
<1>7. QED
  BY <1>1, <1>2, <1>3, <1>4, <1>5, <1>6 DEF PreparationStep

LEMMA ReconcileControl ==
  ASSUME TypeInv, NEW h \in Reconcilers, ReconcileStep(h) PROVE ControlTypes'
<1> USE Points DEF TypeInv
<1>0. pc[h] \in HoldingPoints => snap[h].gen \in Generations
  BY DEF ControlTypes, SnapshotsNameRows
<1>1. ASSUME ClaimReconciliation(h) PROVE ControlTypes'
  BY <1>1, StayTypes DEF ClaimReconciliation, Claims, HoldingPoints
<1>2. ASSUME ReadCommitted(h) PROVE ControlTypes'
  BY <1>2, MoveTypes, RowTypes DEF ReadCommitted, Active, Row, HoldingPoints
<1>3. ASSUME RenewBeforeRpc(h) PROVE ControlTypes'
  BY <1>0, <1>3, StayTypes, FailTypes DEF RenewBeforeRpc, Renews, HoldingPoints
<1>4. ASSUME RenewBeforePersist(h) PROVE ControlTypes'
  BY <1>0, <1>4, StayTypes, FailTypes DEF RenewBeforePersist, Renews, HoldingPoints
<1>5. ASSUME ObserveSignature(h) PROVE ControlTypes'
  BY <1>0, <1>5, StayTypes DEF ObserveSignature, HoldingPoints
<1>6. ASSUME Deduplicate(h) PROVE ControlTypes'
  BY <1>0, <1>6, StayTypes DEF Deduplicate, HoldingPoints
<1>7. ASSUME PersistObservation(h) PROVE ControlTypes'
  <2>1. snap[h].gen \in Generations
    BY <1>0, <1>7 DEF PersistObservation, HoldingPoints
  <2>2. EvidenceTypes'
    BY EvidenceStep, <1>7 DEF Next, ReconcileStep, LeasedStep
  <2>3. [gen |-> snap[h].gen, state |-> prep'[snap[h].gen]] \in Snapshots
    BY <2>1, <2>2 DEF Snapshots, EvidenceTypes
  <2>4. QED
    BY <1>7, <2>1, <2>3, MoveTypes, FailTypes, RowTypes DEF PersistObservation, HoldingPoints
<1>8. ASSUME Project(h) PROVE ControlTypes'
  BY <1>8, MoveTypes, NoSnapTypes DEF Project, HoldingPoints
<1>9. ASSUME ReadUnleased(h) PROVE ControlTypes'
  BY <1>9, MoveTypes, RowTypes DEF ReadUnleased, Active, HoldingPoints
<1>10. ASSUME ProjectUnleased(h) PROVE ControlTypes'
  BY <1>10, MoveTypes, NoSnapTypes DEF ProjectUnleased, HoldingPoints
<1>11. QED
  BY <1>1, <1>2, <1>3, <1>4, <1>5, <1>6, <1>7, <1>8, <1>9, <1>10 DEF ReconcileStep, LeasedStep

LEMMA ControlStep == TypeInv /\ Next => ControlTypes'
<1> SUFFICES ASSUME TypeInv, Next PROVE ControlTypes'  OBVIOUS
<1>0. ControlTypes
  BY DEF TypeInv
<1>1. CASE UNCHANGED <<pc, snap>>
  BY <1>0, <1>1 DEF ControlTypes, SnapshotsNameRows
<1>2. ASSUME NEW p \in Preparers, ClaimPreparation(p) PROVE ControlTypes'
  BY <1>0, <1>2, Points, StayTypes DEF ClaimPreparation, Claims
<1>3. ASSUME NEW p \in Procs, HandlerFails(p) PROVE ControlTypes'
  BY <1>0, <1>3, Points, MoveTypes, FailTypes, NoSnapTypes DEF HandlerFails, HoldingPoints
<1>4. ASSUME NEW p \in Procs, Forgets(p) PROVE ControlTypes'
  BY <1>0, <1>4, ForgetTypes
<1>5. CASE ConfirmPayment \/ (\E kind \in TaskKinds : LeaseExpires(kind))
           \/ (\E g \in Generations : NetworkStep(g))
  BY <1>1, <1>5 DEF ConfirmPayment, LeaseExpires, NetworkStep, ProviderDelivers, ContactLost,
     Lands, Forks, Finalizes, ChainMoves, BlockhashExpires, localVars
<1>6. QED
  BY <1>2, <1>3, <1>4, <1>5, RequestControl, PreparationControl, ReconcileControl
  DEF Next, Release, Crash

\* Every step keeps every part.
LEMMA TypeStep == TypeInv /\ [Next]_vars => TypeInv'
<1> SUFFICES ASSUME TypeInv, [Next]_vars PROVE TypeInv'  OBVIOUS
<1>1. CASE Next
  BY <1>1, AggregateStep, EvidenceStep, LeaseStep, NetworkStepTypes, ControlStep, MemoryStep
  DEF TypeInv
<1>2. CASE UNCHANGED vars
  BY <1>2 DEF vars, aggregateVars, evidenceVars, networkVars, localVars, memoryVars, TypeInv,
     AggregateTypes, EvidenceTypes, LeaseTypes, NetworkTypes, ControlTypes, MemoryTypes,
     SnapshotsNameRows
<1>3. QED BY <1>1, <1>2

LEMMA TypesAlways == Spec => []TypeInv
BY InitTypes, TypeStep, PTL DEF Spec

\* Every row and every handler's memory keeps its shape: in particular a handler
\* about to write a preparation always names one that exists, and a replacement
\* never leaves the generations.
THEOREM TypeCorrect == Spec => []TypeOK
BY TypesAlways, TypeInvImpliesTypeOK, PTL

---------------------------------------------------------------------------
(***************************************************************************)
(* One contact.  The contact is guarded by a control point, not by the     *)
(* rows, so the invariant ties the two: the request that wrote the         *)
(* commitment is the only one at the points from which bytes may leave.    *)
(***************************************************************************)

\* Points of a request that wrote the commitment and has not recorded the outcome.
OwningPoints == {"authorized", "awaiting"} \cup RecordPoints
Owns(r) == pc[r] \in OwningPoints

\* The commitment, once there, names the one preparation beyond pre-contact.
CommitmentNamesRow ==
  \A g \in Generations : commitment = g <=> prep[g] \in CommittedStates

\* Generations are inserted in order.
NoGaps ==
  \A g, o \in Generations : prep[g] = "ABSENT" /\ o > g => prep[o] = "ABSENT"

\* Writing the commitment makes its writer the only request that may contact.
OneOwner ==
  /\ \A r \in Requests : Owns(r) => commitment # NoGeneration /\ snap[r].gen = commitment
  /\ \A r, q \in Requests : Owns(r) /\ Owns(q) => r = q

\* Until then, and until it moves on, nothing was handed to the provider.
NotYetContacted ==
  \/ commitment = NoGeneration
  \/ \E r \in Requests : pc[r] \in {"authorized", "recordInvalid"}
  \/ "VALIDATION_FAILED" \in submitted

ContactBounds ==
  /\ \A g \in Generations : contacts[g] > 0 => commitment = g
  /\ \A g \in Generations : contacts[g] <= 1
  /\ NotYetContacted => \A g \in Generations : contacts[g] = 0

\* What is, or is about to be, recorded of the contact is true.
RecordsTrue ==
  /\ \A r \in Requests : pc[r] = "recordAccepted" => chain[commitment] # "unseen"
  /\ "ACCEPTED" \in submitted => commitment # NoGeneration /\ chain[commitment] # "unseen"
  /\ submitted # {} => commitment # NoGeneration
  /\ "VALIDATION_FAILED" \in submitted => \A r \in Requests : ~Owns(r)

ContactInv ==
  /\ CommitmentNamesRow /\ NoGaps /\ GenerationsSucceed
  /\ OneOwner /\ ContactBounds /\ RecordsTrue

LEMMA ContactInvImplies ==
  TypeInv /\ ContactInv =>
    AtMostOneContact /\ ContactFollowsCommitment /\ GenerationsSucceed
BY DEF ContactInv, ContactBounds, CommitmentNamesRow, AtMostOneContact,
       ContactFollowsCommitment, TypeInv, NetworkTypes

LEMMA ContactInvTruthful ==
  TypeInv /\ ContactInv => SubmissionEvidenceTruthful
BY DEF ContactInv, ContactBounds, RecordsTrue, NotYetContacted, SubmissionEvidenceTruthful

LEMMA InitContact == Init => ContactInv
BY BoundAssumption DEF Init, ContactInv, CommitmentNamesRow, NoGaps, GenerationsSucceed,
  OneOwner, Owns, OwningPoints, RecordPoints, ContactBounds, RecordsTrue, CommittedStates,
  Active

\* A request moves by its own steps only.
LEMMA RequestFrame ==
  ASSUME TypeInv, Next, NEW r \in Requests, ~(pc'[r] = pc[r] /\ snap'[r] = snap[r])
  PROVE  RequestStep(r) \/ PreparationStep(r) \/ HandlerFails(r) \/ Crash(r)
<1> USE ProcessAssumption DEF TypeInv, ControlTypes
<1>1. ASSUME NEW q \in Procs, NEW row, NEW point, Fetches(q, row, point), q # r PROVE FALSE
  BY <1>1 DEF Fetches, Goes, Keeps
<1>2. ASSUME NEW q \in Procs, NEW point, Goes(q, point), UNCHANGED snap, q # r PROVE FALSE
  BY <1>2 DEF Goes
<1>3. ASSUME NEW q \in Requests, RequestStep(q), q # r PROVE FALSE
  BY <1>1, <1>2, <1>3 DEF RequestStep, ValidateRequest, CreateOrGet, FindAfterFailure, SubmitFind,
     CommitSubmission, ReconstructFails, ContactRefused, ContactProvider, ProviderAccepts,
     AnswerUnavailable, RecordSubmission, AcceptedRecordThrows, ApplySubmitted, Fails, localVars
<1>4. ASSUME NEW q \in Callers, PreparationStep(q), q # r PROVE FALSE
  BY <1>1, <1>2, <1>4 DEF PreparationStep, FindPreparation, PrepareFirst, PrepareFails,
     RefreshCheck, ReplaceExpired, ApplyPrepared, Fails
<1>5. ASSUME NEW h \in Handlers, NEW kind, NEW point, Claims(kind, h, point) PROVE FALSE
  BY <1>2, <1>5 DEF Claims
<1>6. ASSUME NEW h \in Reconcilers, ReconcileStep(h) PROVE FALSE
  BY <1>1, <1>2, <1>5, <1>6 DEF ReconcileStep, LeasedStep, ClaimReconciliation, ReadCommitted, RenewBeforeRpc,
     RenewBeforePersist, Renews, ObserveSignature, Deduplicate, PersistObservation, Project,
     ReadUnleased, ProjectUnleased, Fails
<1>7. ASSUME NEW q \in Procs, HandlerFails(q) \/ Crash(q) \/ Release(q), q # r PROVE FALSE
  BY <1>1, <1>7 DEF HandlerFails, Crash, Release, Forgets, Fails
<1>8. ASSUME ConfirmPayment \/ (\E kind \in TaskKinds : LeaseExpires(kind))
           \/ (\E g \in Generations : NetworkStep(g))
      PROVE FALSE
  BY <1>8 DEF ConfirmPayment, LeaseExpires, NetworkStep, ProviderDelivers, ContactLost,
     Lands, Forks, Finalizes, ChainMoves, BlockhashExpires, localVars
<1>9. QED
  BY <1>3, <1>4, <1>5, <1>6, <1>7, <1>8 DEF Next, ClaimPreparation

\* How a request comes to own the contact, and what it may do while it owns it.
LEMMA OwnerMoves ==
  ASSUME TypeInv, Next, NEW r \in Requests, Owns(r)'
  PROVE  \/ pc'[r] = pc[r] /\ snap'[r] = snap[r]
         \/ /\ CommitSubmission(r) /\ MayCommit(snap[r].gen)
            /\ pc'[r] = "authorized" /\ snap'[r].gen = snap[r].gen
            /\ commitment' = snap[r].gen
         \/ /\ Owns(r) /\ snap'[r] = snap[r]
            /\ \/ ReconstructFails(r) \/ ContactRefused(r) \/ ContactProvider(r)
               \/ ProviderAccepts(r) \/ AnswerUnavailable(r) \/ AcceptedRecordThrows(r)
<1> USE DEF TypeInv, ControlTypes, Owns, OwningPoints, RecordPoints
<1>1. ASSUME NEW row, NEW point, Fetches(r, row, point) PROVE point \in OwningPoints
  BY <1>1 DEF Fetches, Goes
<1>2. ASSUME NEW point, Goes(r, point) PROVE point \in OwningPoints
  BY <1>2 DEF Goes
<1>3. ASSUME Fails(r) \/ Forgets(r) PROVE FALSE
  BY <1>1, <1>3 DEF Fails, Forgets, Ended
<1>4. ASSUME HandlerFails(r) \/ Crash(r) PROVE FALSE
  BY <1>1, <1>3, <1>4 DEF HandlerFails, Crash
<1>5. ASSUME PreparationStep(r) PROVE FALSE
  BY <1>1, <1>2, <1>3, <1>5 DEF PreparationStep, FindPreparation, PrepareFirst, PrepareFails,
     RefreshCheck, ReplaceExpired, ApplyPrepared, AfterFind
<1>6. ASSUME CommitSubmission(r)
      PROVE  /\ MayCommit(snap[r].gen) /\ pc'[r] = "authorized"
             /\ snap'[r].gen = snap[r].gen /\ commitment' = snap[r].gen
  BY <1>1, <1>3, <1>6 DEF CommitSubmission, Fetches, Goes, Keeps
<1>7. ASSUME \/ ValidateRequest(r) \/ CreateOrGet(r) \/ FindAfterFailure(r)
             \/ SubmitFind(r) \/ RecordSubmission(r) \/ ApplySubmitted(r)
      PROVE  FALSE
  BY <1>1, <1>2, <1>3, <1>7 DEF ValidateRequest, CreateOrGet, FindAfterFailure, SubmitFind,
     RecordSubmission, ApplySubmitted, AfterFind, Ended
<1>8. ASSUME \/ ReconstructFails(r) \/ ContactRefused(r) \/ ContactProvider(r)
             \/ ProviderAccepts(r) \/ AnswerUnavailable(r) \/ AcceptedRecordThrows(r)
      PROVE  Owns(r) /\ snap'[r] = snap[r]
  BY <1>8 DEF ReconstructFails, ContactRefused, ContactProvider, ProviderAccepts,
     AnswerUnavailable, AcceptedRecordThrows, localVars
<1>9. QED
  BY <1>4, <1>5, <1>6, <1>7, <1>8, RequestFrame DEF RequestStep

\* Evidence rows keep their order and the commitment keeps naming its row.
LEMMA RowsStep ==
  ASSUME TypeInv, ContactInv, Next
  PROVE  CommitmentNamesRow' /\ NoGaps' /\ GenerationsSucceed'
<1> DEFINE Kept == CommitmentNamesRow' /\ NoGaps' /\ GenerationsSucceed'
<1> USE BoundAssumption
    DEF TypeInv, ContactInv, EvidenceTypes, CommitmentNamesRow, NoGaps, GenerationsSucceed,
        Active, CommittedStates, TerminalTruth, LifecycleStates
<1>1. CASE UNCHANGED evidenceVars
  BY <1>1 DEF evidenceVars
<1>2. ASSUME NEW c \in Callers, PrepareFirst(c) PROVE Kept
  BY <1>2 DEF PrepareFirst, MayInsert
<1>3. ASSUME NEW c \in Callers, ReplaceExpired(c) PROVE Kept
  <2>1. snap[c].gen \in Generations /\ snap[c].gen + 1 \in Generations
    BY <1>3 DEF ReplaceExpired, ControlTypes, SnapshotsNameRows, HoldingPoints
  <2>2. CASE UNCHANGED prep
    BY <1>3, <2>2 DEF ReplaceExpired
  <2>3. CASE ~UNCHANGED prep
    <3> DEFINE g == snap[c].gen
    <3>1. /\ prep[g] = "PREPARED" /\ prep[g + 1] = "ABSENT"
          /\ prep' = [prep EXCEPT ![g] = "ABANDONED", ![g + 1] = "PREPARED"]
          /\ commitment = NoGeneration /\ commitment' = NoGeneration
      BY <1>3, <2>3 DEF ReplaceExpired, MayReplace, MayInsert
    <3>2. \A o \in Generations :
            prep'[o] = IF o = g THEN "ABANDONED"
                       ELSE IF o = g + 1 THEN "PREPARED" ELSE prep[o]
      BY <2>1, <3>1
    <3>3. \A o \in Generations : (o < g => prep[o] = "ABANDONED") /\ (o > g => prep[o] = "ABSENT")
      BY <2>1, <3>1
    <3>4. CommitmentNamesRow'
      BY <2>1, <3>1, <3>2
    <3>5. NoGaps' /\ GenerationsSucceed'
      BY <2>1, <3>2, <3>3
    <3>6. QED BY <3>4, <3>5
  <2>4. QED BY <2>2, <2>3
<1>4. ASSUME NEW r \in Requests, CommitSubmission(r) PROVE Kept
  <2>1. snap[r].gen \in Generations
    BY <1>4 DEF CommitSubmission, ControlTypes, SnapshotsNameRows, HoldingPoints
  <2>2. CASE UNCHANGED evidenceVars
    BY <1>1, <2>2
  <2>3. CASE ~UNCHANGED evidenceVars
    <3> DEFINE g == snap[r].gen
    <3>1. /\ commitment = NoGeneration /\ commitment' = g
          /\ prep[g] = "PREPARED" /\ prep' = [prep EXCEPT ![g] = "COMMITTED"]
      BY <1>4, <2>3 DEF CommitSubmission, MayCommit, evidenceVars
    <3>2. \A o \in Generations : prep'[o] = IF o = g THEN "COMMITTED" ELSE prep[o]
      BY <2>1, <3>1
    <3>3. CommitmentNamesRow'
      BY <2>1, <3>1, <3>2 DEF NoGeneration
    <3>4. NoGaps' /\ GenerationsSucceed'
      BY <2>1, <3>1, <3>2
    <3>5. QED BY <3>3, <3>4
  <2>4. QED BY <2>2, <2>3
<1>5. ASSUME NEW g \in Generations, NEW o, AppendsSubmission(g, o) PROVE Kept
  BY <1>5 DEF AppendsSubmission, SubmissionMayRecord, SubmissionLifecycle
<1>6. ASSUME NEW r \in Requests, RecordSubmission(r) \/ AcceptedRecordThrows(r) PROVE Kept
  <2>1. snap[r].gen \in Generations
    BY <1>6 DEF RecordSubmission, AcceptedRecordThrows, ControlTypes, SnapshotsNameRows,
                HoldingPoints, RecordPoints
  <2>2. QED BY <1>1, <1>5, <1>6, <2>1 DEF RecordSubmission, AcceptedRecordThrows
<1>7. ASSUME NEW h \in Reconcilers, PersistObservation(h) PROVE Kept
  <2>1. snap[h].gen \in Generations /\ reading[h] \in Outcomes \cup {"NONE"}
    BY <1>7 DEF PersistObservation, ControlTypes, SnapshotsNameRows, HoldingPoints, MemoryTypes
  <2>2. ReconciliationLifecycle(reading[h]) \in CommittedStates
    BY DEF ReconciliationLifecycle
  <2>3. CASE ~UNCHANGED evidenceVars
    BY <1>7, <2>1, <2>2, <2>3 DEF PersistObservation, MayReconcile
  <2>4. QED BY <1>1, <2>3
<1>8. QED
  BY <1>1, <1>2, <1>3, <1>4, <1>6, <1>7, EvidenceFrame

\* A commitment is written once.
LEMMA CommitmentStays ==
  ASSUME Next, commitment # NoGeneration PROVE commitment' = commitment
BY EvidenceFrame DEF evidenceVars, PrepareFirst, ReplaceExpired, CommitSubmission, MayCommit,
  RecordSubmission, AcceptedRecordThrows, AppendsSubmission, PersistObservation

\* Only the writer of the commitment becomes its owner, and only once.
LEMMA OwnerStep ==
  ASSUME TypeInv, ContactInv, Next PROVE OneOwner'
<1> USE DEF ContactInv, OneOwner
<1>1. ASSUME NEW r \in Requests, Owns(r)'
      PROVE  \/ Owns(r) /\ snap'[r] = snap[r]
             \/ /\ CommitSubmission(r) /\ commitment = NoGeneration
                /\ commitment' = snap'[r].gen /\ snap'[r].gen \in Generations
  <2>1. CASE pc'[r] = pc[r] /\ snap'[r] = snap[r]
    BY <1>1, <2>1 DEF Owns
  <2>2. CASE CommitSubmission(r) /\ MayCommit(snap[r].gen)
             /\ snap'[r].gen = snap[r].gen /\ commitment' = snap[r].gen
    BY <2>2 DEF MayCommit, CommitSubmission, TypeInv, ControlTypes, SnapshotsNameRows,
                HoldingPoints
  <2>3. QED BY <1>1, <2>1, <2>2, OwnerMoves
<1>2. ASSUME NEW r \in Requests, Owns(r)'
      PROVE  commitment' # NoGeneration /\ snap'[r].gen = commitment'
  BY <1>1, <1>2, CommitmentStays, BoundAssumption
<1>3. ASSUME NEW r \in Requests, NEW q \in Requests, Owns(r)', Owns(q)' PROVE r = q
  <2>1. CASE Owns(r) /\ Owns(q)
    BY <2>1
  <2>2. CASE commitment = NoGeneration
    <3>1. CommitSubmission(r) /\ CommitSubmission(q) /\ commitment' \in Generations
      BY <1>1, <1>3, <2>2
    <3>2. pc'[r] # pc[r] /\ pc'[q] # pc[q] /\ r \in Procs /\ q \in Procs
      BY <1>3, <3>1 DEF CommitSubmission, Owns, OwningPoints, RecordPoints
    <3>3. r # q => pc'[q] = pc[q]
      BY <3>1, <3>2 DEF CommitSubmission, Fetches, Goes, Fails, TypeInv, ControlTypes
    <3>4. QED BY <3>2, <3>3
  <2>3. QED BY <1>1, <1>3, <2>1, <2>2
<1>4. QED BY <1>2, <1>3

\* A contact is made by the owner, at the one point before which there is none.
LEMMA BoundsStep ==
  ASSUME TypeInv, ContactInv, Next PROVE ContactBounds'
<1> USE DEF TypeInv, NetworkTypes, ContactInv, ContactBounds
<1>1. CASE \E r \in Requests : ContactProvider(r)
  <2>1. PICK r \in Requests : ContactProvider(r)
    BY <1>1
  <2>2. /\ Owns(r) /\ NotYetContacted /\ snap[r].gen = commitment
        /\ commitment \in Generations
    BY <2>1 DEF ContactProvider, OneOwner, Owns, OwningPoints, NotYetContacted, EvidenceTypes
  <2>3. contacts' = [contacts EXCEPT ![commitment] = 1] /\ commitment' = commitment
    <3>1. contacts[commitment] + 1 = 1
      BY <2>2
    <3>2. contacts' = [contacts EXCEPT ![commitment] = contacts[commitment] + 1]
      BY <2>1, <2>2 DEF ContactProvider
    <3>3. QED BY <2>1, <3>1, <3>2 DEF ContactProvider, evidenceVars
  <2>4. ASSUME NEW q \in Requests, pc'[q] \in {"authorized", "recordInvalid"} PROVE FALSE
    BY <2>1, <2>2, <2>4 DEF ContactProvider, OneOwner, Owns, OwningPoints, RecordPoints,
                            Goes, ControlTypes
  <2>5. ~NotYetContacted'
    BY <2>1, <2>2, <2>3, <2>4 DEF NotYetContacted, RecordsTrue, ContactProvider, evidenceVars
  <2>6. QED BY <2>2, <2>3, <2>5
<1>2. CASE ~\E r \in Requests : ContactProvider(r)
  <2>1. contacts' = contacts
    BY <1>2, NetworkFrame DEF networkVars, NetworkStep, ProviderDelivers, ContactLost, Lands,
       Forks, Finalizes, ChainMoves, BlockhashExpires
  <2>2. ASSUME NEW r \in Requests, pc'[r] \in {"authorized", "recordInvalid"}
        PROVE  NotYetContacted
    <3>1. Owns(r)'
      BY <2>2 DEF Owns, OwningPoints, RecordPoints
    <3>2. CASE pc'[r] = pc[r]
      BY <2>2, <3>2 DEF NotYetContacted
    <3>3. CASE CommitSubmission(r) /\ MayCommit(snap[r].gen)
      BY <3>3 DEF MayCommit, NotYetContacted
    <3>4. CASE ReconstructFails(r)
      BY <3>4 DEF ReconstructFails, NotYetContacted
    <3>5. CASE ContactRefused(r) \/ ProviderAccepts(r) \/ AnswerUnavailable(r)
               \/ AcceptedRecordThrows(r)
      BY <2>2, <3>5 DEF ContactRefused, ProviderAccepts, AnswerUnavailable,
         AcceptedRecordThrows, Goes, ControlTypes
    <3>6. QED BY <1>2, <3>1, <3>2, <3>3, <3>4, <3>5, OwnerMoves
  <2>3. ASSUME "VALIDATION_FAILED" \in submitted' PROVE NotYetContacted
    <3>1. CASE submitted' = submitted
      BY <2>3, <3>1 DEF NotYetContacted
    <3>2. ASSUME NEW r \in Requests, RecordSubmission(r) PROVE NotYetContacted
      BY <2>3, <3>2 DEF RecordSubmission, AppendsSubmission, SubmissionOutcome, RecordPoints,
                        NotYetContacted
    <3>3. ASSUME NEW r \in Requests, AcceptedRecordThrows(r) PROVE NotYetContacted
      BY <2>3, <3>3 DEF AcceptedRecordThrows, AppendsSubmission, NotYetContacted, evidenceVars
    <3>4. QED
      BY <3>1, <3>2, <3>3, EvidenceFrame DEF evidenceVars, PrepareFirst, ReplaceExpired,
         CommitSubmission, PersistObservation
  <2>4. commitment' = NoGeneration => commitment = NoGeneration
    BY CommitmentStays
  <2>5. NotYetContacted' => NotYetContacted
    BY <2>2, <2>3, <2>4 DEF NotYetContacted
  <2>6. \A g \in Generations : commitment = g => commitment' = g
    BY CommitmentStays, BoundAssumption
  <2>7. QED BY <2>1, <2>5, <2>6
<1>3. QED BY <1>1, <1>2

\* The records follow the contact.
LEMMA RecordsStep ==
  ASSUME TypeInv, ContactInv, Next PROVE RecordsTrue'
<1> USE DEF TypeInv, ContactInv, RecordsTrue
<1>1. \A g \in Generations : chain[g] # "unseen" => chain'[g] # "unseen"
  BY NetworkFrame DEF networkVars, NetworkTypes, ContactProvider, NetworkStep, ProviderDelivers,
     ContactLost, Lands, Forks, Finalizes, ChainMoves, BlockhashExpires
<1>2. ASSUME NEW r \in Requests, pc'[r] = "recordAccepted"
      PROVE  chain'[commitment'] # "unseen"
  <2>1. Owns(r)'
    BY <1>2 DEF Owns, OwningPoints, RecordPoints
  <2>2. CASE pc'[r] = pc[r]
    <3>1. commitment \in Generations /\ chain[commitment] # "unseen"
      BY <1>2, <2>2 DEF OneOwner, Owns, OwningPoints, RecordPoints, EvidenceTypes
    <3>2. QED BY <1>1, <3>1, CommitmentStays, BoundAssumption
  <2>3. CASE ProviderAccepts(r)
    <3>1. commitment \in Generations /\ snap[r].gen = commitment
      BY <2>3 DEF ProviderAccepts, OneOwner, Owns, OwningPoints, EvidenceTypes
    <3>2. QED BY <2>3, <3>1 DEF ProviderAccepts, evidenceVars, networkVars
  <2>4. CASE pc'[r] = "authorized"
    BY <1>2, <2>4
  <2>5. CASE ReconstructFails(r) \/ ContactRefused(r) \/ ContactProvider(r)
             \/ AnswerUnavailable(r) \/ AcceptedRecordThrows(r)
    BY <1>2, <2>5 DEF ReconstructFails, ContactRefused, ContactProvider, AnswerUnavailable,
       AcceptedRecordThrows, Goes, ControlTypes
  <2>6. QED BY <2>1, <2>2, <2>3, <2>4, <2>5, OwnerMoves
<1>3. \/ submitted' = submitted
      \/ \E r \in Requests : RecordSubmission(r) \/ AcceptedRecordThrows(r)
  BY EvidenceFrame DEF evidenceVars, PrepareFirst, ReplaceExpired, CommitSubmission,
     PersistObservation
<1>4. ASSUME NEW r \in Requests, RecordSubmission(r) \/ AcceptedRecordThrows(r)
      PROVE  /\ Owns(r) /\ commitment \in Generations /\ commitment' = commitment
             /\ chain' = chain
             /\ "ACCEPTED" \in submitted' =>
                  "ACCEPTED" \in submitted \/ pc[r] = "recordAccepted"
             /\ "VALIDATION_FAILED" \in submitted' =>
                  \/ "VALIDATION_FAILED" \in submitted
                  \/ RecordSubmission(r)
  BY <1>4, BoundAssumption
  DEF RecordSubmission, AcceptedRecordThrows, AppendsSubmission, SubmissionOutcome, OneOwner,
      Owns, OwningPoints, RecordPoints, evidenceVars, networkVars, EvidenceTypes
<1>5. submitted' # {} => commitment' # NoGeneration
  BY <1>3, <1>4, CommitmentStays, BoundAssumption
<1>6. "ACCEPTED" \in submitted' => commitment' # NoGeneration /\ chain'[commitment'] # "unseen"
  <2>1. CASE submitted' = submitted
    BY <1>1, <2>1, CommitmentStays DEF EvidenceTypes
  <2>2. ASSUME NEW r \in Requests, RecordSubmission(r) \/ AcceptedRecordThrows(r),
               "ACCEPTED" \in submitted'
        PROVE  commitment' # NoGeneration /\ chain'[commitment'] # "unseen"
    BY <1>4, <2>2, BoundAssumption
  <2>3. QED BY <1>3, <2>1, <2>2
<1>7. ASSUME "VALIDATION_FAILED" \in submitted', NEW q \in Requests, Owns(q)' PROVE FALSE
  <2>1. ~CommitSubmission(q) \/ commitment # NoGeneration
    <3>1. CASE submitted' = submitted
      BY <1>7, <3>1
    <3>2. CASE \E r \in Requests : RecordSubmission(r) \/ AcceptedRecordThrows(r)
      BY <1>4, <3>2, BoundAssumption
    <3>3. QED BY <1>3, <3>1, <3>2
  <2>2. Owns(q)
    BY <1>7, <2>1, OwnerMoves DEF MayCommit, Owns
  <2>3. PICK r \in Requests : RecordSubmission(r)
    BY <1>3, <1>4, <1>7, <2>2
  <2>4. q = r
    BY <1>4, <2>2, <2>3 DEF OneOwner
  <2>5. pc'[r] = "applyFinal"
    BY <2>3 DEF RecordSubmission, Fetches, Goes, ControlTypes
  <2>6. QED BY <1>7, <2>4, <2>5 DEF Owns, OwningPoints, RecordPoints
<1>8. QED BY <1>2, <1>5, <1>6, <1>7

LEMMA ContactStep == TypeInv /\ ContactInv /\ [Next]_vars => ContactInv'
<1> SUFFICES ASSUME TypeInv, ContactInv, [Next]_vars PROVE ContactInv'  OBVIOUS
<1>1. CASE Next
  BY <1>1, RowsStep, OwnerStep, BoundsStep, RecordsStep DEF ContactInv
<1>2. CASE UNCHANGED vars
  BY <1>2 DEF vars, evidenceVars, networkVars, localVars, ContactInv, CommitmentNamesRow,
     NoGaps, GenerationsSucceed, Active, OneOwner, Owns, ContactBounds, NotYetContacted,
     RecordsTrue
<1>3. QED BY <1>1, <1>2

LEMMA ContactAlways == Spec => [](TypeInv /\ ContactInv)
BY TypesAlways, InitContact, ContactStep, PTL DEF Spec

\* The provider is handed signed bytes at most once over all generations of the
\* execution, for any number of requests, refreshes, retries and crashes.
THEOREM OneContact == Spec => []AtMostOneContact
BY ContactAlways, ContactInvImplies, PTL

\* No bytes leave the process before the durable commitment that names them, and
\* only that generation is beyond pre-contact.
THEOREM ContactIsCommitted == Spec => []ContactFollowsCommitment
BY ContactAlways, ContactInvImplies, PTL

\* At most one preparation is active, and everything older was abandoned.
THEOREM GenerationsInOrder == Spec => []GenerationsSucceed
BY ContactAlways, ContactInvImplies, PTL

\* VALIDATION_FAILED is never recorded of a contact that was made, nor ACCEPTED of
\* one the provider does not hold.
THEOREM RecordsTruthful == Spec => []SubmissionEvidenceTruthful
BY ContactAlways, ContactInvTruthful, PTL
---------------------------------------------------------------------------
(***************************************************************************)
(* The truth and its projection.  A reconciler's answer is the network's   *)
(* answer about the commitment, and what a handler read of a committed row *)
(* stays true of it once it is terminal; so neither a late answer nor an   *)
(* old snapshot can project what is not so.                                *)
(***************************************************************************)

ReconcilerPoints == {"renew", "rpc", "renewAgain", "dedupe", "persist"}

\* Bytes the network has seen were handed to it.
NetworkSawContacts ==
  \A g \in Generations :
    /\ g \in inflight => contacts[g] > 0
    /\ chain[g] # "unseen" => contacts[g] > 0

\* A reconciler asks about the commitment, and an answer that is final is true.
AnswersTrue ==
  \A h \in Reconcilers :
    /\ pc[h] \in ReconcilerPoints => commitment # NoGeneration /\ snap[h].gen = commitment
    /\ reading[h] = "SETTLED" => commitment # NoGeneration /\ chain[commitment] = "finalized"
    /\ reading[h] = "FAILED" => commitment # NoGeneration /\ chain[commitment] = "failed"

\* A snapshot of a committed row names the commitment, and terminal truth in it
\* is still the row's.
SnapshotsTrue ==
  \A p \in Procs :
    snap[p].state \in CommittedStates =>
      /\ commitment # NoGeneration /\ snap[p].gen = commitment
      /\ snap[p].state \in TerminalTruth => prep[commitment] = snap[p].state

\* AggregateFollowsEvidence with the row that vouches for the receipt.
AggregateTrue ==
  /\ payment = "COMPLETED" <=> receipt # NoGeneration
  /\ exec = "SETTLED" <=> receipt # NoGeneration
  /\ receipt # NoGeneration =>
       receipt = commitment /\ prep[receipt] = "SETTLED" /\ ~mismatch
  /\ exec \notin {"NONE", "READY"} => commitment # NoGeneration
  /\ exec = "FAILED" => commitment # NoGeneration /\ prep[commitment] = "FAILED"
  /\ review => mismatch /\ exec = "UNKNOWN"

TruthInv ==
  /\ NetworkSawContacts /\ AnswersTrue /\ DurableTruthMatchesChain
  /\ SnapshotsTrue /\ AggregateTrue

\* Points of a handler that works under a lease.
LeasedPoints == {"find", "prepare", "refresh", "replace", "apply", "read", "project",
                 "release"} \cup ReconcilerPoints

\* Two handlers of one worker work under different claims; one whose answer was
\* overtaken no longer has a valid lease.
FenceInv ==
  /\ \A h, o \in Handlers :
       /\ pc[h] \in LeasedPoints \cup {"idle", "projectUnleased"}
       /\ h # o /\ pc[h] \in LeasedPoints /\ pc[o] \in LeasedPoints
            /\ WorkerOf[h] = WorkerOf[o] => claimedAt[h] # claimedAt[o]
  /\ \A h \in overtaken : HoldsAnswer(h) /\ ~LeaseValid(h)

\* Terminal truth is never left, and is only ever an observation's answer.
LEMMA TruthMoves ==
  ASSUME TypeInv, Next, NEW g \in Generations
  PROVE  /\ prep[g] \in TerminalTruth => prep'[g] = prep[g]
         /\ prep'[g] \in TerminalTruth =>
              \/ prep'[g] = prep[g]
              \/ \E h \in Reconcilers : /\ pc[h] = "persist" /\ snap[h].gen = g
                                        /\ reading[h] = prep'[g]
<1> USE BoundAssumption DEF TypeInv, EvidenceTypes, TerminalTruth
<1> DEFINE Fine == /\ prep[g] \in TerminalTruth => prep'[g] = prep[g]
                   /\ prep'[g] \in TerminalTruth =>
                        \/ prep'[g] = prep[g]
                        \/ \E h \in Reconcilers : /\ pc[h] = "persist" /\ snap[h].gen = g
                                                  /\ reading[h] = prep'[g]
<1>1. CASE UNCHANGED evidenceVars
  BY <1>1 DEF evidenceVars
<1>2. ASSUME NEW c \in Callers, PrepareFirst(c) PROVE Fine
  BY <1>2 DEF PrepareFirst, MayInsert
<1>3. ASSUME NEW c \in Callers, ReplaceExpired(c) PROVE Fine
  BY <1>3 DEF ReplaceExpired, MayReplace, MayInsert
<1>4. ASSUME NEW r \in Requests, CommitSubmission(r) PROVE Fine
  BY <1>4 DEF CommitSubmission, MayCommit
<1>5. ASSUME NEW o, NEW n, AppendsSubmission(n, o) PROVE Fine
  BY <1>5 DEF AppendsSubmission, SubmissionMayRecord, SubmissionLifecycle
<1>6. ASSUME NEW r \in Requests, RecordSubmission(r) \/ AcceptedRecordThrows(r) PROVE Fine
  BY <1>1, <1>5, <1>6 DEF RecordSubmission, AcceptedRecordThrows
<1>7. ASSUME NEW h \in Reconcilers, PersistObservation(h) PROVE Fine
  <2>1. CASE ~UNCHANGED evidenceVars
    BY <1>7, <2>1 DEF PersistObservation, KeepsTruth, ReconciliationLifecycle
  <2>2. QED BY <1>1, <2>1
<1>8. QED
  BY <1>1, <1>2, <1>3, <1>4, <1>6, <1>7, EvidenceFrame

\* The network's verdict is final, and it sees nothing that was not handed to it.
LEMMA NetworkMoves ==
  ASSUME TypeInv, Next, NetworkSawContacts
  PROVE  /\ \A g \in Generations : chain[g] \in {"finalized", "failed"} => chain'[g] = chain[g]
         /\ NetworkSawContacts'
<1> USE DEF TypeInv, NetworkTypes, NetworkSawContacts
<1>1. CASE UNCHANGED networkVars
  BY <1>1 DEF networkVars
<1>2. ASSUME NEW r \in Requests, ContactProvider(r)
      PROVE  /\ \A g \in Generations : chain'[g] = chain[g]
             /\ NetworkSawContacts'
  <2>1. snap[r].gen \in Generations
    BY <1>2 DEF ContactProvider, ControlTypes, SnapshotsNameRows, HoldingPoints
  <2>2. \A g \in Generations : contacts[g] > 0 => contacts'[g] > 0
    BY <1>2, <2>1 DEF ContactProvider
  <2>3. contacts'[snap[r].gen] > 0
    BY <1>2, <2>1 DEF ContactProvider
  <2>4. QED BY <1>2, <2>2, <2>3 DEF ContactProvider
<1>3. ASSUME NEW n \in Generations, NetworkStep(n)
      PROVE  /\ \A g \in Generations : chain[g] \in {"finalized", "failed"} => chain'[g] = chain[g]
             /\ NetworkSawContacts'
  BY <1>3 DEF NetworkStep, ProviderDelivers, ContactLost, Lands, Forks, Finalizes,
              ChainMoves, BlockhashExpires
<1>4. QED BY <1>1, <1>2, <1>3, NetworkFrame

\* A snapshot a handler takes is of no committed row or equal to the row it leaves.
TrueOfRow(row) ==
  row.state \in CommittedStates => row.gen \in Generations /\ row.state = prep'[row.gen]

LEMMA FetchedTrue ==
  ASSUME TypeInv, NEW q, NEW row, NEW point, Fetches(q, row, point), TrueOfRow(row),
         NEW p \in Procs
  PROVE  snap'[p] = snap[p] \/ TrueOfRow(snap'[p])
BY DEF TypeInv, ControlTypes, Fetches, Keeps

LEMMA NoSnapTrue == TrueOfRow(NoSnap)
BY DEF TrueOfRow, NoSnap, CommittedStates

LEMMA RowTrue ==
  ASSUME NEW g \in Active, prep' = prep PROVE TrueOfRow(Row(g))
BY DEF TrueOfRow, Row, Active

LEMMA SnapMoves ==
  ASSUME TypeInv, Next, NEW p \in Procs
  PROVE  snap'[p] = snap[p] \/ TrueOfRow(snap'[p])
<1> DEFINE Fine == snap'[p] = snap[p] \/ TrueOfRow(snap'[p])
<1>1. CASE UNCHANGED snap
  BY <1>1
<1>2. ASSUME NEW q, Fails(q) PROVE Fine
  BY <1>2, FetchedTrue, NoSnapTrue DEF Fails
<1>3. ASSUME NEW q, Forgets(q) PROVE Fine
  BY <1>3, FetchedTrue, NoSnapTrue DEF Forgets
<1>4. ASSUME NEW q, NEW point, NEW g \in Active, Fetches(q, Row(g), point), prep' = prep
      PROVE  Fine
  BY <1>4, FetchedTrue, RowTrue
<1>5. ASSUME NEW q, NEW point, NEW g, Fetches(q, [gen |-> g, state |-> "PREPARED"], point)
      PROVE  Fine
  <2>1. TrueOfRow([gen |-> g, state |-> "PREPARED"])
    BY DEF TrueOfRow, CommittedStates
  <2>2. QED BY <1>5, <2>1, FetchedTrue
<1>6. ASSUME NEW r \in Requests, CommitSubmission(r) PROVE Fine
  <2>1. snap[r].gen \in Generations
    BY <1>6 DEF CommitSubmission, TypeInv, ControlTypes, SnapshotsNameRows, HoldingPoints
  <2>2. CASE Fetches(r, [gen |-> snap[r].gen, state |-> "COMMITTED"], "authorized")
             /\ prep' = [prep EXCEPT ![snap[r].gen] = "COMMITTED"]
    <3>1. TrueOfRow([gen |-> snap[r].gen, state |-> "COMMITTED"])
      BY <2>1, <2>2 DEF TrueOfRow, TypeInv, EvidenceTypes
    <3>2. QED BY <2>2, <3>1, FetchedTrue
  <2>3. CASE Fetches(r, Row(snap[r].gen), "applyFinal") /\ prep' = prep
    <3>1. TrueOfRow(Row(snap[r].gen))
      BY <2>1, <2>3 DEF TrueOfRow, Row
    <3>2. QED BY <2>3, <3>1, FetchedTrue
  <2>4. QED BY <1>2, <1>6, <2>2, <2>3 DEF CommitSubmission
<1>7. ASSUME NEW r \in Requests, RecordSubmission(r) PROVE Fine
  <2>1. snap[r].gen \in Generations
    BY <1>7 DEF RecordSubmission, TypeInv, ControlTypes, SnapshotsNameRows, HoldingPoints
  <2>2. TrueOfRow([gen |-> snap[r].gen, state |-> prep'[snap[r].gen]])
    BY <2>1 DEF TrueOfRow
  <2>3. QED BY <1>7, <2>2, FetchedTrue DEF RecordSubmission
<1>8. ASSUME NEW h \in Reconcilers, PersistObservation(h) PROVE Fine
  <2>1. snap[h].gen \in Generations
    BY <1>8 DEF PersistObservation, TypeInv, ControlTypes, SnapshotsNameRows, HoldingPoints
  <2>2. TrueOfRow([gen |-> snap[h].gen, state |-> prep'[snap[h].gen]])
    BY <2>1 DEF TrueOfRow
  <2>3. prep' = prep => TrueOfRow(Row(snap[h].gen))
    BY <2>1 DEF TrueOfRow, Row
  <2>4. QED BY <1>2, <1>8, <2>2, <2>3, FetchedTrue DEF PersistObservation, evidenceVars
<1>9. ASSUME NEW r \in Requests, RequestStep(r) PROVE Fine
  BY <1>1, <1>2, <1>4, <1>6, <1>7, <1>9, FetchedTrue, NoSnapTrue
  DEF RequestStep, ValidateRequest, CreateOrGet, FindAfterFailure, SubmitFind,
      ReconstructFails, ContactRefused, ContactProvider, ProviderAccepts,
      AnswerUnavailable, AcceptedRecordThrows, ApplySubmitted, localVars, evidenceVars
<1>10. ASSUME NEW c \in Callers, PreparationStep(c) PROVE Fine
  BY <1>1, <1>2, <1>4, <1>5, <1>10, FetchedTrue, NoSnapTrue
  DEF PreparationStep, FindPreparation, PrepareFirst, PrepareFails,
      RefreshCheck, ReplaceExpired, ApplyPrepared, evidenceVars
<1>11. ASSUME NEW h \in Reconcilers, ReconcileStep(h) PROVE Fine
  BY <1>1, <1>2, <1>4, <1>8, <1>11, FetchedTrue, NoSnapTrue
  DEF ReconcileStep, LeasedStep, ClaimReconciliation, Claims, ReadCommitted, RenewBeforeRpc,
      RenewBeforePersist, Renews, ObserveSignature, Deduplicate, Project, ReadUnleased,
      ProjectUnleased, evidenceVars
<1>12. ASSUME NEW q \in Procs, HandlerFails(q) \/ Crash(q) \/ Release(q) PROVE Fine
  BY <1>2, <1>3, <1>12, FetchedTrue, NoSnapTrue DEF HandlerFails, Crash, Release
<1>13. CASE ConfirmPayment \/ (\E kind \in TaskKinds : LeaseExpires(kind))
            \/ (\E g \in Generations : NetworkStep(g)) \/ \E c \in Preparers : ClaimPreparation(c)
  BY <1>1, <1>13 DEF ConfirmPayment, LeaseExpires, NetworkStep, ProviderDelivers, ContactLost,
     Lands, Forks, Finalizes, ChainMoves, BlockhashExpires, ClaimPreparation, Claims, localVars
<1>14. QED BY <1>9, <1>10, <1>11, <1>12, <1>13 DEF Next

\* A reconciler moves by its own steps only.
LEMMA ReconcilerFrame ==
  ASSUME TypeInv, Next, NEW h \in Reconcilers, ~(pc'[h] = pc[h] /\ snap'[h] = snap[h])
  PROVE  ReconcileStep(h) \/ Release(h) \/ HandlerFails(h) \/ Crash(h)
<1> USE ProcessAssumption DEF TypeInv, ControlTypes
<1>1. ASSUME NEW q \in Procs, NEW row, NEW point, Fetches(q, row, point), q # h PROVE FALSE
  BY <1>1 DEF Fetches, Goes, Keeps
<1>2. ASSUME NEW q \in Procs, NEW point, Goes(q, point), UNCHANGED snap, q # h PROVE FALSE
  BY <1>2 DEF Goes
<1>3. ASSUME NEW q \in Requests, RequestStep(q) PROVE FALSE
  BY <1>1, <1>2, <1>3 DEF RequestStep, ValidateRequest, CreateOrGet, FindAfterFailure, SubmitFind,
     CommitSubmission, ReconstructFails, ContactRefused, ContactProvider, ProviderAccepts,
     AnswerUnavailable, RecordSubmission, AcceptedRecordThrows, ApplySubmitted, Fails, localVars
<1>4. ASSUME NEW q \in Callers, PreparationStep(q) PROVE FALSE
  BY <1>1, <1>2, <1>4 DEF PreparationStep, FindPreparation, PrepareFirst, PrepareFails,
     RefreshCheck, ReplaceExpired, ApplyPrepared, Fails
<1>5. ASSUME NEW q \in Handlers, NEW kind, NEW point, Claims(kind, q, point), q # h PROVE FALSE
  BY <1>2, <1>5 DEF Claims
<1>6. ASSUME NEW q \in Reconcilers, ReconcileStep(q), q # h PROVE FALSE
  BY <1>1, <1>2, <1>5, <1>6 DEF ReconcileStep, LeasedStep, ClaimReconciliation, ReadCommitted,
     RenewBeforeRpc, RenewBeforePersist, Renews, ObserveSignature, Deduplicate,
     PersistObservation, Project, ReadUnleased, ProjectUnleased, Fails
<1>7. ASSUME NEW q \in Procs, HandlerFails(q) \/ Crash(q) \/ Release(q), q # h PROVE FALSE
  BY <1>1, <1>7 DEF HandlerFails, Crash, Release, Forgets, Fails
<1>8. ASSUME ConfirmPayment \/ (\E kind \in TaskKinds : LeaseExpires(kind))
           \/ (\E g \in Generations : NetworkStep(g))
      PROVE FALSE
  BY <1>8 DEF ConfirmPayment, LeaseExpires, NetworkStep, ProviderDelivers, ContactLost,
     Lands, Forks, Finalizes, ChainMoves, BlockhashExpires, localVars
<1>9. ASSUME NEW q \in Preparers, ClaimPreparation(q) PROVE FALSE
  BY <1>5, <1>9 DEF ClaimPreparation
<1>10. QED
  BY <1>3, <1>4, <1>6, <1>7, <1>8, <1>9 DEF Next

\* A reconciler comes to ask about a row it read as the commitment's, and keeps it.
LEMMA ReconcilerMoves ==
  ASSUME TypeInv, Next, NEW h \in Reconcilers, pc'[h] \in ReconcilerPoints
  PROVE  \/ pc[h] \in ReconcilerPoints /\ snap'[h] = snap[h]
         \/ /\ commitment \in Generations /\ commitment' = commitment
            /\ snap'[h].gen = commitment
<1> USE DEF TypeInv, ControlTypes, ReconcilerPoints
<1>1. ASSUME NEW row, NEW point, Fetches(h, row, point)
      PROVE  point \in ReconcilerPoints /\ snap'[h] = row
  BY <1>1 DEF Fetches, Goes, Keeps
<1>2. ASSUME NEW point, Goes(h, point) PROVE point \in ReconcilerPoints
  BY <1>2 DEF Goes
<1>3. ASSUME Fails(h) \/ Forgets(h) PROVE FALSE
  BY <1>1, <1>3, ProcessAssumption DEF Fails, Forgets, Ended
<1>4. CASE ReadCommitted(h)
  BY <1>1, <1>4 DEF ReadCommitted, Active, Row, evidenceVars
<1>5. CASE RenewBeforeRpc(h) \/ RenewBeforePersist(h) \/ ObserveSignature(h) \/ Deduplicate(h)
  BY <1>2, <1>3, <1>5 DEF RenewBeforeRpc, RenewBeforePersist, Renews, ObserveSignature, Deduplicate
<1>6. CASE \/ ClaimReconciliation(h) \/ PersistObservation(h) \/ Project(h)
           \/ ReadUnleased(h) \/ ProjectUnleased(h)
  BY <1>1, <1>2, <1>3, <1>6 DEF ClaimReconciliation, Claims, PersistObservation, Project,
     ReadUnleased, ProjectUnleased
<1>7. CASE Release(h) \/ HandlerFails(h) \/ Crash(h)
  BY <1>1, <1>3, <1>7 DEF Release, HandlerFails, Crash
<1>8. CASE pc'[h] = pc[h] /\ snap'[h] = snap[h]
  BY <1>8
<1>9. QED
  BY <1>4, <1>5, <1>6, <1>7, <1>8, ReconcilerFrame DEF ReconcileStep, LeasedStep

\* What a reconciler holds of the provider's, it was told in its own call.
LEMMA ReadingMoves ==
  ASSUME TypeInv, Next, NEW h \in Reconcilers
  PROVE  \/ reading'[h] \in {reading[h], "NONE"}
         \/ /\ pc[h] = "rpc" /\ reading'[h] \in Answers(commitment)
            /\ UNCHANGED <<evidenceVars, networkVars>>
<1> DEFINE Fine == \/ reading'[h] \in {reading[h], "NONE"}
                   \/ /\ pc[h] = "rpc" /\ reading'[h] \in Answers(commitment)
                      /\ UNCHANGED <<evidenceVars, networkVars>>
<1> USE DEF TypeInv, MemoryTypes
<1>1. CASE UNCHANGED reading
  BY <1>1
<1>2. ASSUME NEW p, Drops(p) PROVE Fine
  BY <1>2 DEF Drops
<1>3. ASSUME NEW p, Forgets(p) PROVE Fine
  BY <1>2, <1>3 DEF Forgets
<1>4. ASSUME NEW o \in Reconcilers, ObserveSignature(o) PROVE Fine
  BY <1>4 DEF ObserveSignature
<1>5. ASSUME NEW o \in Reconcilers, PersistObservation(o) PROVE Fine
  BY <1>2, <1>5 DEF PersistObservation
<1>6. QED
  BY <1>1, <1>2, <1>3, <1>4, <1>5
  DEF Next, RequestStep, PreparationStep, ReconcileStep, LeasedStep, NetworkStep, ConfirmPayment,
  ValidateRequest, CreateOrGet, FindAfterFailure, SubmitFind, CommitSubmission,
  ReconstructFails, ContactRefused, ContactProvider, ProviderAccepts, AnswerUnavailable,
  RecordSubmission, AcceptedRecordThrows, ApplySubmitted, FindPreparation, PrepareFirst,
  PrepareFails, RefreshCheck, ReplaceExpired, ApplyPrepared, ClaimPreparation,
  ClaimReconciliation, Claims, ReadCommitted, RenewBeforeRpc, RenewBeforePersist, Renews,
  Deduplicate, Project, ReadUnleased, ProjectUnleased, Release, LeaseExpires,
  HandlerFails, Crash, ProviderDelivers, ContactLost, Lands, Forks, Finalizes,
  ChainMoves, BlockhashExpires, localVars, memoryVars

LEMMA AnswersStep ==
  ASSUME TypeInv, TruthInv, Next PROVE AnswersTrue'
<1> USE DEF TypeInv, EvidenceTypes, TruthInv, AnswersTrue
<1> SUFFICES ASSUME NEW h \in Reconcilers
             PROVE  /\ pc'[h] \in ReconcilerPoints =>
                         commitment' # NoGeneration /\ snap'[h].gen = commitment'
                    /\ reading'[h] = "SETTLED" =>
                         commitment' # NoGeneration /\ chain'[commitment'] = "finalized"
                    /\ reading'[h] = "FAILED" =>
                         commitment' # NoGeneration /\ chain'[commitment'] = "failed"
  OBVIOUS
<1>1. pc'[h] \in ReconcilerPoints =>
        commitment' # NoGeneration /\ snap'[h].gen = commitment'
  BY ReconcilerMoves, CommitmentStays, BoundAssumption
<1>2. commitment # NoGeneration =>
        /\ commitment \in Generations /\ commitment' = commitment
        /\ chain[commitment] \in {"finalized", "failed"} => chain'[commitment] = chain[commitment]
  BY CommitmentStays, NetworkMoves
<1>3. CASE reading'[h] \in {reading[h], "NONE"}
  BY <1>1, <1>2, <1>3
<1>4. CASE /\ pc[h] = "rpc" /\ reading'[h] \in Answers(commitment)
           /\ UNCHANGED <<evidenceVars, networkVars>>
  BY <1>1, <1>2, <1>4 DEF Answers, ReconcilerPoints, evidenceVars, networkVars
<1>5. QED BY <1>3, <1>4, ReadingMoves

LEMMA DurableTruthStep ==
  ASSUME TypeInv, TruthInv, Next PROVE DurableTruthMatchesChain'
<1> USE DEF TypeInv, TruthInv, DurableTruthMatchesChain
<1> SUFFICES ASSUME NEW g \in Generations
             PROVE  /\ prep'[g] = "SETTLED" => chain'[g] = "finalized"
                    /\ prep'[g] = "FAILED" => chain'[g] = "failed"
  OBVIOUS
<1>1. chain[g] \in {"finalized", "failed"} => chain'[g] = chain[g]
  BY NetworkMoves
<1>2. CASE prep'[g] = prep[g]
  BY <1>1, <1>2
<1>3. ASSUME NEW h \in Reconcilers, pc[h] = "persist", snap[h].gen = g, reading[h] = prep'[g]
      PROVE  /\ prep'[g] = "SETTLED" => chain'[g] = "finalized"
             /\ prep'[g] = "FAILED" => chain'[g] = "failed"
  BY <1>1, <1>3 DEF AnswersTrue, ReconcilerPoints
<1>4. QED BY <1>2, <1>3, TruthMoves DEF TerminalTruth

LEMMA SnapshotsStep ==
  ASSUME TypeInv, ContactInv, TruthInv, Next PROVE SnapshotsTrue'
<1> USE DEF TypeInv, EvidenceTypes, TruthInv, SnapshotsTrue
<1> SUFFICES ASSUME NEW p \in Procs, snap'[p].state \in CommittedStates
             PROVE  /\ commitment' # NoGeneration /\ snap'[p].gen = commitment'
                    /\ snap'[p].state \in TerminalTruth => prep'[commitment'] = snap'[p].state
  OBVIOUS
<1>1. CommitmentNamesRow'
  BY RowsStep
<1>2. CASE snap'[p] = snap[p]
  BY <1>2, CommitmentStays, TruthMoves
<1>3. CASE TrueOfRow(snap'[p])
  BY <1>1, <1>3, BoundAssumption DEF TrueOfRow, CommitmentNamesRow
<1>4. QED BY <1>2, <1>3, SnapMoves

\* A projection of a true snapshot leaves a true aggregate.
LEMMA ApplyTrue ==
  ASSUME TypeInv, TruthInv, Next, NEW p \in Procs, ApplyLifecycle(snap[p])
  PROVE  AggregateTrue'
<1> DEFINE s == snap[p]
<1>0. /\ commitment # NoGeneration => commitment' = commitment /\ commitment \in Generations
      /\ commitment # NoGeneration /\ prep[commitment] \in TerminalTruth =>
           prep'[commitment] = prep[commitment]
  BY CommitmentStays, TruthMoves DEF TypeInv, EvidenceTypes
<1>1. /\ s.state \in CommittedStates => commitment # NoGeneration /\ s.gen = commitment
      /\ s.state \in TerminalTruth => prep[commitment] = s.state
      /\ AggregateTrue
  BY DEF TruthInv, SnapshotsTrue, CommittedStates, TerminalTruth
<1>2. /\ CanApply(s) /\ mismatch' = mismatch
      /\ exec' = PathEnd(exec, ApplyTarget(s)) /\ review' = (review \/ Blocked(s))
      /\ receipt' = IF Completes(s) /\ receipt = NoGeneration THEN s.gen ELSE receipt
      /\ payment' = IF Completes(s) THEN "COMPLETED" ELSE payment
  BY DEF ApplyLifecycle
<1>3. s.state \in LifecycleStates
  BY DEF TypeInv, ControlTypes, Snapshots
<1> HIDE DEF s
<1>4. CASE Completes(s)
  <2>1. /\ ~Blocked(s) /\ s.state = "SETTLED" /\ ~mismatch /\ ~review
        /\ commitment # NoGeneration /\ s.gen = commitment /\ prep[commitment] = "SETTLED"
    BY <1>1, <1>4 DEF Completes, Blocked, CommittedStates, TerminalTruth, AggregateTrue
  <2>2. exec' = "SETTLED" /\ payment' = "COMPLETED"
    <3>1. ApplyTarget(s) = "SETTLED"
      BY <2>1 DEF ApplyTarget, AggregateStatus, TerminalTruth
    <3>2. PathEnd(exec, "SETTLED") = "SETTLED"
      BY <1>2, <1>4, <2>1 DEF CanApply
    <3>3. QED BY <1>2, <1>4, <3>1, <3>2
  <2>3. review' = FALSE
    BY <1>2, <2>1
  <2>4. receipt' = commitment
    BY <1>1, <1>2, <1>4, <2>1 DEF AggregateTrue
  <2>5. QED
    BY <1>0, <1>2, <2>1, <2>2, <2>3, <2>4 DEF AggregateTrue, TerminalTruth
<1>5. CASE Blocked(s)
  <2>1. /\ s.state = "SETTLED" /\ mismatch /\ ~Completes(s) /\ exec \notin TerminalTruth
        /\ commitment # NoGeneration
    BY <1>1, <1>2, <1>5 DEF Blocked, Completes, CanApply, CommittedStates
  <2>2. exec' = "UNKNOWN" /\ payment' = payment /\ receipt' = receipt
    BY <1>2, <1>5, <2>1 DEF ApplyTarget, PathEnd
  <2>3. QED BY <1>0, <1>1, <1>2, <2>1, <2>2 DEF AggregateTrue, TerminalTruth
<1>6. CASE ~Completes(s) /\ ~Blocked(s)
  <2>1. s.state # "SETTLED" /\ review' = review /\ payment' = payment /\ receipt' = receipt
    BY <1>1, <1>2, <1>6 DEF Completes, Blocked, AggregateTrue, TypeInv, AggregateTypes
  <2>2. ApplyTarget(s) = IF review THEN "UNKNOWN" ELSE AggregateStatus(s.state)
    BY <1>6, <2>1 DEF ApplyTarget
  <2>3. /\ exec' # "SETTLED" \/ exec = "SETTLED"
        /\ exec = "SETTLED" => exec' = "SETTLED"
        /\ exec' = "FAILED" => exec = "FAILED" \/ s.state = "FAILED"
        /\ review => exec' = "UNKNOWN"
        /\ exec' \notin {"NONE", "READY"} =>
             exec \notin {"NONE", "READY"} \/ s.state \in CommittedStates \/ review
    BY <1>1, <1>2, <1>3, <2>1, <2>2
    DEF PathEnd, AggregateStatus, AggregateTrue, TerminalTruth, CommittedStates, LifecycleStates
  <2>4. /\ exec' \notin {"NONE", "READY"} => commitment # NoGeneration
        /\ exec' = "FAILED" => commitment # NoGeneration /\ prep[commitment] = "FAILED"
    BY <1>1, <2>3 DEF AggregateTrue, CommittedStates, TerminalTruth
  <2>5. QED BY <1>0, <1>1, <1>2, <2>1, <2>3, <2>4 DEF AggregateTrue, TerminalTruth
<1>7. QED BY <1>4, <1>5, <1>6

LEMMA AggregateTrueStep ==
  ASSUME TypeInv, TruthInv, Next PROVE AggregateTrue'
<1>0. /\ commitment # NoGeneration => commitment' = commitment /\ commitment \in Generations
      /\ commitment # NoGeneration /\ prep[commitment] \in TerminalTruth =>
           prep'[commitment] = prep[commitment]
  BY CommitmentStays, TruthMoves DEF TypeInv, EvidenceTypes
<1>1. CASE UNCHANGED aggregateVars
  BY <1>0, <1>1, BoundAssumption
  DEF aggregateVars, TruthInv, AggregateTrue, TerminalTruth, TypeInv, AggregateTypes
<1>2. CASE ConfirmPayment \/ \E r \in Requests : CreateOrGet(r)
  BY <1>0, <1>2, BoundAssumption
  DEF ConfirmPayment, CreateOrGet, TruthInv, AggregateTrue, TerminalTruth, TypeInv,
      AggregateTypes, evidenceVars
<1>3. ASSUME NEW p \in Procs, ApplyLifecycle(snap[p]) PROVE AggregateTrue'
  BY <1>3, ApplyTrue
<1>4. QED BY <1>1, <1>2, <1>3, AggregateFrame

LEMMA TruthStep == TypeInv /\ ContactInv /\ TruthInv /\ [Next]_vars => TruthInv'
<1> SUFFICES ASSUME TypeInv, ContactInv, TruthInv, [Next]_vars PROVE TruthInv'  OBVIOUS
<1>1. CASE Next
  BY <1>1, NetworkMoves, AnswersStep, DurableTruthStep, SnapshotsStep, AggregateTrueStep
  DEF TruthInv
<1>2. CASE UNCHANGED vars
  BY <1>2 DEF vars, aggregateVars, evidenceVars, networkVars, localVars, memoryVars, TruthInv,
     NetworkSawContacts, AnswersTrue, DurableTruthMatchesChain, SnapshotsTrue, AggregateTrue
<1>3. QED BY <1>1, <1>2

LEMMA InitTruth == Init => TruthInv
BY BoundAssumption DEF Init, TruthInv, NetworkSawContacts, AnswersTrue,
   DurableTruthMatchesChain, SnapshotsTrue, AggregateTrue, NoSnap, CommittedStates,
   ReconcilerPoints

LEMMA TruthAlways == Spec => [](TypeInv /\ ContactInv /\ TruthInv)
BY InitTypes, InitContact, InitTruth, TypeStep, ContactStep, TruthStep, PTL DEF Spec

\* A preparation row says SETTLED or FAILED only of a transfer the chain has
\* finalized or failed, however answers, fences and submission records cross.
THEOREM DurableTruth == Spec => []DurableTruthMatchesChain
<1>1. TruthInv => DurableTruthMatchesChain
  BY DEF TruthInv
<1>2. QED BY <1>1, TruthAlways, PTL

\* Payment, receipt and execution follow the committed row's truth together, and a
\* review is never lifted, whatever older snapshot a handler projects.
THEOREM AggregateFollows == Spec => []AggregateFollowsEvidence
<1>1. TypeInv /\ TruthInv => AggregateFollowsEvidence
  BY BoundAssumption
  DEF TruthInv, AggregateTrue, AggregateFollowsEvidence, DurableTruthMatchesChain, TypeInv,
      EvidenceTypes, AggregateTypes
<1>2. QED BY <1>1, TruthAlways, PTL

---------------------------------------------------------------------------
(***************************************************************************)
(* The fence.  A claim's instant is not handed out again while its holder  *)
(* works, so of two handlers of one worker at most one holds the lease.    *)
(***************************************************************************)

\* Handlers stay at the points of their phases.
LEMMA HandlerMoves ==
  ASSUME TypeInv, Next, NEW h \in Handlers, pc[h] \in LeasedPoints \cup {"idle", "projectUnleased"}
  PROVE  /\ pc'[h] \in LeasedPoints \cup {"idle", "projectUnleased"}
         /\ pc'[h] \in LeasedPoints =>
              \/ pc[h] \in LeasedPoints /\ claimedAt'[h] = claimedAt[h]
              \/ \E kind \in TaskKinds, point \in {"find", "read"} : Claims(kind, h, point)
<1> USE ProcessAssumption
    DEF TypeInv, ControlTypes, MemoryTypes, LeasedPoints, ReconcilerPoints
<1> DEFINE Fine == /\ pc'[h] \in LeasedPoints \cup {"idle", "projectUnleased"}
                   /\ pc'[h] \in LeasedPoints =>
                        \/ pc[h] \in LeasedPoints /\ claimedAt'[h] = claimedAt[h]
                        \/ \E kind \in TaskKinds, point \in {"find", "read"} :
                             Claims(kind, h, point)
<1>1. ASSUME NEW q \in Procs, NEW row, NEW point, Fetches(q, row, point), UNCHANGED claimedAt,
             q = h => /\ point \in LeasedPoints \cup {"idle", "projectUnleased"}
                      /\ point \in LeasedPoints => pc[h] \in LeasedPoints
      PROVE  Fine
  BY <1>1 DEF Fetches, Goes
<1>2. ASSUME NEW q \in Procs, NEW point, Goes(q, point), UNCHANGED claimedAt,
             q = h => /\ point \in LeasedPoints \cup {"idle", "projectUnleased"}
                      /\ point \in LeasedPoints => pc[h] \in LeasedPoints
      PROVE  Fine
  BY <1>2 DEF Goes
<1>3. CASE UNCHANGED <<pc, claimedAt>>
  BY <1>3
<1>4. ASSUME NEW q \in Procs, Fails(q), UNCHANGED claimedAt, q = h => pc[h] \in LeasedPoints
      PROVE  Fine
  BY <1>1, <1>4 DEF Fails
<1>5. ASSUME NEW q \in Procs, Forgets(q) PROVE Fine
  BY <1>5 DEF Forgets, Fetches, Goes, Ended
<1>6. ASSUME NEW q \in Handlers, NEW kind \in TaskKinds, NEW point \in {"find", "read"},
             Claims(kind, q, point)
      PROVE  Fine
  <2>1. CASE q = h
    <3>1. Claims(kind, h, point)
      BY <1>6, <2>1
    <3>2. pc'[h] = point
      BY <1>6, <2>1 DEF Claims, Goes
    <3>3. point \in LeasedPoints
      BY <1>6
    <3>4. QED BY <1>6, <3>1, <3>2, <3>3
  <2>2. CASE q # h
    <3>1. pc'[h] = pc[h] /\ claimedAt'[h] = claimedAt[h]
      BY <1>6, <2>2 DEF Claims, Goes
    <3>2. QED BY <3>1
  <2>3. QED BY <2>1, <2>2
<1>7. ASSUME NEW q \in Requests, RequestStep(q) PROVE Fine
  <2>1. q # h /\ UNCHANGED claimedAt
    BY <1>7 DEF RequestStep, ValidateRequest, CreateOrGet, FindAfterFailure, SubmitFind,
     CommitSubmission, ReconstructFails, ContactRefused, ContactProvider, ProviderAccepts,
     AnswerUnavailable, RecordSubmission, AcceptedRecordThrows, ApplySubmitted, localVars,
     memoryVars
  <2>2. pc'[h] = pc[h]
    BY <1>7, <2>1 DEF RequestStep, ValidateRequest, CreateOrGet, FindAfterFailure, SubmitFind,
     CommitSubmission, ReconstructFails, ContactRefused, ContactProvider, ProviderAccepts,
     AnswerUnavailable, RecordSubmission, AcceptedRecordThrows, ApplySubmitted, Fails,
     Fetches, Goes
  <2>3. QED BY <2>1, <2>2
<1>8. ASSUME NEW c \in Callers, PreparationStep(c) PROVE Fine
  <2>1. UNCHANGED claimedAt
    BY <1>8 DEF PreparationStep, FindPreparation, PrepareFirst, PrepareFails, RefreshCheck,
       ReplaceExpired, ApplyPrepared, memoryVars
  <2>2. CASE c # h
    <3>1. pc'[h] = pc[h]
      BY <1>8, <2>2 DEF PreparationStep, FindPreparation, PrepareFirst, PrepareFails, RefreshCheck,
         ReplaceExpired, ApplyPrepared, Fails, Fetches, Goes
    <3>2. QED BY <2>1, <3>1
  <2>3. CASE c = h
    BY <1>1, <1>2, <1>4, <1>8, <2>1, <2>3
    DEF PreparationStep, FindPreparation, PrepareFirst, PrepareFails, RefreshCheck,
        ReplaceExpired, ApplyPrepared, AfterFind
  <2>4. QED BY <2>2, <2>3
<1>9. ASSUME NEW q \in Preparers, ClaimPreparation(q) PROVE Fine
  BY <1>6, <1>9 DEF ClaimPreparation, TaskKinds
<1>10. ASSUME NEW q \in Reconcilers, ReconcileStep(q) PROVE Fine
  <2>1. CASE ClaimReconciliation(q)
    BY <1>6, <2>1 DEF ClaimReconciliation, TaskKinds
  <2>2. CASE ~ClaimReconciliation(q)
    <3>1. UNCHANGED claimedAt
      BY <1>10, <2>2 DEF ReconcileStep, LeasedStep, ReadCommitted,
         RenewBeforeRpc, RenewBeforePersist, Renews, ObserveSignature, Deduplicate,
         PersistObservation, Project, ReadUnleased, ProjectUnleased, memoryVars
    <3>2. QED
      BY <1>1, <1>2, <1>4, <1>10, <2>2, <3>1
      DEF ReconcileStep, LeasedStep, ReadCommitted, RenewBeforeRpc, RenewBeforePersist, Renews,
          ObserveSignature, Deduplicate, PersistObservation, Project, ReadUnleased,
          ProjectUnleased
  <2>3. QED BY <2>1, <2>2
<1>11. ASSUME NEW q \in Procs, HandlerFails(q) PROVE Fine
  BY <1>1, <1>4, <1>11 DEF HandlerFails
<1>12. ASSUME NEW q \in Procs, Crash(q) \/ Release(q) PROVE Fine
  BY <1>5, <1>12 DEF Crash, Release
<1>13. CASE ConfirmPayment \/ (\E kind \in TaskKinds : LeaseExpires(kind))
            \/ (\E g \in Generations : NetworkStep(g))
  BY <1>3, <1>13 DEF ConfirmPayment, LeaseExpires, NetworkStep, ProviderDelivers, ContactLost,
     Lands, Forks, Finalizes, ChainMoves, BlockhashExpires, localVars, memoryVars
<1>14. QED BY <1>7, <1>8, <1>9, <1>10, <1>11, <1>12, <1>13 DEF Next

\* Claims of one worker that are held at the same time differ.
ClaimsDiffer ==
  \A h, o \in Handlers :
    /\ pc[h] \in LeasedPoints \cup {"idle", "projectUnleased"}
    /\ h # o /\ pc[h] \in LeasedPoints /\ pc[o] \in LeasedPoints
         /\ WorkerOf[h] = WorkerOf[o] => claimedAt[h] # claimedAt[o]

LEMMA ClaimsDifferStep ==
  ASSUME TypeInv, ClaimsDiffer, Next PROVE ClaimsDiffer'
<1> USE DEF ClaimsDiffer
<1>1. \A h \in Handlers : pc'[h] \in LeasedPoints \cup {"idle", "projectUnleased"}
  BY HandlerMoves
<1>2. ASSUME NEW h \in Handlers, NEW o \in Handlers, h # o,
             pc'[h] \in LeasedPoints, pc'[o] \in LeasedPoints, WorkerOf[h] = WorkerOf[o],
             NEW kind, NEW point, Claims(kind, h, point)
      PROVE  claimedAt'[h] # claimedAt'[o]
  <2>1. /\ pc'[o] = pc[o] /\ claimedAt'[o] = claimedAt[o]
        /\ claimedAt'[h] \in FreshInstants(h)
    BY <1>2 DEF Claims, Goes, TypeInv, ControlTypes, MemoryTypes
  <2>2. QED BY <1>2, <2>1 DEF FreshInstants, LeasedPoints, ReconcilerPoints
<1>3. ASSUME NEW h \in Handlers, NEW o \in Handlers, h # o,
             pc'[h] \in LeasedPoints, pc'[o] \in LeasedPoints, WorkerOf[h] = WorkerOf[o]
      PROVE  claimedAt'[h] # claimedAt'[o]
  BY <1>2, <1>3, HandlerMoves
<1>4. QED BY <1>1, <1>3

\* A lease becomes valid for a handler only by that handler's own claim.
LEMMA LeaseMoves ==
  ASSUME TypeInv, ClaimsDiffer, Next, NEW h \in Reconcilers, pc[h] \in LeasedPoints,
         claimedAt'[h] = claimedAt[h], LeaseValid(h)'
  PROVE  LeaseValid(h)
<1> USE DEF TypeInv, LeaseTypes, LeaseValid, HoldsLease
<1>1. CASE UNCHANGED lease
  BY <1>1
<1>2. ASSUME NEW q \in Handlers, NEW kind \in TaskKinds, NEW point, Claims(kind, q, point)
      PROVE  LeaseValid(h)
  <2>1. CASE kind # "RECONCILIATION"
    BY <1>2, <2>1 DEF Claims
  <2>2. CASE kind = "RECONCILIATION"
    <3>1. /\ WorkerOf[q] = WorkerOf[h] /\ claimedAt'[h] \in FreshInstants(q)
          /\ pc[h] # "idle"
      BY <1>2, <2>2 DEF Claims, LeasedPoints, ReconcilerPoints, TaskKinds
    <3>2. QED BY <3>1 DEF FreshInstants
  <2>3. QED BY <2>1, <2>2
<1>3. ASSUME NEW q \in Handlers, Release(q) PROVE LeaseValid(h)
  BY <1>3 DEF Release, NoLease, KindOf, TaskKinds
<1>4. ASSUME NEW kind \in TaskKinds, LeaseExpires(kind) PROVE LeaseValid(h)
  BY <1>4 DEF LeaseExpires, TaskKinds
<1>5. QED BY <1>1, <1>2, <1>3, <1>4, LeaseFrame

\* Answers are overtaken by a row appended under the lease, by nothing else, and an
\* overtaken answer is dropped where its holder stops or asks again.
LEMMA OvertakenMoves ==
  ASSUME TypeInv, Next, NEW o \in Reconcilers, o \in overtaken',
         o \in overtaken => HoldsAnswer(o)
  PROVE  \/ o \in overtaken /\ HoldsAnswer(o)' /\ claimedAt'[o] = claimedAt[o]
         \/ \E h \in Reconcilers \ {o} :
              /\ HoldsAnswer(o) /\ HoldsAnswer(o)' /\ LeaseValid(h) /\ pc[h] = "persist"
              /\ UNCHANGED <<lease, claimedAt>>
<1> USE ProcessAssumption DEF TypeInv, ControlTypes, MemoryTypes, HoldsAnswer
<1> DEFINE Stays == o \in overtaken /\ HoldsAnswer(o)' /\ claimedAt'[o] = claimedAt[o]
           Fine == \/ Stays
                   \/ \E h \in Reconcilers \ {o} :
                        /\ HoldsAnswer(o) /\ HoldsAnswer(o)' /\ LeaseValid(h)
                        /\ pc[h] = "persist" /\ UNCHANGED <<lease, claimedAt>>
<1>1. ASSUME NEW q \in Procs, Drops(q), UNCHANGED claimedAt,
             \A p \in Procs \ {q} : pc'[p] = pc[p]
      PROVE  Stays
  BY <1>1 DEF Drops
<1>2. ASSUME NEW q \in Procs, Forgets(q) PROVE Stays
  BY <1>2 DEF Forgets, Drops, Fetches, Goes
<1>3. ASSUME UNCHANGED <<overtaken, claimedAt>>, HoldsAnswer(o) => HoldsAnswer(o)'
      PROVE  Stays
  BY <1>3
<1>4. ASSUME NEW q \in Handlers, NEW kind, NEW point, Claims(kind, q, point) PROVE Stays
  BY <1>4 DEF Claims, Goes
<1>5. ASSUME NEW h \in Reconcilers, PersistObservation(h) PROVE Fine
  <2>1. CASE Drops(h)
    BY <1>1, <1>5, <2>1 DEF PersistObservation, Fails, Fetches, Goes
  <2>2. CASE ~Drops(h)
    <3>1. /\ FencePasses(h) /\ overtaken' = {q \in Reconcilers \ {h} : HoldsAnswer(q)}
          /\ pc[h] = "persist" /\ pc'[o] = pc[o] /\ o # h
          /\ UNCHANGED <<lease, claimedAt>>
      BY <1>5, <2>2 DEF PersistObservation, Fetches, Goes
    <3>2. QED BY <3>1 DEF FencePasses
  <2>3. QED BY <2>1, <2>2
<1>6. ASSUME NEW h \in Reconcilers, ReconcileStep(h) PROVE Fine
  <2>1. CASE ClaimReconciliation(h)
    BY <1>4, <2>1 DEF ClaimReconciliation
  <2>2. CASE RenewBeforeRpc(h) \/ RenewBeforePersist(h)
    BY <1>1, <1>3, <2>2 DEF RenewBeforeRpc, RenewBeforePersist, Renews, Fails, Fetches, Goes
  <2>3. CASE ObserveSignature(h)
    BY <2>3 DEF ObserveSignature, Goes
  <2>4. CASE Deduplicate(h)
    BY <1>1, <1>3, <2>4 DEF Deduplicate, Goes
  <2>5. CASE ReadCommitted(h) \/ Project(h) \/ ReadUnleased(h) \/ ProjectUnleased(h)
    BY <1>3, <2>5 DEF ReadCommitted, Project, ReadUnleased, ProjectUnleased, Fetches, Goes,
       memoryVars
  <2>6. QED BY <1>5, <1>6, <2>1, <2>2, <2>3, <2>4, <2>5 DEF ReconcileStep, LeasedStep
<1>7. ASSUME NEW q \in Requests, RequestStep(q) PROVE Stays
  BY <1>3, <1>7 DEF RequestStep, ValidateRequest, CreateOrGet, FindAfterFailure, SubmitFind,
     CommitSubmission, ReconstructFails, ContactRefused, ContactProvider, ProviderAccepts,
     AnswerUnavailable, RecordSubmission, AcceptedRecordThrows, ApplySubmitted, localVars,
     memoryVars, Fails, Fetches, Goes
<1>8. ASSUME NEW c \in Callers, PreparationStep(c) PROVE Stays
  BY <1>3, <1>8 DEF PreparationStep, FindPreparation, PrepareFirst, PrepareFails, RefreshCheck,
     ReplaceExpired, ApplyPrepared, memoryVars, Fails, Fetches, Goes
<1>9. ASSUME NEW q \in Procs, HandlerFails(q) PROVE Stays
  BY <1>1, <1>9 DEF HandlerFails, Fails, Fetches, Goes
<1>10. ASSUME NEW q \in Procs, Crash(q) \/ Release(q) PROVE Stays
  BY <1>2, <1>10 DEF Crash, Release
<1>11. CASE ConfirmPayment \/ (\E kind \in TaskKinds : LeaseExpires(kind))
            \/ (\E g \in Generations : NetworkStep(g))
  BY <1>3, <1>11 DEF ConfirmPayment, LeaseExpires, NetworkStep, ProviderDelivers, ContactLost,
     Lands, Forks, Finalizes, ChainMoves, BlockhashExpires, localVars, memoryVars
<1>12. ASSUME NEW q \in Preparers, ClaimPreparation(q) PROVE Stays
  BY <1>4, <1>12 DEF ClaimPreparation
<1>13. QED BY <1>6, <1>7, <1>8, <1>9, <1>10, <1>11, <1>12 DEF Next

LEMMA FenceStep == TypeInv /\ FenceInv /\ [Next]_vars => FenceInv'
<1> SUFFICES ASSUME TypeInv, FenceInv, [Next]_vars PROVE FenceInv'  OBVIOUS
<1>0. ClaimsDiffer /\ \A h \in overtaken : HoldsAnswer(h) /\ ~LeaseValid(h)
  BY DEF FenceInv, ClaimsDiffer
<1>1. CASE Next
  <2>1. ClaimsDiffer'
    BY <1>0, <1>1, ClaimsDifferStep
  <2>2. ASSUME NEW o \in overtaken' PROVE HoldsAnswer(o)' /\ ~LeaseValid(o)'
    <3>1. o \in Reconcilers
      BY <1>1, TypeStep DEF TypeInv, MemoryTypes
    <3>2. \A h \in Reconcilers : HoldsAnswer(h) \/ pc[h] = "persist" => pc[h] \in LeasedPoints
      BY DEF HoldsAnswer, LeasedPoints, ReconcilerPoints
    <3>3. CASE o \in overtaken /\ HoldsAnswer(o)' /\ claimedAt'[o] = claimedAt[o]
      BY <1>0, <1>1, <3>1, <3>2, <3>3, LeaseMoves
    <3>4. ASSUME NEW h \in Reconcilers \ {o}, HoldsAnswer(o), HoldsAnswer(o)', LeaseValid(h),
                 pc[h] = "persist", UNCHANGED <<lease, claimedAt>>
          PROVE  HoldsAnswer(o)' /\ ~LeaseValid(o)'
      <4>1. ~LeaseValid(o)
        BY <1>0, <3>1, <3>2, <3>4 DEF ClaimsDiffer, LeaseValid, HoldsLease
      <4>2. QED BY <3>4, <4>1 DEF LeaseValid, HoldsLease
    <3>5. QED BY <1>0, <1>1, <2>2, <3>1, <3>3, <3>4, OvertakenMoves
  <2>3. QED BY <2>1, <2>2 DEF FenceInv, ClaimsDiffer
<1>2. CASE UNCHANGED vars
  BY <1>0, <1>2 DEF vars, localVars, memoryVars, FenceInv, HoldsAnswer, LeaseValid, HoldsLease
<1>3. QED BY <1>1, <1>2

LEMMA InitFence == Init => FenceInv
BY DEF Init, FenceInv, LeasedPoints, ReconcilerPoints

\* No reconciler appends the answer it read before another one's row: a takeover
\* leaves it without the lease the fence asks for, also under the same worker id.
THEOREM NoStale == Spec => NoStaleEvidence
<1>1. TypeInv /\ FenceInv =>
        [\A h \in Reconcilers :
           PersistObservation(h) /\ evidenceVars' # evidenceVars => h \notin overtaken]_vars
  BY DEF FenceInv, PersistObservation, FencePasses, evidenceVars
<1>2. QED
  BY <1>1, InitTypes, TypeStep, InitFence, FenceStep, PTL DEF Spec, NoStaleEvidence
---------------------------------------------------------------------------
(***************************************************************************)
(* The refinement.  What the promise sees of the rows and of the network   *)
(* is what they say of the committed generation; a step changes the        *)
(* aggregate, the evidence or the network, never two of them, and the      *)
(* invariants at both ends of it say which step of the promise it is.      *)
(***************************************************************************)

\* What the promise sees, read at the committed generation.
DecisionNow ==
  IF commitment \in Generations /\ chain[commitment] \in {"finalized", "failed"}
  THEN chain[commitment] ELSE "open"
VerdictNow ==
  IF commitment \in Generations /\ prep[commitment] = "SETTLED" THEN "finalized"
  ELSE IF commitment \in Generations /\ prep[commitment] = "FAILED" THEN "failed"
  ELSE "open"

LEMMA SeenAtCommitment ==
  TypeInv /\ ContactInv /\ TruthInv =>
    LedgerDecision = DecisionNow /\ KnownVerdict = VerdictNow
<1> SUFFICES ASSUME TypeInv, ContactInv, TruthInv
             PROVE  LedgerDecision = DecisionNow /\ KnownVerdict = VerdictNow
  OBVIOUS
<1>1. ASSUME NEW g \in Generations, chain[g] # "unseen" PROVE g = commitment
  BY <1>1, ContactInvImplies DEF TruthInv, NetworkSawContacts, ContactFollowsCommitment
<1>2. ASSUME NEW g \in Generations, prep[g] \in TerminalTruth PROVE g = commitment
  BY <1>2, ContactInvImplies DEF ContactFollowsCommitment, TerminalTruth, CommittedStates
<1>3. LedgerDecision = DecisionNow
  BY <1>1 DEF LedgerDecision, DecisionNow
<1>4. KnownVerdict = VerdictNow
  BY <1>2 DEF KnownVerdict, VerdictNow, TerminalTruth
<1>5. QED BY <1>3, <1>4

\* A step writes the aggregate, the evidence or the network.
LEMMA OneTableMoves ==
  ASSUME Next
  PROVE  \/ UNCHANGED <<evidenceVars, networkVars>>
         \/ UNCHANGED <<aggregateVars, networkVars>>
         \/ UNCHANGED <<aggregateVars, evidenceVars>>
<1>1. CASE ~UNCHANGED evidenceVars
  BY <1>1, EvidenceFrame DEF PrepareFirst, ReplaceExpired, CommitSubmission, RecordSubmission,
     AcceptedRecordThrows, PersistObservation
<1>2. CASE ~UNCHANGED networkVars
  BY <1>2, NetworkFrame DEF ContactProvider, NetworkStep, ProviderDelivers, ContactLost, Lands,
     Forks, Finalizes, ChainMoves, BlockhashExpires
<1>3. QED BY <1>1, <1>2

\* A payment becomes complete once, and the rows at both ends vouch for it.
LEMMA PaidMoves ==
  ASSUME TypeInv, TruthInv, TruthInv', Next, UNCHANGED <<evidenceVars, networkVars>>
  PROVE  \/ payment' = "COMPLETED" <=> payment = "COMPLETED"
         \/ Settlement!Pay /\ UNCHANGED <<evidenceVars, networkVars>>
<1>1. payment = "COMPLETED" => payment' = "COMPLETED"
  BY AggregateFrame DEF aggregateVars, ConfirmPayment, CreateOrGet, ApplyLifecycle
<1>2. CASE payment # "COMPLETED" /\ payment' = "COMPLETED"
  <2>1. /\ receipt' # NoGeneration /\ receipt' = commitment'
        /\ prep'[receipt'] = "SETTLED"
    BY <1>2 DEF TruthInv, AggregateTrue
  <2>2. commitment \in Generations /\ prep[commitment] = "SETTLED"
    BY <2>1 DEF evidenceVars, TypeInv, EvidenceTypes
  <2>3. KnownVerdict = "finalized"
    BY <2>2 DEF KnownVerdict
  <2>4. UNCHANGED <<KnownVerdict, LedgerDecision>>
    BY DEF evidenceVars, networkVars, KnownVerdict, LedgerDecision
  <2>5. QED
    BY <1>2, <2>3, <2>4 DEF Settlement!Pay, evidenceVars, networkVars
<1>3. QED BY <1>1, <1>2

\* The durable rows commit once, and learn what the network has decided.
LEMMA EvidenceMoves ==
  ASSUME TypeInv, ContactInv, TruthInv, TypeInv', ContactInv', TruthInv', Next,
         KnownVerdict' = VerdictNow', UNCHANGED <<aggregateVars, networkVars>>
  PROVE  [Settlement!Next]_(Settlement!vars)
<1>1. LedgerDecision = DecisionNow /\ KnownVerdict = VerdictNow
  BY SeenAtCommitment
<1>2. UNCHANGED <<contacts, LedgerDecision, payment, chain>>
  BY DEF networkVars, aggregateVars, LedgerDecision
<1>3. commitment \in Generations \cup {0} /\ commitment' \in Generations \cup {0}
  BY DEF TypeInv, EvidenceTypes
<1>4. CASE commitment' # commitment
  <2>1. commitment = NoGeneration /\ commitment' \in Generations
    BY <1>3, <1>4, CommitmentStays
  <2>2. LedgerDecision = "open" /\ KnownVerdict = "open"
    BY <1>1, <2>1 DEF DecisionNow, VerdictNow
  <2>3. chain[commitment'] \notin {"finalized", "failed"}
    BY <2>1, <2>2 DEF LedgerDecision
  <2>4. prep'[commitment'] \notin TerminalTruth
    BY <1>2, <2>1, <2>3 DEF TruthInv, DurableTruthMatchesChain, TerminalTruth
  <2>5. KnownVerdict' = "open"
    BY <2>4 DEF VerdictNow, TerminalTruth
  <2>6. Settlement!Choose(commitment')
    BY <1>2, <2>1, <2>2, <2>5 DEF Settlement!Choose
  <2>7. QED BY <2>1, <2>6 DEF Settlement!Next
<1>5. CASE commitment' = commitment /\ KnownVerdict' = KnownVerdict
  BY <1>2, <1>5 DEF Settlement!vars
<1>6. CASE commitment' = commitment /\ KnownVerdict' # KnownVerdict
  <2>1. commitment \in Generations
    BY <1>1, <1>3, <1>6 DEF VerdictNow
  <2>2. prep[commitment] \notin TerminalTruth
    BY <1>1, <1>6, <2>1, TruthMoves DEF VerdictNow, TerminalTruth
  <2>3. KnownVerdict = "open"
    BY <1>1, <2>2 DEF VerdictNow, TerminalTruth
  <2>4. prep'[commitment] \in TerminalTruth
    BY <1>6, <2>1, <2>3 DEF VerdictNow, TerminalTruth
  <2>5. /\ KnownVerdict' \in {"finalized", "failed"}
        /\ chain[commitment] = KnownVerdict'
    BY <1>2, <1>6, <2>1, <2>4 DEF VerdictNow, TerminalTruth, TruthInv, DurableTruthMatchesChain
  <2>6. LedgerDecision = KnownVerdict'
    BY <1>1, <2>1, <2>5 DEF DecisionNow
  <2>7. Settlement!Learn
    BY <1>2, <1>6, <2>3, <2>5, <2>6 DEF Settlement!Learn, Settlement!Decisions
  <2>8. QED BY <2>7 DEF Settlement!Next
<1>7. QED BY <1>4, <1>5, <1>6

\* The network gets the bytes of the commitment once, and decides once.
LEMMA NetworkDecides ==
  ASSUME TypeInv, ContactInv, TruthInv, TypeInv', TruthInv', Next,
         LedgerDecision' = DecisionNow', UNCHANGED <<aggregateVars, evidenceVars>>
  PROVE  [Settlement!Next]_(Settlement!vars)
<1>1. LedgerDecision = DecisionNow /\ KnownVerdict = VerdictNow
  BY SeenAtCommitment
<1>2. UNCHANGED <<commitment, KnownVerdict, payment>>
  BY DEF evidenceVars, aggregateVars, KnownVerdict
<1>3. CASE UNCHANGED networkVars
  BY <1>2, <1>3 DEF networkVars, LedgerDecision, Settlement!vars
<1>4. ASSUME NEW r \in Requests, ContactProvider(r) PROVE Settlement!HandOver
  <2>1. Owns(r) /\ NotYetContacted /\ snap[r].gen = commitment
        /\ commitment \in Generations
    BY <1>4 DEF ContactProvider, OneOwner, Owns, OwningPoints, NotYetContacted, TypeInv,
       EvidenceTypes, ContactInv, ContactBounds
  <2>2. \A g \in Generations : contacts[g] = 0
    BY <2>1 DEF ContactInv, ContactBounds
  <2>3. contacts' = [contacts EXCEPT ![commitment] = 1]
    <3>1. contacts[commitment] + 1 = 1
      BY <2>1, <2>2
    <3>2. contacts' = [contacts EXCEPT ![commitment] = contacts[commitment] + 1]
      BY <1>4, <2>1 DEF ContactProvider
    <3>3. QED BY <3>1, <3>2
  <2>4. UNCHANGED LedgerDecision
    BY <1>4 DEF ContactProvider, LedgerDecision
  <2>5. QED BY <1>2, <2>1, <2>2, <2>3, <2>4 DEF Settlement!HandOver
<1>5. ASSUME NEW g \in Generations, NetworkStep(g) PROVE [Settlement!Next]_(Settlement!vars)
  <2>1. UNCHANGED contacts
    BY <1>5 DEF NetworkStep, ProviderDelivers, ContactLost, Lands, Forks, Finalizes, ChainMoves,
       BlockhashExpires
  <2>2. CASE LedgerDecision' = LedgerDecision
    BY <1>2, <2>1, <2>2 DEF Settlement!vars
  <2>3. CASE LedgerDecision' # LedgerDecision
    <3>1. commitment \in Generations
      BY <1>1, <1>2, <2>3 DEF DecisionNow
    <3>2. chain[commitment] \notin {"finalized", "failed"}
      BY <1>1, <1>2, <2>3, <3>1, NetworkMoves DEF DecisionNow, TruthInv
    <3>3. LedgerDecision = "open"
      BY <1>1, <3>2 DEF DecisionNow
    <3>4. /\ chain'[commitment] \in {"finalized", "failed"}
          /\ LedgerDecision' \in {"finalized", "failed"}
      BY <1>2, <2>3, <3>1, <3>3 DEF DecisionNow
    <3>5. contacts[commitment] > 0
      BY <2>1, <3>1, <3>4 DEF TruthInv, NetworkSawContacts
    <3>6. Settlement!Decide
      BY <1>2, <2>1, <3>1, <3>3, <3>4, <3>5 DEF Settlement!Decide, Settlement!Decisions
    <3>7. QED BY <3>6 DEF Settlement!Next
  <2>4. QED BY <2>2, <2>3
<1>6. QED BY <1>3, <1>4, <1>5, NetworkFrame DEF Settlement!Next

PromiseInv ==
  /\ TypeInv /\ ContactInv /\ TruthInv
  /\ LedgerDecision = DecisionNow /\ KnownVerdict = VerdictNow

LEMMA SettlementStep ==
  PromiseInv /\ PromiseInv' /\ [Next]_vars => [Settlement!Next]_(Settlement!vars)
<1> SUFFICES ASSUME PromiseInv, PromiseInv', [Next]_vars
             PROVE  [Settlement!Next]_(Settlement!vars)
  OBVIOUS
<1> USE DEF PromiseInv
<1>1. CASE UNCHANGED vars
  BY <1>1 DEF vars, aggregateVars, evidenceVars, networkVars, Settlement!vars, LedgerDecision,
     KnownVerdict
<1>2. CASE Next
  <2>1. CASE UNCHANGED <<evidenceVars, networkVars>>
    <3>1. CASE Settlement!Pay
      BY <3>1 DEF Settlement!Next
    <3>2. CASE payment' = "COMPLETED" <=> payment = "COMPLETED"
      BY <2>1, <3>2 DEF evidenceVars, networkVars, Settlement!vars, LedgerDecision, KnownVerdict
    <3>3. QED BY <1>2, <2>1, <3>1, <3>2, PaidMoves
  <2>2. CASE UNCHANGED <<aggregateVars, networkVars>>
    BY <1>2, <2>2, EvidenceMoves
  <2>3. CASE UNCHANGED <<aggregateVars, evidenceVars>>
    BY <1>2, <2>3, NetworkDecides
  <2>4. QED BY <1>2, <2>1, <2>2, <2>3, OneTableMoves
<1>3. QED BY <1>1, <1>2

LEMMA SettlementInit == Init => Settlement!Init
BY BoundAssumption DEF Init, Settlement!Init, LedgerDecision, KnownVerdict

\* Whatever the interleaving of requests, recovery, crashes and the network, of all
\* the transactions the execution may sign one is chosen, handed over at most once
\* and decided at most once, and the payment is complete only on known success.
THEOREM SettlementKept == Spec => ImplementsSingleSettlement
<1>1. TypeInv /\ ContactInv /\ TruthInv => PromiseInv
  BY SeenAtCommitment DEF PromiseInv
<1>2. QED
  BY <1>1, SettlementInit, SettlementStep, TruthAlways, PTL
  DEF Spec, ImplementsSingleSettlement, Settlement!Spec
=============================================================================
