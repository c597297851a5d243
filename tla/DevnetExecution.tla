-------------------------- MODULE DevnetExecution --------------------------
(***************************************************************************)
(* One confirmed payment and its Devnet execution: the browser's execute   *)
(* requests, the recovery worker's two phases and the manual reconcile     *)
(* path, all racing over the same PostgreSQL rows and the Solana network.  *)
(*                                                                         *)
(* A database transaction is one action (its row locks serialise it); an   *)
(* RPC call, and the gap between two transactions of one handler, is a     *)
(* boundary at which every other process may move and the handler may      *)
(* crash.  Preparation rows are named by their generation: the code's      *)
(* unique keys make generation, preparation id, signature and digest       *)
(* interchangeable.                                                        *)
(***************************************************************************)
EXTENDS Naturals

CONSTANTS
  Requests,      \* concurrent POST execute handlers
  Retrying,      \* requests the client sends again, without bound
  Preparers,     \* runs of the recovery worker's preparation phase
  Reconcilers,   \* runs of its reconciliation phase, and manual reconciles
  Manual,        \* the reconcilers that are manual (reconcileOwnedWithRecoveryLease)
  WorkerOf,      \* the worker id a handler claims under
  AheadWorkers,  \* workers whose clock runs ahead of the database's
  ClaimTimes,    \* the claimed_at instants a lease can carry
  MaxGeneration, \* bound on preparation generations
  Disagreements  \* whether the settled rows' economics may, or must, disagree

Handlers == Preparers \cup Reconcilers
Callers  == Requests \cup Preparers
Procs    == Requests \cup Handlers
Generations == 1..MaxGeneration
NoGeneration == 0

ASSUME BoundAssumption == MaxGeneration \in Nat \ {0}
ASSUME DisagreementAssumption == Disagreements \subseteq BOOLEAN
ASSUME ProcessAssumption ==
  /\ Retrying \subseteq Requests
  /\ Manual \subseteq Reconcilers
  /\ Requests \cap Handlers = {}
  /\ Preparers \cap Reconcilers = {}

(***************************************************************************)
(* DEVNET_LIFECYCLE_STATES, shortened: PREPARED_NOT_CONTACTED,             *)
(* SUBMISSION_COMMITTED_RECONCILE_ONLY, ACCEPTED_PENDING,                  *)
(* UNKNOWN_RECONCILIATION_REQUIRED, SETTLED, FAILED, ABANDONED_PRE_CONTACT;*)
(* "ABSENT" is a generation with no row.                                   *)
(***************************************************************************)
CommittedStates == {"COMMITTED", "ACCEPTED", "UNKNOWN", "SETTLED", "FAILED"}
TerminalTruth == {"SETTLED", "FAILED"}
LifecycleStates == {"ABSENT", "PREPARED", "ABANDONED"} \cup CommittedStates

ExecutionStatuses ==
  {"NONE", "READY", "SUBMITTING", "PROCESSING", "UNKNOWN", "SETTLED", "FAILED"}
PaymentStatuses == {"AWAITING_CONFIRMATION", "PROCESSING", "COMPLETED"}
SubmissionOutcomes == {"ACCEPTED", "UNKNOWN", "VALIDATION_FAILED"}
\* A missing signature and every provider error are recorded as UNKNOWN.
Outcomes == {"PENDING", "UNKNOWN"} \cup TerminalTruth
TaskKinds == {"PREPARATION", "RECONCILIATION"}
NoClaim == "none"
NoLease == [owner |-> "none", claimedAt |-> NoClaim, active |-> FALSE]

VARIABLES
  payment,     \* payments.status
  exec,        \* payment_executions.status, "NONE" before the row exists
  review,      \* payment_executions.review_reason is set
  receipt,     \* generation the receipt row vouches for
  mismatch,    \* the durable rows disagree on the settlement's economics
  prep,        \* devnet_execution_preparations.lifecycle_state by generation
  commitment,  \* devnet_submission_commitments: the committed generation
  submitted,   \* outcomes in devnet_submission_observations
  finality,    \* terminal outcomes in devnet_reconciliation_observations
  latest,      \* outcome of its last row
  lease,       \* devnet_recovery_leases by task kind
  expired,     \* generations whose blockhash is past its last valid height
  contacts,    \* times each generation's bytes were handed to the provider
  inflight,    \* generations whose bytes are on the wire
  chain,       \* what the network knows of each generation's signature
  pc,          \* control point of each handler
  snap,        \* the preparation a handler last read
  claimedAt,   \* the claimed_at a handler remembers
  reading,     \* the RPC answer a reconciler holds
  overtaken    \* reconcilers whose answer predates the last appended row

aggregateVars == <<payment, exec, review, receipt, mismatch>>
evidenceVars  == <<prep, commitment, submitted, finality, latest>>
networkVars   == <<expired, contacts, inflight, chain>>
memoryVars    == <<claimedAt, reading, overtaken>>
localVars     == <<snap, memoryVars>>
vars == <<aggregateVars, evidenceVars, lease, networkVars, pc, localVars>>

NoSnap == [gen |-> NoGeneration, state |-> "ABSENT"]
Row(g) == [gen |-> g, state |-> prep[g]]

\* findPreparation: the row of this execution that is not abandoned.
Active == {g \in Generations : prep[g] \notin {"ABSENT", "ABANDONED"}}

RequestPoints ==
  {"create", "find", "prepare", "refind", "refresh", "replace", "apply",
   "submit", "commit", "authorized", "awaiting", "applyFinal"}
RecordPoints == {"recordAccepted", "recordUnknown", "recordInvalid"}
ReconcilePoints ==
  {"read", "renew", "rpc", "renewAgain", "dedupe", "persist", "project",
   "projectUnleased"}
ControlPoints ==
  {"idle", "done", "release"} \cup RequestPoints \cup RecordPoints \cup ReconcilePoints

LeaseRows ==
  [owner : {WorkerOf[h] : h \in Handlers}, claimedAt : ClaimTimes, active : BOOLEAN]

Snapshots == [gen : Generations \cup {NoGeneration}, state : LifecycleStates]
ChainStates == {"unseen", "delivered", "pending", "finalized", "failed"}

\* Every row and every handler's memory has the shape the schema and types give it.
TypeOK ==
  /\ payment \in PaymentStatuses
  /\ exec \in ExecutionStatuses
  /\ review \in BOOLEAN
  /\ mismatch \in BOOLEAN
  /\ receipt \in Generations \cup {NoGeneration}
  /\ prep \in [Generations -> LifecycleStates]
  /\ commitment \in Generations \cup {NoGeneration}
  /\ submitted \subseteq SubmissionOutcomes
  /\ finality \subseteq TerminalTruth
  /\ latest \in Outcomes \cup {"NONE"}
  /\ lease \in [TaskKinds -> LeaseRows \cup {NoLease}]
  /\ expired \subseteq Generations
  /\ contacts \in [Generations -> Nat]
  /\ inflight \subseteq Generations
  /\ chain \in [Generations -> ChainStates]
  /\ pc \in [Procs -> ControlPoints]
  /\ snap \in [Procs -> Snapshots]
  /\ claimedAt \in [Handlers -> ClaimTimes \cup {NoClaim}]
  /\ reading \in [Reconcilers -> Outcomes \cup {"NONE"}]
  /\ overtaken \subseteq Reconcilers

Init ==
  /\ payment = "AWAITING_CONFIRMATION"
  /\ exec = "NONE"
  /\ review = FALSE
  /\ mismatch \in Disagreements
  /\ receipt = NoGeneration
  /\ prep = [g \in Generations |-> "ABSENT"]
  /\ commitment = NoGeneration
  /\ submitted = {}
  /\ finality = {}
  /\ latest = "NONE"
  /\ lease = [k \in TaskKinds |-> NoLease]
  /\ expired = {}
  /\ contacts = [g \in Generations |-> 0]
  /\ inflight = {}
  /\ chain = [g \in Generations |-> "unseen"]
  /\ pc = [p \in Procs |-> "idle"]
  /\ snap = [p \in Procs |-> NoSnap]
  /\ claimedAt = [h \in Handlers |-> NoClaim]
  /\ reading = [h \in Reconcilers |-> "NONE"]
  /\ overtaken = {}

---------------------------------------------------------------------------
\* Moving a handler through its own code.

Goes(p, point) == pc' = [pc EXCEPT ![p] = point]
Keeps(p, row)  == snap' = [snap EXCEPT ![p] = row]

Fetches(p, row, point) == Goes(p, point) /\ Keeps(p, row)

Ended(p) == IF p \in Requests \ Retrying THEN "done" ELSE "idle"

\* A request that throws answers an error; a worker's phase runs its finally.
Fails(p) == Fetches(p, NoSnap, IF p \in Requests THEN Ended(p) ELSE "release")

(***************************************************************************)
(* The transaction that projects a preparation's lifecycle onto the        *)
(* execution, the receipt and the payment.                                 *)
(***************************************************************************)
AggregateStatus(state) ==
  CASE state \in TerminalTruth -> state
    [] state = "ACCEPTED"  -> "PROCESSING"
    [] state = "UNKNOWN"   -> "UNKNOWN"
    [] state = "COMMITTED" -> "SUBMITTING"
    [] OTHER               -> "READY"

\* Where path(from, to) leaves the execution: terminal states are never left,
\* SUBMITTING is entered from READY only, and READY is never re-entered.
PathEnd(from, to) ==
  IF \/ from \in TerminalTruth
     \/ to = "READY"
     \/ to = "SUBMITTING" /\ from # "READY"
  THEN from ELSE to

\* settledPreparation: the caller's snapshot is only an identity hint; truth
\* is the committed row, locked here, with finalized evidence recorded for it.
Verified(s) ==
  /\ commitment # NoGeneration
  /\ commitment = s.gen
  /\ prep[commitment] = "SETTLED"
  /\ "SETTLED" \in finality

Blocked(s) == s.state = "SETTLED" /\ mismatch
Completes(s) == s.state = "SETTLED" /\ ~mismatch

ApplyTargetForgetsReview(s) ==  \* mutant: review_reason ignored
  IF Blocked(s) THEN "UNKNOWN" ELSE AggregateStatus(s.state)

ApplyTarget(s) ==
  IF Blocked(s) \/ (s.state # "SETTLED" /\ review)
  THEN "UNKNOWN" ELSE AggregateStatus(s.state)

CanApply(s) ==
  s.state = "SETTLED" =>
    /\ Verified(s)
    /\ Blocked(s) => exec \notin TerminalTruth
    /\ Completes(s) =>
         \* the completion guard of migration 018 wants a settled execution
         /\ PathEnd(exec, "SETTLED") = "SETTLED"
         /\ \/ payment = "PROCESSING"
            \/ payment = "COMPLETED" /\ receipt = s.gen

ApplyLifecycle(s) ==
  /\ CanApply(s)
  /\ exec' = PathEnd(exec, ApplyTarget(s))
  /\ review' = (review \/ Blocked(s))
  /\ receipt' = IF Completes(s) /\ receipt = NoGeneration THEN s.gen ELSE receipt
  /\ payment' = IF Completes(s) THEN "COMPLETED" ELSE payment
  /\ UNCHANGED mismatch

---------------------------------------------------------------------------
\* Confirming the payment and creating its one execution row.

ConfirmPayment ==
  /\ payment = "AWAITING_CONFIRMATION"
  /\ payment' = "PROCESSING"
  /\ UNCHANGED <<exec, review, receipt, mismatch, evidenceVars, lease, networkVars,
                 pc, localVars>>

ValidateRequest(r) ==
  /\ pc[r] = "idle"
  /\ payment = "PROCESSING"
  /\ Goes(r, "create")
  /\ UNCHANGED <<aggregateVars, evidenceVars, lease, networkVars, localVars>>

CreateOrGet(r) ==
  /\ pc[r] = "create"
  /\ exec' = IF exec = "NONE" THEN "READY" ELSE exec
  /\ Goes(r, "find")
  /\ UNCHANGED <<payment, review, receipt, mismatch, evidenceVars, lease,
                 networkVars, localVars>>

---------------------------------------------------------------------------
\* Preparing and refreshing, shared by execute and recoverPreparation.

\* Where a caller goes once it holds a preparation in this state.
AfterFind(c, state) ==
  IF state = "PREPARED" THEN "refresh" ELSE IF c \in Requests THEN "apply" ELSE "release"

FindPreparation(c) ==
  /\ pc[c] = "find"
  /\ \/ Active = {} /\ Fetches(c, NoSnap, "prepare")
     \/ \E g \in Active : Fetches(c, Row(g), AfterFind(c, prep[g]))
  /\ UNCHANGED <<aggregateVars, evidenceVars, lease, networkVars, memoryVars>>

\* The primary key and the unique generation admit one insert.
MayInsert(g) == prep[g] = "ABSENT"

\* Generation 1 is signed, then inserted.
PrepareFirst(c) ==
  /\ pc[c] = "prepare"
  /\ MayInsert(1)
  /\ prep' = [prep EXCEPT ![1] = "PREPARED"]
  /\ Fetches(c, [gen |-> 1, state |-> "PREPARED"],
             IF c \in Requests THEN "refresh" ELSE "apply")
  /\ UNCHANGED <<aggregateVars, commitment, submitted, finality, latest, lease,
                 networkVars, memoryVars>>

\* Signing failed, or another handler inserted first: only a request looks again.
PrepareFails(c) ==
  /\ pc[c] = "prepare"
  /\ IF c \in Requests THEN Fetches(c, NoSnap, "refind") ELSE Fails(c)
  /\ UNCHANGED <<aggregateVars, evidenceVars, lease, networkVars, memoryVars>>

FindAfterFailure(r) ==
  /\ pc[r] = "refind"
  /\ \/ Active = {} /\ Fails(r)
     \/ \E g \in Active : Fetches(r, Row(g), AfterFind(r, prep[g]))
  /\ UNCHANGED <<aggregateVars, evidenceVars, lease, networkVars, memoryVars>>

(***************************************************************************)
(* refreshExpiredPreContact reads the row again and asks for the height.   *)
(* Its replacement's id is derived from the caller's older snapshot, its   *)
(* generation from the fresh row: when they differ the insert collides.    *)
(***************************************************************************)
RefreshCheck(c) ==
  /\ pc[c] = "refresh"
  /\ \E g \in Active :
       \/ prep[g] = "PREPARED" /\ g \notin expired
          /\ Goes(c, IF c \in Requests THEN "apply" ELSE "release")
          /\ UNCHANGED snap
       \/ prep[g] = "PREPARED" /\ g \in expired
          /\ snap[c].gen = g /\ g < MaxGeneration
          /\ Goes(c, "replace")
          /\ UNCHANGED snap
       \/ (prep[g] # "PREPARED" \/ g \in expired) /\ Fails(c)
  /\ UNCHANGED <<aggregateVars, evidenceVars, lease, networkVars, memoryVars>>

\* replaceExpiredPreparation, under the prior row's lock.
MayReplaceCommitted(g) ==  \* mutant: the commitment is not consulted
  prep[g] \in {"PREPARED", "COMMITTED"}
MayReplace(g) == prep[g] = "PREPARED" /\ commitment = NoGeneration

ReplaceExpired(c) ==
  /\ pc[c] = "replace"
  /\ LET g == snap[c].gen IN
       IF MayReplace(g) /\ MayInsert(g + 1)
       THEN /\ prep' = [prep EXCEPT ![g] = "ABANDONED", ![g + 1] = "PREPARED"]
            /\ Fetches(c, [gen |-> g + 1, state |-> "PREPARED"], "apply")
       ELSE Fails(c) /\ UNCHANGED prep
  /\ UNCHANGED <<aggregateVars, commitment, submitted, finality, latest, lease,
                 networkVars, memoryVars>>

\* The projection before submission; recovery's preparation phase ends with it.
ApplyPrepared(c) ==
  /\ pc[c] = "apply"
  /\ ApplyLifecycle(snap[c])
  /\ IF c \in Requests THEN Goes(c, "submit") /\ UNCHANGED snap
                       ELSE Fetches(c, NoSnap, "release")
  /\ UNCHANGED <<evidenceVars, lease, networkVars, memoryVars>>

---------------------------------------------------------------------------
\* submitPrepared: the durable commitment, then the one provider contact.

SubmitFind(r) ==
  /\ pc[r] = "submit"
  /\ \E g \in Active :
       Fetches(r, Row(g), IF prep[g] = "PREPARED" THEN "commit" ELSE "applyFinal")
  /\ UNCHANGED <<aggregateVars, evidenceVars, lease, networkVars, memoryVars>>

\* commitSubmission locks the execution; the commitment's primary key is the
\* execution, so at most one is ever written, and only its writer may submit.
MayCommitReplayed(g) ==  \* mutant: a replayed commitment authorises again
  commitment = g \/ (commitment = NoGeneration /\ prep[g] = "PREPARED")
MayCommit(g) == commitment = NoGeneration /\ prep[g] = "PREPARED"
AlreadyCommitted(g) == commitment = g

CommitSubmission(r) ==
  LET g == snap[r].gen IN
  /\ pc[r] = "commit"
  /\ \/ /\ MayCommit(g)
        /\ commitment' = g
        /\ prep' = [prep EXCEPT ![g] = "COMMITTED"]
        /\ Fetches(r, [gen |-> g, state |-> "COMMITTED"], "authorized")
     \/ /\ ~MayCommit(g) /\ AlreadyCommitted(g)
        /\ Fetches(r, Row(g), "applyFinal")
        /\ UNCHANGED <<commitment, prep>>
     \/ /\ ~MayCommit(g) /\ ~AlreadyCommitted(g)
        /\ Fails(r)
        /\ UNCHANGED <<commitment, prep>>
  /\ UNCHANGED <<aggregateVars, submitted, finality, latest, lease, networkVars,
                 memoryVars>>

\* The persisted bytes do not decrypt or do not match their digest.
ReconstructFails(r) ==
  /\ pc[r] = "authorized"
  /\ Goes(r, "recordInvalid")
  /\ UNCHANGED <<aggregateVars, evidenceVars, lease, networkVars, localVars>>

\* The transport rejects its input before any contact: recorded as a contact
\* that may have occurred.
ContactRefused(r) ==
  /\ pc[r] = "authorized"
  /\ Goes(r, "recordUnknown")
  /\ UNCHANGED <<aggregateVars, evidenceVars, lease, networkVars, localVars>>

ContactProvider(r) ==
  /\ pc[r] = "authorized"
  /\ contacts' = [contacts EXCEPT ![snap[r].gen] = @ + 1]
  /\ inflight' = inflight \cup {snap[r].gen}
  /\ Goes(r, "awaiting")
  /\ UNCHANGED <<aggregateVars, evidenceVars, lease, expired, chain, localVars>>

ProviderAccepts(r) ==
  /\ pc[r] = "awaiting"
  /\ chain[snap[r].gen] # "unseen"
  /\ Goes(r, "recordAccepted")
  /\ UNCHANGED <<aggregateVars, evidenceVars, lease, networkVars, localVars>>

\* A timeout, a transport error or a foreign signature: delivery is unknown.
AnswerUnavailable(r) ==
  /\ pc[r] = "awaiting"
  /\ Goes(r, "recordUnknown")
  /\ UNCHANGED <<aggregateVars, evidenceVars, lease, networkVars, localVars>>

SubmissionOutcomeNoContact(point) ==  \* mutant: a lost answer means no contact
  IF point = "recordAccepted" THEN "ACCEPTED" ELSE "VALIDATION_FAILED"
SubmissionOutcome(point) ==
  CASE point = "recordAccepted" -> "ACCEPTED"
    [] point = "recordInvalid"  -> "VALIDATION_FAILED"
    [] OTHER                    -> "UNKNOWN"

\* Submission evidence never moves a terminal preparation (it throws).
SubmissionMayRecord(state) == state \in CommittedStates \ TerminalTruth
SubmissionLifecycleFails(state, outcome) ==  \* mutant: no answer is a failure
  IF outcome = "ACCEPTED" \/ state = "ACCEPTED" THEN "ACCEPTED" ELSE "FAILED"
SubmissionLifecycle(state, outcome) ==
  IF outcome = "ACCEPTED" \/ state = "ACCEPTED" THEN "ACCEPTED" ELSE "UNKNOWN"

AppendsSubmission(g, outcome) ==
  /\ SubmissionMayRecord(prep[g])
  /\ submitted' = submitted \cup {outcome}
  /\ prep' = [prep EXCEPT ![g] = SubmissionLifecycle(@, outcome)]
  /\ UNCHANGED <<commitment, finality, latest>>

RecordSubmission(r) ==
  /\ pc[r] \in RecordPoints
  /\ AppendsSubmission(snap[r].gen, SubmissionOutcome(pc[r]))
  /\ Fetches(r, [gen |-> snap[r].gen, state |-> prep'[snap[r].gen]], "applyFinal")
  /\ UNCHANGED <<aggregateVars, lease, networkVars, memoryVars>>

\* Recording ACCEPTED threw, with or without its row committed: the catch
\* block records UNKNOWN after it.
AcceptedRecordThrows(r) ==
  /\ pc[r] = "recordAccepted"
  /\ Goes(r, "recordUnknown")
  /\ \/ AppendsSubmission(snap[r].gen, "ACCEPTED")
     \/ UNCHANGED evidenceVars
  /\ UNCHANGED <<aggregateVars, lease, networkVars, localVars>>

\* The projection of whatever submitPrepared returned ends the request.
ApplySubmitted(r) ==
  /\ pc[r] = "applyFinal"
  /\ ApplyLifecycle(snap[r])
  /\ Fetches(r, NoSnap, Ended(r))
  /\ UNCHANGED <<evidenceVars, lease, networkVars, memoryVars>>

---------------------------------------------------------------------------
(***************************************************************************)
(* Leases.  A claim compares the expiry with the worker's clock; renewing  *)
(* and fencing compare it with the database's.  A worker whose clock runs  *)
(* ahead may therefore take over a lease that is still active.             *)
(***************************************************************************)
LeaseFree(kind, h) == ~lease[kind].active \/ WorkerOf[h] \in AheadWorkers

HoldsLease(kind, h) ==
  /\ lease[kind].owner = WorkerOf[h]
  /\ lease[kind].claimedAt = claimedAt[h]

\* Two claims under one worker id are a lease apart, so a live one's instant
\* is not handed out again.
FreshInstants(h) ==
  {t \in ClaimTimes : \A o \in Handlers :
     pc[o] # "idle" /\ WorkerOf[o] = WorkerOf[h] => claimedAt[o] # t}

Claims(kind, h, point) ==
  /\ pc[h] = "idle"
  /\ exec \notin TerminalTruth \cup {"NONE"}
  /\ LeaseFree(kind, h)
  /\ \E t \in FreshInstants(h) :
       /\ lease' = [lease EXCEPT ![kind] =
                      [owner |-> WorkerOf[h], claimedAt |-> t, active |-> TRUE]]
       /\ claimedAt' = [claimedAt EXCEPT ![h] = t]
  /\ Goes(h, point)
  /\ UNCHANGED <<aggregateVars, evidenceVars, networkVars, snap, reading, overtaken>>

NeedsPreparation == \A g \in Active : prep[g] = "PREPARED" /\ g \in expired
NeedsReconciliationOpen ==  \* mutant: recorded truth is not claimed again
  \E g \in Active : prep[g] \in CommittedStates \ TerminalTruth /\ commitment = g
NeedsReconciliation == \E g \in Active : prep[g] \in CommittedStates /\ commitment = g

ClaimPreparation(h) == NeedsPreparation /\ Claims("PREPARATION", h, "find")
ClaimReconciliation(h) == NeedsReconciliation /\ Claims("RECONCILIATION", h, "read")

\* The RPC answer goes out of scope.
Drops(p) ==
  /\ reading' = [h \in Reconcilers |-> IF h = p THEN "NONE" ELSE reading[h]]
  /\ overtaken' = overtaken \ {p}

\* Back to idle: what the handler held in memory is gone.
Forgets(p) ==
  /\ Fetches(p, NoSnap, Ended(p))
  /\ claimedAt' = [h \in Handlers |-> IF h = p THEN NoClaim ELSE claimedAt[h]]
  /\ Drops(p)

KindOf(h) == IF h \in Preparers THEN "PREPARATION" ELSE "RECONCILIATION"

\* The finally block deletes the lease if it is still this claim's.
Release(h) ==
  /\ pc[h] = "release"
  /\ lease' = IF HoldsLease(KindOf(h), h)
              THEN [lease EXCEPT ![KindOf(h)] = NoLease] ELSE lease
  /\ Forgets(h)
  /\ UNCHANGED <<aggregateVars, evidenceVars, networkVars>>

LeaseExpires(kind) ==
  /\ lease[kind].active
  /\ lease' = [lease EXCEPT ![kind].active = FALSE]
  /\ UNCHANGED <<aggregateVars, evidenceVars, networkVars, pc, localVars>>

---------------------------------------------------------------------------
\* Reconciliation, from the claimed execution to its projection.

\* Terminal truth is only projected again; anything else is asked of the chain.
ReadCommitted(h) ==
  /\ pc[h] = "read"
  /\ \E g \in Active :
       /\ commitment = g
       /\ Fetches(h, Row(g), IF prep[g] \in TerminalTruth THEN "project" ELSE "renew")
  /\ UNCHANGED <<aggregateVars, evidenceVars, lease, networkVars, memoryVars>>

\* renew extends a claim that is still this handler's and still active.
LeaseValid(h) == HoldsLease("RECONCILIATION", h) /\ lease["RECONCILIATION"].active

Renews(h, from, to) ==
  /\ pc[h] = from
  /\ IF LeaseValid(h) THEN Goes(h, to) /\ UNCHANGED <<snap, reading, overtaken>>
                      ELSE Fails(h) /\ Drops(h)
  /\ UNCHANGED <<aggregateVars, evidenceVars, lease, networkVars, claimedAt>>

RenewBeforeRpc(h) == Renews(h, "renew", "rpc")
RenewBeforePersist(h) == Renews(h, "renewAgain", "dedupe")

\* A lagging or failing provider may answer UNKNOWN, and PENDING of a transaction
\* already final; it reports finality only of a finalized transaction.
Answers(g) ==
  {"UNKNOWN"}
    \cup (IF chain[g] \in {"pending", "finalized", "failed"} THEN {"PENDING"} ELSE {})
    \cup (IF chain[g] = "finalized" THEN {"SETTLED"} ELSE {})
    \cup (IF chain[g] = "failed" THEN {"FAILED"} ELSE {})

ObserveSignature(h) ==
  /\ pc[h] = "rpc"
  /\ \E o \in Answers(commitment) : reading' = [reading EXCEPT ![h] = o]
  /\ overtaken' = overtaken \ {h}
  /\ Goes(h, "renewAgain")
  /\ UNCHANGED <<aggregateVars, evidenceVars, lease, networkVars, snap, claimedAt>>

\* Two PENDING answers may differ in their slot and two UNKNOWN in their error code.
SameAsLatest(o) == o = latest
DiffersFromLatest(o) == o # latest \/ o \in {"PENDING", "UNKNOWN"}

\* An answer equal to the last row is projected from the snapshot read earlier.
Deduplicate(h) ==
  /\ pc[h] = "dedupe"
  /\ \/ SameAsLatest(reading[h]) /\ Goes(h, "project") /\ Drops(h)
     \/ DiffersFromLatest(reading[h]) /\ Goes(h, "persist") /\ UNCHANGED <<reading, overtaken>>
  /\ UNCHANGED <<aggregateVars, evidenceVars, lease, networkVars, snap, claimedAt>>

ReconciliationLifecycle(outcome) ==
  CASE outcome \in TerminalTruth -> outcome
    [] outcome = "PENDING"       -> "ACCEPTED"
    [] OTHER                     -> "UNKNOWN"

\* assertReconciliationFence, under the lease row's lock.
FencePassesByOwner(h) ==  \* mutant: claimed_at is not compared
  lease["RECONCILIATION"].owner = WorkerOf[h] /\ lease["RECONCILIATION"].active
FencePasses(h) == LeaseValid(h)
HoldsAnswer(o) == pc[o] \in {"renewAgain", "dedupe", "persist"}
\* Terminal truth is kept: a later answer is discarded.
KeepsTruth(g) == prep[g] \in TerminalTruth
\* reconciliationLifecycle throws for a generation never committed.
MayReconcile(g) == prep[g] \in CommittedStates

PersistObservation(h) ==
  LET g == snap[h].gen IN
  /\ pc[h] = "persist"
  /\ \/ /\ ~FencePasses(h)
        /\ Fails(h) /\ Drops(h)
        /\ UNCHANGED evidenceVars
     \/ /\ FencePasses(h)
        /\ latest # "NONE" /\ (SameAsLatest(reading[h]) \/ KeepsTruth(g))
        /\ Fetches(h, Row(g), "project") /\ Drops(h)
        /\ UNCHANGED evidenceVars
     \/ /\ FencePasses(h)
        /\ DiffersFromLatest(reading[h]) /\ MayReconcile(g) /\ ~KeepsTruth(g)
        /\ finality' = finality \cup ({reading[h]} \cap TerminalTruth)
        /\ latest' = reading[h]
        /\ prep' = [prep EXCEPT ![g] = ReconciliationLifecycle(reading[h])]
        /\ Fetches(h, [gen |-> g, state |-> prep'[g]], "project")
        /\ reading' = [reading EXCEPT ![h] = "NONE"]
        /\ overtaken' = {o \in Reconcilers \ {h} : HoldsAnswer(o)}
        /\ UNCHANGED <<commitment, submitted>>
  /\ UNCHANGED <<aggregateVars, lease, networkVars, claimedAt>>

Project(h) ==
  /\ pc[h] = "project"
  /\ ApplyLifecycle(snap[h])
  /\ Fetches(h, NoSnap, "release")
  /\ UNCHANGED <<evidenceVars, lease, networkVars, memoryVars>>

\* The manual path projects terminal truth without claiming a lease.
ReadUnleased(h) ==
  /\ h \in Manual
  /\ pc[h] = "idle"
  /\ \E g \in Active : prep[g] \in TerminalTruth /\ Fetches(h, Row(g), "projectUnleased")
  /\ UNCHANGED <<aggregateVars, evidenceVars, lease, networkVars, memoryVars>>

ProjectUnleased(h) ==
  /\ pc[h] = "projectUnleased"
  /\ ApplyLifecycle(snap[h])
  /\ Fetches(h, NoSnap, "idle")
  /\ UNCHANGED <<evidenceVars, lease, networkVars, memoryVars>>

---------------------------------------------------------------------------
\* Failures: a call that throws, and a process that dies at any point.

HandlerFails(p) ==
  /\ pc[p] \notin {"idle", "done", "release"}
  /\ IF pc[p] = "projectUnleased" THEN Fetches(p, NoSnap, "idle") ELSE Fails(p)
  /\ Drops(p)
  /\ UNCHANGED <<aggregateVars, evidenceVars, lease, networkVars, claimedAt>>

\* The lease of a dead worker stays until it expires.
Crash(p) ==
  /\ pc[p] \notin {"idle", "done"}
  /\ Forgets(p)
  /\ UNCHANGED <<aggregateVars, evidenceVars, lease, networkVars>>

---------------------------------------------------------------------------
\* The provider and the chain, as the code relies on them.

ProviderDelivers(g) ==
  /\ g \in inflight
  /\ inflight' = inflight \ {g}
  /\ chain' = [chain EXCEPT ![g] = IF @ = "unseen" THEN "delivered" ELSE @]
  /\ UNCHANGED <<aggregateVars, evidenceVars, lease, expired, contacts, pc, localVars>>

ContactLost(g) ==
  /\ g \in inflight
  /\ inflight' = inflight \ {g}
  /\ UNCHANGED <<aggregateVars, evidenceVars, lease, expired, contacts, chain, pc,
                 localVars>>

ChainMoves(g, from, to) ==
  /\ chain[g] = from
  /\ chain' = [chain EXCEPT ![g] = to]
  /\ UNCHANGED <<aggregateVars, evidenceVars, lease, expired, contacts, inflight, pc,
                 localVars>>

Lands(g)  == g \notin expired /\ ChainMoves(g, "delivered", "pending")
Forks(g)  == ChainMoves(g, "pending", "delivered")
Finalizes(g) == ChainMoves(g, "pending", "finalized") \/ ChainMoves(g, "pending", "failed")

BlockhashExpires(g) ==
  /\ prep[g] # "ABSENT"
  /\ g \notin expired
  /\ expired' = expired \cup {g}
  /\ UNCHANGED <<aggregateVars, evidenceVars, lease, contacts, inflight, chain, pc,
                 localVars>>

---------------------------------------------------------------------------
RequestStep(r) ==
  \/ ValidateRequest(r) \/ CreateOrGet(r) \/ FindAfterFailure(r)
  \/ SubmitFind(r) \/ CommitSubmission(r)
  \/ ReconstructFails(r) \/ ContactRefused(r) \/ ContactProvider(r)
  \/ ProviderAccepts(r) \/ AnswerUnavailable(r)
  \/ RecordSubmission(r) \/ AcceptedRecordThrows(r) \/ ApplySubmitted(r)

PreparationStep(c) ==
  \/ FindPreparation(c) \/ PrepareFirst(c) \/ PrepareFails(c)
  \/ RefreshCheck(c) \/ ReplaceExpired(c) \/ ApplyPrepared(c)

LeasedStep(h) ==
  \/ ClaimReconciliation(h) \/ ReadCommitted(h) \/ RenewBeforeRpc(h)
  \/ ObserveSignature(h) \/ RenewBeforePersist(h) \/ Deduplicate(h)
  \/ PersistObservation(h) \/ Project(h)

ReconcileStep(h) == LeasedStep(h) \/ ReadUnleased(h) \/ ProjectUnleased(h)

NetworkStep(g) ==
  \/ ProviderDelivers(g) \/ ContactLost(g)
  \/ Lands(g) \/ Forks(g) \/ Finalizes(g) \/ BlockhashExpires(g)

Next ==
  \/ ConfirmPayment
  \/ \E r \in Requests : RequestStep(r)
  \/ \E c \in Callers : PreparationStep(c)
  \/ \E p \in Preparers : ClaimPreparation(p)
  \/ \E h \in Reconcilers : ReconcileStep(h)
  \/ \E h \in Handlers : Release(h)
  \/ \E kind \in TaskKinds : LeaseExpires(kind)
  \/ \E p \in Procs : HandlerFails(p) \/ Crash(p)
  \/ \E g \in Generations : NetworkStep(g)

Spec == Init /\ [][Next]_vars

(***************************************************************************)
(* The worker loop runs for ever and its handler takes its next step; a    *)
(* dead worker's lease runs out; a provider asked again and again          *)
(* eventually tells the chain's truth.  Nobody has to ask for a manual     *)
(* reconciliation, so ReadUnleased is not fair.                            *)
(***************************************************************************)
TellsTruth(h) == ObserveSignature(h) /\ reading'[h] \in TerminalTruth

Fairness ==
  /\ \A h \in Reconcilers :
       /\ WF_vars(LeasedStep(h) \/ ProjectUnleased(h) \/ Release(h))
       /\ SF_vars(TellsTruth(h))
  /\ WF_vars(LeaseExpires("RECONCILIATION"))

FairSpec == Spec /\ Fairness

---------------------------------------------------------------------------
\* Properties.

\* However requests, refreshes, crashes and retries interleave, the provider is
\* handed signed bytes at most once over all generations of the execution.
AtMostOneContact ==
  \A g \in Generations :
    /\ contacts[g] <= 1
    /\ contacts[g] > 0 => \A o \in Generations \ {g} : contacts[o] = 0

\* Bytes leave the process only for the generation a durable commitment names,
\* and every other generation was abandoned before any contact (commitSubmission
\* against replaceExpiredPreparation).
ContactFollowsCommitment ==
  \A g \in Generations :
    /\ contacts[g] > 0 => commitment = g
    /\ commitment = g <=> prep[g] \in CommittedStates

\* Generations succeed one another: at most one preparation is active, every
\* older one is abandoned and no newer one exists.
GenerationsSucceed ==
  \A g \in Active :
    /\ \A o \in Generations : o < g => prep[o] = "ABANDONED"
    /\ \A o \in Generations : o > g => prep[o] = "ABSENT"

\* A submission row says nothing false of the contact: VALIDATION_FAILED means
\* the provider was never contacted, ACCEPTED that it holds the transaction.
SubmissionEvidenceTruthful ==
  /\ "VALIDATION_FAILED" \in submitted => \A g \in Generations : contacts[g] = 0
  /\ "ACCEPTED" \in submitted => chain[commitment] # "unseen"

\* Terminal truth in the preparation row is the chain's, whatever the order in
\* which stale answers, fences and submission records arrive.
DurableTruthMatchesChain ==
  \A g \in Generations :
    /\ prep[g] = "SETTLED" => chain[g] = "finalized"
    /\ prep[g] = "FAILED" => chain[g] = "failed"

\* The aggregate follows the evidence.  The payment completes, the receipt exists
\* and the execution is settled together or not at all, for the committed
\* generation, finalized on chain; the execution leaves READY only on a durable
\* commitment, fails only when the committed preparation failed on chain, and once
\* its economics disagree stays under review, whatever older snapshot is projected.
AggregateFollowsEvidence ==
  /\ payment = "COMPLETED" <=> receipt # NoGeneration
  /\ exec = "SETTLED" <=> receipt # NoGeneration
  /\ receipt # NoGeneration =>
       receipt = commitment /\ chain[receipt] = "finalized" /\ ~mismatch
  /\ exec \notin {"NONE", "READY"} => commitment # NoGeneration
  /\ exec = "FAILED" => prep[commitment] = "FAILED"
  /\ review => mismatch /\ exec = "UNKNOWN" /\ payment # "COMPLETED"

\* No answer read before another handler's row is appended after it: the rows of
\* observations and preparations stay as they are.
NoStaleEvidence ==
  [][\A h \in Reconcilers :
       PersistObservation(h) /\ evidenceVars' # evidenceVars => h \notin overtaken]_vars

\* From some point on no reconciler throws or dies, which includes losing a fence
\* or a renewal, and a live one's lease does not run out under it: it renews
\* before each remote call and each write.
FailuresStop ==
  <>[][\A h \in Reconcilers :
         /\ ~HandlerFails(h) /\ ~Crash(h)
         /\ LeaseExpires("RECONCILIATION") =>
              pc[h] = "idle" \/ ~HoldsLease("RECONCILIATION", h)]_vars

FinalizedUnpaid == ~mismatch /\ \E g \in Generations : chain[g] = "finalized"

\* A finalized transfer whose economics agree eventually completes its payment
\* once failures stop: no crash, dead lease, stale answer or half-done projection
\* before that leaves it unprojected for ever.
FinalizedEventuallyCompleted ==
  FailuresStop => (FinalizedUnpaid ~> payment = "COMPLETED")

---------------------------------------------------------------------------
\* The execution implements SingleSettlement.

LedgerDecision ==
  IF \E g \in Generations : chain[g] = "finalized" THEN "finalized"
  ELSE IF \E g \in Generations : chain[g] = "failed" THEN "failed" ELSE "open"

KnownVerdict ==
  IF \E g \in Generations : prep[g] = "SETTLED" THEN "finalized"
  ELSE IF \E g \in Generations : prep[g] = "FAILED" THEN "failed" ELSE "open"

Settlement == INSTANCE SingleSettlement WITH
  Transactions <- Generations,
  None <- NoGeneration,
  chosen <- commitment,
  handed <- contacts,
  ledger <- LedgerDecision,
  verdict <- KnownVerdict,
  paid <- (payment = "COMPLETED")

\* Whatever the interleaving, every step is one of the promise's or none.
ImplementsSingleSettlement == Settlement!Spec

===========================================================================
