--------------------------- MODULE MockExecution ---------------------------
(***************************************************************************)
(* The Mock rail's execution worker: every backend process runs a loop     *)
(* whose tick is processNext (claim a READY execution, submit it) and then *)
(* reconcileNext (claim an open one, ask the rail).  Each repository call  *)
(* is one transaction and one action; between two of them the worker holds *)
(* the row it claimed only in memory, its lease may run out, another       *)
(* worker may take the row over, and the process may die.                  *)
(***************************************************************************)
EXTENDS Naturals

CONSTANTS
  Executions,  \* confirmed payments, each with at most one execution row
  Workers,     \* backend processes
  Scenarios,   \* MockRailScenario values the deployment may be started with
  Versions,    \* values the version column takes (see NewVersion)
  MaxFaults    \* bound on crashes, failed ticks and leases outlived

ASSUME VersionAssumption == Versions \subseteq Nat
ASSUME FaultAssumption == MaxFaults \in Nat

Statuses ==
  {"NONE", "READY", "SUBMITTING", "PROCESSING", "UNKNOWN", "SETTLED", "FAILED"}
Terminal == {"SETTLED", "FAILED"}
SubmitOutcomes == {"settled", "accepted", "unknown", "rejected"}
Answers == {"settled", "failed", "pending", "unknown"}
NoOwner == "nobody"
Departed == "departed"  \* a worker id whose process died; ids are never reused
NoRow == "none"
ASSUME NameAssumption ==
  /\ NoRow \notin Executions
  /\ NoOwner \notin Workers
  /\ Departed \notin Workers

\* The rail answers "settled" from the second observation on: later ones are
\* alike, and the counter is cut there.
MaxObservation == 2

VARIABLES
  scenario,  \* the Mock rail's scenario, fixed when the process starts
  row,       \* payment_executions: [status, version, owner, live, seen]
  receipt,   \* payment_execution_receipts: whether the execution has its row
  contacts,  \* history: how often adapter.submit was called, up to 2
  mem,       \* each worker's place in its tick and the row it claimed
  faults

vars == <<scenario, row, receipt, contacts, mem, faults>>

Places ==
  {"process", "submitting", "submitted", "reconcile", "asking", "answered"}
Holding == {"submitting", "submitted", "asking", "answered"}
At(place) == [at |-> place, exec |-> NoRow, version |-> 0, seen |-> 0,
              reply |-> NoRow]

AbsentRow == [status |-> "NONE", version |-> 0, owner |-> NoOwner,
              live |-> FALSE, seen |-> 0]

Rows ==
  [status: Statuses, version: Versions \cup {0},
   owner: Workers \cup {NoOwner, Departed}, live: BOOLEAN,
   seen: 0..MaxObservation]
Memories ==
  [at: Places, exec: Executions \cup {NoRow}, version: Versions \cup {0},
   seen: 0..MaxObservation, reply: SubmitOutcomes \cup Answers \cup {NoRow}]

TypeOK ==
  /\ scenario \in Scenarios
  /\ row \in [Executions -> Rows]
  /\ receipt \in [Executions -> BOOLEAN]
  /\ contacts \in [Executions -> 0..2]
  /\ mem \in [Workers -> Memories]
  /\ faults \in 0..MaxFaults

Init ==
  /\ scenario \in Scenarios
  /\ row = [e \in Executions |-> AbsentRow]
  /\ receipt = [e \in Executions |-> FALSE]
  /\ contacts = [e \in Executions |-> 0]
  /\ mem = [w \in Workers |-> At("process")]
  /\ faults = 0

(***************************************************************************)
(* version = version + 1.  The code only ever compares a remembered        *)
(* version for equality, so the next one may be any value nobody           *)
(* remembers; the least such value keeps the column finite.                *)
(***************************************************************************)
Unremembered(e) ==
  Versions \ ({row[e].version} \cup {mem[w].version : w \in Workers})
NewVersion(e, v) ==
  /\ v \in Unremembered(e)
  /\ \A u \in Unremembered(e) : v <= u

\* DeterministicMockRailAdapter.submit, through RuntimeExecutionFacade.
SubmitOutcome(s) ==
  IF s = "immediate_settled" THEN "settled"
  ELSE IF s = "rejected_pre_submission" THEN "rejected"
  ELSE IF s \in {"unknown_submission", "unknown_then_settled",
                 "unknown_then_failed"} THEN "unknown"
  ELSE "accepted"

\* Its reconcile, for the observation after the `seen` recorded ones.
ReconcileAnswer(s, seen) ==
  IF s \in {"authoritative_failed", "unknown_then_failed"} THEN "failed"
  ELSE IF \/ s = "immediate_settled"
          \/ /\ s \in {"accepted_then_settled", "unknown_then_settled"}
             /\ seen >= 1
       THEN "settled"
  ELSE "pending"

SubmitStatus(outcome) ==
  IF outcome \in {"settled", "accepted"} THEN "PROCESSING"
  ELSE IF outcome = "unknown" THEN "UNKNOWN"
  ELSE "FAILED"

AnswerStatus(answer) ==
  IF answer = "settled" THEN "SETTLED"
  ELSE IF answer = "failed" THEN "FAILED"
  ELSE IF answer = "unknown" THEN "UNKNOWN"
  ELSE "PROCESSING"

\* The trigger protect_payment_execution; no code writes CANCELLED.
LegalTransition(from, to) ==
  \/ from = to /\ from \notin Terminal
  \/ from = "READY" /\ to = "SUBMITTING"
  \/ from = "SUBMITTING" /\ to \in {"PROCESSING", "UNKNOWN", "FAILED"}
  \/ from = "PROCESSING" /\ to \in {"SETTLED", "UNKNOWN", "FAILED"}
  \/ from = "UNKNOWN" /\ to \in {"PROCESSING", "SETTLED", "FAILED"}

-----------------------------------------------------------------------------
(* POST /execute: createOrGet inserts the row once; replays find it. *)
Execute(e) ==
  /\ row[e].status = "NONE"
  /\ row' = [row EXCEPT ![e].status = "READY"]
  /\ UNCHANGED <<scenario, receipt, contacts, mem, faults>>

SubmitClaimsOpen == {"READY", "SUBMITTING"}
SubmitClaims == {"READY"}
ReconcileClaims == {"SUBMITTING", "PROCESSING", "UNKNOWN"}

ClaimableUnowned(e, statuses) ==
  row[e].status \in statuses /\ row[e].owner = NoOwner
ClaimableAs(e, statuses) ==
  /\ row[e].status \in statuses
  /\ ~row[e].live

ClaimedStatusLate(status) == status
ClaimedStatus(status) == IF status = "READY" THEN "SUBMITTING" ELSE status

(***************************************************************************)
(* claim: the oldest claimable row not locked by another transaction, so   *)
(* any claimable row may be the one.  next_attempt_at is written as the    *)
(* current time and is due at once.                                        *)
(***************************************************************************)
Claim(w, e, statuses, place) ==
  /\ ClaimableAs(e, statuses)
  /\ \E v \in Versions :
       /\ NewVersion(e, v)
       /\ row' = [row EXCEPT ![e] =
            [@ EXCEPT !.status = ClaimedStatus(row[e].status),
                      !.version = v, !.owner = w, !.live = TRUE]]
       /\ mem' = [mem EXCEPT ![w] =
                    [at |-> place, exec |-> e, version |-> v,
                     seen |-> row[e].seen, reply |-> NoRow]]
  /\ UNCHANGED <<scenario, receipt, contacts, faults>>

ClaimForSubmit(w, e) ==
  /\ mem[w].at = "process"
  /\ Claim(w, e, SubmitClaims, "submitting")

\* processNext finds nothing: the tick goes on to reconcileNext.
NothingToSubmit(w) ==
  /\ mem[w].at = "process"
  /\ \A e \in Executions : ~ClaimableAs(e, SubmitClaims)
  /\ mem' = [mem EXCEPT ![w] = At("reconcile")]
  /\ UNCHANGED <<scenario, row, receipt, contacts, faults>>

Submit(w) ==
  /\ mem[w].at = "submitting"
  /\ contacts' = [contacts EXCEPT ![mem[w].exec] = IF @ = 0 THEN 1 ELSE 2]
  /\ mem' = [mem EXCEPT ![w] = [@ EXCEPT !.at = "submitted",
                                         !.reply = SubmitOutcome(scenario)]]
  /\ UNCHANGED <<scenario, row, receipt, faults>>

\* The UPDATE's WHERE clause and the trigger: otherwise the call raises.
Holds(w) ==
  /\ row[mem[w].exec].version = mem[w].version
  /\ row[mem[w].exec].owner = w

Completes(w, to) ==
  /\ Holds(w)
  /\ LegalTransition(row[mem[w].exec].status, to)

OwnerAfter(w) == NoOwner

\* completeInTransaction
Complete(w, to, seen) ==
  \E v \in Versions :
    /\ NewVersion(mem[w].exec, v)
    /\ row' = [row EXCEPT ![mem[w].exec] =
                 [status |-> to, version |-> v, owner |-> OwnerAfter(w),
                  live |-> FALSE, seen |-> seen]]

\* A failed call fails the tick, and the next tick begins with processNext.
RecordSubmission(w) ==
  LET to == SubmitStatus(mem[w].reply)
  IN  /\ mem[w].at = "submitted"
      /\ \/ /\ Completes(w, to)
            /\ Complete(w, to, row[mem[w].exec].seen)
            /\ mem' = [mem EXCEPT ![w] = At("reconcile")]
         \/ /\ ~Completes(w, to)
            /\ mem' = [mem EXCEPT ![w] = At("process")]
            /\ UNCHANGED row
      /\ UNCHANGED <<scenario, receipt, contacts, faults>>

ClaimForReconcile(w, e) ==
  /\ mem[w].at = "reconcile"
  /\ Claim(w, e, ReconcileClaims, "asking")

NothingToReconcile(w) ==
  /\ mem[w].at = "reconcile"
  /\ \A e \in Executions : ~ClaimableAs(e, ReconcileClaims)
  /\ mem' = [mem EXCEPT ![w] = At("process")]
  /\ UNCHANGED <<scenario, row, receipt, contacts, faults>>

Ask(w) ==
  /\ mem[w].at = "asking"
  /\ mem' = [mem EXCEPT ![w] =
               [@ EXCEPT !.at = "answered",
                         !.reply = ReconcileAnswer(scenario, mem[w].seen)]]
  /\ UNCHANGED <<scenario, row, receipt, contacts, faults>>

NextObservation(seen) == IF seen < MaxObservation THEN seen + 1 ELSE seen

CreatesReceiptNever(to) == FALSE
CreatesReceipt(to) == to = "SETTLED"

(***************************************************************************)
(* A settled answer goes through completeSettlement, which returns the     *)
(* receipt that exists or completes the execution and inserts it in one    *)
(* transaction; every other answer through complete.                       *)
(***************************************************************************)
RecordAnswer(w) ==
  LET e  == mem[w].exec
      to == AnswerStatus(mem[w].reply)
  IN  /\ mem[w].at = "answered"
      /\ \/ /\ ~(to = "SETTLED" /\ receipt[e])
            /\ Completes(w, to)
            /\ Complete(w, to, NextObservation(mem[w].seen))
            /\ receipt' = [receipt EXCEPT ![e] = @ \/ CreatesReceipt(to)]
         \/ /\ (to = "SETTLED" /\ receipt[e]) \/ ~Completes(w, to)
            /\ UNCHANGED <<row, receipt>>
      /\ mem' = [mem EXCEPT ![w] = At("process")]
      /\ UNCHANGED <<scenario, contacts, faults>>

-----------------------------------------------------------------------------
\* The thirty seconds of a lease whose claim nobody is working on any more.
Abandoned(e) ==
  /\ row[e].live
  /\ \A w \in Workers : mem[w].exec = e => mem[w].version /= row[e].version

LeaseExpires(e) ==
  /\ Abandoned(e)
  /\ row' = [row EXCEPT ![e].live = FALSE]
  /\ UNCHANGED <<scenario, receipt, contacts, mem, faults>>

Fault == faults < MaxFaults /\ faults' = faults + 1

\* A worker slower than its lease: nothing renews a Mock lease.
LeaseOutlived(e) ==
  /\ Fault
  /\ row[e].live
  /\ ~Abandoned(e)
  /\ row' = [row EXCEPT ![e].live = FALSE]
  /\ UNCHANGED <<scenario, receipt, contacts, mem>>

\* A database error: the tick fails, the row and its lease stay.
TickFails(w) ==
  /\ Fault
  /\ mem[w].at \in Holding
  /\ mem' = [mem EXCEPT ![w] = At("process")]
  /\ UNCHANGED <<scenario, row, receipt, contacts>>

\* The process dies and restarts under a new worker id.
Crash(w) ==
  /\ Fault
  /\ mem' = [mem EXCEPT ![w] = At("process")]
  /\ row' = [e \in Executions |->
               [row[e] EXCEPT !.owner = IF @ = w THEN Departed ELSE @]]
  /\ UNCHANGED <<scenario, receipt, contacts>>

Tick(w) ==
  \/ \E e \in Executions : ClaimForSubmit(w, e) \/ ClaimForReconcile(w, e)
  \/ NothingToSubmit(w)
  \/ Submit(w)
  \/ RecordSubmission(w)
  \/ NothingToReconcile(w)
  \/ Ask(w)
  \/ RecordAnswer(w)

Next ==
  \/ \E e \in Executions : Execute(e) \/ LeaseExpires(e) \/ LeaseOutlived(e)
  \/ \E w \in Workers : Tick(w) \/ TickFails(w) \/ Crash(w)

Spec == Init /\ [][Next]_vars

(***************************************************************************)
(* AdaptiveWorkerLoop schedules the next tick after success and failure    *)
(* alike; a lease nobody works under runs out with the clock.              *)
(***************************************************************************)
FairSpec ==
  /\ Spec
  /\ \A w \in Workers : WF_vars(Tick(w))
  /\ \A e \in Executions : WF_vars(LeaseExpires(e))

-----------------------------------------------------------------------------
(* An execution is submitted to the rail at most once, whatever crashes,   *)
(* retries and takeovers happen: processNext claims only READY, and no     *)
(* write ever leads back there (docs/payment-execution.md: "it is never    *)
(* blindly resubmitted").                                                  *)
SubmittedOnce == \A e \in Executions : contacts[e] <= 1

(* SUBMITTING is durable before the rail is contacted: whoever reads a row *)
(* that is absent or READY may rely on no call having been made.           *)
DurableBeforeContact ==
  \A e \in Executions :
    row[e].status \in {"NONE", "READY"} =>
      /\ contacts[e] = 0
      /\ \A w \in Workers : mem[w].exec /= e

(* A settled execution has its receipt and only a settled one has: the     *)
(* update and the insert of completeSettlement are one transaction.        *)
ReceiptIffSettled ==
  \A e \in Executions : receipt[e] <=> row[e].status = "SETTLED"

(* A terminal execution holds no lease and no claim that could still write *)
(* to it (terminal_execution_with_lease in scripts/r4/invariants.ts).      *)
TerminalHoldsNoLease ==
  \A e \in Executions :
    row[e].status \in Terminal => row[e].owner = NoOwner /\ ~row[e].live

(* No settled or failed execution changes again.                           *)
TerminalIsFinal ==
  [][\A e \in Executions :
       row[e].status \in Terminal => row'[e] = row[e]]_vars

\* Scenarios in which the rail's reconcile decides in the end and no answer is
\* one a row left in SUBMITTING cannot take.
Decided ==
  scenario \in {"accepted_then_settled", "unknown_then_settled",
                "unknown_then_failed", "authoritative_failed"}

(* Every execution the rail decides ends in SETTLED or FAILED, whatever    *)
(* ticks fail, workers die and leases run out on the way.                  *)
EventuallyTerminal ==
  \A e \in Executions :
    Decided /\ row[e].status = "READY" ~> row[e].status \in Terminal

(* "A recovered SUBMITTING ... execution reconciles"                       *)
(* (docs/payment-execution.md:7): an execution whose worker died between   *)
(* its claim and its record leaves SUBMITTING through reconcileNext.       *)
RecoveredSubmittingReconciles ==
  \A e \in Executions :
    row[e].status = "SUBMITTING" ~> row[e].status /= "SUBMITTING"
=============================================================================
