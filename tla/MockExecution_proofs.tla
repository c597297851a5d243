----------------------- MODULE MockExecution_proofs -----------------------
(***************************************************************************)
(* The Mock worker's safety for every number of executions, workers and    *)
(* faults.  The inductive invariant relates the rows to what the workers   *)
(* hold in memory: only a worker in the middle of a tick holds a row, the  *)
(* row it holds was claimed, and an execution whose submission is still to *)
(* come has one submitter and no contact.                                  *)
(***************************************************************************)
EXTENDS MockExecution, TLAPS

(* A worker names a row exactly while it works on one. *)
NamesWhileHolding ==
  \A w \in Workers :
    /\ mem[w].at \in Holding => mem[w].exec \in Executions
    /\ mem[w].at \notin Holding => mem[w].exec = NoRow

(* The worker about to contact the rail is the first, and alone. *)
OneSubmitter ==
  \A w \in Workers :
    mem[w].at = "submitting" =>
      /\ contacts[mem[w].exec] = 0
      /\ \A x \in Workers \ {w} :
           ~(mem[x].at = "submitting" /\ mem[x].exec = mem[w].exec)

IInv ==
  /\ TypeOK
  /\ NamesWhileHolding
  /\ OneSubmitter
  /\ SubmittedOnce
  /\ DurableBeforeContact
  /\ ReceiptIffSettled
  /\ TerminalHoldsNoLease

(* The tables of the rail and of the worker stay within the columns. *)
LEMMA TableTypes ==
  /\ \A outcome : SubmitStatus(outcome) \in {"PROCESSING", "UNKNOWN", "FAILED"}
  /\ \A answer : AnswerStatus(answer) \in
                   {"SETTLED", "PROCESSING", "UNKNOWN", "FAILED"}
  /\ \A s : SubmitOutcome(s) \in SubmitOutcomes
  /\ \A s, n : ReconcileAnswer(s, n) \in Answers
  BY DEF SubmitStatus, AnswerStatus, SubmitOutcome, ReconcileAnswer,
         SubmitOutcomes, Answers

(* Before the first request nothing is claimed, contacted or settled. *)
LEMMA InitHolds == Init => IInv
  BY NameAssumption, FaultAssumption, SMTT(30)
  DEF Init, IInv, TypeOK, Rows, Memories, NamesWhileHolding, OneSubmitter, SubmittedOnce,
      DurableBeforeContact, ReceiptIffSettled, TerminalHoldsNoLease, At,
      AbsentRow, Places, Holding, Statuses, MaxObservation, Terminal
(* What a completed call writes: the new status, version and observation,  *)
(* and no lease.                                                           *)
RowWritten(e, to, seen) ==
  \E v \in Versions :
    row' = [row EXCEPT ![e] = [status |-> to, version |-> v, owner |-> NoOwner,
                               live |-> FALSE, seen |-> seen]]

(* The two recording steps, seen by their effect on the rows: nothing, or  *)
(* one legal transition of the row the worker holds.                       *)
LEMMA SubmissionWrites ==
  ASSUME NEW w \in Workers, RecordSubmission(w)
  PROVE  /\ UNCHANGED <<scenario, receipt, contacts, faults>>
         /\ mem[w].at = "submitted"
         /\ mem' = [mem EXCEPT ![w] = At("reconcile")]
              \/ mem' = [mem EXCEPT ![w] = At("process")]
         /\ \/ UNCHANGED row
            \/ \E to \in {"PROCESSING", "UNKNOWN", "FAILED"} :
                 /\ LegalTransition(row[mem[w].exec].status, to)
                 /\ RowWritten(mem[w].exec, to, row[mem[w].exec].seen)
  BY TableTypes DEF RecordSubmission, Completes, Complete, RowWritten, OwnerAfter

LEMMA AnswerWrites ==
  ASSUME NEW w \in Workers, RecordAnswer(w)
  PROVE  /\ UNCHANGED <<scenario, contacts, faults>>
         /\ mem[w].at = "answered"
         /\ mem' = [mem EXCEPT ![w] = At("process")]
         /\ \/ UNCHANGED <<row, receipt>>
            \/ \E to \in {"SETTLED", "PROCESSING", "UNKNOWN", "FAILED"} :
                 /\ LegalTransition(row[mem[w].exec].status, to)
                 /\ RowWritten(mem[w].exec, to, NextObservation(mem[w].seen))
                 /\ receipt' = [receipt EXCEPT ![mem[w].exec] =
                                  @ \/ to = "SETTLED"]
  BY TableTypes DEF RecordAnswer, Completes, Complete, RowWritten, OwnerAfter,
                    CreatesReceipt

LEMMA MemoryTypes ==
  /\ \A place \in Places : At(place) \in Memories
  /\ \A m \in Memories : \A s, n :
       /\ [m EXCEPT !.at = "submitted", !.reply = SubmitOutcome(s)]
            \in Memories
       /\ [m EXCEPT !.at = "answered", !.reply = ReconcileAnswer(s, n)]
            \in Memories
<1>1. \A place \in Places : At(place) \in Memories
  BY DEF Memories, At, MaxObservation
<1>2. ASSUME NEW m \in Memories, NEW place \in Places,
             NEW reply \in SubmitOutcomes \cup Answers
      PROVE  [m EXCEPT !.at = place, !.reply = reply] \in Memories
  BY DEF Memories
<1> QED
  BY <1>1, <1>2, TableTypes DEF Places

LEMMA RowTypes ==
  /\ \A r \in Rows : [r EXCEPT !.live = FALSE] \in Rows
  /\ \A r \in Rows, o \in Workers \cup {NoOwner, Departed} :
       [r EXCEPT !.owner = o] \in Rows
  /\ \A r \in Rows, s \in Statuses, v \in Versions, w \in Workers :
       [r EXCEPT !.status = s, !.version = v, !.owner = w, !.live = TRUE]
         \in Rows
  BY DEF Rows

LEMMA FaultTypes ==
  ASSUME TypeOK, Fault
  PROVE  faults' \in 0..MaxFaults
  BY FaultAssumption DEF TypeOK, Fault

(* Types are kept; no two columns of a row are ever mixed up. *)
LEMMA StepTypes ==
  ASSUME TypeOK, NamesWhileHolding, [Next]_vars
  PROVE  TypeOK'
<1> USE DEF TypeOK
<1>1. ASSUME NEW e \in Executions, Execute(e)
      PROVE  TypeOK'
  BY <1>1 DEF Execute, Rows, Statuses
<1>2. ASSUME NEW w \in Workers, NEW e \in Executions, NEW statuses,
             NEW place \in Places, Claim(w, e, statuses, place)
      PROVE  TypeOK'
  <2>1. PICK v \in Versions :
          /\ row' = [row EXCEPT ![e] =
               [row[e] EXCEPT !.status = ClaimedStatus(row[e].status),
                              !.version = v, !.owner = w, !.live = TRUE]]
          /\ mem' = [mem EXCEPT ![w] =
               [at |-> place, exec |-> e, version |-> v,
                seen |-> row[e].seen, reply |-> NoRow]]
          /\ UNCHANGED <<scenario, receipt, contacts, faults>>
    BY <1>2 DEF Claim
  <2>2. ClaimedStatus(row[e].status) \in Statuses
    BY DEF ClaimedStatus, Rows, Statuses
  <2>3. row' \in [Executions -> Rows]
    BY <2>1, <2>2, RowTypes
  <2>4. [at |-> place, exec |-> e, version |-> v, seen |-> row[e].seen,
         reply |-> NoRow] \in Memories
    BY DEF Memories, Rows
  <2> QED
    BY <2>1, <2>3, <2>4
<1>3. ASSUME NEW w \in Workers, NothingToSubmit(w)
      PROVE  TypeOK'
  BY <1>3, MemoryTypes DEF NothingToSubmit, Places
<1>4. ASSUME NEW w \in Workers, Submit(w)
      PROVE  TypeOK'
  <2>1. contacts' \in [Executions -> 0..2]
    <3>1. mem[w].exec \in Executions
      BY <1>4 DEF Submit, NamesWhileHolding, Holding
    <3>2. (IF contacts[mem[w].exec] = 0 THEN 1 ELSE 2) \in 0..2
      OBVIOUS
    <3> QED
      BY <1>4, <3>1, <3>2 DEF Submit
  <2>2. mem' \in [Workers -> Memories]
    BY <1>4, MemoryTypes DEF Submit
  <2> QED
    BY <1>4, <2>1, <2>2 DEF Submit
<1>5. ASSUME NEW w \in Workers, NEW to \in Statuses,
             NEW seen \in 0..MaxObservation, RowWritten(mem[w].exec, to, seen)
      PROVE  row' \in [Executions -> Rows]
  <2>1. PICK v \in Versions :
          row' = [row EXCEPT ![mem[w].exec] =
            [status |-> to, version |-> v, owner |-> NoOwner,
             live |-> FALSE, seen |-> seen]]
    BY <1>5 DEF RowWritten
  <2>2. [status |-> to, version |-> v, owner |-> NoOwner, live |-> FALSE,
         seen |-> seen] \in Rows
    BY DEF Rows
  <2> QED
    BY <2>1, <2>2
<1>6. ASSUME NEW w \in Workers, RecordSubmission(w)
      PROVE  TypeOK'
  <2>1. mem[w].exec \in Executions
    BY <1>6 DEF RecordSubmission, NamesWhileHolding, Holding
  <2>2. row[mem[w].exec].seen \in 0..MaxObservation
    BY <2>1 DEF Rows
  <2>3. row' \in [Executions -> Rows]
    BY <1>5, <1>6, <2>2, SubmissionWrites DEF Statuses
  <2>4. mem' \in [Workers -> Memories]
    BY <1>6, SubmissionWrites, MemoryTypes DEF Places
  <2> QED
    BY <1>6, <2>3, <2>4, SubmissionWrites
<1>7. ASSUME NEW w \in Workers, NothingToReconcile(w)
      PROVE  TypeOK'
  BY <1>7, MemoryTypes DEF NothingToReconcile, Places
<1>8. ASSUME NEW w \in Workers, Ask(w)
      PROVE  TypeOK'
  <2>1. mem' \in [Workers -> Memories]
    BY <1>8, MemoryTypes DEF Ask
  <2> QED
    BY <1>8, <2>1 DEF Ask
<1>9. ASSUME NEW w \in Workers, RecordAnswer(w)
      PROVE  TypeOK'
  <2>1. NextObservation(mem[w].seen) \in 0..MaxObservation
    BY DEF NextObservation, Memories, MaxObservation
  <2>2. row' \in [Executions -> Rows]
    BY <1>5, <1>9, <2>1, AnswerWrites DEF Statuses
  <2>3. receipt' \in [Executions -> BOOLEAN]
    BY <1>9, AnswerWrites
  <2>4. mem' \in [Workers -> Memories]
    BY <1>9, AnswerWrites, MemoryTypes DEF Places
  <2> QED
    BY <1>9, <2>2, <2>3, <2>4, AnswerWrites
<1>10. ASSUME NEW e \in Executions, LeaseExpires(e)
       PROVE  TypeOK'
  BY <1>10, RowTypes DEF LeaseExpires
<1>11. ASSUME NEW e \in Executions, LeaseOutlived(e)
       PROVE  TypeOK'
  BY <1>11, RowTypes, FaultTypes DEF LeaseOutlived
<1>12. ASSUME NEW w \in Workers, TickFails(w)
       PROVE  TypeOK'
  BY <1>12, MemoryTypes, FaultTypes DEF TickFails, Places
<1>13. ASSUME NEW w \in Workers, Crash(w)
       PROVE  TypeOK'
  <2>1. \A e \in Executions :
          (IF row[e].owner = w THEN Departed ELSE row[e].owner)
            \in Workers \cup {NoOwner, Departed}
    BY DEF Rows
  <2>2. row' \in [Executions -> Rows]
    BY <1>13, <2>1, RowTypes DEF Crash
  <2> QED
    BY <1>13, <2>2, MemoryTypes, FaultTypes DEF Crash, Places
<1>14. CASE UNCHANGED vars
  BY <1>14 DEF vars
<1> QED
  BY <1>1, <1>2, <1>3, <1>4, <1>6, <1>7, <1>8, <1>9, <1>10, <1>11, <1>12,
     <1>13, <1>14 DEF Next, Tick, ClaimForSubmit, ClaimForReconcile, Places

(* Only a worker in the middle of its tick records, only over an open row, *)
(* and a recorded row is open or ended without a lease.                    *)
Recorded(w) ==
  /\ mem[w].at \in {"submitted", "answered"}
  /\ mem[w].exec \in Executions
  /\ \A x \in Workers : mem'[x] = IF x = w THEN mem'[w] ELSE mem[x]
  /\ mem'[w].at \notin Holding
  /\ mem'[w].exec = NoRow
  /\ UNCHANGED contacts
  /\ \A e \in Executions :
       \/ row'[e] = row[e] /\ receipt'[e] = receipt[e]
       \/ /\ e = mem[w].exec
          /\ row[e].status \in {"SUBMITTING", "PROCESSING", "UNKNOWN"}
          /\ row'[e].status \in {"SETTLED", "PROCESSING", "UNKNOWN", "FAILED"}
          /\ row'[e].owner = NoOwner
          /\ row'[e].live = FALSE
          /\ receipt'[e] <=> (receipt[e] \/ row'[e].status = "SETTLED")

LEMMA SubmissionRecorded ==
  ASSUME TypeOK, NamesWhileHolding, NEW w \in Workers, RecordSubmission(w)
  PROVE  Recorded(w)
<1>1. /\ mem[w].at = "submitted"
      /\ mem[w].exec \in Executions
  BY SubmissionWrites DEF NamesWhileHolding, Holding
<1>2. /\ \A x \in Workers : mem'[x] = IF x = w THEN mem'[w] ELSE mem[x]
      /\ mem'[w].at \notin Holding
      /\ mem'[w].exec = NoRow
  BY SubmissionWrites DEF At, Holding, TypeOK
<1>3. CASE UNCHANGED row
  BY <1>1, <1>2, <1>3, SubmissionWrites DEF Recorded
<1>4. ASSUME NEW to \in {"PROCESSING", "UNKNOWN", "FAILED"},
             LegalTransition(row[mem[w].exec].status, to),
             RowWritten(mem[w].exec, to, row[mem[w].exec].seen)
      PROVE  Recorded(w)
  <2>1. row[mem[w].exec].status \in {"SUBMITTING", "PROCESSING", "UNKNOWN"}
    BY <1>4 DEF LegalTransition, Terminal
  <2>2. \A e \in Executions :
          IF e = mem[w].exec
          THEN /\ row'[e].status = to
               /\ row'[e].owner = NoOwner
               /\ row'[e].live = FALSE
          ELSE row'[e] = row[e]
    BY <1>1, <1>4 DEF RowWritten, TypeOK
  <2> QED
    BY <1>1, <1>2, <1>4, <2>1, <2>2, SubmissionWrites DEF Recorded, TypeOK
<1> QED
  BY <1>3, <1>4, SubmissionWrites

LEMMA AnswerRecorded ==
  ASSUME TypeOK, NamesWhileHolding, NEW w \in Workers, RecordAnswer(w)
  PROVE  Recorded(w)
<1>1. /\ mem[w].at = "answered"
      /\ mem[w].exec \in Executions
  BY AnswerWrites DEF NamesWhileHolding, Holding
<1>2. /\ \A x \in Workers : mem'[x] = IF x = w THEN mem'[w] ELSE mem[x]
      /\ mem'[w].at \notin Holding
      /\ mem'[w].exec = NoRow
  BY AnswerWrites DEF At, Holding, TypeOK
<1>3. CASE UNCHANGED <<row, receipt>>
  BY <1>1, <1>2, <1>3, AnswerWrites DEF Recorded
<1>4. ASSUME NEW to \in {"SETTLED", "PROCESSING", "UNKNOWN", "FAILED"},
             LegalTransition(row[mem[w].exec].status, to),
             RowWritten(mem[w].exec, to, NextObservation(mem[w].seen)),
             receipt' = [receipt EXCEPT ![mem[w].exec] = @ \/ to = "SETTLED"]
      PROVE  Recorded(w)
  <2>1. row[mem[w].exec].status \in {"SUBMITTING", "PROCESSING", "UNKNOWN"}
    BY <1>4 DEF LegalTransition, Terminal
  <2>2. \A e \in Executions :
          IF e = mem[w].exec
          THEN /\ row'[e].status = to
               /\ row'[e].owner = NoOwner
               /\ row'[e].live = FALSE
          ELSE row'[e] = row[e]
    BY <1>1, <1>4 DEF RowWritten, TypeOK
  <2>3. \A e \in Executions :
          receipt'[e] <=> (receipt[e] \/ (e = mem[w].exec /\ to = "SETTLED"))
    BY <1>1, <1>4 DEF TypeOK
  <2>4. ASSUME NEW e \in Executions, e /= mem[w].exec
        PROVE  receipt'[e] = receipt[e]
    BY <1>1, <1>4, <2>4 DEF TypeOK
  <2> QED
    BY <1>1, <1>2, <1>4, <2>1, <2>2, <2>3, <2>4, AnswerWrites
    DEF Recorded
<1> QED
  BY <1>3, <1>4, AnswerWrites

(* A worker names a row from its claim to its record.                      *)
LEMMA StepNames ==
  ASSUME IInv, TypeOK', [Next]_vars
  PROVE  NamesWhileHolding'
<1> USE NameAssumption DEF IInv, TypeOK, Rows, Memories,
                       NamesWhileHolding, Holding
<1>1. ASSUME NEW e \in Executions, Execute(e)
      PROVE  NamesWhileHolding'
  BY <1>1 DEF Execute
<1>2. ASSUME NEW w \in Workers, NEW e \in Executions, ClaimForSubmit(w, e)
      PROVE  NamesWhileHolding'
  BY <1>2 DEF ClaimForSubmit, Claim, ClaimableAs, ClaimedStatus, SubmitClaims
<1>3. ASSUME NEW w \in Workers, NEW e \in Executions, ClaimForReconcile(w, e)
      PROVE  NamesWhileHolding'
  BY <1>3 DEF ClaimForReconcile, Claim, ClaimableAs, ClaimedStatus, ReconcileClaims
<1>4. ASSUME NEW w \in Workers, NEW place \in {"process", "reconcile"},
             mem' = [mem EXCEPT ![w] = At(place)],
             UNCHANGED <<row, receipt, contacts>>
      PROVE  NamesWhileHolding'
  BY <1>4 DEF At
<1>5. ASSUME NEW w \in Workers, Submit(w)
      PROVE  NamesWhileHolding'
  BY <1>5 DEF Submit
<1>6. ASSUME NEW w \in Workers, Recorded(w)
      PROVE  NamesWhileHolding'
  BY <1>6 DEF Recorded
<1>7. ASSUME NEW w \in Workers, Ask(w)
      PROVE  NamesWhileHolding'
  BY <1>7 DEF Ask
<1>8. ASSUME NEW e \in Executions, LeaseExpires(e) \/ LeaseOutlived(e)
      PROVE  NamesWhileHolding'
  BY <1>8 DEF LeaseExpires, LeaseOutlived
<1>9. ASSUME NEW w \in Workers, Crash(w)
      PROVE  NamesWhileHolding'
  BY <1>9 DEF Crash, At
<1>10. CASE UNCHANGED vars
  BY <1>10 DEF vars
<1> QED
  BY <1>1, <1>2, <1>3, <1>4, <1>5, <1>6, <1>7, <1>8, <1>9, <1>10,
     SubmissionRecorded, AnswerRecorded
  DEF Next, Tick, NothingToSubmit,
      NothingToReconcile, TickFails

(* One contact, by the one worker that claimed the execution READY.        *)
LEMMA StepSubmissions ==
  ASSUME IInv, TypeOK', [Next]_vars
  PROVE  (OneSubmitter /\ SubmittedOnce /\ DurableBeforeContact)'
<1> USE NameAssumption DEF IInv, TypeOK, Rows, Memories,
                       NamesWhileHolding, Holding, OneSubmitter, SubmittedOnce, DurableBeforeContact
<1>1. ASSUME NEW e \in Executions, Execute(e)
      PROVE  (OneSubmitter /\ SubmittedOnce /\ DurableBeforeContact)'
  BY <1>1 DEF Execute
<1>2. ASSUME NEW w \in Workers, NEW e \in Executions, ClaimForSubmit(w, e)
      PROVE  (OneSubmitter /\ SubmittedOnce /\ DurableBeforeContact)'
  BY <1>2 DEF ClaimForSubmit, Claim, ClaimableAs, ClaimedStatus, SubmitClaims
<1>3. ASSUME NEW w \in Workers, NEW e \in Executions, ClaimForReconcile(w, e)
      PROVE  (OneSubmitter /\ SubmittedOnce /\ DurableBeforeContact)'
  BY <1>3 DEF ClaimForReconcile, Claim, ClaimableAs, ClaimedStatus, ReconcileClaims
<1>4. ASSUME NEW w \in Workers, NEW place \in {"process", "reconcile"},
             mem' = [mem EXCEPT ![w] = At(place)],
             UNCHANGED <<row, receipt, contacts>>
      PROVE  (OneSubmitter /\ SubmittedOnce /\ DurableBeforeContact)'
  BY <1>4 DEF At
<1>5. ASSUME NEW w \in Workers, Submit(w)
      PROVE  (OneSubmitter /\ SubmittedOnce /\ DurableBeforeContact)'
  BY <1>5 DEF Submit
<1>6. ASSUME NEW w \in Workers, Recorded(w)
      PROVE  (OneSubmitter /\ SubmittedOnce /\ DurableBeforeContact)'
  <2>1. \A x \in Workers :
          mem'[x].exec /= NoRow => mem'[x] = mem[x]
    BY <1>6 DEF Recorded
  <2>2. OneSubmitter'
    BY <1>6, <2>1 DEF Recorded
  <2>3. SubmittedOnce'
    BY <1>6 DEF Recorded
  <2>4. ASSUME NEW e \in Executions, row'[e].status \in {"NONE", "READY"}
        PROVE  contacts'[e] = 0 /\ \A x \in Workers : mem'[x].exec /= e
    <3>1. row'[e] = row[e] /\ contacts' = contacts
      BY <1>6, <2>4 DEF Recorded
    <3>2. contacts[e] = 0 /\ \A x \in Workers : mem[x].exec /= e
      BY <2>4, <3>1
    <3> QED
      BY <2>1, <3>1, <3>2
  <2>5. DurableBeforeContact'
    BY <2>4
  <2> QED
    BY <2>2, <2>3, <2>5
<1>7. ASSUME NEW w \in Workers, Ask(w)
      PROVE  (OneSubmitter /\ SubmittedOnce /\ DurableBeforeContact)'
  BY <1>7 DEF Ask
<1>8. ASSUME NEW e \in Executions, LeaseExpires(e) \/ LeaseOutlived(e)
      PROVE  (OneSubmitter /\ SubmittedOnce /\ DurableBeforeContact)'
  BY <1>8 DEF LeaseExpires, LeaseOutlived
<1>9. ASSUME NEW w \in Workers, Crash(w)
      PROVE  (OneSubmitter /\ SubmittedOnce /\ DurableBeforeContact)'
  BY <1>9 DEF Crash, At
<1>10. CASE UNCHANGED vars
  BY <1>10 DEF vars
<1> QED
  BY <1>1, <1>2, <1>3, <1>4, <1>5, <1>6, <1>7, <1>8, <1>9, <1>10,
     SubmissionRecorded, AnswerRecorded
  DEF Next, Tick, NothingToSubmit,
      NothingToReconcile, TickFails

(* The receipt appears with the settlement.                                *)
LEMMA StepReceipts ==
  ASSUME IInv, TypeOK', [Next]_vars
  PROVE  ReceiptIffSettled'
<1> USE NameAssumption DEF IInv, TypeOK, Rows, Memories,
                       NamesWhileHolding, Holding, DurableBeforeContact, ReceiptIffSettled
<1>1. ASSUME NEW e \in Executions, Execute(e)
      PROVE  ReceiptIffSettled'
  BY <1>1 DEF Execute
<1>2. ASSUME NEW w \in Workers, NEW e \in Executions, ClaimForSubmit(w, e)
      PROVE  ReceiptIffSettled'
  BY <1>2 DEF ClaimForSubmit, Claim, ClaimableAs, ClaimedStatus, SubmitClaims
<1>3. ASSUME NEW w \in Workers, NEW e \in Executions, ClaimForReconcile(w, e)
      PROVE  ReceiptIffSettled'
  BY <1>3 DEF ClaimForReconcile, Claim, ClaimableAs, ClaimedStatus, ReconcileClaims
<1>4. ASSUME NEW w \in Workers, NEW place \in {"process", "reconcile"},
             mem' = [mem EXCEPT ![w] = At(place)],
             UNCHANGED <<row, receipt, contacts>>
      PROVE  ReceiptIffSettled'
  BY <1>4 DEF At
<1>5. ASSUME NEW w \in Workers, Submit(w)
      PROVE  ReceiptIffSettled'
  BY <1>5 DEF Submit
<1>6. ASSUME NEW w \in Workers, Recorded(w)
      PROVE  ReceiptIffSettled'
  <2> SUFFICES ASSUME NEW e \in Executions
               PROVE  receipt'[e] <=> row'[e].status = "SETTLED"
    OBVIOUS
  <2>1. receipt[e] <=> row[e].status = "SETTLED"
    OBVIOUS
  <2>2. CASE row'[e] = row[e] /\ receipt'[e] = receipt[e]
    BY <2>1, <2>2
  <2>3. CASE /\ row[e].status \in {"SUBMITTING", "PROCESSING", "UNKNOWN"}
             /\ receipt'[e] <=> (receipt[e] \/ row'[e].status = "SETTLED")
    BY <2>1, <2>3
  <2> QED
    BY <1>6, <2>2, <2>3 DEF Recorded
<1>7. ASSUME NEW w \in Workers, Ask(w)
      PROVE  ReceiptIffSettled'
  BY <1>7 DEF Ask
<1>8. ASSUME NEW e \in Executions, LeaseExpires(e) \/ LeaseOutlived(e)
      PROVE  ReceiptIffSettled'
  BY <1>8 DEF LeaseExpires, LeaseOutlived
<1>9. ASSUME NEW w \in Workers, Crash(w)
      PROVE  ReceiptIffSettled'
  BY <1>9 DEF Crash, At
<1>10. CASE UNCHANGED vars
  BY <1>10 DEF vars
<1> QED
  BY <1>1, <1>2, <1>3, <1>4, <1>5, <1>6, <1>7, <1>8, <1>9, <1>10,
     SubmissionRecorded, AnswerRecorded
  DEF Next, Tick, NothingToSubmit,
      NothingToReconcile, TickFails

(* Recording releases the lease, and nothing claims a terminal row.        *)
LEMMA StepLeases ==
  ASSUME IInv, TypeOK', [Next]_vars
  PROVE  TerminalHoldsNoLease'
<1> USE NameAssumption DEF IInv, TypeOK, Rows, Memories,
                       NamesWhileHolding, Holding, TerminalHoldsNoLease, Terminal
<1>1. ASSUME NEW e \in Executions, Execute(e)
      PROVE  TerminalHoldsNoLease'
  BY <1>1 DEF Execute
<1>2. ASSUME NEW w \in Workers, NEW e \in Executions, ClaimForSubmit(w, e)
      PROVE  TerminalHoldsNoLease'
  BY <1>2 DEF ClaimForSubmit, Claim, ClaimableAs, ClaimedStatus, SubmitClaims
<1>3. ASSUME NEW w \in Workers, NEW e \in Executions, ClaimForReconcile(w, e)
      PROVE  TerminalHoldsNoLease'
  BY <1>3 DEF ClaimForReconcile, Claim, ClaimableAs, ClaimedStatus, ReconcileClaims
<1>4. ASSUME NEW w \in Workers, NEW place \in {"process", "reconcile"},
             mem' = [mem EXCEPT ![w] = At(place)],
             UNCHANGED <<row, receipt, contacts>>
      PROVE  TerminalHoldsNoLease'
  BY <1>4 DEF At
<1>5. ASSUME NEW w \in Workers, Submit(w)
      PROVE  TerminalHoldsNoLease'
  BY <1>5 DEF Submit
<1>6. ASSUME NEW w \in Workers, Recorded(w)
      PROVE  TerminalHoldsNoLease'
  BY <1>6 DEF Recorded
<1>7. ASSUME NEW w \in Workers, Ask(w)
      PROVE  TerminalHoldsNoLease'
  BY <1>7 DEF Ask
<1>8. ASSUME NEW e \in Executions, LeaseExpires(e) \/ LeaseOutlived(e)
      PROVE  TerminalHoldsNoLease'
  BY <1>8 DEF LeaseExpires, LeaseOutlived
<1>9. ASSUME NEW w \in Workers, Crash(w)
      PROVE  TerminalHoldsNoLease'
  BY <1>9 DEF Crash, At
<1>10. CASE UNCHANGED vars
  BY <1>10 DEF vars
<1> QED
  BY <1>1, <1>2, <1>3, <1>4, <1>5, <1>6, <1>7, <1>8, <1>9, <1>10,
     SubmissionRecorded, AnswerRecorded
  DEF Next, Tick, NothingToSubmit,
      NothingToReconcile, TickFails

(* The inductive invariant. *)
LEMMA Invariance == Spec => []IInv
<1>1. IInv /\ [Next]_vars => IInv'
  BY StepTypes, StepNames, StepSubmissions, StepReceipts, StepLeases DEF IInv
<1> QED
  BY InitHolds, <1>1, PTL DEF Spec

(* Every column, every worker's memory and the counters keep their types:  *)
(* in particular no claim or record writes a status outside the enum.      *)
THEOREM MockTypes == Spec => []TypeOK
<1>1. IInv => TypeOK
  BY DEF IInv
<1> QED
  BY Invariance, <1>1, PTL

(* However many workers crash, retry and take rows over, the rail is asked *)
(* to submit an execution at most once.                                    *)
THEOREM MockSubmitsOnce == Spec => []SubmittedOnce
<1>1. IInv => SubmittedOnce
  BY DEF IInv
<1> QED
  BY Invariance, <1>1, PTL

(* SUBMITTING is durable before the first contact with the rail.           *)
THEOREM MockClaimsFirst == Spec => []DurableBeforeContact
<1>1. IInv => DurableBeforeContact
  BY DEF IInv
<1> QED
  BY Invariance, <1>1, PTL

(* Settlement and receipt are one fact.                                    *)
THEOREM MockReceipts == Spec => []ReceiptIffSettled
<1>1. IInv => ReceiptIffSettled
  BY DEF IInv
<1> QED
  BY Invariance, <1>1, PTL

(* No terminal execution carries a lease.                                  *)
THEOREM MockLeases == Spec => []TerminalHoldsNoLease
<1>1. IInv => TerminalHoldsNoLease
  BY DEF IInv
<1> QED
  BY Invariance, <1>1, PTL

(* A settled or failed row never changes again: claims take open rows      *)
(* only, records end open rows only, and a lease needs an owner.           *)
THEOREM MockTerminalIsFinal == Spec => TerminalIsFinal
<1>1. ASSUME IInv, [Next]_vars, NEW e \in Executions,
             row[e].status \in Terminal
      PROVE  row'[e] = row[e]
  <2> USE <1>1, NameAssumption
      DEF IInv, TypeOK, TerminalHoldsNoLease, Terminal
  <2>1. ASSUME NEW f \in Executions, Execute(f)
        PROVE  row'[e] = row[e]
    BY <2>1 DEF Execute
  <2>2. ASSUME NEW w \in Workers, NEW f \in Executions,
               ClaimForSubmit(w, f) \/ ClaimForReconcile(w, f)
        PROVE  row'[e] = row[e]
    BY <2>2 DEF ClaimForSubmit, ClaimForReconcile, Claim, ClaimableAs,
                SubmitClaims, ReconcileClaims
  <2>3. ASSUME NEW w \in Workers, RecordSubmission(w) \/ RecordAnswer(w)
        PROVE  row'[e] = row[e]
    BY <2>3, SubmissionRecorded, AnswerRecorded DEF Recorded
  <2>4. ASSUME NEW f \in Executions, LeaseExpires(f) \/ LeaseOutlived(f)
        PROVE  row'[e] = row[e]
    BY <2>4 DEF LeaseExpires, LeaseOutlived, Abandoned
  <2>5. ASSUME NEW w \in Workers, Crash(w)
        PROVE  row'[e] = row[e]
    <3>1. row'[e] = [row[e] EXCEPT !.owner = row[e].owner]
      BY <2>5 DEF Crash
    <3> QED
      BY <3>1 DEF Rows
  <2> QED
    BY <2>1, <2>2, <2>3, <2>4, <2>5
    DEF Next, Tick, NothingToSubmit, NothingToReconcile, Submit, Ask,
        TickFails, vars
<1>2. IInv /\ [Next]_vars =>
        [\A e \in Executions :
           row[e].status \in Terminal => row'[e] = row[e]]_vars
  BY <1>1
<1> QED
  BY Invariance, <1>2, PTL DEF Spec, TerminalIsFinal
=============================================================================
