---------------------------- MODULE PaymentStore ----------------------------
(***************************************************************************)
(* PostgresPaymentPersistence: the life of payments after their creation.  *)
(* Every operation is one transaction that locks the payment's row; what   *)
(* concurrent callers can do to each other is in the version they expect:  *)
(* a caller read the row at any time before, judged it and asks for a      *)
(* change of what it read.  Constraints and triggers of the tables refuse  *)
(* what the adapter's own checks let through.                              *)
(***************************************************************************)
EXTENDS PaymentLifecycle

CONSTANTS
  MaxVersion,  \* bound: mutations of a payment, by payment
  Notes        \* types of the informational events that are appended

ASSUME StoreAssumption ==
  /\ MaxVersion \in [Payments -> Nat]
  /\ Notes \subseteq EventTypes

VARIABLES
  row,      \* payments
  receipt,  \* payment_receipts by payment
  event,    \* payment_events by payment, by sequence number
  signedAt, \* history: the version at which a signature was first recorded
  failedOn  \* history: the version read by the caller that failed the payment

storeVars == <<row, receipt, event, signedAt, failedOn>>

StoreTypeOK ==
  /\ row \in [Payments -> Records \cup {NoRecord}]
  /\ receipt \in [Payments -> Receipts \cup {NoReceipt}]
  /\ event \in [Payments -> Seq(Events)]
  /\ signedAt \in [Payments -> Nat]
  /\ failedOn \in [Payments -> Nat]

StoreInit ==
  /\ row = [p \in Payments |-> NoRecord]
  /\ receipt = [p \in Payments |-> NoReceipt]
  /\ event = [p \in Payments |-> <<>>]
  /\ signedAt = [p \in Payments |-> 0]
  /\ failedOn = [p \in Payments |-> 0]

-----------------------------------------------------------------------------
VersionUnchecked(p, read) == TRUE  \* mutant

\* The version checks of the operations and of updatePayment: the caller's
\* version `read` is still the row's.
VersionHolds(p, read) == read = row[p].version

\* Versions of a payment that a caller may have read.
ReadVersions(p) == {v \in 0 .. row[p].version : row[p] /= NoRecord}

UniquePda(p, record) ==  \* mutant
  \A q \in Payments \ {p} :
    record.evidence.pda \in {None} \cup {d \in Pdas : row[q].evidence.pda /= d}

\* payments_signature_unique, payments_receipt_pda_unique and the unique keys
\* of payment_receipts
Unique(p, record) ==
  \A q \in Payments \ {p} :
    /\ record.evidence.signature \in {None} \cup
         {s \in Signatures : row[q].evidence.signature /= s}
    /\ record.evidence.pda \in {None} \cup
         {d \in Pdas : row[q].evidence.pda /= d}

ProtectsPda(old, new) ==  \* mutant
  /\ old.status \notin Terminal
  /\ Agrees(old.evidence.pda, new.evidence.pda)

\* protect_payment_settlement_evidence
Protects(old, new) ==
  /\ old.status \notin Terminal
  /\ Agrees(old.evidence.signature, new.evidence.signature)
  /\ Agrees(old.evidence.blockhash, new.evidence.blockhash)
  /\ Agrees(old.evidence.slot, new.evidence.slot)
  /\ Agrees(old.evidence.pda, new.evidence.pda)

\* updatePayment under the triggers and unique keys
Update(p, status, evidence) ==
  LET new == Updated(row[p], status, evidence)
  IN  /\ row[p].version < MaxVersion[p]
      /\ Unique(p, new)
      /\ Protects(row[p], new)
      /\ row' = [row EXCEPT ![p] = new]
      /\ signedAt' = [signedAt EXCEPT ![p] =
           IF @ = 0 /\ new.evidence.signature /= None THEN new.version ELSE @]

Used(id) ==
  \E p \in Payments : \E n \in DOMAIN event[p] : event[p][n].runtimeEventId = id

AppendAnyId(p, new) ==  \* mutant
  /\ new.type \in Authoritative =>
       \A n \in DOMAIN event[p] : event[p][n].type /= new.type
  /\ event' = [event EXCEPT ![p] = Append(@, new)]

\* appendEvent under payment_events_runtime_event_unique and
\* payment_events_authoritative_once
AppendEvent(p, new) ==
  /\ new.runtimeEventId /= None => ~Used(new.runtimeEventId)
  /\ new.type \in Authoritative =>
       \A n \in DOMAIN event[p] : event[p][n].type /= new.type
  /\ event' = [event EXCEPT ![p] = Append(@, new)]

-----------------------------------------------------------------------------
\* claimIdempotencyKey and its siblings insert the row; PaymentIntents has
\* what they answer.
Claim(p) ==
  /\ row[p] = NoRecord
  /\ row' = [row EXCEPT ![p] =
       [status |-> "AWAITING_CONFIRMATION", version |-> 0,
        evidence |-> NoEvidence]]
  /\ AppendEvent(p, Event("CREATED", None, "AWAITING_CONFIRMATION", None))
  /\ UNCHANGED <<receipt, signedAt, failedOn>>

\* transitionPayment to PROCESSING or UNKNOWN, with any evidence
Transition(p, read, to, brought) ==
  /\ VersionHolds(p, read)
  /\ ValidTransition(row[p].status, to)
  /\ Update(p, to, brought)
  /\ AppendEvent(p, Event(TransitionEvent(row[p].status, to),
                          row[p].status, to, None))
  /\ UNCHANGED <<receipt, failedOn>>

\* transitionPayment to FAILED.  A proof of expiry is not compared with the
\* signature of the row, nor with the evidence beside it.
Fail(p, read, proof, brought) ==
  /\ VersionHolds(p, read)
  /\ ValidTransition(row[p].status, "FAILED")
  /\ ProofFits(row[p].status, proof)
  /\ Update(p, "FAILED", ProofEvidence(proof, brought))
  /\ AppendEvent(p, Event("SETTLEMENT_FAILED", row[p].status, "FAILED", None))
  /\ failedOn' = [failedOn EXCEPT ![p] = read]
  /\ UNCHANGED receipt

\* A repeated observation changes no column, which the lifecycle trigger
\* refuses.  The time of submission belongs to the submission.
RecordSignatureObservation(p, read, signature, blockhash) ==
  LET seen == [NoEvidence EXCEPT !.signature = signature,
                                 !.blockhash = blockhash]
  IN  /\ VersionHolds(p, read)
      /\ row[p].status \in Unsettled
      /\ Agrees(row[p].evidence.signature, signature)
      /\ Updated(row[p], row[p].status, seen).evidence /= row[p].evidence
      /\ Update(p, row[p].status, seen)
      /\ AppendEvent(p, Event("SIGNATURE_OBSERVED", None, None, None))
      /\ UNCHANGED <<receipt, failedOn>>

\* Each check has a time of its own.
RecordSettlementCheck(p, read) ==
  /\ VersionHolds(p, read)
  /\ row[p].status \in Unsettled
  /\ Update(p, row[p].status, NoEvidence)
  /\ UNCHANGED <<receipt, event, failedOn>>

RecordSettlementConfirmation(p, read, signature, slot) ==
  /\ VersionHolds(p, read)
  /\ row[p].status \in Unsettled
  /\ Agrees(row[p].evidence.signature, signature)
  /\ Update(p, row[p].status,
       [NoEvidence EXCEPT !.signature = signature, !.slot = slot])
  /\ AppendEvent(p, Event("SETTLEMENT_CONFIRMED", row[p].status,
                          row[p].status, None))
  /\ UNCHANGED <<receipt, failedOn>>

\* The informational surface expects no version.
AppendInformationalEvent(p, type, id) ==
  /\ row[p] /= NoRecord
  /\ type \notin Authoritative
  /\ AppendEvent(p, Event(type, None, None, id))
  /\ UNCHANGED <<row, receipt, signedAt, failedOn>>

CompletionOfProcessing(p, id) ==  \* mutant
  Event("RECEIPT_VERIFIED", "PROCESSING", "COMPLETED", id)

\* The event goes from the status the locked row has.
CompletionEvent(p, id) ==
  Event("RECEIPT_VERIFIED", row[p].status, "COMPLETED", id)

StoreVerifiedReceipt(p, read, shown, id) ==
  /\ VersionHolds(p, read)
  /\ ReceiptFits(p, row[p], shown)
  /\ ValidCompletion(row[p].status)
  /\ Update(p, "COMPLETED", ReceiptEvidence(shown))
  /\ AppendEvent(p, CompletionEvent(p, id))
  /\ receipt' = [receipt EXCEPT ![p] = shown]
  /\ UNCHANGED failedOn

Mutate(p, read) ==
  \/ \E to \in {"PROCESSING", "UNKNOWN"}, brought \in Brought :
       Transition(p, read, to, brought)
  \/ \E proof \in Proofs, brought \in Brought : Fail(p, read, proof, brought)
  \/ \E s \in Signatures, b \in Blockhashes \cup {None} :
       RecordSignatureObservation(p, read, s, b)
  \/ RecordSettlementCheck(p, read)
  \/ \E s \in Signatures, n \in Slots :
       RecordSettlementConfirmation(p, read, s, n)
  \/ \E shown \in Receipts, id \in RuntimeEvents \cup {None} :
       StoreVerifiedReceipt(p, read, shown, id)

StoreNext ==
  \E p \in Payments :
    \/ Claim(p)
    \/ \E read \in ReadVersions(p) : Mutate(p, read)
    \/ \E type \in Notes, id \in RuntimeEvents :
         AppendInformationalEvent(p, type, id)

StoreSpec == StoreInit /\ [][StoreNext]_storeVars

-----------------------------------------------------------------------------
\* Properties.

Moves(p) == {n \in DOMAIN event[p] : event[p][n].to /= None}

\* The audit stream tells the payment's status: the events that carry one form
\* a chain from creation to the status of the row, each settlement event occurs
\* once, and a receipt exists exactly at the chain's end in COMPLETED.  The
\* last is so for these operations: the Devnet projection completes payments
\* with an execution receipt instead (018_devnet_payment_completion_projection).
HistoryTellsStatus ==
  \A p \in Payments : row[p] /= NoRecord =>
    /\ \E last \in Moves(p) :
         /\ \A n \in Moves(p) : n <= last
         /\ event[p][last].to = row[p].status
    /\ \A n \in Moves(p) : n > 1 =>
         \E m \in Moves(p) :
           /\ m < n
           /\ \A k \in Moves(p) : k <= m \/ n <= k
           /\ event[p][n].from = event[p][m].to
    /\ \A m, n \in DOMAIN event[p] :
         event[p][m].type = event[p][n].type /\ event[p][m].type \in Authoritative
           => m = n
    /\ row[p].status = "COMPLETED" <=> receipt[p] /= NoReceipt

\* A transaction settles one payment: neither a signature nor a receipt account
\* is evidence, of success or failure, for two.
SettlesOnePayment ==
  \A p, q \in Payments : p /= q =>
    /\ row[p].evidence.signature = None
         \/ row[p].evidence.signature /= row[q].evidence.signature
    /\ row[p].evidence.pda = None \/ row[p].evidence.pda /= row[q].evidence.pda

\* docs/payment-persistence.md: only what is proved to have failed may be paid
\* again.  Nobody fails a payment behind whose back its transaction was
\* recorded: the caller, who may hold that nothing was ever signed, had read
\* the row with its signature or brings the signature itself.
FailureKnowsSignature ==
  \A p \in Payments :
    row[p].status = "FAILED" => signedAt[p] <= failedOn[p] + 1

\* Evidence observed once is never replaced: not by a later observation, a
\* proof of failure or a receipt that say otherwise.
EvidenceStays ==
  [][\A p \in Payments :
       /\ Agrees(row[p].evidence.signature, row'[p].evidence.signature)
       /\ Agrees(row[p].evidence.blockhash, row'[p].evidence.blockhash)
       /\ Agrees(row[p].evidence.slot, row'[p].evidence.slot)
       /\ Agrees(row[p].evidence.pda, row'[p].evidence.pda)
       /\ row[p].status \in Terminal => row'[p] = row[p]]_storeVars

OwnerOf(NameOf(_), name) ==
  IF \E p \in Payments : NameOf(p) = name
  THEN CHOOSE p \in Payments : NameOf(p) = name
  ELSE None
SignatureOf(p) == row[p].evidence.signature
ReceiptPdaOf(p) == receipt[p].pda

Memory == INSTANCE MemoryPaymentStore WITH
  payments <- row,
  receipts <- receipt,
  events <- event,
  signatures <- [s \in Signatures |-> OwnerOf(SignatureOf, s)],
  receiptPdas <- [d \in Pdas |-> OwnerOf(ReceiptPdaOf, d)],
  runtimeEventIds <- {id \in RuntimeEvents : Used(id)}

\* Whatever PostgreSQL lets an operation do, the in-memory adapter the tests
\* rely on allows too.  Its index of signatures is the unique key of the rows;
\* its index of receipt PDAs has only those of receipts, where the rows' key
\* also has those that transitions brought.
ImplementsMemoryStore == Memory!Spec
=============================================================================
