-------------------------- MODULE PaymentLifecycle --------------------------
(***************************************************************************)
(* What both payment stores, PostgreSQL and the in-memory adapter, share:  *)
(* the records they keep, the legal transitions, the proof a failure has   *)
(* to carry and the evidence a completion has to carry.                    *)
(***************************************************************************)
EXTENDS Naturals, Sequences

CONSTANTS
  Payments,      \* payment ids
  Signatures,    \* Solana transaction signatures
  Slots,         \* confirmed slots
  Blockhashes,   \* recent blockhashes of submissions
  Pdas,          \* receipt PDAs
  RuntimeEvents, \* runtime event ids
  Brought        \* evidence that callers give to a transition

None == "none"

\* NULL is no id, signature or address.
ASSUME NamesAssumption ==
  None \notin Payments \cup Signatures \cup Pdas \cup RuntimeEvents

Statuses ==
  {"AWAITING_CONFIRMATION", "PROCESSING", "UNKNOWN", "COMPLETED", "FAILED"}
Terminal == {"COMPLETED", "FAILED"}
Unsettled == {"PROCESSING", "UNKNOWN"}

Informational ==
  {"CREATED", "USER_CONFIRMED", "RUNTIME_APPROVED", "SUBMISSION_STARTED",
   "SIGNATURE_OBSERVED", "SETTLEMENT_UNKNOWN"}
Authoritative ==
  {"SETTLEMENT_CONFIRMED", "SETTLEMENT_FAILED", "RECEIPT_VERIFIED"}
EventTypes == Informational \cup Authoritative

\* The three kinds of terminal proof, with what of them becomes evidence.
Rejection ==
  [kind |-> "PRE_SUBMISSION_REJECTION", signature |-> None, blockhash |-> None]
ChainErrors ==
  [kind: {"SOLANA_TRANSACTION_ERROR"}, signature: Signatures, blockhash: {None}]
Expiries ==
  [kind: {"EXPIRED_UNSIGNED_TRANSACTION"}, signature: {None},
   blockhash: Blockhashes]
Proofs == {Rejection} \cup ChainErrors \cup Expiries

\* Evidence an operation brings; None where it brings nothing.  The times of
\* the record are left out, and a submission is known by its blockhash.
Evidence ==
  [signature: Signatures \cup {None}, blockhash: Blockhashes \cup {None},
   slot: Slots \cup {None}, pda: Pdas \cup {None},
   proof: {None, "PRE_SUBMISSION_REJECTION", "SOLANA_TRANSACTION_ERROR",
           "EXPIRED_UNSIGNED_TRANSACTION"}]
NoEvidence ==
  [signature |-> None, blockhash |-> None, slot |-> None, pda |-> None,
   proof |-> None]

ASSUME BroughtAssumption == Brought \subseteq Evidence

\* A payment that exists; `evidence` gathers the columns that only evidence
\* fills.
Records == [status: Statuses, version: Nat, evidence: Evidence]
NoRecord == [status |-> None, version |-> 0, evidence |-> NoEvidence]

\* A receipt; `terms` is the payment whose recipient, mint and amount it shows.
Receipts == [signature: Signatures, slot: Slots, pda: Pdas, terms: Payments]
NoReceipt ==
  [signature |-> None, slot |-> None, pda |-> None, terms |-> None]

Events ==
  [type: EventTypes, from: Statuses \cup {None}, to: Statuses \cup {None},
   runtimeEventId: RuntimeEvents \cup {None}]
Event(type, from, to, id) ==
  [type |-> type, from |-> from, to |-> to, runtimeEventId |-> id]

-----------------------------------------------------------------------------
LegalTransitions ==
  [s \in Statuses |->
     CASE s = "AWAITING_CONFIRMATION" -> {"PROCESSING", "FAILED"}
       [] s = "PROCESSING" -> {"UNKNOWN", "COMPLETED", "FAILED"}
       [] s = "UNKNOWN" -> {"COMPLETED", "FAILED"}
       [] OTHER -> {}]

\* A payment that was never handed over fails by rejection, and only it.
ProofFits(from, proof) == (from = "AWAITING_CONFIRMATION") <=> (proof = Rejection)

\* validatePaymentTransition.  COMPLETED is reached through a receipt only.
ValidTransition(from, to) ==
  /\ to \in LegalTransitions[from]
  /\ to /= "COMPLETED"

\* validateReceiptCompletionTransition; a receipt carries all the evidence.
ValidCompletion(from) == from \in Unsettled

TransitionEvent(from, to) ==
  IF to = "FAILED" THEN "SETTLEMENT_FAILED"
  ELSE IF to = "UNKNOWN" THEN "SETTLEMENT_UNKNOWN" ELSE "USER_CONFIRMED"

ReceiptEvidence(receipt) ==
  [signature |-> receipt.signature, blockhash |-> None,
   slot |-> receipt.slot, pda |-> receipt.pda, proof |-> None]

Defined(next, previous) == IF next = None THEN previous ELSE next

\* normalizeTransitionEvidence: what a proof says comes before what was
\* brought with it.
ProofEvidence(proof, brought) ==
  [signature |-> Defined(proof.signature, brought.signature),
   blockhash |-> Defined(proof.blockhash, brought.blockhash),
   slot |-> brought.slot, pda |-> brought.pda, proof |-> proof.kind]

\* applyEvidence and the COALESCEs of updatePayment: new evidence is taken,
\* what it does not bring is kept.
Updated(record, status, evidence) ==
  [status |-> status, version |-> record.version + 1,
   evidence |->
     [signature |-> Defined(evidence.signature, record.evidence.signature),
      blockhash |-> Defined(evidence.blockhash, record.evidence.blockhash),
      slot |-> Defined(evidence.slot, record.evidence.slot),
      pda |-> Defined(evidence.pda, record.evidence.pda),
      proof |-> Defined(evidence.proof, record.evidence.proof)]]

\* What an operation may not contradict once it has been observed.
Agrees(observed, value) == observed \in {None, value}

\* validateReceiptMatch, validateReceipt
ReceiptFits(p, record, receipt) ==
  /\ receipt.terms = p
  /\ Agrees(record.evidence.signature, receipt.signature)
  /\ Agrees(record.evidence.pda, receipt.pda)
=============================================================================
