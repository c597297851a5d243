------------------------- MODULE MemoryPaymentStore -------------------------
(***************************************************************************)
(* InMemoryPaymentPersistence, the adapter the tests run against: a queue  *)
(* lets one operation run at a time, and explicit indexes refuse what is   *)
(* to be unique.  PaymentStore is shown to implement it.                   *)
(***************************************************************************)
EXTENDS PaymentLifecycle

VARIABLES
  payments,        \* payment records by id
  receipts,        \* receipts by payment
  events,          \* events by payment, in sequence
  signatures,      \* the payment a signature was last recorded for
  receiptPdas,     \* the payment whose receipt has a PDA
  runtimeEventIds  \* runtime event ids in use

vars ==
  <<payments, receipts, events, signatures, receiptPdas, runtimeEventIds>>

Init ==
  /\ payments = [p \in Payments |-> NoRecord]
  /\ receipts = [p \in Payments |-> NoReceipt]
  /\ events = [p \in Payments |-> <<>>]
  /\ signatures = [s \in Signatures |-> None]
  /\ receiptPdas = [d \in Pdas |-> None]
  /\ runtimeEventIds = {}

Owns(index, name, p) == name = None \/ index[name] \in {None, p}
Entered(index, name, p) ==
  [n \in DOMAIN index |-> IF n = name THEN p ELSE index[n]]

Save(p, record) == payments' = [payments EXCEPT ![p] = record]

\* appendEventUnsafe
AppendEvent(p, event) ==
  /\ event.runtimeEventId \notin runtimeEventIds
  /\ events' = [events EXCEPT ![p] = Append(@, event)]
  /\ runtimeEventIds' = runtimeEventIds \cup ({event.runtimeEventId} \ {None})

-----------------------------------------------------------------------------
Claim(p) ==
  /\ payments[p] = NoRecord
  /\ Save(p, [status |-> "AWAITING_CONFIRMATION", version |-> 0,
              evidence |-> NoEvidence])
  /\ AppendEvent(p, Event("CREATED", None, "AWAITING_CONFIRMATION", None))
  /\ UNCHANGED <<receipts, signatures, receiptPdas>>

\* transitionPayment to PROCESSING or UNKNOWN.  Of the evidence only the
\* signature's owner is checked: what was observed before is overwritten, and
\* a receipt PDA is saved without being looked up or entered.
Transition(p, to, brought) ==
  /\ ValidTransition(payments[p].status, to)
  /\ Owns(signatures, brought.signature, p)
  /\ Save(p, Updated(payments[p], to, brought))
  /\ signatures' = Entered(signatures, brought.signature, p)
  /\ AppendEvent(p, Event(TransitionEvent(payments[p].status, to),
                          payments[p].status, to, None))
  /\ UNCHANGED <<receipts, receiptPdas>>

\* transitionPayment to FAILED, with the evidence of the proof
Fail(p, proof, brought) ==
  LET evidence == ProofEvidence(proof, brought)
  IN  /\ ValidTransition(payments[p].status, "FAILED")
      /\ ProofFits(payments[p].status, proof)
      /\ Owns(signatures, evidence.signature, p)
      /\ Save(p, Updated(payments[p], "FAILED", evidence))
      /\ signatures' = Entered(signatures, evidence.signature, p)
      /\ AppendEvent(p, Event("SETTLEMENT_FAILED", payments[p].status,
                              "FAILED", None))
      /\ UNCHANGED <<receipts, receiptPdas>>

RecordSignatureObservation(p, signature, blockhash) ==
  /\ payments[p].status \in Unsettled
  /\ Owns(signatures, signature, p)
  /\ Agrees(payments[p].evidence.signature, signature)
  /\ Save(p, Updated(payments[p], payments[p].status,
       [NoEvidence EXCEPT !.signature = signature, !.blockhash = blockhash]))
  /\ signatures' = Entered(signatures, signature, p)
  /\ AppendEvent(p, Event("SIGNATURE_OBSERVED", None, None, None))
  /\ UNCHANGED <<receipts, receiptPdas>>

RecordSettlementCheck(p) ==
  /\ payments[p].status \in Unsettled
  /\ Save(p, Updated(payments[p], payments[p].status, NoEvidence))
  /\ UNCHANGED <<receipts, events, signatures, receiptPdas, runtimeEventIds>>

RecordSettlementConfirmation(p, signature, slot) ==
  /\ payments[p].status \in Unsettled
  /\ Agrees(payments[p].evidence.signature, signature)
  /\ Owns(signatures, signature, p)
  /\ Save(p, Updated(payments[p], payments[p].status,
       [NoEvidence EXCEPT !.signature = signature, !.slot = slot]))
  /\ signatures' = Entered(signatures, signature, p)
  /\ AppendEvent(p, Event("SETTLEMENT_CONFIRMED", payments[p].status,
                          payments[p].status, None))
  /\ UNCHANGED <<receipts, receiptPdas>>

AppendInformationalEvent(p, type, id) ==
  /\ type \in Informational
  /\ AppendEvent(p, Event(type, None, None, id))
  /\ UNCHANGED <<payments, receipts, signatures, receiptPdas>>

StoreVerifiedReceipt(p, receipt, id) ==
  /\ receipts[p] = NoReceipt
  /\ ReceiptFits(p, payments[p], receipt)
  /\ Owns(signatures, receipt.signature, p)
  /\ Owns(receiptPdas, receipt.pda, p)
  /\ ValidCompletion(payments[p].status)
  /\ Save(p, Updated(payments[p], "COMPLETED", ReceiptEvidence(receipt)))
  /\ receipts' = [receipts EXCEPT ![p] = receipt]
  /\ signatures' = Entered(signatures, receipt.signature, p)
  /\ receiptPdas' = Entered(receiptPdas, receipt.pda, p)
  /\ AppendEvent(p, Event("RECEIPT_VERIFIED", payments[p].status, "COMPLETED",
                          id))

\* The operations on a payment requirePayment finds.
Change(p) ==
  \/ \E to \in {"PROCESSING", "UNKNOWN"}, brought \in Brought :
       Transition(p, to, brought)
  \/ \E proof \in Proofs, brought \in Brought : Fail(p, proof, brought)
  \/ \E s \in Signatures, b \in Blockhashes \cup {None} :
       RecordSignatureObservation(p, s, b)
  \/ RecordSettlementCheck(p)
  \/ \E s \in Signatures, n \in Slots :
       RecordSettlementConfirmation(p, s, n)
  \/ \E type \in Informational, id \in RuntimeEvents :
       AppendInformationalEvent(p, type, id)
  \/ \E receipt \in Receipts, id \in RuntimeEvents \cup {None} :
       StoreVerifiedReceipt(p, receipt, id)

Next ==
  \E p \in Payments :
    \/ Claim(p)
    \/ payments[p] /= NoRecord /\ Change(p)

Spec == Init /\ [][Next]_vars
=============================================================================
