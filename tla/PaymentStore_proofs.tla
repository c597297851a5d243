------------------------- MODULE PaymentStore_proofs -------------------------
(***************************************************************************)
(***************************************************************************)
(* What evidence of payments can be, for every number of payments,         *)
(* signatures and mutations, whatever evidence transitions bring.  The     *)
(* inductive invariant says that a signature is recorded by a version of   *)
(* the row, which is what a caller's version is compared with, and that a  *)
(* receipt's account is the row's.                                         *)
(***************************************************************************)
EXTENDS PaymentStore, TLAPS

(* A signature was recorded by a version the row has had.                  *)
SignatureDated == \A p \in Payments : signedAt[p] <= row[p].version

(* The account of a receipt is the one its payment's row has.              *)
ReceiptShown ==
  \A p \in Payments :
    receipt[p] /= NoReceipt => receipt[p].pda = row[p].evidence.pda

IInv ==
  /\ StoreTypeOK
  /\ SignatureDated
  /\ FailureKnowsSignature
  /\ ReceiptShown
  /\ SettlesOnePayment

-----------------------------------------------------------------------------
(* An absent payment has no evidence; whoever read a version read a row.   *)
LEMMA NoRecordFacts ==
  /\ NoRecord.status = None /\ NoRecord.version = 0 /\ NoRecord.evidence = NoEvidence
  /\ NoEvidence \in Evidence
  /\ NoEvidence.signature = None /\ NoEvidence.blockhash = None /\ NoEvidence.slot = None
  /\ NoEvidence.pda = None /\ NoEvidence.proof = None
  BY DEF NoRecord, NoEvidence, Evidence

LEMMA RowIsTyped ==
  ASSUME StoreTypeOK, NEW p \in Payments
  PROVE  /\ row[p].evidence \in Evidence /\ row[p].version \in Nat
         /\ row[p] /= NoRecord => row[p] \in Records
  <1>1. row[p] \in Records \/ row[p] = NoRecord
    BY DEF StoreTypeOK
  <1> QED BY <1>1, NoRecordFacts DEF Records

LEMMA UpdatedIsRecord ==
  ASSUME NEW record, record.version \in Nat, record.evidence \in Evidence,
         NEW status \in Statuses, NEW evidence \in Evidence
  PROVE  /\ Updated(record, status, evidence) \in Records
         /\ Updated(record, status, evidence).status = status
         /\ Updated(record, status, evidence).version = record.version + 1
  <1>1. [signature |-> Defined(evidence.signature, record.evidence.signature),
         blockhash |-> Defined(evidence.blockhash, record.evidence.blockhash),
         slot |-> Defined(evidence.slot, record.evidence.slot),
         pda |-> Defined(evidence.pda, record.evidence.pda),
         proof |-> Defined(evidence.proof, record.evidence.proof)] \in Evidence
    BY DEF Evidence, Defined
  <1> QED BY <1>1 DEF Updated, Records

(* A receipt's account that is brought is taken.                           *)
LEMMA UpdatedPda ==
  ASSUME NEW record, NEW status, NEW evidence
  PROVE  Updated(record, status, evidence).evidence.pda =
           IF evidence.pda = None THEN record.evidence.pda ELSE evidence.pda
  BY DEF Updated, Defined

-----------------------------------------------------------------------------
(* Every update keeps the rows apart and dates a signature by the version  *)
(* it writes.                                                              *)
LEMMA UpdateInductive ==
  ASSUME IInv, NEW p \in Payments, NEW status \in Statuses, NEW evidence \in Evidence,
         Update(p, status, evidence)
  PROVE  /\ row' \in [Payments -> Records \cup {NoRecord}]
         /\ signedAt' \in [Payments -> Nat]
         /\ SignatureDated' /\ SettlesOnePayment'
         /\ row'[p].status = status /\ row[p].status \notin Terminal
         /\ row[p].version \in Nat /\ signedAt'[p] <= row[p].version + 1
         /\ row'[p].evidence.pda =
              IF evidence.pda = None THEN row[p].evidence.pda ELSE evidence.pda
         /\ Agrees(row[p].evidence.pda, row'[p].evidence.pda)
         /\ \A q \in Payments \ {p} : row'[q] = row[q] /\ signedAt'[q] = signedAt[q]
  <1> DEFINE new == Updated(row[p], status, evidence)
  <1>1. /\ Unique(p, new) /\ Protects(row[p], new)
        /\ row' = [row EXCEPT ![p] = new]
        /\ signedAt' = [signedAt EXCEPT ![p] =
             IF signedAt[p] = 0 /\ new.evidence.signature /= None THEN new.version
             ELSE signedAt[p]]
    BY DEF Update
  <1>2. /\ row \in [Payments -> Records \cup {NoRecord}]
        /\ signedAt \in [Payments -> Nat] /\ row[p].version \in Nat
        /\ signedAt[p] <= row[p].version
    BY RowIsTyped DEF IInv, StoreTypeOK, SignatureDated
  <1>3. /\ new \in Records /\ new.status = status /\ new.version = row[p].version + 1
    BY RowIsTyped, UpdatedIsRecord DEF IInv
  <1>4. new.evidence.pda = IF evidence.pda = None THEN row[p].evidence.pda ELSE evidence.pda
    BY UpdatedPda
  <1> HIDE DEF new
  <1>5. /\ row' \in [Payments -> Records \cup {NoRecord}] /\ row'[p] = new
        /\ \A q \in Payments \ {p} : row'[q] = row[q]
    BY <1>1, <1>2, <1>3
  <1>6. /\ signedAt' \in [Payments -> Nat]
        /\ signedAt'[p] = IF signedAt[p] = 0 /\ new.evidence.signature /= None
             THEN new.version ELSE signedAt[p]
        /\ \A q \in Payments \ {p} : signedAt'[q] = signedAt[q]
    BY <1>1, <1>2, <1>3
  <1>7. signedAt'[p] <= row[p].version + 1
    BY <1>2, <1>3, <1>6
  <1>8. SignatureDated'
    BY <1>3, <1>5, <1>6, <1>7 DEF IInv, SignatureDated
  <1>9. SettlesOnePayment'
    <2>1. \A q \in Payments \ {p} :
            /\ new.evidence.signature = None \/ new.evidence.signature /= row[q].evidence.signature
            /\ new.evidence.pda = None \/ new.evidence.pda /= row[q].evidence.pda
      BY <1>1 DEF Unique
    <2> QED BY <1>5, <2>1 DEF IInv, SettlesOnePayment
  <1>10. row[p].status \notin Terminal /\ Agrees(row[p].evidence.pda, new.evidence.pda)
    BY <1>1 DEF Protects
  <1> QED BY <1>2, <1>3, <1>4, <1>5, <1>6, <1>7, <1>8, <1>9, <1>10

(* Events and receipts keep their types.                                   *)
LEMMA AppendTypes ==
  ASSUME StoreTypeOK, NEW p \in Payments, NEW new \in Events, AppendEvent(p, new)
  PROVE  event' \in [Payments -> Seq(Events)]
  BY DEF StoreTypeOK, AppendEvent

LEMMA EventIsTyped ==
  ASSUME NEW type \in EventTypes, NEW from \in Statuses \cup {None},
         NEW to \in Statuses \cup {None}, NEW id \in RuntimeEvents \cup {None}
  PROVE  Event(type, from, to, id) \in Events
  BY DEF Event, Events

LEMMA RowsStay ==
  ASSUME IInv, UNCHANGED <<row, receipt, signedAt, failedOn>>
  PROVE  SignatureDated' /\ FailureKnowsSignature' /\ ReceiptShown' /\ SettlesOnePayment'
  BY DEF IInv, SignatureDated, FailureKnowsSignature, ReceiptShown, SettlesOnePayment

(* A receipt that was there stays the row's under an update.               *)
LEMMA ShownStays ==
  ASSUME IInv, NEW p \in Payments, UNCHANGED receipt,
         Agrees(row[p].evidence.pda, row'[p].evidence.pda),
         \A q \in Payments \ {p} : row'[q] = row[q]
  PROVE  ReceiptShown'
  <1>1. receipt[p] /= NoReceipt => receipt[p].pda \in Pdas
    BY DEF IInv, StoreTypeOK, Receipts
  <1>2. receipt[p] /= NoReceipt => row'[p].evidence.pda = receipt[p].pda
    BY <1>1, NamesAssumption DEF IInv, ReceiptShown, Agrees
  <1> QED BY <1>2 DEF IInv, ReceiptShown

-----------------------------------------------------------------------------
LEMMA ClaimInductive ==
  ASSUME IInv, NEW p \in Payments, Claim(p)
  PROVE  IInv'
  <1> DEFINE new == [status |-> "AWAITING_CONFIRMATION", version |-> 0,
                     evidence |-> NoEvidence]
  <1>1. /\ row[p] = NoRecord /\ row' = [row EXCEPT ![p] = new]
        /\ AppendEvent(p, Event("CREATED", None, "AWAITING_CONFIRMATION", None))
        /\ UNCHANGED <<receipt, signedAt, failedOn>>
    BY DEF Claim
  <1>2. new \in Records /\ new.version = 0 /\ new.evidence = NoEvidence
    BY NoRecordFacts DEF Records, Statuses
  <1> HIDE DEF new
  <1>3. /\ row' \in [Payments -> Records \cup {NoRecord}] /\ row'[p] = new
        /\ \A q \in Payments \ {p} : row'[q] = row[q]
    BY <1>1, <1>2 DEF IInv, StoreTypeOK
  <1>4. event' \in [Payments -> Seq(Events)]
    BY <1>1, AppendTypes, EventIsTyped
       DEF IInv, EventTypes, Informational, Statuses
  <1>5. StoreTypeOK'
    BY <1>1, <1>3, <1>4 DEF IInv, StoreTypeOK
  <1>6. /\ row'[p].evidence = row[p].evidence /\ row'[p].version = row[p].version
        /\ row'[p].status /= "FAILED"
    BY <1>1, <1>2, <1>3, NoRecordFacts DEF new
  <1>7. SignatureDated' /\ FailureKnowsSignature'
    BY <1>1, <1>3, <1>6 DEF IInv, SignatureDated, FailureKnowsSignature
  <1>8. \A q \in Payments : row'[q].evidence = row[q].evidence
    BY <1>3, <1>6
  <1>9. ReceiptShown' /\ SettlesOnePayment'
    BY <1>1, <1>8 DEF IInv, ReceiptShown, SettlesOnePayment
  <1> QED BY <1>5, <1>7, <1>9 DEF IInv

(* A mutation that updates the row, neither to fail nor to complete it.    *)
LEMMA PlainInductive ==
  ASSUME IInv, NEW p \in Payments, NEW status \in Statuses, NEW evidence \in Evidence,
         Update(p, status, evidence), status /= "FAILED",
         event' \in [Payments -> Seq(Events)], UNCHANGED <<receipt, failedOn>>
  PROVE  IInv'
  <1>1. StoreTypeOK'
    BY UpdateInductive DEF IInv, StoreTypeOK
  <1>2. FailureKnowsSignature'
    BY UpdateInductive DEF IInv, FailureKnowsSignature
  <1>3. ReceiptShown'
    BY UpdateInductive, ShownStays
  <1>4. SignatureDated' /\ SettlesOnePayment'
    BY UpdateInductive
  <1> QED BY <1>1, <1>2, <1>3, <1>4 DEF IInv

(* A row that is mutated is there, in one of the statuses.                 *)
LEMMA MutatedIsThere ==
  ASSUME StoreTypeOK, NEW p \in Payments, NEW read \in ReadVersions(p)
  PROVE  row[p] \in Records /\ row[p].status \in Statuses /\ row[p].status /= None
  BY RowIsTyped DEF ReadVersions, Records, Statuses, None

LEMMA TransitionInductive ==
  ASSUME IInv, NEW p \in Payments, NEW read \in ReadVersions(p),
         NEW to \in {"PROCESSING", "UNKNOWN"}, NEW brought \in Brought,
         Transition(p, read, to, brought)
  PROVE  IInv'
  <1>1. /\ Update(p, to, brought) /\ UNCHANGED <<receipt, failedOn>>
        /\ AppendEvent(p, Event(TransitionEvent(row[p].status, to), row[p].status, to, None))
    BY DEF Transition
  <1>2. /\ to \in Statuses /\ to /= "FAILED" /\ row[p].status \in Statuses
        /\ TransitionEvent(row[p].status, to) \in EventTypes
    BY MutatedIsThere
       DEF IInv, Statuses, TransitionEvent, EventTypes, Informational, Authoritative
  <1>3. event' \in [Payments -> Seq(Events)]
    BY <1>1, <1>2, AppendTypes, EventIsTyped DEF IInv
  <1> QED BY <1>1, <1>2, <1>3, BroughtAssumption, PlainInductive

LEMMA ProofEvidenceIsTyped ==
  ASSUME NEW proof \in Proofs, NEW brought \in Brought
  PROVE  ProofEvidence(proof, brought) \in Evidence
  BY BroughtAssumption
     DEF ProofEvidence, Defined, Evidence, Proofs, Rejection, ChainErrors, Expiries

(* The version check makes what the caller judged the current row.         *)
LEMMA FailInductive ==
  ASSUME IInv, NEW p \in Payments, NEW read \in ReadVersions(p), NEW proof \in Proofs,
         NEW brought \in Brought, Fail(p, read, proof, brought)
  PROVE  IInv'
  <1> DEFINE evidence == ProofEvidence(proof, brought)
  <1>1. /\ Update(p, "FAILED", evidence) /\ UNCHANGED receipt
        /\ AppendEvent(p, Event("SETTLEMENT_FAILED", row[p].status, "FAILED", None))
        /\ read = row[p].version /\ failedOn' = [failedOn EXCEPT ![p] = read]
    BY DEF Fail, VersionHolds
  <1>2. /\ "FAILED" \in Statuses /\ row[p].status \in Statuses
        /\ "SETTLEMENT_FAILED" \in EventTypes
    BY MutatedIsThere DEF IInv, Statuses, EventTypes, Authoritative
  <1>3. event' \in [Payments -> Seq(Events)]
    BY <1>1, <1>2, AppendTypes, EventIsTyped DEF IInv
  <1>4. evidence \in Evidence
    BY ProofEvidenceIsTyped
  <1> HIDE DEF evidence
  <1>5. /\ row' \in [Payments -> Records \cup {NoRecord}]
        /\ signedAt' \in [Payments -> Nat] /\ SignatureDated' /\ SettlesOnePayment'
        /\ row[p].version \in Nat /\ signedAt'[p] <= row[p].version + 1
        /\ Agrees(row[p].evidence.pda, row'[p].evidence.pda)
        /\ \A q \in Payments \ {p} : row'[q] = row[q] /\ signedAt'[q] = signedAt[q]
    BY <1>1, <1>2, <1>4, UpdateInductive
  <1>6. failedOn' \in [Payments -> Nat] /\ failedOn'[p] = row[p].version
        /\ \A q \in Payments \ {p} : failedOn'[q] = failedOn[q]
    BY <1>1, <1>5 DEF IInv, StoreTypeOK
  <1>7. FailureKnowsSignature'
    BY <1>5, <1>6 DEF IInv, FailureKnowsSignature
  <1>8. ReceiptShown'
    BY <1>1, <1>5, ShownStays
  <1>9. StoreTypeOK'
    BY <1>1, <1>3, <1>5, <1>6 DEF IInv, StoreTypeOK
  <1> QED BY <1>5, <1>7, <1>8, <1>9 DEF IInv

LEMMA ObserveInductive ==
  ASSUME IInv, NEW p \in Payments, NEW read \in ReadVersions(p),
         \/ \E s \in Signatures, b \in Blockhashes \cup {None} :
              RecordSignatureObservation(p, read, s, b)
         \/ RecordSettlementCheck(p, read)
         \/ \E s \in Signatures, n \in Slots :
              RecordSettlementConfirmation(p, read, s, n)
  PROVE  IInv'
  <1>1. row[p].status \in Statuses
    BY MutatedIsThere DEF IInv
  <1>2. /\ row[p].status /= "FAILED" /\ UNCHANGED <<receipt, failedOn>>
    BY DEF RecordSignatureObservation, RecordSettlementCheck,
           RecordSettlementConfirmation, Unsettled
  <1>3. ASSUME NEW s \in Signatures, NEW b \in Blockhashes \cup {None},
               RecordSignatureObservation(p, read, s, b)
        PROVE  IInv'
    <2> DEFINE seen == [NoEvidence EXCEPT !.signature = s, !.blockhash = b]
    <2>1. seen \in Evidence
      BY DEF NoEvidence, Evidence
    <2>2. /\ Update(p, row[p].status, seen)
          /\ AppendEvent(p, Event("SIGNATURE_OBSERVED", None, None, None))
      BY <1>3 DEF RecordSignatureObservation
    <2> HIDE DEF seen
    <2>3. event' \in [Payments -> Seq(Events)]
      BY <2>2, AppendTypes, EventIsTyped DEF IInv, EventTypes, Informational
    <2> QED BY <1>1, <1>2, <2>1, <2>2, <2>3, PlainInductive
  <1>4. CASE RecordSettlementCheck(p, read)
    <2>1. Update(p, row[p].status, NoEvidence) /\ UNCHANGED event
      BY <1>4 DEF RecordSettlementCheck
    <2>2. event' \in [Payments -> Seq(Events)]
      BY <2>1 DEF IInv, StoreTypeOK
    <2> QED BY <1>1, <1>2, <2>1, <2>2, NoRecordFacts, PlainInductive
  <1>5. ASSUME NEW s \in Signatures, NEW n \in Slots,
               RecordSettlementConfirmation(p, read, s, n)
        PROVE  IInv'
    <2> DEFINE seen == [NoEvidence EXCEPT !.signature = s, !.slot = n]
    <2>1. seen \in Evidence
      BY DEF NoEvidence, Evidence
    <2>2. /\ Update(p, row[p].status, seen)
          /\ AppendEvent(p, Event("SETTLEMENT_CONFIRMED", row[p].status,
                                  row[p].status, None))
      BY <1>5 DEF RecordSettlementConfirmation
    <2> HIDE DEF seen
    <2>3. event' \in [Payments -> Seq(Events)]
      BY <1>1, <2>2, AppendTypes, EventIsTyped DEF IInv, EventTypes, Authoritative
    <2> QED BY <1>1, <1>2, <2>1, <2>2, <2>3, PlainInductive
  <1> QED BY <1>3, <1>4, <1>5

LEMMA ReceiptInductive ==
  ASSUME IInv, NEW p \in Payments, NEW read \in ReadVersions(p), NEW shown \in Receipts,
         NEW id \in RuntimeEvents \cup {None}, StoreVerifiedReceipt(p, read, shown, id)
  PROVE  IInv'
  <1>1. /\ Update(p, "COMPLETED", ReceiptEvidence(shown))
        /\ AppendEvent(p, Event("RECEIPT_VERIFIED", row[p].status, "COMPLETED", id))
        /\ receipt' = [receipt EXCEPT ![p] = shown] /\ UNCHANGED failedOn
    BY DEF StoreVerifiedReceipt, CompletionEvent
  <1>2. /\ ReceiptEvidence(shown) \in Evidence /\ ReceiptEvidence(shown).pda = shown.pda
        /\ shown.pda /= None
    BY NamesAssumption DEF ReceiptEvidence, Evidence, Receipts
  <1>3. /\ "COMPLETED" \in Statuses /\ row[p].status \in Statuses
        /\ "RECEIPT_VERIFIED" \in EventTypes
    BY MutatedIsThere DEF IInv, Statuses, EventTypes, Authoritative
  <1>4. event' \in [Payments -> Seq(Events)]
    BY <1>1, <1>3, AppendTypes, EventIsTyped DEF IInv
  <1>5. /\ row' \in [Payments -> Records \cup {NoRecord}]
        /\ signedAt' \in [Payments -> Nat] /\ SignatureDated' /\ SettlesOnePayment'
        /\ row'[p].status = "COMPLETED" /\ row'[p].evidence.pda = shown.pda
        /\ \A q \in Payments \ {p} : row'[q] = row[q] /\ signedAt'[q] = signedAt[q]
    BY <1>1, <1>2, <1>3, UpdateInductive
  <1>6. /\ receipt' \in [Payments -> Receipts \cup {NoReceipt}] /\ receipt'[p] = shown
        /\ \A q \in Payments \ {p} : receipt'[q] = receipt[q]
    BY <1>1 DEF IInv, StoreTypeOK
  <1>7. StoreTypeOK'
    BY <1>1, <1>4, <1>5, <1>6 DEF IInv, StoreTypeOK
  <1>8. FailureKnowsSignature'
    BY <1>1, <1>5 DEF IInv, FailureKnowsSignature
  <1>9. ReceiptShown'
    BY <1>5, <1>6 DEF IInv, ReceiptShown
  <1> QED BY <1>5, <1>7, <1>8, <1>9 DEF IInv

LEMMA AppendInductive ==
  ASSUME IInv, NEW p \in Payments, NEW type \in Notes, NEW id \in RuntimeEvents,
         AppendInformationalEvent(p, type, id)
  PROVE  IInv'
  <1>1. /\ AppendEvent(p, Event(type, None, None, id))
        /\ UNCHANGED <<row, receipt, signedAt, failedOn>>
    BY DEF AppendInformationalEvent
  <1>2. event' \in [Payments -> Seq(Events)]
    BY <1>1, StoreAssumption, AppendTypes, EventIsTyped DEF IInv
  <1> QED BY <1>1, <1>2, RowsStay DEF IInv, StoreTypeOK

LEMMA InitInductive == StoreInit => IInv
  <1> SUFFICES ASSUME StoreInit PROVE IInv
    OBVIOUS
  <1>1. StoreTypeOK
    BY DEF StoreInit, StoreTypeOK
  <1>2. \A p \in Payments : row[p] = NoRecord /\ signedAt[p] = 0 /\ receipt[p] = NoReceipt
    BY DEF StoreInit
  <1>3. SignatureDated /\ FailureKnowsSignature /\ ReceiptShown /\ SettlesOnePayment
    BY <1>2, NoRecordFacts
       DEF SignatureDated, FailureKnowsSignature, ReceiptShown, SettlesOnePayment, None
  <1> QED BY <1>1, <1>3 DEF IInv

LEMMA NextInductive == IInv /\ [StoreNext]_storeVars => IInv'
  <1> SUFFICES ASSUME IInv, [StoreNext]_storeVars PROVE IInv'
    OBVIOUS
  <1>1. CASE UNCHANGED storeVars
    BY <1>1, RowsStay DEF storeVars, IInv, StoreTypeOK
  <1>2. ASSUME NEW p \in Payments, NEW read \in ReadVersions(p), Mutate(p, read)
        PROVE  IInv'
    BY <1>2, TransitionInductive, FailInductive, ObserveInductive, ReceiptInductive
       DEF Mutate
  <1>3. CASE StoreNext
    BY <1>2, <1>3, ClaimInductive, AppendInductive DEF StoreNext
  <1> QED BY <1>1, <1>3

THEOREM StoreSafety == StoreSpec => []IInv
  BY InitInductive, NextInductive, PTL DEF StoreSpec

(* Rows, receipts and events are always of their types.                    *)
THEOREM StoreTypes == StoreSpec => []StoreTypeOK
  <1>1. IInv => StoreTypeOK
    BY DEF IInv
  <1> QED BY <1>1, StoreSafety, PTL

(* No signature and no receipt account is evidence for two payments        *)
(* (payments_signature_unique, payments_receipt_pda_unique).               *)
THEOREM SettlesOnce == StoreSpec => []SettlesOnePayment
  <1>1. IInv => SettlesOnePayment
    BY DEF IInv
  <1> QED BY <1>1, StoreSafety, PTL

(* Nobody fails a payment for which a signature was recorded since he read *)
(* it (transitionPayment: expectedVersion).                                *)
THEOREM FailsKnowing == StoreSpec => []FailureKnowsSignature
  <1>1. IInv => FailureKnowsSignature
    BY DEF IInv
  <1> QED BY <1>1, StoreSafety, PTL

(* Evidence observed once is never replaced and a terminal payment never   *)
(* changes (protect_payment_settlement_evidence, under every operation).   *)
THEOREM KeepsEvidence == StoreSpec => EvidenceStays
  <1> DEFINE Stays(p) ==
        /\ Agrees(row[p].evidence.signature, row'[p].evidence.signature)
        /\ Agrees(row[p].evidence.blockhash, row'[p].evidence.blockhash)
        /\ Agrees(row[p].evidence.slot, row'[p].evidence.slot)
        /\ Agrees(row[p].evidence.pda, row'[p].evidence.pda)
        /\ row[p].status \in Terminal => row'[p] = row[p]
  <1>1. ASSUME IInv, StoreNext PROVE \A p \in Payments : Stays(p)
    <2>1. \A p \in Payments : row'[p] = row[p] => Stays(p)
      BY DEF Agrees
    <2>2. ASSUME NEW p \in Payments, NEW status, NEW evidence, Update(p, status, evidence)
          PROVE  \A q \in Payments : Stays(q)
      <3>1. Protects(row[p], row'[p]) /\ \A q \in Payments \ {p} : row'[q] = row[q]
        BY <1>1, <2>2 DEF Update, IInv, StoreTypeOK
      <3> QED BY <2>1, <3>1 DEF Protects
    <2>3. ASSUME NEW p \in Payments, Claim(p) PROVE \A q \in Payments : Stays(q)
      <3>1. /\ row[p] = NoRecord /\ \A q \in Payments \ {p} : row'[q] = row[q]
        BY <1>1, <2>3 DEF Claim, IInv, StoreTypeOK
      <3>2. row[p].evidence = NoEvidence /\ row[p].status \notin Terminal
        BY <3>1, NoRecordFacts DEF Terminal, None
      <3> QED BY <2>1, <3>1, <3>2, NoRecordFacts DEF Agrees
    <2>4. ASSUME NEW p \in Payments, NEW read \in ReadVersions(p), Mutate(p, read)
          PROVE  \A q \in Payments : Stays(q)
      <3>1. \E status, evidence : Update(p, status, evidence)
        BY <2>4 DEF Mutate, Transition, Fail, RecordSignatureObservation,
                    RecordSettlementCheck, RecordSettlementConfirmation,
                    StoreVerifiedReceipt
      <3> QED BY <2>2, <3>1
    <2>5. ASSUME UNCHANGED row PROVE \A q \in Payments : Stays(q)
      BY <2>1, <2>5
    <2> QED BY <1>1, <2>3, <2>4, <2>5 DEF StoreNext, AppendInformationalEvent
  <1>2. IInv /\ [StoreNext]_storeVars => [\A p \in Payments : Stays(p)]_storeVars
    BY <1>1
  <1> QED BY <1>2, StoreSafety, PTL DEF StoreSpec, EvidenceStays

-----------------------------------------------------------------------------
(***************************************************************************)
(* The history.  That the events of a payment tell its status needs more   *)
(* than the statement: a payment that is not there has no event and no     *)
(* receipt.  The chain itself is stated of a sequence of events, so that   *)
(* what one more event does to it is a fact about sequences.               *)
(***************************************************************************)
MovesOf(events) == {n \in DOMAIN events : events[n].to /= None}

ChainEndsIn(events, status) ==
  /\ \E last \in MovesOf(events) :
       /\ \A n \in MovesOf(events) : n <= last
       /\ events[last].to = status
  /\ \A n \in MovesOf(events) : n > 1 =>
       \E m \in MovesOf(events) :
         /\ m < n
         /\ \A k \in MovesOf(events) : k <= m \/ n <= k
         /\ events[n].from = events[m].to

AuthoritativeOnce(events) ==
  \A m, n \in DOMAIN events :
    events[m].type = events[n].type /\ events[m].type \in Authoritative => m = n

Told(p) ==
  /\ row[p] = NoRecord => event[p] = <<>> /\ receipt[p] = NoReceipt
  /\ row[p] /= NoRecord => ChainEndsIn(event[p], row[p].status)
  /\ AuthoritativeOnce(event[p])
  /\ row[p].status = "COMPLETED" <=> receipt[p] /= NoReceipt

HistoryInv == \A p \in Payments : Told(p)

LEMMA HistoryInvImplies == HistoryInv => HistoryTellsStatus
  BY DEF HistoryInv, Told, HistoryTellsStatus, ChainEndsIn, AuthoritativeOnce, Moves, MovesOf

LEMMA AppendFacts ==
  ASSUME NEW events \in Seq(Events), NEW new \in Events
  PROVE  /\ Append(events, new) \in Seq(Events)
         /\ DOMAIN Append(events, new) = DOMAIN events \cup {Len(events) + 1}
         /\ \A n \in DOMAIN events : n \in Nat /\ n >= 1 /\ n <= Len(events)
         /\ \A n \in DOMAIN events : Append(events, new)[n] = events[n]
         /\ Append(events, new)[Len(events) + 1] = new
         /\ Len(events) \in Nat
  OBVIOUS

(* An event that carries no status leaves the chain as it is.              *)
LEMMA ChainStays ==
  ASSUME NEW events \in Seq(Events), NEW new \in Events, NEW status,
         ChainEndsIn(events, status), new.to = None
  PROVE  ChainEndsIn(Append(events, new), status)
  <1> DEFINE grown == Append(events, new)
  <1>1. /\ MovesOf(grown) = MovesOf(events)
        /\ \A n \in MovesOf(events) : grown[n] = events[n]
    BY AppendFacts DEF MovesOf
  <1> HIDE DEF grown
  <1> QED BY <1>1 DEF ChainEndsIn, grown

(* An event that starts where the chain ends becomes its end.              *)
LEMMA ChainGrows ==
  ASSUME NEW events \in Seq(Events), NEW new \in Events, NEW status,
         ChainEndsIn(events, status), new.to /= None, new.from = status
  PROVE  ChainEndsIn(Append(events, new), new.to)
  <1> DEFINE grown == Append(events, new)
             end == Len(events) + 1
  <1>1. /\ MovesOf(grown) = MovesOf(events) \cup {end}
        /\ \A n \in MovesOf(events) : grown[n] = events[n]
        /\ grown[end] = new
        /\ \A n \in MovesOf(events) : n \in Nat /\ n < end
        /\ end \in Nat
    BY AppendFacts DEF MovesOf
  <1> HIDE DEF grown, end
  <1>2. PICK last \in MovesOf(events) :
          (\A n \in MovesOf(events) : n <= last) /\ events[last].to = status
    BY DEF ChainEndsIn
  <1>3. \E n \in MovesOf(grown) :
          (\A m \in MovesOf(grown) : m <= n) /\ grown[n].to = new.to
    BY <1>1
  <1>4. ASSUME NEW n \in MovesOf(grown), n > 1
        PROVE  \E m \in MovesOf(grown) :
                 /\ m < n
                 /\ \A k \in MovesOf(grown) : k <= m \/ n <= k
                 /\ grown[n].from = grown[m].to
    <2>1. CASE n = end
      <3>1. /\ last \in MovesOf(grown) /\ last < n /\ grown[n].from = grown[last].to
        BY <1>1, <1>2, <2>1
      <3>2. \A k \in MovesOf(grown) : k <= last \/ n <= k
        BY <1>1, <1>2, <2>1
      <3> QED BY <3>1, <3>2
    <2>2. CASE n \in MovesOf(events)
      <3>1. PICK m \in MovesOf(events) :
              /\ m < n
              /\ \A k \in MovesOf(events) : k <= m \/ n <= k
              /\ events[n].from = events[m].to
        BY <1>4, <2>2 DEF ChainEndsIn
      <3>2. \A k \in MovesOf(grown) : k <= m \/ n <= k
        BY <1>1, <2>2, <3>1
      <3> QED BY <1>1, <2>2, <3>1, <3>2
    <2> QED BY <1>1, <1>4, <2>1, <2>2
  <1> QED BY <1>3, <1>4 DEF ChainEndsIn, grown

(* The first event of a payment is the chain.                              *)
LEMMA ChainBegins ==
  ASSUME NEW new \in Events, new.to /= None
  PROVE  ChainEndsIn(Append(<<>>, new), new.to)
  <1> DEFINE grown == Append(<<>>, new)
  <1>1. MovesOf(grown) = {1} /\ grown[1] = new
    BY DEF MovesOf
  <1> HIDE DEF grown
  <1> QED BY <1>1 DEF ChainEndsIn, grown

(* payment_events_authoritative_once                                       *)
LEMMA OnceStays ==
  ASSUME NEW events \in Seq(Events), NEW new \in Events, AuthoritativeOnce(events),
         new.type \in Authoritative =>
           \A n \in DOMAIN events : events[n].type /= new.type
  PROVE  AuthoritativeOnce(Append(events, new))
  <1> DEFINE grown == Append(events, new)
             end == Len(events) + 1
  <1>1. /\ DOMAIN grown = DOMAIN events \cup {end}
        /\ \A n \in DOMAIN events : grown[n] = events[n]
        /\ grown[end] = new
    BY AppendFacts
  <1> HIDE DEF grown, end
  <1> QED BY <1>1 DEF AuthoritativeOnce, grown

-----------------------------------------------------------------------------
(* What the other payments' rows tell is left alone.                       *)
LEMMA OthersTold ==
  ASSUME HistoryInv, NEW p \in Payments, Told(p)',
         \A q \in Payments \ {p} :
           row'[q] = row[q] /\ event'[q] = event[q] /\ receipt'[q] = receipt[q]
  PROVE  HistoryInv'
  BY DEF HistoryInv, Told

(* What an append to the stream of one payment does.                       *)
LEMMA AppendMoves ==
  ASSUME StoreTypeOK, NEW p \in Payments, NEW new \in Events, AppendEvent(p, new)
  PROVE  /\ event[p] \in Seq(Events) /\ event'[p] = Append(event[p], new)
         /\ \A q \in Payments \ {p} : event'[q] = event[q]
         /\ new.type \in Authoritative =>
              \A n \in DOMAIN event[p] : event[p][n].type /= new.type
  BY DEF StoreTypeOK, AppendEvent

(* What an update of one payment does to its status.                       *)
LEMMA UpdateMoves ==
  ASSUME StoreTypeOK, NEW p \in Payments, NEW status \in Statuses, NEW evidence \in Evidence,
         Update(p, status, evidence)
  PROVE  /\ row'[p].status = status /\ row'[p] /= NoRecord
         /\ \A q \in Payments \ {p} : row'[q] = row[q]
         /\ row[p].status \notin Terminal
  <1>1. /\ row' = [row EXCEPT ![p] = Updated(row[p], status, evidence)]
        /\ row[p].status \notin Terminal
    BY DEF Update, Protects
  <1>2. /\ row'[p] = Updated(row[p], status, evidence)
        /\ \A q \in Payments \ {p} : row'[q] = row[q]
    BY <1>1 DEF StoreTypeOK
  <1>3. row'[p].status = status
    BY <1>2, RowIsTyped, UpdatedIsRecord
  <1>4. status /= NoRecord.status
    BY NoRecordFacts DEF Statuses, None
  <1> QED BY <1>1, <1>2, <1>3, <1>4

(* A step that does not complete: its event, if it carries a status, leads *)
(* from the row's status to the new one.                                   *)
LEMMA UnfinishedTold ==
  ASSUME StoreTypeOK, HistoryInv, NEW p \in Payments, row[p] /= NoRecord,
         NEW status \in Statuses \ {"COMPLETED"}, NEW evidence \in Evidence,
         Update(p, status, evidence),
         NEW new \in Events, AppendEvent(p, new), UNCHANGED receipt,
         \/ new.to = None /\ status = row[p].status
         \/ new.to = status /\ new.from = row[p].status
  PROVE  HistoryInv'
  <1>1. /\ row'[p].status = status /\ row'[p] /= NoRecord
        /\ \A q \in Payments \ {p} : row'[q] = row[q]
        /\ row[p].status \notin Terminal
    BY UpdateMoves
  <1>2. /\ event[p] \in Seq(Events) /\ event'[p] = Append(event[p], new)
        /\ \A q \in Payments \ {p} : event'[q] = event[q]
        /\ new.type \in Authoritative =>
             \A n \in DOMAIN event[p] : event[p][n].type /= new.type
    BY AppendMoves
  <1>3. /\ ChainEndsIn(event[p], row[p].status) /\ AuthoritativeOnce(event[p])
        /\ row[p].status = "COMPLETED" <=> receipt[p] /= NoReceipt
    BY DEF HistoryInv, Told
  <1>4. ChainEndsIn(event'[p], status)
    <2>1. CASE new.to = None /\ status = row[p].status
      BY <1>2, <1>3, <2>1, ChainStays
    <2>2. CASE new.to = status /\ new.from = row[p].status
      <3>1. new.to /= None
        BY <2>2 DEF Statuses, None
      <3>2. ChainEndsIn(Append(event[p], new), new.to)
        BY <1>2, <1>3, <2>2, <3>1, ChainGrows
      <3> QED BY <1>2, <2>2, <3>2
    <2> QED BY <2>1, <2>2
  <1>5. AuthoritativeOnce(event'[p])
    BY <1>2, <1>3, OnceStays
  <1>6. receipt'[p] = NoReceipt
    BY <1>1, <1>3 DEF Terminal
  <1>7. Told(p)'
    BY <1>1, <1>4, <1>5, <1>6 DEF Told
  <1> QED BY <1>1, <1>2, <1>7, OthersTold

-----------------------------------------------------------------------------
LEMMA ClaimTold ==
  ASSUME IInv, HistoryInv, NEW p \in Payments, Claim(p)
  PROVE  HistoryInv'
  <1> DEFINE new == Event("CREATED", None, "AWAITING_CONFIRMATION", None)
             record == [status |-> "AWAITING_CONFIRMATION", version |-> 0,
                        evidence |-> NoEvidence]
  <1>1. /\ row[p] = NoRecord /\ row' = [row EXCEPT ![p] = record]
        /\ AppendEvent(p, new) /\ UNCHANGED receipt
    BY DEF Claim
  <1>2. /\ new \in Events /\ new.to = "AWAITING_CONFIRMATION" /\ new.type \notin Authoritative
    BY EventIsTyped DEF EventTypes, Informational, Authoritative, Statuses, Event
  <1>3. /\ row'[p] = record /\ \A q \in Payments \ {p} : row'[q] = row[q]
    BY <1>1 DEF IInv, StoreTypeOK
  <1>4. row'[p].status = "AWAITING_CONFIRMATION" /\ row'[p] /= NoRecord
    BY <1>3, NoRecordFacts DEF None
  <1>5. /\ event'[p] = Append(event[p], new) /\ event[p] \in Seq(Events)
        /\ \A q \in Payments \ {p} : event'[q] = event[q]
    BY <1>1, <1>2, AppendMoves DEF IInv
  <1>6. event[p] = <<>> /\ receipt[p] = NoReceipt /\ AuthoritativeOnce(event[p])
    BY <1>1 DEF HistoryInv, Told
  <1> HIDE DEF new, record
  <1>7. ChainEndsIn(event'[p], row'[p].status)
    <2>1. ChainEndsIn(Append(<<>>, new), new.to)
      BY <1>2, ChainBegins DEF None
    <2> QED BY <1>2, <1>4, <1>5, <1>6, <2>1
  <1>8. AuthoritativeOnce(event'[p])
    BY <1>2, <1>5, <1>6, OnceStays
  <1>9. Told(p)'
    BY <1>1, <1>4, <1>6, <1>7, <1>8 DEF Told
  <1> QED BY <1>1, <1>3, <1>5, <1>9, OthersTold

LEMMA MutateTold ==
  ASSUME IInv, HistoryInv, NEW p \in Payments, NEW read \in ReadVersions(p), Mutate(p, read)
  PROVE  HistoryInv'
  <1>1. StoreTypeOK /\ row[p] /= NoRecord /\ row[p].status \in Statuses /\ row[p].status /= None
    BY MutatedIsThere DEF IInv, ReadVersions
  <1>2. ASSUME NEW to \in {"PROCESSING", "UNKNOWN"}, NEW brought \in Brought,
               Transition(p, read, to, brought)
        PROVE  HistoryInv'
    <2> DEFINE new == Event(TransitionEvent(row[p].status, to), row[p].status, to, None)
    <2>1. Update(p, to, brought) /\ UNCHANGED receipt /\ AppendEvent(p, new)
      BY <1>2 DEF Transition
    <2>2. to \in Statuses \ {"COMPLETED"} /\ TransitionEvent(row[p].status, to) \in EventTypes
      BY DEF Statuses, TransitionEvent, EventTypes, Informational, Authoritative
    <2>3. new \in Events /\ new.to = to /\ new.from = row[p].status
      BY <1>1, <2>2, EventIsTyped DEF Event
    <2> HIDE DEF new
    <2> QED BY <1>1, <2>1, <2>2, <2>3, BroughtAssumption, UnfinishedTold
  <1>3. ASSUME NEW proof \in Proofs, NEW brought \in Brought, Fail(p, read, proof, brought)
        PROVE  HistoryInv'
    <2> DEFINE new == Event("SETTLEMENT_FAILED", row[p].status, "FAILED", None)
    <2>1. /\ Update(p, "FAILED", ProofEvidence(proof, brought)) /\ UNCHANGED receipt
          /\ AppendEvent(p, new)
      BY <1>3 DEF Fail
    <2>2. ProofEvidence(proof, brought) \in Evidence /\ "FAILED" \in Statuses \ {"COMPLETED"}
      BY ProofEvidenceIsTyped DEF Statuses
    <2>3. new \in Events /\ new.to = "FAILED" /\ new.from = row[p].status
      BY <1>1, <2>2, EventIsTyped DEF Event, EventTypes, Authoritative
    <2> HIDE DEF new
    <2> QED BY <1>1, <2>1, <2>2, <2>3, UnfinishedTold
  <1>4. ASSUME NEW s \in Signatures, NEW b \in Blockhashes \cup {None},
               RecordSignatureObservation(p, read, s, b)
        PROVE  HistoryInv'
    <2> DEFINE new == Event("SIGNATURE_OBSERVED", None, None, None)
               seen == [NoEvidence EXCEPT !.signature = s, !.blockhash = b]
    <2>1. /\ Update(p, row[p].status, seen) /\ UNCHANGED receipt /\ AppendEvent(p, new)
          /\ row[p].status \in Unsettled
      BY <1>4 DEF RecordSignatureObservation
    <2>2. seen \in Evidence /\ row[p].status \in Statuses \ {"COMPLETED"}
      BY <2>1 DEF NoEvidence, Evidence, Statuses, Unsettled
    <2>3. new \in Events /\ new.to = None
      BY EventIsTyped DEF Event, EventTypes, Informational
    <2> HIDE DEF new, seen
    <2> QED BY <1>1, <2>1, <2>2, <2>3, UnfinishedTold
  <1>5. CASE RecordSettlementCheck(p, read)
    <2>1. /\ Update(p, row[p].status, NoEvidence) /\ UNCHANGED <<receipt, event>>
      BY <1>5 DEF RecordSettlementCheck
    <2>2. /\ row'[p].status = row[p].status /\ row'[p] /= NoRecord
          /\ \A q \in Payments \ {p} : row'[q] = row[q]
      BY <1>1, <2>1, NoRecordFacts, UpdateMoves
    <2>3. Told(p)'
      BY <1>1, <2>1, <2>2 DEF HistoryInv, Told
    <2> QED BY <2>1, <2>2, <2>3, OthersTold
  <1>6. ASSUME NEW s \in Signatures, NEW n \in Slots,
               RecordSettlementConfirmation(p, read, s, n)
        PROVE  HistoryInv'
    <2> DEFINE new == Event("SETTLEMENT_CONFIRMED", row[p].status, row[p].status, None)
               seen == [NoEvidence EXCEPT !.signature = s, !.slot = n]
    <2>1. /\ Update(p, row[p].status, seen) /\ UNCHANGED receipt /\ AppendEvent(p, new)
          /\ row[p].status \in Unsettled
      BY <1>6 DEF RecordSettlementConfirmation
    <2>2. seen \in Evidence /\ row[p].status \in Statuses \ {"COMPLETED"}
      BY <2>1 DEF NoEvidence, Evidence, Statuses, Unsettled
    <2>3. new \in Events /\ new.to = row[p].status /\ new.from = row[p].status
      BY <1>1, EventIsTyped DEF Event, EventTypes, Authoritative
    <2> HIDE DEF new, seen
    <2> QED BY <1>1, <2>1, <2>2, <2>3, UnfinishedTold
  <1>7. ASSUME NEW shown \in Receipts, NEW id \in RuntimeEvents \cup {None},
               StoreVerifiedReceipt(p, read, shown, id)
        PROVE  HistoryInv'
    <2> DEFINE new == Event("RECEIPT_VERIFIED", row[p].status, "COMPLETED", id)
    <2>1. /\ Update(p, "COMPLETED", ReceiptEvidence(shown)) /\ AppendEvent(p, new)
          /\ receipt' = [receipt EXCEPT ![p] = shown] /\ shown.terms = p
      BY <1>7 DEF StoreVerifiedReceipt, CompletionEvent, ReceiptFits
    <2>2. ReceiptEvidence(shown) \in Evidence /\ "COMPLETED" \in Statuses
      BY DEF ReceiptEvidence, Evidence, Receipts, Statuses
    <2>3. new \in Events /\ new.to = "COMPLETED" /\ new.from = row[p].status
      BY <1>1, <2>2, EventIsTyped DEF Event, EventTypes, Authoritative
    <2> HIDE DEF new
    <2>4. /\ row'[p].status = "COMPLETED" /\ row'[p] /= NoRecord
          /\ \A q \in Payments \ {p} : row'[q] = row[q]
      BY <1>1, <2>1, <2>2, UpdateMoves
    <2>5. /\ event[p] \in Seq(Events) /\ event'[p] = Append(event[p], new)
          /\ \A q \in Payments \ {p} : event'[q] = event[q]
          /\ new.type \in Authoritative =>
               \A n \in DOMAIN event[p] : event[p][n].type /= new.type
      BY <1>1, <2>1, <2>3, AppendMoves
    <2>6. /\ receipt'[p] = shown /\ \A q \in Payments \ {p} : receipt'[q] = receipt[q]
      BY <1>1, <2>1 DEF StoreTypeOK
    <2>7. shown /= NoReceipt
      BY <2>1, NamesAssumption DEF NoReceipt
    <2>8. ChainEndsIn(event[p], row[p].status) /\ AuthoritativeOnce(event[p])
      BY <1>1 DEF HistoryInv, Told
    <2>9. ChainEndsIn(event'[p], row'[p].status)
      <3>1. ChainEndsIn(Append(event[p], new), new.to)
        BY <2>3, <2>5, <2>8, ChainGrows DEF None
      <3> QED BY <2>3, <2>4, <2>5, <3>1
    <2>10. AuthoritativeOnce(event'[p])
      BY <2>3, <2>5, <2>8, OnceStays
    <2>11. Told(p)'
      BY <2>4, <2>6, <2>7, <2>9, <2>10 DEF Told
    <2> QED BY <2>4, <2>5, <2>6, <2>11, OthersTold
  <1> QED BY <1>2, <1>3, <1>4, <1>5, <1>6, <1>7 DEF Mutate

LEMMA NoteTold ==
  ASSUME IInv, HistoryInv, NEW p \in Payments, NEW type \in Notes, NEW id \in RuntimeEvents,
         AppendInformationalEvent(p, type, id)
  PROVE  HistoryInv'
  <1> DEFINE new == Event(type, None, None, id)
  <1>1. /\ AppendEvent(p, new) /\ UNCHANGED <<row, receipt>> /\ row[p] /= NoRecord
    BY DEF AppendInformationalEvent
  <1>2. new \in Events /\ new.to = None
    BY StoreAssumption, EventIsTyped DEF Event
  <1> HIDE DEF new
  <1>3. /\ event[p] \in Seq(Events) /\ event'[p] = Append(event[p], new)
        /\ \A q \in Payments \ {p} : event'[q] = event[q]
        /\ new.type \in Authoritative =>
             \A n \in DOMAIN event[p] : event[p][n].type /= new.type
    BY <1>1, <1>2, AppendMoves DEF IInv
  <1>4. ChainEndsIn(event[p], row[p].status) /\ AuthoritativeOnce(event[p])
    BY <1>1 DEF HistoryInv, Told
  <1>5. ChainEndsIn(event'[p], row[p].status)
    BY <1>2, <1>3, <1>4, ChainStays
  <1>6. AuthoritativeOnce(event'[p])
    BY <1>2, <1>3, <1>4, OnceStays
  <1>7. Told(p)'
    BY <1>1, <1>5, <1>6 DEF HistoryInv, Told
  <1> QED BY <1>1, <1>3, <1>7, OthersTold

LEMMA HistoryInit == StoreInit => HistoryInv
  <1> SUFFICES ASSUME StoreInit, NEW p \in Payments PROVE Told(p)
    BY DEF HistoryInv
  <1>1. row[p] = NoRecord /\ receipt[p] = NoReceipt /\ event[p] = <<>>
    BY DEF StoreInit
  <1> QED BY <1>1, NoRecordFacts DEF Told, AuthoritativeOnce, None

LEMMA HistoryNext == IInv /\ HistoryInv /\ [StoreNext]_storeVars => HistoryInv'
  <1> SUFFICES ASSUME IInv, HistoryInv, [StoreNext]_storeVars PROVE HistoryInv'
    OBVIOUS
  <1>1. CASE UNCHANGED storeVars
    BY <1>1 DEF storeVars, HistoryInv, Told
  <1>2. CASE StoreNext
    BY <1>2, ClaimTold, MutateTold, NoteTold DEF StoreNext
  <1> QED BY <1>1, <1>2

LEMMA HistoryAlways == StoreSpec => [](IInv /\ HistoryInv)
  BY StoreSafety, HistoryInit, HistoryNext, PTL DEF StoreSpec

(* The audit stream of a payment always leads from its creation to the     *)
(* status of its row, without a gap and with each settlement event at most *)
(* once; a receipt is there exactly when it ends in COMPLETED.             *)
THEOREM HistoryTold == StoreSpec => []HistoryTellsStatus
  BY HistoryAlways, HistoryInvImplies, PTL

-----------------------------------------------------------------------------
(***************************************************************************)
(* The refinement.  The in-memory adapter keeps indexes where PostgreSQL   *)
(* has unique keys: an index names the one payment that holds a signature, *)
(* or whose receipt has an account, which is well defined because no two   *)
(* do.  An account a transition brought is in no index, and PostgreSQL     *)
(* refuses more than the adapter.                                          *)
(***************************************************************************)
SignatureIndex == [s \in Signatures |-> OwnerOf(SignatureOf, s)]
PdaIndex == [d \in Pdas |-> OwnerOf(ReceiptPdaOf, d)]
RuntimeIds == {id \in RuntimeEvents : Used(id)}

SignatureHeld == [p \in Payments |-> row[p].evidence.signature]
PdaHeld == [p \in Payments |-> receipt[p].pda]

(* `owner` is the payment under which `name` is held.                      *)
Holds(held, name, owner) ==
  \/ owner = None /\ \A p \in Payments : held[p] /= name
  \/ owner \in Payments /\ held[owner] = name

Apart(held) ==
  \A p, q \in Payments : p /= q => held[p] = None \/ held[p] /= held[q]

LEMMA OwnersHold ==
  /\ \A s : Holds(SignatureHeld, s, OwnerOf(SignatureOf, s))
  /\ \A d : Holds(PdaHeld, d, OwnerOf(ReceiptPdaOf, d))
  <1>1. ASSUME NEW s PROVE Holds(SignatureHeld, s, OwnerOf(SignatureOf, s))
    BY DEF Holds, SignatureHeld, OwnerOf, SignatureOf
  <1>2. ASSUME NEW d PROVE Holds(PdaHeld, d, OwnerOf(ReceiptPdaOf, d))
    BY DEF Holds, PdaHeld, OwnerOf, ReceiptPdaOf
  <1> QED BY <1>1, <1>2

LEMMA OwnersHoldNext ==
  /\ \A s : Holds(SignatureHeld', s, OwnerOf(SignatureOf, s)')
  /\ \A d : Holds(PdaHeld', d, OwnerOf(ReceiptPdaOf, d)')
  <1>1. ASSUME NEW s PROVE Holds(SignatureHeld', s, OwnerOf(SignatureOf, s)')
    BY DEF Holds, SignatureHeld, OwnerOf, SignatureOf
  <1>2. ASSUME NEW d PROVE Holds(PdaHeld', d, OwnerOf(ReceiptPdaOf, d)')
    BY DEF Holds, PdaHeld, OwnerOf, ReceiptPdaOf
  <1> QED BY <1>1, <1>2

(* When one payment takes a name nobody else holds, its owner is entered.  *)
LEMMA HolderMoves ==
  ASSUME NEW held, NEW next, Apart(held), Apart(next), NEW p \in Payments,
         \A q \in Payments \ {p} : next[q] = held[q],
         held[p] \in {None, next[p]},
         NEW name, name /= None, NEW owner, Holds(held, name, owner),
         NEW newOwner, Holds(next, name, newOwner)
  PROVE  /\ name = next[p] => newOwner = p /\ owner \in {None, p}
         /\ name /= next[p] => newOwner = owner
  <1>1. CASE name = next[p]
    <2>1. \A q \in Payments \ {p} : next[q] /= name
      BY <1>1 DEF Apart
    <2> QED BY <1>1, <2>1 DEF Holds
  <1>2. CASE name /= next[p]
    <2>1. \A q \in Payments : next[q] = name <=> held[q] = name
      BY <1>2
    <2>2. \A q, r \in Payments : held[q] = name /\ held[r] = name => q = r
      BY DEF Apart
    <2> QED BY <1>2, <2>1, <2>2, NamesAssumption DEF Holds
  <1> QED BY <1>1, <1>2

(* What a step that changes one row does to the index of signatures.       *)
LEMMA SignatureMoves ==
  ASSUME SettlesOnePayment, SettlesOnePayment', NEW p \in Payments,
         \A q \in Payments \ {p} : row'[q] = row[q],
         row[p].evidence.signature \in {None, row'[p].evidence.signature}
  PROVE  /\ SignatureIndex' = Memory!Entered(SignatureIndex, row'[p].evidence.signature, p)
         /\ row'[p].evidence.signature \in Signatures =>
              SignatureIndex[row'[p].evidence.signature] \in {None, p}
  <1> DEFINE sig == row'[p].evidence.signature
  <1>1. Apart(SignatureHeld) /\ Apart(SignatureHeld')
    BY DEF Apart, SignatureHeld, SettlesOnePayment
  <1>2. /\ SignatureHeld[p] \in {None, SignatureHeld'[p]} /\ SignatureHeld'[p] = sig
        /\ \A q \in Payments \ {p} : SignatureHeld'[q] = SignatureHeld[q]
    BY DEF SignatureHeld
  <1> HIDE DEF sig
  <1>3. ASSUME NEW s \in Signatures
        PROVE  /\ s = sig => OwnerOf(SignatureOf, s)' = p /\ OwnerOf(SignatureOf, s) \in {None, p}
               /\ s /= sig => OwnerOf(SignatureOf, s)' = OwnerOf(SignatureOf, s)
    <2>1. s /= None
      BY NamesAssumption
    <2>2. /\ Holds(SignatureHeld, s, OwnerOf(SignatureOf, s))
          /\ Holds(SignatureHeld', s, OwnerOf(SignatureOf, s)')
      BY OwnersHold, OwnersHoldNext
    <2> QED BY <1>1, <1>2, <2>1, <2>2, HolderMoves
  <1>4. SignatureIndex' = Memory!Entered(SignatureIndex, sig, p)
    BY <1>3 DEF SignatureIndex, Memory!Entered
  <1>5. sig \in Signatures => SignatureIndex[sig] \in {None, p}
    BY <1>3 DEF SignatureIndex
  <1> QED BY <1>4, <1>5 DEF sig

(* A signature that stays is entered already.                              *)
LEMMA SignaturesStay ==
  ASSUME SettlesOnePayment, SettlesOnePayment', NEW p \in Payments,
         \A q \in Payments \ {p} : row'[q] = row[q],
         row'[p].evidence.signature = row[p].evidence.signature
  PROVE  SignatureIndex' = SignatureIndex
  <1>1. Apart(SignatureHeld)
    BY DEF Apart, SignatureHeld, SettlesOnePayment
  <1>2. SignatureHeld' = SignatureHeld
    BY DEF SignatureHeld
  <1>3. ASSUME NEW s \in Signatures
        PROVE  OwnerOf(SignatureOf, s)' = OwnerOf(SignatureOf, s)
    <2>1. /\ Holds(SignatureHeld, s, OwnerOf(SignatureOf, s))
          /\ Holds(SignatureHeld, s, OwnerOf(SignatureOf, s)')
      BY <1>2, OwnersHold, OwnersHoldNext
    <2> QED BY <1>1, <2>1, NamesAssumption DEF Holds, Apart
  <1> QED BY <1>3 DEF SignatureIndex

(* The accounts of receipts are apart because those of the rows are.       *)
LEMMA ReceiptsApart ==
  ASSUME IInv
  PROVE  Apart(PdaHeld)
  <1>1. NoReceipt.pda = None
    BY DEF NoReceipt
  <1>2. \A p \in Payments : receipt[p].pda = None \/ receipt[p].pda = row[p].evidence.pda
    BY <1>1 DEF IInv, ReceiptShown
  <1> QED BY <1>2 DEF Apart, PdaHeld, IInv, SettlesOnePayment

LEMMA ReceiptsApartNext ==
  ASSUME IInv'
  PROVE  Apart(PdaHeld')
  <1>1. NoReceipt.pda = None
    BY DEF NoReceipt
  <1>2. \A p \in Payments : receipt'[p].pda = None \/ receipt'[p].pda = row'[p].evidence.pda
    BY <1>1 DEF IInv, ReceiptShown
  <1> QED BY <1>2 DEF Apart, PdaHeld, IInv, SettlesOnePayment

(* Storing a receipt enters its account, which was nobody else's.          *)
LEMMA PdaEntered ==
  ASSUME IInv, IInv', NEW p \in Payments, NEW shown \in Receipts,
         receipt[p] = NoReceipt, receipt' = [receipt EXCEPT ![p] = shown]
  PROVE  /\ PdaIndex' = Memory!Entered(PdaIndex, shown.pda, p)
         /\ PdaIndex[shown.pda] \in {None, p}
  <1>1. Apart(PdaHeld) /\ Apart(PdaHeld')
    BY ReceiptsApart, ReceiptsApartNext
  <1>2. receipt'[p] = shown /\ \A q \in Payments \ {p} : receipt'[q] = receipt[q]
    BY DEF IInv, StoreTypeOK
  <1>3. /\ PdaHeld[p] \in {None, PdaHeld'[p]} /\ PdaHeld'[p] = shown.pda
        /\ \A q \in Payments \ {p} : PdaHeld'[q] = PdaHeld[q]
    BY <1>2 DEF PdaHeld, NoReceipt
  <1>4. ASSUME NEW d \in Pdas
        PROVE  /\ d = shown.pda =>
                    OwnerOf(ReceiptPdaOf, d)' = p /\ OwnerOf(ReceiptPdaOf, d) \in {None, p}
               /\ d /= shown.pda => OwnerOf(ReceiptPdaOf, d)' = OwnerOf(ReceiptPdaOf, d)
    <2>1. d /= None
      BY NamesAssumption
    <2>2. /\ Holds(PdaHeld, d, OwnerOf(ReceiptPdaOf, d))
          /\ Holds(PdaHeld', d, OwnerOf(ReceiptPdaOf, d)')
      BY OwnersHold, OwnersHoldNext
    <2> QED BY <1>1, <1>3, <2>1, <2>2, HolderMoves
  <1>5. PdaIndex' = Memory!Entered(PdaIndex, shown.pda, p)
    BY <1>4 DEF PdaIndex, Memory!Entered
  <1>6. shown.pda \in Pdas
    BY DEF Receipts
  <1> QED BY <1>4, <1>5, <1>6 DEF PdaIndex

LEMMA PdasStay ==
  ASSUME UNCHANGED receipt
  PROVE  PdaIndex' = PdaIndex
  BY DEF PdaIndex, OwnerOf, ReceiptPdaOf

LEMMA SameLifecycle ==
  /\ Memory!NoRecord = NoRecord /\ Memory!NoReceipt = NoReceipt /\ Memory!None = None
  /\ Memory!NoEvidence = NoEvidence /\ Memory!Proofs = Proofs /\ Memory!Receipts = Receipts
  /\ Memory!Unsettled = Unsettled /\ Memory!Informational = Informational
  /\ \A type, from, to, id : Memory!Event(type, from, to, id) = Event(type, from, to, id)
  /\ \A from, to : Memory!ValidTransition(from, to) <=> ValidTransition(from, to)
  /\ \A from : Memory!ValidCompletion(from) <=> ValidCompletion(from)
  /\ \A from, to : Memory!TransitionEvent(from, to) = TransitionEvent(from, to)
  /\ \A from, proof : Memory!ProofFits(from, proof) <=> ProofFits(from, proof)
  /\ \A proof, brought : Memory!ProofEvidence(proof, brought) = ProofEvidence(proof, brought)
  /\ \A shown : Memory!ReceiptEvidence(shown) = ReceiptEvidence(shown)
  /\ \A observed, value : Memory!Agrees(observed, value) <=> Agrees(observed, value)
  /\ \A p, record, shown : Memory!ReceiptFits(p, record, shown) <=> ReceiptFits(p, record, shown)
  /\ \A record, status, evidence :
       Memory!Updated(record, status, evidence) = Updated(record, status, evidence)
  BY DEF NoRecord, Memory!NoRecord, NoReceipt, Memory!NoReceipt, None, Memory!None, NoEvidence,
    Memory!NoEvidence, Proofs, Memory!Proofs, Rejection, Memory!Rejection, ChainErrors,
    Memory!ChainErrors, Expiries, Memory!Expiries, Receipts, Memory!Receipts, Unsettled,
    Memory!Unsettled, Informational, Memory!Informational, Event, Memory!Event, ValidTransition,
    Memory!ValidTransition, LegalTransitions, Memory!LegalTransitions, Statuses,
    Memory!Statuses, ValidCompletion, Memory!ValidCompletion, TransitionEvent,
    Memory!TransitionEvent, ProofFits, Memory!ProofFits, ProofEvidence, Memory!ProofEvidence,
    ReceiptEvidence, Memory!ReceiptEvidence, Agrees, Memory!Agrees, ReceiptFits,
    Memory!ReceiptFits, Updated, Memory!Updated, Defined, Memory!Defined

(* The unique key of the runtime event ids is the adapter's set of them.   *)
LEMMA MemoryAppends ==
  ASSUME StoreTypeOK, NEW p \in Payments, NEW new \in Events, AppendEvent(p, new)
  PROVE  Memory!AppendEvent(p, new)
  <1> DEFINE id == new.runtimeEventId
  <1>1. /\ event[p] \in Seq(Events) /\ event'[p] = Append(event[p], new)
        /\ \A q \in Payments \ {p} : event'[q] = event[q]
    BY AppendMoves
  <1>2. id \in RuntimeEvents \cup {None}
    BY DEF Events
  <1>3. id \notin RuntimeIds
    BY NamesAssumption DEF AppendEvent, RuntimeIds
  <1>4. ASSUME NEW other PROVE Used(other)' <=> Used(other) \/ other = id
    <2>1. /\ DOMAIN event'[p] = DOMAIN event[p] \cup {Len(event[p]) + 1}
          /\ \A n \in DOMAIN event[p] : event'[p][n] = event[p][n]
          /\ event'[p][Len(event[p]) + 1] = new
      BY <1>1, AppendFacts
    <2>2. ASSUME Used(other) PROVE Used(other)'
      BY <1>1, <2>1, <2>2 DEF Used
    <2>3. ASSUME other = id PROVE Used(other)'
      BY <2>1, <2>3 DEF Used
    <2>4. ASSUME Used(other)' PROVE Used(other) \/ other = id
      BY <1>1, <2>1, <2>4 DEF Used
    <2> QED BY <2>2, <2>3, <2>4
  <1>5. RuntimeIds' = RuntimeIds \cup ({id} \ {None})
    BY <1>2, <1>4, NamesAssumption DEF RuntimeIds
  <1>6. event' = [event EXCEPT ![p] = Append(event[p], new)]
    BY DEF AppendEvent
  <1> QED BY <1>3, <1>5, <1>6, SameLifecycle DEF Memory!AppendEvent, RuntimeIds

-----------------------------------------------------------------------------
(* Nothing is entered under no name.                                       *)
LEMMA EnteredNone ==
  ASSUME NEW p \in Payments
  PROVE  Memory!Entered(SignatureIndex, None, p) = SignatureIndex
  BY NamesAssumption DEF Memory!Entered, SignatureIndex

(* An update under the adapter's index of signatures.                      *)
LEMMA UpdateIndexes ==
  ASSUME IInv, IInv', NEW p \in Payments, NEW status \in Statuses, NEW evidence \in Evidence,
         Update(p, status, evidence)
  PROVE  /\ row' = [row EXCEPT ![p] = Updated(row[p], status, evidence)]
         /\ SignatureIndex' = Memory!Entered(SignatureIndex, evidence.signature, p)
         /\ evidence.signature = None => SignatureIndex' = SignatureIndex
         /\ Memory!Owns(SignatureIndex, evidence.signature, p)
  <1>1. /\ row' = [row EXCEPT ![p] = Updated(row[p], status, evidence)]
        /\ Protects(row[p], Updated(row[p], status, evidence))
    BY DEF Update
  <1>2. row'[p] = Updated(row[p], status, evidence) /\ \A q \in Payments \ {p} : row'[q] = row[q]
    BY <1>1 DEF IInv, StoreTypeOK
  <1>3. row'[p].evidence.signature =
          IF evidence.signature = None THEN row[p].evidence.signature ELSE evidence.signature
    BY <1>2 DEF Updated, Defined
  <1>4. row[p].evidence.signature \in {None, row'[p].evidence.signature}
    BY <1>1, <1>2 DEF Protects, Agrees
  <1>5. evidence.signature \in Signatures \cup {None}
    BY DEF Evidence
  <1>6. SettlesOnePayment /\ SettlesOnePayment'
    BY DEF IInv
  <1>7. CASE evidence.signature = None
    <2>1. SignatureIndex' = SignatureIndex
      BY <1>2, <1>3, <1>6, <1>7, SignaturesStay
    <2> QED BY <1>1, <1>7, <2>1, EnteredNone, SameLifecycle DEF Memory!Owns
  <1>8. CASE evidence.signature /= None
    <2>1. /\ SignatureIndex' = Memory!Entered(SignatureIndex, evidence.signature, p)
          /\ SignatureIndex[evidence.signature] \in {None, p}
      BY <1>2, <1>3, <1>4, <1>5, <1>6, <1>8, SignatureMoves
    <2> QED BY <1>1, <1>8, <2>1, SameLifecycle DEF Memory!Owns
  <1> QED BY <1>7, <1>8

LEMMA MemoryClaims ==
  ASSUME IInv, IInv', NEW p \in Payments, Claim(p)
  PROVE  Memory!Claim(p)
  <1> DEFINE new == Event("CREATED", None, "AWAITING_CONFIRMATION", None)
             record == [status |-> "AWAITING_CONFIRMATION", version |-> 0,
                        evidence |-> NoEvidence]
  <1>1. /\ row[p] = NoRecord /\ row' = [row EXCEPT ![p] = record]
        /\ AppendEvent(p, new) /\ UNCHANGED receipt
    BY DEF Claim
  <1>2. new \in Events
    BY EventIsTyped DEF EventTypes, Informational, Statuses
  <1>3. Memory!AppendEvent(p, new)
    BY <1>1, <1>2, MemoryAppends DEF IInv
  <1>4. /\ row'[p].evidence = row[p].evidence
        /\ \A q \in Payments \ {p} : row'[q] = row[q]
    BY <1>1, NoRecordFacts DEF IInv, StoreTypeOK
  <1>5. SignatureIndex' = SignatureIndex /\ PdaIndex' = PdaIndex
    BY <1>1, <1>4, SignaturesStay, PdasStay DEF IInv
  <1> QED
    BY <1>1, <1>3, <1>5, SameLifecycle
    DEF Memory!Claim, Memory!Save, SignatureIndex, PdaIndex

LEMMA MemoryChanges ==
  ASSUME IInv, IInv', HistoryInv, NEW p \in Payments, NEW read \in ReadVersions(p),
         Mutate(p, read)
  PROVE  Memory!Change(p)
  <1>1. StoreTypeOK /\ row[p].status \in Statuses
    BY MutatedIsThere DEF IInv
  <1>2. NoEvidence \in Evidence /\ NoEvidence.signature = None
    BY NoRecordFacts
  <1>3. ASSUME NEW to \in {"PROCESSING", "UNKNOWN"}, NEW brought \in Brought,
               Transition(p, read, to, brought)
        PROVE  Memory!Transition(p, to, brought)
    <2> DEFINE new == Event(TransitionEvent(row[p].status, to), row[p].status, to, None)
    <2>1. /\ Update(p, to, brought) /\ UNCHANGED receipt /\ AppendEvent(p, new)
          /\ ValidTransition(row[p].status, to)
      BY <1>3 DEF Transition
    <2>2. to \in Statuses /\ TransitionEvent(row[p].status, to) \in EventTypes
      BY DEF Statuses, TransitionEvent, EventTypes, Informational, Authoritative
    <2>3. Memory!AppendEvent(p, new)
      BY <1>1, <2>1, <2>2, EventIsTyped, MemoryAppends
    <2>4. /\ row' = [row EXCEPT ![p] = Updated(row[p], to, brought)]
          /\ SignatureIndex' = Memory!Entered(SignatureIndex, brought.signature, p)
          /\ Memory!Owns(SignatureIndex, brought.signature, p) /\ PdaIndex' = PdaIndex
      BY <2>1, <2>2, BroughtAssumption, UpdateIndexes, PdasStay
    <2> QED
      BY <2>1, <2>3, <2>4, SameLifecycle
      DEF Memory!Transition, Memory!Save, SignatureIndex, PdaIndex
  <1>4. ASSUME NEW proof \in Proofs, NEW brought \in Brought, Fail(p, read, proof, brought)
        PROVE  Memory!Fail(p, proof, brought)
    <2> DEFINE new == Event("SETTLEMENT_FAILED", row[p].status, "FAILED", None)
               evidence == ProofEvidence(proof, brought)
    <2>1. /\ Update(p, "FAILED", evidence) /\ UNCHANGED receipt /\ AppendEvent(p, new)
          /\ ValidTransition(row[p].status, "FAILED") /\ ProofFits(row[p].status, proof)
      BY <1>4 DEF Fail
    <2>2. evidence \in Evidence /\ "FAILED" \in Statuses
      BY ProofEvidenceIsTyped DEF Statuses
    <2>3. Memory!AppendEvent(p, new)
      BY <1>1, <2>1, <2>2, EventIsTyped, MemoryAppends DEF EventTypes, Authoritative
    <2>4. /\ row' = [row EXCEPT ![p] = Updated(row[p], "FAILED", evidence)]
          /\ SignatureIndex' = Memory!Entered(SignatureIndex, evidence.signature, p)
          /\ Memory!Owns(SignatureIndex, evidence.signature, p) /\ PdaIndex' = PdaIndex
      <3> HIDE DEF evidence
      <3> QED BY <2>1, <2>2, UpdateIndexes, PdasStay
    <2> QED
      BY <2>1, <2>3, <2>4, SameLifecycle
      DEF Memory!Fail, Memory!Save, SignatureIndex, PdaIndex
  <1>5. ASSUME NEW s \in Signatures, NEW b \in Blockhashes \cup {None},
               RecordSignatureObservation(p, read, s, b)
        PROVE  Memory!RecordSignatureObservation(p, s, b)
    <2> DEFINE new == Event("SIGNATURE_OBSERVED", None, None, None)
               seen == [NoEvidence EXCEPT !.signature = s, !.blockhash = b]
    <2>1. /\ Update(p, row[p].status, seen) /\ UNCHANGED receipt /\ AppendEvent(p, new)
          /\ row[p].status \in Unsettled /\ Agrees(row[p].evidence.signature, s)
      BY <1>5 DEF RecordSignatureObservation
    <2>2. seen \in Evidence /\ seen.signature = s
      BY DEF NoEvidence, Evidence
    <2>3. Memory!AppendEvent(p, new)
      BY <1>1, <2>1, EventIsTyped, MemoryAppends DEF EventTypes, Informational
    <2>4. /\ row' = [row EXCEPT ![p] = Updated(row[p], row[p].status, seen)]
          /\ SignatureIndex' = Memory!Entered(SignatureIndex, s, p)
          /\ Memory!Owns(SignatureIndex, s, p) /\ PdaIndex' = PdaIndex
      <3> HIDE DEF seen
      <3> QED BY <1>1, <2>1, <2>2, UpdateIndexes, PdasStay
    <2> QED
      BY <2>1, <2>3, <2>4, SameLifecycle
      DEF Memory!RecordSignatureObservation, Memory!Save, SignatureIndex, PdaIndex
  <1>6. ASSUME RecordSettlementCheck(p, read)
        PROVE  Memory!RecordSettlementCheck(p)
    <2>1. /\ Update(p, row[p].status, NoEvidence) /\ UNCHANGED <<receipt, event>>
          /\ row[p].status \in Unsettled
      BY <1>6 DEF RecordSettlementCheck
    <2>2. /\ row' = [row EXCEPT ![p] = Updated(row[p], row[p].status, NoEvidence)]
          /\ SignatureIndex' = SignatureIndex /\ PdaIndex' = PdaIndex
      BY <1>1, <1>2, <2>1, UpdateIndexes, PdasStay
    <2>3. RuntimeIds' = RuntimeIds
      BY <2>1 DEF RuntimeIds, Used
    <2> QED
      BY <2>1, <2>2, <2>3, SameLifecycle
      DEF Memory!RecordSettlementCheck, Memory!Save, SignatureIndex, PdaIndex, RuntimeIds
  <1>7. ASSUME NEW s \in Signatures, NEW n \in Slots,
               RecordSettlementConfirmation(p, read, s, n)
        PROVE  Memory!RecordSettlementConfirmation(p, s, n)
    <2> DEFINE new == Event("SETTLEMENT_CONFIRMED", row[p].status, row[p].status, None)
               seen == [NoEvidence EXCEPT !.signature = s, !.slot = n]
    <2>1. /\ Update(p, row[p].status, seen) /\ UNCHANGED receipt /\ AppendEvent(p, new)
          /\ row[p].status \in Unsettled /\ Agrees(row[p].evidence.signature, s)
      BY <1>7 DEF RecordSettlementConfirmation
    <2>2. seen \in Evidence /\ seen.signature = s
      BY DEF NoEvidence, Evidence
    <2>3. Memory!AppendEvent(p, new)
      BY <1>1, <2>1, EventIsTyped, MemoryAppends DEF EventTypes, Authoritative
    <2>4. /\ row' = [row EXCEPT ![p] = Updated(row[p], row[p].status, seen)]
          /\ SignatureIndex' = Memory!Entered(SignatureIndex, s, p)
          /\ Memory!Owns(SignatureIndex, s, p) /\ PdaIndex' = PdaIndex
      <3> HIDE DEF seen
      <3> QED BY <1>1, <2>1, <2>2, UpdateIndexes, PdasStay
    <2> QED
      BY <2>1, <2>3, <2>4, SameLifecycle
      DEF Memory!RecordSettlementConfirmation, Memory!Save, SignatureIndex, PdaIndex
  <1>8. ASSUME NEW shown \in Receipts, NEW id \in RuntimeEvents \cup {None},
               StoreVerifiedReceipt(p, read, shown, id)
        PROVE  Memory!StoreVerifiedReceipt(p, shown, id)
    <2> DEFINE new == Event("RECEIPT_VERIFIED", row[p].status, "COMPLETED", id)
               evidence == ReceiptEvidence(shown)
    <2>1. /\ Update(p, "COMPLETED", evidence) /\ AppendEvent(p, new)
          /\ receipt' = [receipt EXCEPT ![p] = shown] /\ ReceiptFits(p, row[p], shown)
          /\ ValidCompletion(row[p].status)
      BY <1>8 DEF StoreVerifiedReceipt, CompletionEvent
    <2>2. /\ evidence \in Evidence /\ evidence.signature = shown.signature
          /\ "COMPLETED" \in Statuses
      BY DEF ReceiptEvidence, Evidence, Receipts, Statuses
    <2>3. Memory!AppendEvent(p, new)
      BY <1>1, <2>1, <2>2, EventIsTyped, MemoryAppends DEF EventTypes, Authoritative
    <2>4. receipt[p] = NoReceipt
      BY <2>1 DEF HistoryInv, Told, ValidCompletion, Unsettled
    <2>5. /\ row' = [row EXCEPT ![p] = Updated(row[p], "COMPLETED", evidence)]
          /\ SignatureIndex' = Memory!Entered(SignatureIndex, shown.signature, p)
          /\ Memory!Owns(SignatureIndex, shown.signature, p)
      <3> HIDE DEF evidence
      <3> QED BY <2>1, <2>2, UpdateIndexes
    <2>6. /\ PdaIndex' = Memory!Entered(PdaIndex, shown.pda, p)
          /\ Memory!Owns(PdaIndex, shown.pda, p)
      BY <2>1, <2>4, PdaEntered, SameLifecycle DEF Memory!Owns
    <2> QED
      BY <2>1, <2>3, <2>4, <2>5, <2>6, SameLifecycle
      DEF Memory!StoreVerifiedReceipt, Memory!Save, SignatureIndex, PdaIndex
  <1> QED BY <1>3, <1>4, <1>5, <1>6, <1>7, <1>8, SameLifecycle DEF Mutate, Memory!Change

LEMMA MemoryNotes ==
  ASSUME IInv, NEW p \in Payments, NEW type \in Notes, NEW id \in RuntimeEvents,
         AppendInformationalEvent(p, type, id)
  PROVE  Memory!AppendInformationalEvent(p, type, id) /\ type \in Informational
  <1> DEFINE new == Event(type, None, None, id)
  <1>1. /\ AppendEvent(p, new) /\ UNCHANGED <<row, receipt>> /\ type \notin Authoritative
    BY DEF AppendInformationalEvent
  <1>2. new \in Events /\ type \in Informational
    BY <1>1, StoreAssumption, EventIsTyped DEF EventTypes
  <1>3. Memory!AppendEvent(p, new)
    BY <1>1, <1>2, MemoryAppends DEF IInv
  <1>4. SignatureIndex' = SignatureIndex /\ PdaIndex' = PdaIndex
    BY <1>1, PdasStay DEF SignatureIndex, SignatureOf, OwnerOf
  <1> QED
    BY <1>1, <1>2, <1>3, <1>4, SameLifecycle
    DEF Memory!AppendInformationalEvent, SignatureIndex, PdaIndex

LEMMA MemoryNext ==
  IInv /\ IInv' /\ HistoryInv /\ [StoreNext]_storeVars => [Memory!Next]_(Memory!vars)
  <1> SUFFICES ASSUME IInv, IInv', HistoryInv, [StoreNext]_storeVars
               PROVE  [Memory!Next]_(Memory!vars)
    OBVIOUS
  <1>1. CASE UNCHANGED storeVars
    BY <1>1 DEF storeVars, Memory!vars, OwnerOf, SignatureOf, ReceiptPdaOf, Used
  <1>2. ASSUME NEW p \in Payments, NEW read \in ReadVersions(p), Mutate(p, read)
        PROVE  Memory!Next
    <2>1. row[p] /= NoRecord
      BY <1>2 DEF ReadVersions
    <2> QED BY <1>2, <2>1, MemoryChanges, SameLifecycle DEF Memory!Next
  <1>3. ASSUME NEW p \in Payments, NEW type \in Notes, NEW id \in RuntimeEvents,
               AppendInformationalEvent(p, type, id)
        PROVE  Memory!Next
    <2>1. row[p] /= NoRecord
      BY <1>3 DEF AppendInformationalEvent
    <2>2. Memory!Change(p)
      BY <1>3, MemoryNotes, SameLifecycle DEF Memory!Change
    <2> QED BY <2>1, <2>2, SameLifecycle DEF Memory!Next
  <1>4. ASSUME NEW p \in Payments, Claim(p) PROVE Memory!Next
    BY <1>4, MemoryClaims DEF Memory!Next
  <1> QED BY <1>1, <1>2, <1>3, <1>4 DEF StoreNext

LEMMA MemoryInit == StoreInit => Memory!Init
  <1> SUFFICES ASSUME StoreInit PROVE Memory!Init
    OBVIOUS
  <1>1. /\ row = [p \in Payments |-> NoRecord] /\ receipt = [p \in Payments |-> NoReceipt]
        /\ event = [p \in Payments |-> <<>>]
    BY DEF StoreInit
  <1>2. \A p \in Payments : row[p].evidence.signature = None /\ receipt[p].pda = None
    BY <1>1, NoRecordFacts DEF NoReceipt
  <1>3. /\ \A s \in Signatures : OwnerOf(SignatureOf, s) = None
        /\ \A d \in Pdas : OwnerOf(ReceiptPdaOf, d) = None
    BY <1>2, NamesAssumption DEF OwnerOf, SignatureOf, ReceiptPdaOf
  <1>4. {id \in RuntimeEvents : Used(id)} = {}
    BY <1>1 DEF Used
  <1> QED BY <1>1, <1>3, <1>4, SameLifecycle DEF Memory!Init

(* Every step of the store under PostgreSQL is one the in-memory adapter   *)
(* allows, with its indexes read off the rows: what the tests rely on      *)
(* refuses nothing the store does.                                         *)
THEOREM MemoryAllows == StoreSpec => ImplementsMemoryStore
  BY HistoryAlways, MemoryInit, MemoryNext, PTL
  DEF StoreSpec, ImplementsMemoryStore, Memory!Spec
=============================================================================
