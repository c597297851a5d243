------------------------ MODULE PaymentRequests_proofs ------------------------
(***************************************************************************)
(* The safety of PaymentIntents and of PaymentRequests over it, for every  *)
(* number of calls, keys, recipients and requests, and the refinement of   *)
(* PaymentLedger.  The intents come first.  Their inductive invariant says *)
(* which call a row belongs to and that what the row means is what that    *)
(* call asked; a confirm request in progress holds the meaning of the row  *)
(* it is about, which nothing changes.                                     *)
(***************************************************************************)
EXTENDS PaymentRequests, TLAPS

(* A call in progress names what it asks for; only an answered call has an *)
(* outcome.                                                                *)
CallsAsk ==
  \A c \in Calls :
    /\ create[c].at /= "idle" =>
         /\ create[c].key \in Keys
         /\ create[c].to \in Targets
         /\ create[c].amount \in Amounts
    /\ create[c].outcome /= None => create[c].at = "done"
    /\ Succeeded(c) => create[c].got \in Calls

(* A row was inserted by the call that generated its id, as that call      *)
(* asked; what it freezes of a wallet is nothing.                          *)
RowsAreClaimed ==
  \A p \in Calls :
    IF payment[p].status = None
    THEN payment[p] = NoPayment
    ELSE /\ create[p].at = "done"
         /\ payment[p].key = create[p].key
         /\ payment[p].meaning.to = create[p].to
         /\ payment[p].meaning.amount = create[p].amount
         /\ payment[p].meaning.trust = "ACKNOWLEDGED" => create[p].ack
         /\ create[p].to \in Wallets => payment[p].meaning = WalletMeaning(p)

(* A row's version and its one confirmation event follow from its status.  *)
StatusCounts ==
  \A p \in Calls :
    /\ payment[p].status \in {None, "AWAITING_CONFIRMATION"} =>
         payment[p].version = 0 /\ payment[p].confirmations = 0
    /\ payment[p].status = "PROCESSING" =>
         payment[p].version = 1 /\ payment[p].confirmations = 1
    /\ payment[p].status = "COMPLETED" =>
         payment[p].version = 2 /\ payment[p].confirmations = 1

(* A confirm request in progress, or answered with success, is about a row *)
(* whose meaning it carries; it reads again only a row that has moved.     *)
ConfirmsKnow ==
  \A f \in Confirms :
    /\ confirm[f].at /= "idle" =>
         /\ confirm[f].payment \in Calls
         /\ payment[confirm[f].payment].status /= None
    /\ confirm[f].at = "done" <=> confirm[f].outcome /= None
    /\ confirm[f].at \in {"transition", "reread"} =>
         confirm[f].hash = payment[confirm[f].payment].meaning
    /\ confirm[f].at = "reread" /\ confirm[f].version = 0 =>
         payment[confirm[f].payment].status \in Confirmed

(* Only a confirmed row has a receipt.                                     *)
ReceiptsFollow ==
  \A p \in Calls : receipt[p] => payment[p].status \in Confirmed

IInv ==
  /\ TypeOK
  /\ CallsAsk
  /\ RowsAreClaimed
  /\ StatusCounts
  /\ OnePaymentPerKey
  /\ AnsweredAsAsked
  /\ UnverifiedIsAcknowledged
  /\ ConfirmsKnow
  /\ ConfirmedOnce
  /\ ConfirmedAsSeen
  /\ MatchingConfirmSucceeds
  /\ ReceiptsFollow

(* Before the first call there is no row, no answer and no receipt.        *)
LEMMA InitHolds == Init => IInv
<1> SUFFICES ASSUME Init PROVE IInv
  OBVIOUS
<1> USE NameAssumption DEF Init, None
<1>1. TypeOK
  BY DEF TypeOK, IdleCreate, Creates, Outcomes, NoPayment, Payments, NoMeaning,
         Meanings, NoSnapshot, Snapshots, Trusts, Statuses, IdleConfirm,
         ConfirmsState
<1>2. CallsAsk /\ AnsweredAsAsked
  BY DEF CallsAsk, AnsweredAsAsked, IdleCreate, Succeeded
<1>3. /\ RowsAreClaimed /\ StatusCounts /\ OnePaymentPerKey
      /\ UnverifiedIsAcknowledged
  BY DEF RowsAreClaimed, StatusCounts, OnePaymentPerKey,
         UnverifiedIsAcknowledged, NoPayment, NoMeaning
<1>4. ConfirmsKnow /\ ConfirmedAsSeen /\ MatchingConfirmSucceeds
  BY DEF ConfirmsKnow, ConfirmedAsSeen, MatchingConfirmSucceeds, IdleConfirm
<1>5. ConfirmedOnce /\ ReceiptsFollow
  BY DEF ConfirmedOnce, ReceiptsFollow, IdleConfirm, NoPayment, Confirmed
<1> QED
  BY <1>1, <1>2, <1>3, <1>4, <1>5 DEF IInv

-----------------------------------------------------------------------------
(* What each step does, with the choices it makes named.                   *)

\* Call c begins, goes on to the claim, is refused, or finds a matching row.
Begins(c) ==
  /\ create[c].at = "idle"
  /\ \E k \in Keys, t \in Targets, a \in Amounts, ack \in BOOLEAN,
        place \in {"replay", "claim"} :
       create' = [create EXCEPT ![c] =
         [at |-> place, key |-> k, to |-> t, amount |-> a, ack |-> ack,
          outcome |-> None, got |-> None]]
GoesOn(c) ==
  /\ create[c].at = "replay"
  /\ create' = [create EXCEPT ![c] = [@ EXCEPT !.at = "claim"]]
Refused(c) ==
  \E outcome \in {"conflict", "unavailable", "trust_required"} :
    Answer(c, outcome, None)
Finds(c) == \E p \in Rows(create[c].key) : Matches(p, c) /\ Answer(c, "existing", p)

CallMoves(c) ==
  /\ UNCHANGED <<payment, confirm, receipt>>
  /\ \/ Begins(c)
     \/ GoesOn(c)
     \/ create[c].at \in {"replay", "claim"} /\ (Refused(c) \/ Finds(c))

\* Call c inserts the row of its id.
CallInserts(c) ==
  /\ UNCHANGED <<confirm, receipt>>
  /\ create[c].at = "claim"
  /\ KeyFree(c)
  /\ NeedsTrust(c) => create[c].ack
  /\ Answer(c, "created", c)
  /\ Insert(c)

\* Confirm request f moves without touching its row, or moves the row.
ConfirmReads(f) ==
  /\ UNCHANGED <<create, payment, receipt>>
  /\ \/ \E p, q \in Calls, v \in 0..2 :
          /\ payment[q].status /= None
          /\ ReadForConfirm(f, p, payment[q].meaning, v)
     \/ /\ confirm[f].at = "transition"
        /\ ~MayTransition(f)
        /\ confirm' = [confirm EXCEPT ![f] = [@ EXCEPT !.at = "reread"]]
     \/ RereadForConfirm(f)
ConfirmApplies(f) ==
  LET p == confirm[f].payment
  IN  /\ UNCHANGED <<create, receipt>>
      /\ confirm[f].at = "transition"
      /\ MayTransition(f)
      /\ payment' = [payment EXCEPT ![p] =
           [@ EXCEPT !.status = "PROCESSING",
                     !.version = payment[p].version + 1,
                     !.confirmations = payment[p].confirmations + 1]]
      /\ ConfirmAnswer(f, "applied")

\* Every step is one of these.
LEMMA StepsAre ==
  ASSUME Next
  PROVE  \/ UNCHANGED <<create, payment, confirm, receipt>>
         \/ \E c \in Calls : CallMoves(c) \/ CallInserts(c)
         \/ \E f \in Confirms : ConfirmReads(f) \/ ConfirmApplies(f)
         \/ \E p \in Calls, completes \in BOOLEAN : Receive(p, completes)
<1>1. ASSUME NEW c \in Calls, NEW k \in Keys, NEW t \in Targets,
             NEW a \in Amounts, NEW ack \in BOOLEAN, Begin(c, k, t, a, ack)
      PROVE  CallMoves(c)
  BY <1>1 DEF Begin, CallMoves, Begins
<1>2. ASSUME NEW c \in Calls, NEW p \in Rows(create[c].key), AnswerFrom(c, p)
      PROVE  Refused(c) \/ Finds(c)
  BY <1>2 DEF AnswerFrom, Refused, Finds
<1>3. ASSUME NEW c \in Calls, Replay(c)
      PROVE  CallMoves(c)
  BY <1>2, <1>3 DEF Replay, CallMoves, GoesOn
<1>4. ASSUME NEW c \in Calls, Claim(c)
      PROVE  CallMoves(c) \/ CallInserts(c)
  BY <1>2, <1>4 DEF Claim, CallMoves, CallInserts, Refused
<1>5. ASSUME NEW f \in Confirms, ConfirmStep(f)
      PROVE  ConfirmReads(f) \/ ConfirmApplies(f)
  BY <1>5 DEF ConfirmStep, ConfirmReads, ConfirmApplies, ReadForConfirm,
              TransitionForConfirm, RereadForConfirm
<1> QED
  BY <1>1, <1>3, <1>4, <1>5 DEF Next, Edit, CreateStep

-----------------------------------------------------------------------------
(* The columns of one row and the fields of one call stay in their types.  *)
LEMMA FieldTypes ==
  /\ \A r \in Creates : [r EXCEPT !.at = "claim"] \in Creates
  /\ \A r \in Creates, o \in Outcomes, p \in Calls \cup {None} :
       [r EXCEPT !.at = "done", !.outcome = o, !.got = p] \in Creates
  /\ \A r \in Payments, s \in Statuses, v \in 0..2, n \in 0..2 :
       [r EXCEPT !.status = s, !.version = v, !.confirmations = n] \in Payments
  /\ \A r \in Payments, s \in Statuses, v \in 0..2 :
       [r EXCEPT !.status = s, !.version = v] \in Payments
  /\ \A r \in ConfirmsState : [r EXCEPT !.at = "reread"] \in ConfirmsState
  /\ \A r \in ConfirmsState, o \in {None, "applied", "replayed", "conflict"} :
       [r EXCEPT !.at = "done", !.outcome = o] \in ConfirmsState
  BY DEF Creates, Payments, ConfirmsState

\* The row call c inserts.
NewRow(c) ==
  [key |-> create[c].key,
   meaning |-> [to |-> create[c].to, amount |-> create[c].amount,
                snapshot |-> Frozen(c), trust |-> TrustOutcome(c)],
   status |-> "AWAITING_CONFIRMATION", version |-> 0, confirmations |-> 0]

LEMMA NewRowType ==
  ASSUME TypeOK, CallsAsk, NEW c \in Calls, create[c].at = "claim"
  PROVE  NewRow(c) \in Payments
<1>1. Frozen(c) \in Snapshots
  BY DEF Frozen, NoSnapshot, Snapshots, TypeOK, Entries
<1>2. TrustOutcome(c) \in Trusts
  BY DEF TrustOutcome, Trusts
<1>3. /\ create[c].key \in Keys
      /\ create[c].to \in Targets
      /\ create[c].amount \in Amounts
  BY DEF CallsAsk
<1> QED
  BY <1>1, <1>2, <1>3 DEF NewRow, Payments, Meanings, Statuses

(* The directory only takes entries.                                       *)
LEMMA DirectoryType ==
  ASSUME TypeOK, Next
  PROVE  directory' \in [Recipients -> Entries]
  BY DEF TypeOK, Next, Edit, Begin, CreateStep, Replay, Claim, ConfirmStep,
         ReadForConfirm, TransitionForConfirm, RereadForConfirm, Receive

LEMMA CallMovesTypes ==
  ASSUME TypeOK, NEW c \in Calls, CallMoves(c)
  PROVE  create' \in [Calls -> Creates]
<1> USE DEF TypeOK
<1>1. CASE Begins(c)
  BY <1>1 DEF Begins, Creates, Outcomes
<1>2. CASE GoesOn(c)
  BY <1>2, FieldTypes DEF GoesOn
<1>3. ASSUME NEW outcome \in Outcomes, NEW p \in Calls \cup {None},
             Answer(c, outcome, p)
      PROVE  create' \in [Calls -> Creates]
  <2>1. [create[c] EXCEPT !.at = "done", !.outcome = outcome, !.got = p]
          \in Creates
    BY FieldTypes
  <2> QED
    BY <1>3, <2>1 DEF Answer
<1>4. CASE Refused(c) \/ Finds(c)
  BY <1>3, <1>4 DEF Refused, Finds, Outcomes, Rows
<1> QED
  BY <1>1, <1>2, <1>3, <1>4 DEF CallMoves

LEMMA ConfirmReadsTypes ==
  ASSUME TypeOK, NEW f \in Confirms, ConfirmReads(f)
  PROVE  confirm' \in [Confirms -> ConfirmsState]
<1> USE DEF TypeOK
<1>1. ASSUME NEW p \in Calls, NEW q \in Calls, NEW v \in 0..2,
             ReadForConfirm(f, p, payment[q].meaning, v)
      PROVE  confirm' \in [Confirms -> ConfirmsState]
  <2>1. payment[q].meaning \in Meanings
    BY DEF Payments
  <2>2. Judge(f, p, payment[q].meaning, v) \in {None, "replayed", "conflict"}
    BY DEF Judge
  <2> QED
    BY <1>1, <2>1, <2>2 DEF ReadForConfirm, ConfirmsState
<1>2. CASE confirm' = [confirm EXCEPT ![f] = [@ EXCEPT !.at = "reread"]]
  BY <1>2, FieldTypes
<1>3. CASE RereadForConfirm(f)
  BY <1>3, FieldTypes DEF RereadForConfirm, ConfirmAnswer
<1> QED
  BY <1>1, <1>2, <1>3 DEF ConfirmReads

(* Types are kept.                                                         *)
LEMMA StepTypes ==
  ASSUME IInv, Next
  PROVE  TypeOK'
<1> USE DEF IInv
<1>1. CASE UNCHANGED <<create, payment, confirm, receipt>>
  BY <1>1, DirectoryType DEF TypeOK
<1>2. ASSUME NEW c \in Calls, CallMoves(c)
      PROVE  TypeOK'
  BY <1>2, DirectoryType, CallMovesTypes DEF TypeOK, CallMoves
<1>3. ASSUME NEW c \in Calls, CallInserts(c)
      PROVE  TypeOK'
  <2>1. payment' = [payment EXCEPT ![c] = NewRow(c)]
    BY <1>3 DEF CallInserts, Insert, NewRow
  <2>2. create' \in [Calls -> Creates]
    BY <1>3, FieldTypes DEF CallInserts, Answer, TypeOK, Outcomes
  <2> QED
    BY <1>3, <2>1, <2>2, DirectoryType, NewRowType DEF TypeOK, CallInserts
<1>4. ASSUME NEW f \in Confirms, ConfirmReads(f)
      PROVE  TypeOK'
  BY <1>4, DirectoryType, ConfirmReadsTypes DEF TypeOK, ConfirmReads
<1>5. ASSUME NEW f \in Confirms, ConfirmApplies(f)
      PROVE  TypeOK'
  <2>1. confirm[f].payment \in Calls
    BY <1>5 DEF ConfirmApplies, ConfirmsKnow
  <2>2. /\ payment[confirm[f].payment].version = 0
        /\ payment[confirm[f].payment].confirmations = 0
    BY <1>5, <2>1 DEF ConfirmApplies, MayTransition, StatusCounts
  <2> DEFINE r == payment[confirm[f].payment]
  <2>0. r \in Payments /\ 1 \in 0..2 /\ "PROCESSING" \in Statuses
    BY <2>1 DEF TypeOK, Statuses
  <2>3. [r EXCEPT !.status = "PROCESSING", !.version = 1, !.confirmations = 1]
          \in Payments
    <3> HIDE DEF r
    <3> QED BY <2>0 DEF Payments
  <2>4. payment' \in [Calls -> Payments]
    BY <1>5, <2>1, <2>2, <2>3 DEF TypeOK, ConfirmApplies
  <2>5. confirm' \in [Confirms -> ConfirmsState]
    BY <1>5, FieldTypes DEF TypeOK, ConfirmApplies, ConfirmAnswer
  <2> QED
    BY <1>5, <2>4, <2>5, DirectoryType DEF TypeOK, ConfirmApplies
<1>6. ASSUME NEW p \in Calls, NEW completes \in BOOLEAN, Receive(p, completes)
      PROVE  TypeOK'
  <2>1. payment[p].version = 1
    BY <1>6 DEF Receive, StatusCounts
  <2>0. payment[p] \in Payments /\ 2 \in 0..2 /\ "COMPLETED" \in Statuses
    BY DEF TypeOK, Statuses
  <2>2. [payment[p] EXCEPT !.status = "COMPLETED", !.version = 2] \in Payments
    BY <2>0 DEF Payments
  <2>3. payment' \in [Calls -> Payments]
    BY <1>6, <2>1, <2>2 DEF TypeOK, Receive
  <2> QED
    BY <1>6, <2>3, DirectoryType DEF TypeOK, Receive
<1> QED
  BY StepsAre, <1>1, <1>2, <1>3, <1>4, <1>5, <1>6

-----------------------------------------------------------------------------
(* A row keeps its key and its meaning, and an answered call its answer.   *)
LEMMA RowsKept ==
  ASSUME IInv, Next
  PROVE  /\ \A p \in Calls : payment[p].status /= None =>
              /\ payment'[p].status /= None
              /\ payment'[p].key = payment[p].key
              /\ payment'[p].meaning = payment[p].meaning
         /\ \A c \in Calls : create[c].at = "done" => create'[c] = create[c]
<1> USE DEF IInv
<1>1. CASE UNCHANGED <<create, payment, confirm, receipt>>
  BY <1>1
<1>2. ASSUME NEW c \in Calls, CallMoves(c)
      PROVE  /\ UNCHANGED payment
             /\ \A d \in Calls : create[d].at = "done" => create'[d] = create[d]
  BY <1>2 DEF CallMoves, Begins, GoesOn, Refused, Finds, Answer, TypeOK
<1>3. ASSUME NEW c \in Calls, CallInserts(c)
      PROVE  /\ payment[c].status = None
             /\ \A p \in Calls \ {c} : payment'[p] = payment[p]
             /\ \A d \in Calls \ {c} : create'[d] = create[d]
             /\ create[c].at /= "done"
  BY <1>3 DEF CallInserts, Insert, Answer, RowsAreClaimed, TypeOK
<1>4. ASSUME NEW f \in Confirms, ConfirmReads(f)
      PROVE  UNCHANGED <<payment, create>>
  BY <1>4 DEF ConfirmReads
<1>5. ASSUME NEW f \in Confirms, ConfirmApplies(f)
      PROVE  /\ UNCHANGED create
             /\ \A p \in Calls :
                  /\ payment'[p].status \in {payment[p].status, "PROCESSING"}
                  /\ payment'[p].key = payment[p].key
                  /\ payment'[p].meaning = payment[p].meaning
  <2>1. confirm[f].payment \in Calls
    BY <1>5 DEF ConfirmApplies, ConfirmsKnow
  <2> QED
    BY <1>5, <2>1 DEF ConfirmApplies, TypeOK, Payments
<1>6. ASSUME NEW p \in Calls, NEW completes \in BOOLEAN, Receive(p, completes)
      PROVE  /\ UNCHANGED create
             /\ \A q \in Calls :
                  /\ payment'[q].status \in {payment[q].status, "COMPLETED"}
                  /\ payment'[q].key = payment[q].key
                  /\ payment'[q].meaning = payment[q].meaning
  BY <1>6 DEF Receive, TypeOK, Payments
<1> QED
  BY StepsAre, <1>1, <1>2, <1>3, <1>4, <1>5, <1>6 DEF None

(* A call is asked once and answered once.                                 *)
LEMMA StepCallsAsk ==
  ASSUME IInv, Next
  PROVE  CallsAsk'
<1> USE DEF IInv, CallsAsk, Succeeded, None
<1>1. ASSUME NEW c \in Calls, CallMoves(c)
      PROVE  CallsAsk'
  <2>1. CASE Begins(c)
    BY <1>1, <2>1 DEF Begins, TypeOK
  <2>2. CASE GoesOn(c)
    BY <1>1, <2>2 DEF GoesOn, TypeOK, Creates
  <2>3. ASSUME create[c].at \in {"replay", "claim"}, NEW outcome, NEW p,
               outcome \in {"created", "existing"} => p \in Calls,
               Answer(c, outcome, p)
        PROVE  CallsAsk'
    BY <2>3 DEF Answer, TypeOK, Creates
  <2> QED
    BY <1>1, <2>1, <2>2, <2>3 DEF CallMoves, Refused, Finds, Rows
<1>2. ASSUME NEW c \in Calls, CallInserts(c)
      PROVE  CallsAsk'
  BY <1>2 DEF CallInserts, Answer, TypeOK, Creates
<1> QED
  BY StepsAre, <1>1, <1>2 DEF ConfirmReads, ConfirmApplies, Receive

(* Rows come from the calls that claimed them, in the calls' own words.    *)
LEMMA StepRowsAreClaimed ==
  ASSUME IInv, Next
  PROVE  RowsAreClaimed' /\ OnePaymentPerKey' /\ UnverifiedIsAcknowledged'
<1> USE DEF IInv
<1>1. ASSUME NEW c \in Calls, CallInserts(c)
      PROVE  RowsAreClaimed' /\ OnePaymentPerKey' /\ UnverifiedIsAcknowledged'
  <2>1. /\ payment' = [payment EXCEPT ![c] = NewRow(c)]
        /\ create' = [create EXCEPT ![c] =
             [@ EXCEPT !.at = "done", !.outcome = "created", !.got = c]]
        /\ create[c].at = "claim"
    BY <1>1 DEF CallInserts, Insert, NewRow, Answer
  <2>2. /\ payment'[c] = NewRow(c)
        /\ \A p \in Calls \ {c} : payment'[p] = payment[p]
        /\ \A p \in Calls \ {c} : create'[p] = create[p]
        /\ create'[c] = [create[c] EXCEPT !.at = "done", !.outcome = "created",
                                          !.got = c]
    BY <2>1 DEF TypeOK
  <2>3. /\ create'[c].at = "done"
        /\ create'[c].key = create[c].key
        /\ create'[c].to = create[c].to
        /\ create'[c].amount = create[c].amount
        /\ create'[c].ack = create[c].ack
    BY <2>2 DEF TypeOK, Creates
  <2>4. /\ NewRow(c).status = "AWAITING_CONFIRMATION"
        /\ NewRow(c).key = create[c].key
        /\ NewRow(c).meaning.to = create[c].to
        /\ NewRow(c).meaning.amount = create[c].amount
        /\ NewRow(c).meaning.trust = TrustOutcome(c)
        /\ NewRow(c).meaning.snapshot = Frozen(c)
    BY DEF NewRow
  <2>5. TrustOutcome(c) = "ACKNOWLEDGED" => create[c].ack
    BY <1>1 DEF CallInserts, TrustOutcome, None
  <2>6. create[c].to \in Wallets => NewRow(c).meaning = WalletMeaning(c)'
    <3>1. create[c].to \in Wallets =>
            Frozen(c) = NoSnapshot /\ TrustOutcome(c) = None
      BY KindAssumption DEF Frozen, TrustOutcome
    <3> QED
      BY <2>3, <3>1 DEF NewRow, WalletMeaning, NoSnapshot
  <2>7. RowsAreClaimed'
    <3>1. ASSUME NEW p \in Calls \ {c}, payment[p].status = None
          PROVE  payment'[p] = NoPayment /\ payment'[p].status = None
      BY <2>2, <3>1 DEF RowsAreClaimed
    <3>2. ASSUME NEW p \in Calls \ {c}, payment[p].status /= None
          PROVE  /\ payment'[p].status /= None
                 /\ create'[p].at = "done"
                 /\ payment'[p].key = create'[p].key
                 /\ payment'[p].meaning.to = create'[p].to
                 /\ payment'[p].meaning.amount = create'[p].amount
                 /\ payment'[p].meaning.trust = "ACKNOWLEDGED" => create'[p].ack
                 /\ create'[p].to \in Wallets =>
                      payment'[p].meaning = WalletMeaning(p)'
      BY <2>2, <3>2 DEF RowsAreClaimed, WalletMeaning
    <3>3. /\ payment'[c].status /= None
          /\ payment'[c].key = create'[c].key
          /\ payment'[c].meaning.to = create'[c].to
          /\ payment'[c].meaning.amount = create'[c].amount
          /\ payment'[c].meaning.trust = "ACKNOWLEDGED" => create'[c].ack
          /\ create'[c].to \in Wallets => payment'[c].meaning = WalletMeaning(c)'
      BY <2>2, <2>3, <2>4, <2>5, <2>6 DEF None
    <3> QED
      BY <2>3, <3>1, <3>2, <3>3 DEF RowsAreClaimed
  <2>8. OnePaymentPerKey'
    BY <1>1, <2>2, <2>4 DEF OnePaymentPerKey, CallInserts, KeyFree, Rows
  <2>9. create[c].to \in Recipients /\ ~Frozen(c).verified =>
          TrustOutcome(c) = "ACKNOWLEDGED"
    BY KindAssumption DEF TrustOutcome, NeedsTrust, Frozen
  <2>10. UnverifiedIsAcknowledged'
    <3>1. /\ payment'[c].meaning.to \in Recipients
          /\ ~payment'[c].meaning.snapshot.verified
          => payment'[c].meaning.trust = "ACKNOWLEDGED" /\ create'[c].ack
      BY <2>2, <2>3, <2>4, <2>5, <2>9
    <3> QED
      BY <2>2, <3>1 DEF UnverifiedIsAcknowledged
  <2> QED
    BY <2>7, <2>8, <2>10
<1>2. CASE \A p \in Calls :
             /\ payment'[p].status = None <=> payment[p].status = None
             /\ payment'[p].status = None => payment'[p] = payment[p]
  <2>1. \A p \in Calls : payment[p].status = None => payment[p].meaning.to = None
    BY DEF RowsAreClaimed, NoPayment, NoMeaning
  <2>2. \A p \in Calls : payment'[p].status = None => payment'[p].meaning.to = None
    BY <1>2, <2>1
  <2>3. RowsAreClaimed'
    <3>1. ASSUME NEW p \in Calls, payment[p].status = None
          PROVE  payment'[p] = NoPayment /\ payment'[p].status = None
      BY <1>2, <3>1 DEF RowsAreClaimed
    <3>2. ASSUME NEW p \in Calls, payment[p].status /= None
          PROVE  /\ payment'[p].status /= None
                 /\ create'[p] = create[p]
                 /\ payment'[p].key = payment[p].key
                 /\ payment'[p].meaning = payment[p].meaning
                 /\ WalletMeaning(p)' = WalletMeaning(p)
      BY <3>2, RowsKept DEF RowsAreClaimed, WalletMeaning
    <3> QED
      BY <3>1, <3>2 DEF RowsAreClaimed
  <2>4. OnePaymentPerKey'
    BY <1>2, RowsKept DEF OnePaymentPerKey
  <2>5. UnverifiedIsAcknowledged'
    BY <1>2, <2>2, RowsKept, NameAssumption
    DEF UnverifiedIsAcknowledged, RowsAreClaimed
  <2> QED
    BY <2>3, <2>4, <2>5
<1>3. ASSUME NEW f \in Confirms, ConfirmApplies(f)
      PROVE  \A p \in Calls :
               /\ payment'[p].status = None <=> payment[p].status = None
               /\ payment'[p].status = None => payment'[p] = payment[p]
  <2>1. /\ confirm[f].payment \in Calls
        /\ payment[confirm[f].payment].status /= None
    BY <1>3 DEF ConfirmApplies, ConfirmsKnow
  <2> QED
    BY <1>3, <2>1 DEF ConfirmApplies, TypeOK, Payments, None
<1>4. ASSUME NEW q \in Calls, NEW completes \in BOOLEAN, Receive(q, completes)
      PROVE  \A p \in Calls :
               /\ payment'[p].status = None <=> payment[p].status = None
               /\ payment'[p].status = None => payment'[p] = payment[p]
  BY <1>4 DEF Receive, TypeOK, Payments, None
<1> QED
  BY StepsAre, <1>1, <1>2, <1>3, <1>4 DEF CallMoves, ConfirmReads

(* Who finds a row finds one that says what is asked; who inserts one      *)
(* finds its own.                                                          *)
LEMMA StepAnswered ==
  ASSUME IInv, Next
  PROVE  AnsweredAsAsked'
<1> USE DEF IInv
<1> SUFFICES ASSUME NEW d \in Calls, Succeeded(d)'
             PROVE  /\ payment'[create'[d].got].status /= None
                    /\ payment'[create'[d].got].key = create'[d].key
                    /\ payment'[create'[d].got].meaning.to = create'[d].to
                    /\ payment'[create'[d].got].meaning.amount = create'[d].amount
                    /\ payment'[create'[d].got].meaning.trust = "ACKNOWLEDGED" =>
                         create'[d].ack
  BY DEF AnsweredAsAsked
<1>1. CASE create[d].at = "done"
  <2>1. create'[d] = create[d] /\ Succeeded(d)
    BY <1>1, RowsKept DEF Succeeded
  <2>2. create[d].got \in Calls
    BY <2>1 DEF CallsAsk
  <2> QED
    BY <2>1, <2>2, RowsKept DEF AnsweredAsAsked
<1>2. ASSUME CallMoves(d), create[d].at /= "done"
      PROVE  \E p \in Rows(create[d].key) :
               /\ UNCHANGED payment
               /\ Matches(p, d)
               /\ create'[d] = [create[d] EXCEPT !.at = "done",
                                  !.outcome = "existing", !.got = p]
  <2>1. ~Begins(d)
    BY DEF Begins, TypeOK, Succeeded, None
  <2>2. ~GoesOn(d)
    BY DEF GoesOn, TypeOK, Succeeded, Creates, CallsAsk, None
  <2>3. ~Refused(d)
    BY DEF Refused, Answer, TypeOK, Succeeded, Creates
  <2> QED
    BY <1>2, <2>1, <2>2, <2>3 DEF CallMoves, Finds, Answer, TypeOK
<1>3. CASE CallMoves(d) /\ create[d].at /= "done"
  <2>1. PICK p \in Rows(create[d].key) :
          /\ UNCHANGED payment
          /\ Matches(p, d)
          /\ create'[d] = [create[d] EXCEPT !.at = "done",
                             !.outcome = "existing", !.got = p]
    BY <1>2, <1>3
  <2>2. /\ create'[d].got = p
        /\ create'[d].key = create[d].key
        /\ create'[d].to = create[d].to
        /\ create'[d].amount = create[d].amount
        /\ create'[d].ack = create[d].ack
    BY <2>1 DEF TypeOK, Creates
  <2>3. /\ p \in Calls
        /\ payment[p].status /= None
        /\ payment[p].key = create[d].key
    BY DEF Rows
  <2>4. CASE create[d].to \in Wallets
    BY <2>1, <2>2, <2>3, <2>4 DEF Matches, WalletMeaning, None
  <2>5. CASE create[d].to \notin Wallets
    BY <2>1, <2>2, <2>3, <2>5 DEF Matches
  <2> QED
    BY <2>4, <2>5
<1>4. CASE CallInserts(d)
  <2>1. payment'[d] = NewRow(d)
    BY <1>4 DEF CallInserts, Insert, NewRow, TypeOK
  <2>2. /\ create'[d].got = d
        /\ create'[d].key = create[d].key
        /\ create'[d].to = create[d].to
        /\ create'[d].amount = create[d].amount
        /\ create'[d].ack = create[d].ack
    BY <1>4 DEF CallInserts, Answer, TypeOK, Creates
  <2>3. TrustOutcome(d) = "ACKNOWLEDGED" => create[d].ack
    BY <1>4 DEF CallInserts, TrustOutcome, None
  <2> QED
    BY <2>1, <2>2, <2>3 DEF NewRow, None
<1>5. ASSUME NEW c \in Calls, c /= d, CallMoves(c) \/ CallInserts(c)
      PROVE  create'[d] = create[d]
  BY <1>5 DEF CallMoves, CallInserts, Begins, GoesOn, Refused, Finds, Answer,
              TypeOK
<1>6. create[d].at /= "done" => create'[d] /= create[d]
  BY DEF CallsAsk, Succeeded, None
<1> QED
  BY StepsAre, <1>1, <1>3, <1>4, <1>5, <1>6
  DEF ConfirmReads, ConfirmApplies, Receive

-----------------------------------------------------------------------------
(* Versions and events move with the status, in the transaction that moves *)
(* it.                                                                     *)
LEMMA StepStatusCounts ==
  ASSUME IInv, Next
  PROVE  StatusCounts'
<1> USE DEF IInv
<1>1. ASSUME NEW c \in Calls, CallInserts(c)
      PROVE  StatusCounts'
  BY <1>1 DEF CallInserts, Insert, TypeOK, StatusCounts, None
<1>2. ASSUME NEW f \in Confirms, ConfirmApplies(f)
      PROVE  StatusCounts'
  <2>1. confirm[f].payment \in Calls
    BY <1>2 DEF ConfirmApplies, ConfirmsKnow
  <2> QED
    BY <1>2, <2>1 DEF ConfirmApplies, MayTransition, TypeOK, Payments,
                      StatusCounts, None
<1>3. ASSUME NEW p \in Calls, NEW completes \in BOOLEAN, Receive(p, completes)
      PROVE  StatusCounts'
  BY <1>3 DEF Receive, TypeOK, Payments, StatusCounts, None
<1>4. CASE UNCHANGED payment
  BY <1>4 DEF StatusCounts
<1> QED
  BY StepsAre, <1>1, <1>2, <1>3, <1>4 DEF CallMoves, ConfirmReads

(* A confirmed row stays confirmed.                                        *)
LEMMA StaysConfirmed ==
  ASSUME IInv, Next
  PROVE  \A p \in Calls :
           payment[p].status \in Confirmed => payment'[p].status \in Confirmed
<1> USE DEF IInv, Confirmed
<1>1. ASSUME NEW c \in Calls, CallInserts(c)
      PROVE  \A p \in Calls : payment[p].status \in Confirmed => payment'[p] = payment[p]
  BY <1>1 DEF CallInserts, Insert, TypeOK, RowsAreClaimed, None
<1>2. ASSUME NEW f \in Confirms, ConfirmApplies(f)
      PROVE  \A p \in Calls :
               payment[p].status \in Confirmed => payment'[p].status \in Confirmed
  BY <1>2 DEF ConfirmApplies, TypeOK, Payments
<1>3. ASSUME NEW q \in Calls, NEW completes \in BOOLEAN, Receive(q, completes)
      PROVE  \A p \in Calls :
               payment[p].status \in Confirmed => payment'[p].status \in Confirmed
  BY <1>3 DEF Receive, TypeOK, Payments
<1> QED
  BY StepsAre, <1>1, <1>2, <1>3 DEF CallMoves, ConfirmReads

LEMMA StepReceiptsFollow ==
  ASSUME IInv, Next
  PROVE  ReceiptsFollow'
<1> USE DEF IInv
<1>1. \A p \in Calls : receipt[p] => payment'[p].status \in Confirmed
  BY StaysConfirmed DEF ReceiptsFollow
<1>2. ASSUME NEW q \in Calls, NEW completes \in BOOLEAN, Receive(q, completes)
      PROVE  ReceiptsFollow'
  <2>1. payment'[q].status \in Confirmed
    BY <1>2, StaysConfirmed DEF Receive, Confirmed
  <2> QED
    BY <1>1, <1>2, <2>1 DEF Receive, ReceiptsFollow, TypeOK
<1> QED
  BY StepsAre, <1>1, <1>2
  DEF CallMoves, CallInserts, ConfirmReads, ConfirmApplies, ReceiptsFollow

\* What is asked of confirm request f, taken alone.
ConfirmFits(f) ==
  /\ confirm[f].at /= "idle" =>
       /\ confirm[f].payment \in Calls
       /\ payment[confirm[f].payment].status /= None
  /\ confirm[f].at = "done" <=> confirm[f].outcome /= None
  /\ confirm[f].at \in {"transition", "reread"} =>
       confirm[f].hash = payment[confirm[f].payment].meaning
  /\ confirm[f].at = "reread" /\ confirm[f].version = 0 =>
       payment[confirm[f].payment].status \in Confirmed
  /\ confirm[f].outcome \in {"applied", "replayed"} =>
       /\ payment[confirm[f].payment].status \in Confirmed
       /\ confirm[f].hash = payment[confirm[f].payment].meaning
  /\ /\ confirm[f].at = "done"
     /\ confirm[f].version = 0
     /\ confirm[f].hash = payment[confirm[f].payment].meaning
     => confirm[f].outcome \in {"applied", "replayed"}

LEMMA FitsEach ==
  /\ IInv => \A f \in Confirms : ConfirmFits(f)
  /\ (\A f \in Confirms : ConfirmFits(f)) =>
       ConfirmsKnow /\ ConfirmedAsSeen /\ MatchingConfirmSucceeds
  BY DEF IInv, ConfirmFits, ConfirmsKnow, ConfirmedAsSeen, MatchingConfirmSucceeds

(* A request that does not move keeps fitting: its row's meaning is frozen *)
(* and a confirmed row stays confirmed.                                    *)
LEMMA OthersFit ==
  ASSUME IInv, Next, NEW f \in Confirms, confirm'[f] = confirm[f]
  PROVE  ConfirmFits(f)'
<1>1. ConfirmFits(f)
  BY FitsEach
<1>2. CASE confirm[f].at = "idle"
  BY <1>1, <1>2 DEF ConfirmFits, None
<1>3. CASE confirm[f].at /= "idle"
  <2> DEFINE p == confirm[f].payment
  <2>1. p \in Calls /\ payment[p].status /= None
    BY <1>1, <1>3 DEF ConfirmFits
  <2>2. /\ payment'[p].status /= None
        /\ payment'[p].meaning = payment[p].meaning
        /\ payment[p].status \in Confirmed => payment'[p].status \in Confirmed
    BY <2>1, RowsKept, StaysConfirmed
  <2> QED
    BY <1>1, <2>1, <2>2 DEF ConfirmFits
<1> QED
  BY <1>2, <1>3

LEMMA StepFits ==
  ASSUME IInv, Next, NEW f \in Confirms
  PROVE  ConfirmFits(f)'
<1> USE DEF IInv
<1>1. ASSUME NEW p \in Calls, NEW q \in Calls, NEW v \in 0..2,
             ReadForConfirm(f, p, payment[q].meaning, v), UNCHANGED payment
      PROVE  ConfirmFits(f)'
  <2> DEFINE judged == Judge(f, p, payment[q].meaning, v)
  <2>1. confirm'[f] = [at |-> IF judged = None THEN "transition" ELSE "done",
                       payment |-> p, hash |-> payment[q].meaning,
                       version |-> v, outcome |-> judged]
    BY <1>1 DEF ReadForConfirm, TypeOK
  <2>2. payment[p].status /= None
    BY <1>1 DEF ReadForConfirm
  <2>3. /\ judged \in {None, "replayed", "conflict"}
        /\ judged \in {None, "replayed"} => payment[q].meaning = payment[p].meaning
        /\ judged = "replayed" => payment[p].status \in Confirmed
        /\ judged = None => payment[p].status \notin Confirmed /\ payment[p].version = v
        /\ judged = "conflict" =>
             payment[q].meaning /= payment[p].meaning \/ payment[p].version /= v
        /\ judged = "conflict" /\ payment[q].meaning = payment[p].meaning =>
             payment[p].status \notin Confirmed
    BY DEF Judge, HashMatches, None
  <2>4. payment[p].status \notin Confirmed => payment[p].version = 0
    BY DEF StatusCounts, TypeOK, Payments, Statuses, Confirmed
  <2> HIDE DEF judged
  <2> QED
    BY <1>1, <2>1, <2>2, <2>3, <2>4 DEF ConfirmFits, None
<1>2. ASSUME confirm[f].at = "transition", ~MayTransition(f), UNCHANGED payment,
             confirm' = [confirm EXCEPT ![f] = [@ EXCEPT !.at = "reread"]]
      PROVE  ConfirmFits(f)'
  <2> DEFINE p == confirm[f].payment
  <2>1. ConfirmFits(f) /\ p \in Calls
    BY <1>2, FitsEach DEF ConfirmFits
  <2>2. /\ confirm'[f].at = "reread"
        /\ confirm'[f].payment = p
        /\ confirm'[f].hash = confirm[f].hash
        /\ confirm'[f].version = confirm[f].version
        /\ confirm'[f].outcome = confirm[f].outcome
    BY <1>2 DEF TypeOK, ConfirmsState
  <2>3. payment[p].version = 0 /\ payment[p].status /= None =>
          payment[p].status = "AWAITING_CONFIRMATION"
    BY <2>1 DEF StatusCounts, TypeOK, Payments, Statuses
  <2>4. confirm[f].version = 0 => payment[p].status \in Confirmed
    BY <1>2, <2>1, <2>3 DEF MayTransition, ConfirmFits, TypeOK, Payments,
                            Statuses, Confirmed, StatusCounts
  <2> QED
    BY <1>2, <2>1, <2>2, <2>4 DEF ConfirmFits, None
<1>3. ASSUME RereadForConfirm(f), UNCHANGED payment
      PROVE  ConfirmFits(f)'
  <2> DEFINE p == confirm[f].payment
  <2>1. ConfirmFits(f) /\ p \in Calls
    BY <1>3, FitsEach DEF ConfirmFits, RereadForConfirm
  <2>2. /\ confirm'[f].at = "done"
        /\ confirm'[f].payment = p
        /\ confirm'[f].hash = confirm[f].hash
        /\ confirm'[f].version = confirm[f].version
        /\ confirm'[f].outcome =
             IF HashMatches(p, confirm[f].hash) /\ payment[p].status \in Replays
             THEN "replayed" ELSE "conflict"
    BY <1>3 DEF TypeOK, ConfirmsState, RereadForConfirm, ConfirmAnswer
  <2> QED
    BY <1>3, <2>1, <2>2 DEF ConfirmFits, HashMatches, Replays, RereadForConfirm, None
<1>4. ASSUME ConfirmApplies(f)
      PROVE  ConfirmFits(f)'
  <2> DEFINE p == confirm[f].payment
  <2>1. ConfirmFits(f) /\ p \in Calls
    BY <1>4, FitsEach DEF ConfirmFits, ConfirmApplies
  <2>2. /\ confirm'[f].at = "done"
        /\ confirm'[f].payment = p
        /\ confirm'[f].hash = confirm[f].hash
        /\ confirm'[f].outcome = "applied"
    BY <1>4 DEF TypeOK, ConfirmsState, ConfirmApplies, ConfirmAnswer
  <2>3. payment'[p].status = "PROCESSING" /\ payment'[p].meaning = payment[p].meaning
    BY <1>4, <2>1 DEF TypeOK, Payments, ConfirmApplies
  <2> QED
    BY <1>4, <2>1, <2>2, <2>3 DEF ConfirmFits, ConfirmApplies, Confirmed, None
<1>5. CASE ConfirmReads(f)
  BY <1>1, <1>2, <1>3, <1>5 DEF ConfirmReads
<1>6. CASE confirm'[f] = confirm[f]
  BY <1>6, OthersFit
<1>7. ASSUME NEW g \in Confirms, g /= f, ConfirmReads(g) \/ ConfirmApplies(g)
      PROVE  confirm'[f] = confirm[f]
  BY <1>7 DEF ConfirmReads, ConfirmApplies, ConfirmAnswer, ReadForConfirm,
              RereadForConfirm, TypeOK
<1> QED
  BY StepsAre, <1>4, <1>5, <1>6, <1>7 DEF CallMoves, CallInserts, Receive

\* The confirm requests that were answered as applied to p.
AppliedTo(p) ==
  {f \in Confirms : confirm[f].payment = p /\ confirm[f].outcome = "applied"}

(* Only the request that moves the row is answered as applied, and the row *)
(* moves only where nobody was answered so before.                         *)
LEMMA StepConfirmedOnce ==
  ASSUME IInv, Next
  PROVE  ConfirmedOnce'
<1> USE DEF IInv
<1>1. /\ \A p \in Calls :
           /\ \A f, g \in AppliedTo(p) : f = g
           /\ AppliedTo(p) /= {} <=> payment[p].status \in Confirmed
      /\ StatusCounts'
      /\ payment' \in [Calls -> Payments]
  BY StepStatusCounts, StepTypes DEF ConfirmedOnce, AppliedTo, TypeOK
<1>2. SUFFICES ASSUME NEW p \in Calls
               PROVE  /\ \A f, g \in AppliedTo(p)' : f = g
                      /\ AppliedTo(p)' /= {} <=> payment'[p].status \in Confirmed
  <2>1. \A p \in Calls :
          payment'[p].confirmations =
            IF payment'[p].status \in Confirmed THEN 1 ELSE 0
    BY <1>1 DEF StatusCounts, Confirmed, Payments, Statuses
  <2> QED
    BY <1>1, <2>1 DEF ConfirmedOnce, AppliedTo
<1>3. CASE /\ AppliedTo(p)' = AppliedTo(p)
           /\ payment'[p].status \in Confirmed <=> payment[p].status \in Confirmed
  BY <1>1, <1>3
<1>4. CASE \E c \in Calls : CallInserts(c)
  <2>1. PICK c \in Calls : CallInserts(c)
    BY <1>4
  <2>2. AppliedTo(p)' = AppliedTo(p)
    BY <2>1 DEF CallInserts, AppliedTo
  <2>3. payment'[p].status \in Confirmed <=> payment[p].status \in Confirmed
    BY <2>1 DEF CallInserts, Insert, TypeOK, Confirmed, RowsAreClaimed, None
  <2> QED
    BY <1>3, <2>2, <2>3
<1>5. CASE \E f \in Confirms : ConfirmReads(f)
  <2>1. PICK f \in Confirms : ConfirmReads(f)
    BY <1>5
  <2>2. \A g \in Confirms \ {f} : confirm'[g] = confirm[g]
    BY <2>1 DEF ConfirmReads, ReadForConfirm, RereadForConfirm, ConfirmAnswer,
                TypeOK
  <2>3. confirm[f].outcome /= "applied"
    BY <2>1 DEF ConfirmReads, ReadForConfirm, RereadForConfirm, ConfirmsKnow, None
  <2>4. confirm'[f].outcome /= "applied"
    <3>1. CASE \E q, r \in Calls, v \in 0..2 :
                 ReadForConfirm(f, q, payment[r].meaning, v)
      BY <3>1 DEF ReadForConfirm, Judge, TypeOK, None
    <3>2. CASE confirm' = [confirm EXCEPT ![f] = [@ EXCEPT !.at = "reread"]]
      BY <2>3, <3>2 DEF TypeOK, ConfirmsState
    <3>3. CASE RereadForConfirm(f)
      BY <3>3 DEF RereadForConfirm, ConfirmAnswer, TypeOK, ConfirmsState
    <3> QED
      BY <2>1, <3>1, <3>2, <3>3 DEF ConfirmReads
  <2>5. AppliedTo(p)' = AppliedTo(p)
    BY <2>2, <2>3, <2>4 DEF AppliedTo
  <2> QED
    BY <1>3, <2>1, <2>5 DEF ConfirmReads
<1>6. CASE \E f \in Confirms : ConfirmApplies(f)
  <2>1. PICK f \in Confirms : ConfirmApplies(f)
    BY <1>6
  <2>2. /\ confirm[f].payment \in Calls
        /\ confirm[f].outcome /= "applied"
    BY <2>1 DEF ConfirmApplies, ConfirmsKnow, None
  <2>3. /\ \A g \in Confirms \ {f} : confirm'[g] = confirm[g]
        /\ confirm'[f].payment = confirm[f].payment
        /\ confirm'[f].outcome = "applied"
    BY <2>1 DEF ConfirmApplies, ConfirmAnswer, TypeOK, ConfirmsState
  <2>4. CASE p = confirm[f].payment
    <3>1. /\ payment[p].status = "AWAITING_CONFIRMATION"
          /\ payment'[p].status = "PROCESSING"
      BY <2>1, <2>2, <2>4 DEF ConfirmApplies, MayTransition, TypeOK, Payments
    <3>2. AppliedTo(p) = {}
      BY <1>1, <3>1 DEF Confirmed
    <3>3. AppliedTo(p)' = {f}
      BY <2>3, <2>4, <3>2 DEF AppliedTo
    <3> QED
      BY <3>1, <3>3 DEF Confirmed
  <2>5. CASE p /= confirm[f].payment
    <3>1. payment'[p] = payment[p]
      BY <2>1, <2>5 DEF ConfirmApplies, TypeOK
    <3>2. AppliedTo(p)' = AppliedTo(p)
      BY <2>3, <2>5 DEF AppliedTo
    <3> QED
      BY <1>3, <3>1, <3>2
  <2> QED
    BY <2>4, <2>5
<1>7. CASE \E q \in Calls, completes \in BOOLEAN : Receive(q, completes)
  <2>1. AppliedTo(p)' = AppliedTo(p)
    BY <1>7 DEF Receive, AppliedTo
  <2>2. payment'[p].status \in Confirmed <=> payment[p].status \in Confirmed
    BY <1>7 DEF Receive, TypeOK, Payments, Confirmed
  <2> QED
    BY <1>3, <2>1, <2>2
<1>8. CASE UNCHANGED <<payment, confirm>>
  BY <1>3, <1>8 DEF AppliedTo
<1> QED
  BY StepsAre, <1>4, <1>5, <1>6, <1>7, <1>8 DEF CallMoves

-----------------------------------------------------------------------------
(* Every step keeps the invariant.                                         *)
LEMMA StepKeeps == IInv /\ [Next]_intentVars => IInv'
<1>1. ASSUME IInv, Next
      PROVE  IInv'
  <2>1. ConfirmsKnow' /\ ConfirmedAsSeen' /\ MatchingConfirmSucceeds'
    <3>1. \A f \in Confirms : ConfirmFits(f)'
      BY <1>1, StepFits
    <3> QED
      BY <3>1 DEF ConfirmFits, ConfirmsKnow, ConfirmedAsSeen,
                  MatchingConfirmSucceeds
  <2> QED
    BY <1>1, <2>1, StepTypes, StepCallsAsk, StepRowsAreClaimed, StepAnswered,
       StepStatusCounts, StepConfirmedOnce, StepReceiptsFollow
    DEF IInv
<1>2. ASSUME IInv, UNCHANGED intentVars
      PROVE  IInv'
  BY <1>2 DEF intentVars, IInv, TypeOK, CallsAsk, RowsAreClaimed, StatusCounts,
     OnePaymentPerKey, AnsweredAsAsked, UnverifiedIsAcknowledged, ConfirmsKnow,
     ConfirmedOnce, ConfirmedAsSeen, MatchingConfirmSucceeds, Succeeded,
     WalletMeaning, ReceiptsFollow
<1> QED
  BY <1>1, <1>2

LEMMA InvariantHolds == Spec => []IInv
  BY InitHolds, StepKeeps, PTL DEF Spec

(* Every variable keeps its type.                                          *)
THEOREM IntentTypes == Spec => []TypeOK
<1>1. IInv => TypeOK
  BY DEF IInv
<1> QED
  BY <1>1, InvariantHolds, PTL

(* However many create requests race under however many keys, a key names  *)
(* one payment: the unique index and ON CONFLICT DO NOTHING.               *)
THEOREM KeyNamesOnePayment == Spec => []OnePaymentPerKey
<1>1. IInv => OnePaymentPerKey
  BY DEF IInv
<1> QED
  BY <1>1, InvariantHolds, PTL

(* A successful create request answers with a payment that says what was   *)
(* asked, whoever inserted it (matchesFrozenPaymentIdentityRequest).       *)
THEOREM AnswersFit == Spec => []AnsweredAsAsked
<1>1. IInv => AnsweredAsAsked
  BY DEF IInv
<1> QED
  BY <1>1, InvariantHolds, PTL

(* A payment is confirmed once (transitionPayment under the row's lock).   *)
THEOREM ConfirmsOnce == Spec => []ConfirmedOnce
<1>1. IInv => ConfirmedOnce
  BY DEF IInv
<1> QED
  BY <1>1, InvariantHolds, PTL

(* A confirmation is of what the user saw, and a payment to an unverified  *)
(* recipient was acknowledged by the call that created it                  *)
(* (requireMatchingHash, claimPaymentIdentityKey).                         *)
THEOREM InformedConsent == Spec => []ConsentIsInformed
<1>1. IInv => ConsentIsInformed
  BY DEF IInv, ConsentIsInformed
<1> QED
  BY <1>1, InvariantHolds, PTL

(* A confirm request for the payment as it was created succeeds, whoever   *)
(* was faster (confirm's second read).                                     *)
THEOREM MatchingConfirms == Spec => []MatchingConfirmSucceeds
<1>1. IInv => MatchingConfirmSucceeds
  BY DEF IInv
<1> QED
  BY <1>1, InvariantHolds, PTL

-----------------------------------------------------------------------------
(* The row a key names is the ledger's entry of that key.                  *)
LEMMA EntryOfRow ==
  ASSUME IInv, NEW p \in Calls, payment[p].status /= None
  PROVE  /\ payment[p].key \in Keys
         /\ Rows(payment[p].key) = {p}
         /\ LedgerOf(payment[p].key) =
              [stage |-> payment[p].status, meaning |-> payment[p].meaning,
               received |-> receipt[p]]
<1>1. payment[p].key \in Keys
  BY DEF IInv, RowsAreClaimed, CallsAsk, None
<1>2. Rows(payment[p].key) = {p}
  BY DEF IInv, OnePaymentPerKey, Rows
<1>3. (CHOOSE q \in {p} : TRUE) = p
  OBVIOUS
<1> QED
  BY <1>1, <1>2, <1>3 DEF LedgerOf

(* Asking again what was answered finds the same row, which still means    *)
(* what is asked: nothing in the directory enters the comparison.          *)
THEOREM ReplaysReturn == Spec => ReplayReturnsThePayment
<1>1. ASSUME IInv, Next, NEW c \in Calls, NEW d \in Calls,
             Succeeded(c), create[d].at \in {"replay", "claim"},
             create'[d].at = "done", Asked(c) = Asked(d)
      PROVE  create'[d].outcome = "existing" /\ create'[d].got = create[c].got
  <2> USE <1>1 DEF IInv
  <2> DEFINE p == create[c].got
  <2>1. /\ create[c].key = create[d].key
        /\ create[c].to = create[d].to
        /\ create[c].amount = create[d].amount
        /\ create[c].ack = create[d].ack
    BY DEF Asked
  <2>2. /\ p \in Calls
        /\ payment[p].status /= None
        /\ payment[p].key = create[d].key
        /\ payment[p].meaning.to = create[d].to
        /\ payment[p].meaning.amount = create[d].amount
        /\ payment[p].meaning.trust = "ACKNOWLEDGED" => create[d].ack
    BY <2>1 DEF CallsAsk, AnsweredAsAsked
  <2>3. Rows(create[d].key) = {p}
    BY <2>2, EntryOfRow
  <2>4. Matches(p, d)
    <3>1. /\ create[p].to = create[d].to
          /\ create[p].amount = create[d].amount
          /\ create[p].to \in Wallets => payment[p].meaning = WalletMeaning(p)
      BY <2>2 DEF RowsAreClaimed
    <3>2. WalletMeaning(p) = WalletMeaning(d)
      BY <3>1 DEF WalletMeaning
    <3> QED
      BY <2>2, <3>1, <3>2 DEF Matches
  <2>5. Replay(d) \/ Claim(d)
    <3>1. create'[d] /= create[d]
      OBVIOUS
    <3>2. ASSUME NEW e \in Calls, e /= d,
                 \/ CreateStep(e)
                 \/ \E k \in Keys, t \in Targets, a \in Amounts, ack \in BOOLEAN :
                      Begin(e, k, t, a, ack)
          PROVE  create'[d] = create[d]
      BY <3>2 DEF CreateStep, Replay, Claim, Begin, AnswerFrom, Answer, TypeOK
    <3>3. ~(\E k \in Keys, t \in Targets, a \in Amounts, ack \in BOOLEAN :
                Begin(d, k, t, a, ack))
      BY DEF Begin
    <3>4. ASSUME NEW f \in Confirms, ConfirmStep(f)
          PROVE  UNCHANGED create
      BY <3>4 DEF ConfirmStep, ReadForConfirm, TransitionForConfirm,
                  RereadForConfirm
    <3>5. \E e \in Calls :
            \/ CreateStep(e)
            \/ \E k \in Keys, t \in Targets, a \in Amounts, ack \in BOOLEAN :
                 Begin(e, k, t, a, ack)
      BY <3>1, <3>4 DEF Next, Edit, Receive
    <3> QED
      BY <3>1, <3>2, <3>3, <3>5 DEF CreateStep
  <2>6. AnswerFrom(d, p)
    BY <2>3, <2>5 DEF Replay, Claim, KeyFree, TypeOK, Creates
  <2> QED
    BY <2>4, <2>6 DEF AnswerFrom, Answer, TypeOK, Creates
<1>2. IInv /\ [Next]_intentVars =>
        [\A c, d \in Calls :
           /\ Succeeded(c)
           /\ create[d].at \in {"replay", "claim"}
           /\ create'[d].at = "done"
           /\ Asked(c) = Asked(d)
           => /\ create'[d].outcome = "existing"
              /\ create'[d].got = create[c].got]_intentVars
  BY <1>1
<1> QED
  BY <1>2, InvariantHolds, PTL DEF Spec, ReplayReturnsThePayment

-----------------------------------------------------------------------------
(* The refinement.  A row's step is its key's ledger step; every other key *)
(* keeps its entry.                                                        *)
LedgerNow == [k \in Keys |-> LedgerOf(k)]

(* A key none of whose rows change keeps its entry.                        *)
LEMMA OtherKeys ==
  ASSUME NEW k \in Keys, Rows(k)' = Rows(k),
         \A p \in Rows(k) : payment'[p] = payment[p] /\ receipt'[p] = receipt[p]
  PROVE  LedgerOf(k)' = LedgerOf(k)
<1>1. Rows(k) /= {} => (CHOOSE q \in Rows(k) : TRUE) \in Rows(k)
  OBVIOUS
<1> QED
  BY <1>1 DEF LedgerOf

LEMMA LedgerInit == Init => Ledger!Init
<1> SUFFICES ASSUME Init PROVE Ledger!Init
  OBVIOUS
<1>1. \A k \in Keys : Rows(k) = {}
  BY DEF Init, Rows, NoPayment, None
<1> QED
  BY <1>1 DEF Ledger!Init, Ledger!Empty, LedgerOf

LEMMA LedgerSteps ==
  ASSUME IInv, IInv', Next
  PROVE  Ledger!Next \/ UNCHANGED LedgerNow
<1> USE DEF IInv
<1>1. ASSUME UNCHANGED <<payment, receipt>>
      PROVE  UNCHANGED LedgerNow
  BY <1>1 DEF LedgerNow, LedgerOf, Rows
<1>2. ASSUME NEW p \in Calls, NEW k, k = payment'[p].key,
             payment'[p].status /= None,
             payment[p].status = None \/ payment[p].key = k,
             \A q \in Calls \ {p} :
               payment'[q] = payment[q] /\ receipt'[q] = receipt[q]
      PROVE  /\ k \in Keys
             /\ LedgerNow' =
                  [LedgerNow EXCEPT ![k] =
                     [stage |-> payment'[p].status,
                      meaning |-> payment'[p].meaning,
                      received |-> receipt'[p]]]
  <2>1. k \in Keys
    BY <1>2 DEF RowsAreClaimed, CallsAsk, None
  <2>2. Rows(k)' = {p}
    BY <1>2 DEF OnePaymentPerKey, Rows
  <2>3. LedgerOf(k)' =
          [stage |-> payment'[p].status, meaning |-> payment'[p].meaning,
           received |-> receipt'[p]]
    <3>1. (CHOOSE q \in {p} : TRUE) = p
      OBVIOUS
    <3> QED
      BY <2>2, <3>1 DEF LedgerOf
  <2>4. ASSUME NEW j \in Keys \ {k}
        PROVE  LedgerOf(j)' = LedgerOf(j)
    <3>1. Rows(j)' = Rows(j) /\ p \notin Rows(j)
      BY <1>2 DEF Rows
    <3> QED
      BY <1>2, <3>1, OtherKeys DEF Rows
  <2> QED
    BY <2>1, <2>3, <2>4 DEF LedgerNow
<1>3. ASSUME NEW c \in Calls, CallInserts(c)
      PROVE  Ledger!Open(create[c].key)
  <2>1. /\ payment' = [payment EXCEPT ![c] = NewRow(c)]
        /\ create[c].at = "claim"
        /\ Rows(create[c].key) = {}
        /\ UNCHANGED receipt
    BY <1>3 DEF CallInserts, Insert, NewRow, KeyFree
  <2>2. /\ payment'[c].status = "AWAITING_CONFIRMATION"
        /\ payment'[c].key = create[c].key
        /\ payment[c].status = None
        /\ ~receipt[c]
    BY <2>1 DEF NewRow, TypeOK, RowsAreClaimed, ReceiptsFollow, Confirmed, None
  <2>3. /\ create[c].key \in Keys
        /\ LedgerNow' =
             [LedgerNow EXCEPT ![create[c].key] =
                [stage |-> "AWAITING_CONFIRMATION",
                 meaning |-> payment'[c].meaning, received |-> FALSE]]
    <3>1. /\ payment'[c].status /= None
          /\ \A q \in Calls \ {c} :
               payment'[q] = payment[q] /\ receipt'[q] = receipt[q]
      BY <2>1, <2>2 DEF TypeOK, None
    <3>2. /\ create[c].key \in Keys
          /\ LedgerNow' =
               [LedgerNow EXCEPT ![create[c].key] =
                  [stage |-> payment'[c].status,
                   meaning |-> payment'[c].meaning, received |-> receipt'[c]]]
      BY <1>2, <2>2, <3>1
    <3>3. [stage |-> payment'[c].status, meaning |-> payment'[c].meaning,
           received |-> receipt'[c]] =
            [stage |-> "AWAITING_CONFIRMATION", meaning |-> payment'[c].meaning,
             received |-> FALSE]
      BY <2>1, <2>2 DEF TypeOK
    <3> QED
      BY <3>2, <3>3
  <2>4. LedgerNow[create[c].key] = Ledger!Empty
    BY <2>1, <2>3 DEF LedgerNow, LedgerOf, Ledger!Empty
  <2>5. payment'[c].meaning \in Meanings
    BY DEF TypeOK, Payments
  <2>6. LedgerNow'[create[c].key].meaning = payment'[c].meaning
    BY <2>3 DEF LedgerNow
  <2> QED
    BY <2>3, <2>4, <2>5, <2>6 DEF LedgerNow, Ledger!Open, Ledger!Empty
<1>4. ASSUME NEW f \in Confirms, ConfirmApplies(f)
      PROVE  \E k \in Keys : Ledger!Confirm(k)
  <2> DEFINE p == confirm[f].payment
             k == payment[p].key
  <2>1. /\ p \in Calls
        /\ payment[p].status = "AWAITING_CONFIRMATION"
        /\ payment'[p].status = "PROCESSING"
        /\ payment'[p].key = k
        /\ payment'[p].meaning = payment[p].meaning
        /\ \A q \in Calls \ {p} : payment'[q] = payment[q]
        /\ UNCHANGED receipt
    BY <1>4 DEF ConfirmApplies, MayTransition, ConfirmsKnow, TypeOK, Payments
  <2>2. /\ k \in Keys
        /\ LedgerOf(k) = [stage |-> "AWAITING_CONFIRMATION",
                          meaning |-> payment[p].meaning, received |-> receipt[p]]
    BY <2>1, EntryOfRow DEF None
  <2>3. LedgerNow' =
          [LedgerNow EXCEPT ![k] =
             [stage |-> "PROCESSING", meaning |-> payment[p].meaning,
              received |-> receipt[p]]]
    BY <1>2, <2>1 DEF None
  <2>4. LedgerNow[k] = [stage |-> "AWAITING_CONFIRMATION",
                        meaning |-> payment[p].meaning, received |-> receipt[p]]
    BY <2>2 DEF LedgerNow
  <2>5. LedgerNow' = [LedgerNow EXCEPT ![k].stage = "PROCESSING"]
    <3>1. [LedgerNow[k] EXCEPT !.stage = "PROCESSING"] =
            [stage |-> "PROCESSING", meaning |-> payment[p].meaning,
             received |-> receipt[p]]
      BY <2>4
    <3> QED
      BY <2>3, <3>1
  <2>6. Ledger!Confirm(k)
    BY <2>4, <2>5 DEF LedgerNow, Ledger!Confirm
  <2> QED
    BY <2>2, <2>6
<1>5. ASSUME NEW p \in Calls, NEW completes \in BOOLEAN, Receive(p, completes)
      PROVE  \E k \in Keys : Ledger!Receive(k)
  <2> DEFINE k == payment[p].key
  <2>1. /\ payment[p].status = "PROCESSING"
        /\ payment'[p].status \in {"PROCESSING", "COMPLETED"}
        /\ payment'[p].key = k
        /\ payment'[p].meaning = payment[p].meaning
        /\ \A q \in Calls \ {p} : payment'[q] = payment[q] /\ receipt'[q] = receipt[q]
        /\ receipt[p] = FALSE
        /\ receipt'[p] = TRUE
    BY <1>5 DEF Receive, TypeOK, Payments
  <2>2. /\ k \in Keys
        /\ LedgerOf(k) = [stage |-> "PROCESSING", meaning |-> payment[p].meaning,
                          received |-> FALSE]
    BY <2>1, EntryOfRow DEF None
  <2>3. LedgerNow' =
          [LedgerNow EXCEPT ![k] =
             [stage |-> payment'[p].status, meaning |-> payment[p].meaning,
              received |-> TRUE]]
    <3>1. payment'[p].status /= None
      BY <2>1 DEF None
    <3>2. LedgerNow' =
            [LedgerNow EXCEPT ![k] =
               [stage |-> payment'[p].status, meaning |-> payment'[p].meaning,
                received |-> receipt'[p]]]
      BY <1>2, <2>1, <3>1
    <3>3. [stage |-> payment'[p].status, meaning |-> payment'[p].meaning,
           received |-> receipt'[p]] =
            [stage |-> payment'[p].status, meaning |-> payment[p].meaning,
             received |-> TRUE]
      BY <2>1
    <3> QED
      BY <3>2, <3>3
  <2>4. LedgerNow[k] = [stage |-> "PROCESSING", meaning |-> payment[p].meaning,
                        received |-> FALSE]
    BY <2>2 DEF LedgerNow
  <2>5. /\ LedgerNow[k].stage = "PROCESSING"
        /\ LedgerNow[k].meaning = payment[p].meaning
        /\ ~LedgerNow[k].received
    BY <2>4
  <2>6. LedgerNow' =
          [LedgerNow EXCEPT ![k] =
             [stage |-> payment'[p].status, meaning |-> LedgerNow[k].meaning,
              received |-> TRUE]]
    BY <2>3, <2>5
  <2>7. Ledger!Receive(k)
    BY <2>1, <2>5, <2>6 DEF LedgerNow, Ledger!Receive
  <2> QED
    BY <2>2, <2>7
<1>6. ASSUME NEW c \in Calls, CallInserts(c)
      PROVE  create[c].key \in Keys
  BY <1>6 DEF CallInserts, CallsAsk
<1> QED
  BY StepsAre, <1>1, <1>3, <1>4, <1>5, <1>6 DEF CallMoves, ConfirmReads, Ledger!Next

(* The tables keep the promise of PaymentLedger under every key.           *)
THEOREM LedgerIsKept == Spec => ImplementsLedger
<1>1. IInv /\ IInv' /\ [Next]_intentVars => [Ledger!Next]_LedgerNow
  <2>1. UNCHANGED intentVars => UNCHANGED LedgerNow
    BY DEF intentVars, LedgerNow, LedgerOf, Rows
  <2> QED
    BY <2>1, LedgerSteps
<1>2. Init => Ledger!Init
  BY LedgerInit
<1> QED
  BY <1>1, <1>2, InvariantHolds, PTL DEF Spec, ImplementsLedger, Ledger!Spec, LedgerNow

-----------------------------------------------------------------------------
(***************************************************************************)
(* Payment requests over the intents.  Their invariant says what the       *)
(* request a call accepts and the call share, which nothing changes once   *)
(* both are there, and what an answer that applied left of its request.    *)
(***************************************************************************)

(* A call that may still insert its request finds none under its id; an    *)
(* id with a request has what was asked for and the version of its status. *)
RequestsAreAsked ==
  \A q \in Asks :
    /\ ask[q].at \in {"idle", "claim"} => request[q].status = None
    /\ ask[q].at = "claim" => ask[q].from \in Recipients /\ ask[q].amount \in Amounts
    /\ request[q].status /= None =>
         request[q].from \in Recipients /\ request[q].amount \in Amounts
    /\ request[q].status = "PENDING" => request[q].version = 0
    /\ request[q].status \in {"ACCEPTED", "DECLINED", "CANCELLED"} =>
         request[q].version = 1

(* A requester and its key name one request.                               *)
OneRequestPerKey ==
  \A q, r \in Asks :
    /\ request[q].status /= None /\ request[r].status /= None
    /\ request[q].key = request[r].key /\ request[q].from = request[r].from
    => q = r

(* A call that accepts creates, under the request's key, what it asks for; *)
(* one that succeeded answered with the payment linked to the request.     *)
AcceptFits(c) ==
  LET q == accept[c].req
  IN  /\ accept[c].at /= "idle" =>
           /\ q \in Asks /\ request[q].status /= None
           /\ create[c].at /= "idle" /\ create[c].key = RequestKey[q]
           /\ create[c].to = request[q].from /\ create[c].amount = request[q].amount
      /\ accept[c].outcome /= None => accept[c].at = "done"
      /\ accept[c].at = "reread" => create[c].at = "done"
      /\ accept[c].outcome \in {"applied", "repeated"} =>
           /\ create[c].at = "done"
           /\ request[q].status \in {"ACCEPTED", "PAID"}
           /\ request[q].link = create[c].got

(* A decline or cancel that applied left its request as it says.           *)
ClosingFits(x) ==
  LET q == closing[x].req
  IN  /\ closing[x].at /= "idle" =>
           q \in Asks /\ closing[x].to \in {"DECLINED", "CANCELLED"}
      /\ closing[x].outcome /= None => closing[x].at = "done"
      /\ closing[x].outcome = "applied" => request[q].status = closing[x].to

(* Of the answers about a request one at most applied.                     *)
AppliedOnce ==
  /\ \A c, d \in Calls :
       /\ accept[c].outcome = "applied" /\ accept[d].outcome = "applied"
       /\ accept[c].req = accept[d].req
       => c = d
  /\ \A x, y \in Closings :
       /\ closing[x].outcome = "applied" /\ closing[y].outcome = "applied"
       /\ closing[x].req = closing[y].req
       => x = y

(* An accepted request is linked to a payment that means it; another has   *)
(* no link.                                                                *)
LinkFits(q) ==
  LET p == request[q].link
  IN  /\ request[q].status \in {"ACCEPTED", "PAID"} =>
           /\ p \in Calls /\ payment[p].status /= None
           /\ payment[p].key = RequestKey[q]
           /\ payment[p].meaning.to = request[q].from
           /\ payment[p].meaning.amount = request[q].amount
      /\ request[q].status = "PAID" => receipt[p] /\ payment[p].status \in Confirmed
      /\ request[q].status \notin {"ACCEPTED", "PAID"} => p = None

RequestsInv ==
  /\ IInv
  /\ RequestsTypeOK
  /\ RequestsAreAsked
  /\ OneRequestPerKey
  /\ \A c \in Calls : AcceptFits(c)
  /\ \A x \in Closings : ClosingFits(x)
  /\ AppliedOnce
  /\ \A q \in Asks : LinkFits(q)

(* Keys of requests differ, so do the payments under them.                 *)
LEMMA LinksMean == RequestsInv => LinkMeansTheRequest
  <1> SUFFICES ASSUME RequestsInv, NEW q \in Asks
               PROVE  IF request[q].status \in {"ACCEPTED", "PAID"}
                      THEN LET p == payment[request[q].link]
                           IN  /\ request[q].link \in Calls
                               /\ p.key = RequestKey[q]
                               /\ p.meaning.to = request[q].from
                               /\ p.meaning.amount = request[q].amount
                               /\ \A r \in Asks \ {q} : request[r].link /= request[q].link
                               /\ request[q].status = "PAID" =>
                                    receipt[request[q].link] /\ p.status \in Confirmed
                      ELSE request[q].link = None
    BY DEF LinkMeansTheRequest
  <1>1. LinkFits(q) /\ \A r \in Asks : LinkFits(r)
    BY DEF RequestsInv
  <1>2. CASE request[q].status \notin {"ACCEPTED", "PAID"}
    BY <1>1, <1>2 DEF LinkFits
  <1>3. CASE request[q].status \in {"ACCEPTED", "PAID"}
    <2>1. ASSUME NEW r \in Asks \ {q} PROVE request[r].link /= request[q].link
      <3>1. CASE request[r].status \in {"ACCEPTED", "PAID"}
        BY <1>1, <1>3, <3>1, AskAssumption DEF LinkFits
      <3>2. CASE request[r].status \notin {"ACCEPTED", "PAID"}
        BY <1>1, <1>3, <3>2, NameAssumption DEF LinkFits
      <3> QED BY <3>1, <3>2
    <2> QED BY <1>1, <1>3, <2>1 DEF LinkFits
  <1> QED BY <1>2, <1>3

LEMMA OneDecisionHolds == RequestsInv => OneDecision
  <1> SUFFICES ASSUME RequestsInv, NEW q \in Asks
               PROVE  LET accepted == {c \in Calls : /\ accept[c].req = q
                                                     /\ accept[c].outcome = "applied"}
                          repeated == {c \in Calls : /\ accept[c].req = q
                                                     /\ accept[c].outcome = "repeated"}
                          closed == {x \in Closings : /\ closing[x].req = q
                                                      /\ closing[x].outcome = "applied"}
                      IN  /\ request[q].status /= None =>
                               RequestRows(request[q].key, request[q].from) = {q}
                          /\ \A c, d \in accepted : c = d
                          /\ \A x, y \in closed : x = y
                          /\ accepted = {} \/ closed = {}
                          /\ \A c \in accepted \cup repeated :
                               /\ request[q].status \in {"ACCEPTED", "PAID"}
                               /\ request[q].link = create[c].got
                          /\ \A x \in closed : request[q].status = closing[x].to
    BY DEF OneDecision
  <1> DEFINE accepted == {c \in Calls : accept[c].req = q /\ accept[c].outcome = "applied"}
             repeated == {c \in Calls : accept[c].req = q /\ accept[c].outcome = "repeated"}
             closed == {x \in Closings : closing[x].req = q /\ closing[x].outcome = "applied"}
  <1>1. request[q].status /= None => RequestRows(request[q].key, request[q].from) = {q}
    BY DEF RequestsInv, OneRequestPerKey, RequestRows
  <1>2. (\A c, d \in accepted : c = d) /\ \A x, y \in closed : x = y
    BY DEF RequestsInv, AppliedOnce
  <1>3. \A c \in accepted \cup repeated :
          request[q].status \in {"ACCEPTED", "PAID"} /\ request[q].link = create[c].got
    BY DEF RequestsInv, AcceptFits
  <1>4. \A x \in closed :
          request[q].status = closing[x].to /\ closing[x].to \in {"DECLINED", "CANCELLED"}
    BY DEF RequestsInv, ClosingFits, None
  <1>5. accepted = {} \/ closed = {}
    <2> SUFFICES ASSUME NEW c \in accepted, NEW x \in closed PROVE FALSE
      OBVIOUS
    <2>1. request[q].status \in {"ACCEPTED", "PAID"}
      BY <1>3
    <2>2. request[q].status \in {"DECLINED", "CANCELLED"}
      BY <1>4
    <2> QED BY <2>1, <2>2
  <1> QED BY <1>1, <1>2, <1>3, <1>4, <1>5

-----------------------------------------------------------------------------
(* What a step of the intents leaves to the requests that rely on it.      *)
LEMMA IntentsKept ==
  ASSUME IInv, [Next]_intentVars
  PROVE  /\ \A p \in Calls : payment[p].status /= None =>
              /\ payment'[p].status /= None
              /\ payment'[p].key = payment[p].key
              /\ payment'[p].meaning = payment[p].meaning
         /\ \A p \in Calls :
              payment[p].status \in Confirmed => payment'[p].status \in Confirmed
         /\ \A p \in Calls : receipt[p] => receipt'[p]
         /\ \A c \in Calls : create[c].at = "done" => create'[c] = create[c]
         /\ \A c \in Calls : create[c].at /= "idle" =>
              /\ create'[c].at /= "idle" /\ create'[c].key = create[c].key
              /\ create'[c].to = create[c].to /\ create'[c].amount = create[c].amount
  <1>1. CASE UNCHANGED intentVars
    BY <1>1 DEF intentVars
  <1>2. CASE Next
    <2>1. \A p \in Calls : receipt[p] => receipt'[p]
      <3>1. UNCHANGED receipt \/ \E p \in Calls : receipt' = [receipt EXCEPT ![p] = TRUE]
        BY <1>2 DEF Next, Edit, Begin, CreateStep, Replay, Claim, ConfirmStep, ReadForConfirm,
                    TransitionForConfirm, RereadForConfirm, Receive
      <3> QED BY <3>1 DEF IInv, TypeOK
    <2>2. \A c \in Calls : create[c].at /= "idle" =>
            /\ create'[c].at /= "idle" /\ create'[c].key = create[c].key
            /\ create'[c].to = create[c].to /\ create'[c].amount = create[c].amount
      <3> SUFFICES ASSUME NEW c \in Calls, create[c].at /= "idle"
                   PROVE  /\ create'[c].at /= "idle" /\ create'[c].key = create[c].key
                          /\ create'[c].to = create[c].to
                          /\ create'[c].amount = create[c].amount
        OBVIOUS
      <3>1. ASSUME NEW d \in Calls, NEW k \in Keys, NEW t \in Targets, NEW a \in Amounts,
                   NEW ack \in BOOLEAN, Begin(d, k, t, a, ack)
            PROVE  create'[c] = create[c]
        BY <3>1 DEF Begin, IInv, TypeOK
      <3>2. \A d \in Calls : \A outcome, p :
              Answer(d, outcome, p) =>
                /\ create'[c].at /= "idle" /\ create'[c].key = create[c].key
                /\ create'[c].to = create[c].to /\ create'[c].amount = create[c].amount
        BY DEF Answer, IInv, TypeOK, Creates
      <3>3. ASSUME NEW d \in Calls, CreateStep(d)
            PROVE  /\ create'[c].at /= "idle" /\ create'[c].key = create[c].key
                   /\ create'[c].to = create[c].to
                   /\ create'[c].amount = create[c].amount
        <4>1. CASE \E outcome, p : Answer(d, outcome, p)
          BY <3>2, <4>1
        <4>2. CASE create' = [create EXCEPT ![d] = [@ EXCEPT !.at = "claim"]]
          BY <4>2 DEF IInv, TypeOK, Creates
        <4> QED BY <3>3, <4>1, <4>2 DEF CreateStep, Replay, Claim, AnswerFrom
      <3>4. UNCHANGED create \/ (\E d \in Calls : CreateStep(d))
              \/ \E d \in Calls, k \in Keys, t \in Targets, a \in Amounts, ack \in BOOLEAN :
                   Begin(d, k, t, a, ack)
        BY <1>2 DEF Next, Edit, ConfirmStep, ReadForConfirm, TransitionForConfirm,
                    RereadForConfirm, Receive
      <3> QED BY <3>1, <3>3, <3>4
    <2> QED BY <1>2, <2>1, <2>2, RowsKept, StaysConfirmed
  <1> QED BY <1>1, <1>2

(* No step takes from a request what calls and answers rely on: what it    *)
(* asks, the link of one accepted, the status of one closed.               *)
RequestKept(q) ==
  request[q].status /= None =>
    /\ request'[q].status /= None /\ request'[q].key = request[q].key
    /\ request'[q].from = request[q].from /\ request'[q].amount = request[q].amount
    /\ request[q].status \in {"ACCEPTED", "PAID"} =>
         request'[q].status \in {"ACCEPTED", "PAID"} /\ request'[q].link = request[q].link
    /\ request[q].status \in {"DECLINED", "CANCELLED"} =>
         request'[q].status = request[q].status

LEMMA LinkFitsStays ==
  ASSUME RequestsInv, [Next]_intentVars, NEW q \in Asks, request'[q] = request[q]
  PROVE  LinkFits(q)'
  <1>1. LinkFits(q) /\ IInv
    BY DEF RequestsInv
  <1> QED BY <1>1, IntentsKept DEF LinkFits

LEMMA AcceptFitsStays ==
  ASSUME RequestsInv, [Next]_intentVars, \A q \in Asks : RequestKept(q),
         NEW c \in Calls, accept'[c] = accept[c]
  PROVE  AcceptFits(c)'
  <1>1. AcceptFits(c) /\ IInv
    BY DEF RequestsInv
  <1>2. CASE accept[c].at = "idle"
    BY <1>1, <1>2 DEF AcceptFits, None
  <1>3. CASE accept[c].at /= "idle"
    <2> DEFINE q == accept[c].req
    <2>1. /\ q \in Asks /\ request[q].status /= None
          /\ create[c].at /= "idle" /\ create[c].key = RequestKey[q]
          /\ create[c].to = request[q].from /\ create[c].amount = request[q].amount
          /\ accept[c].outcome /= None => accept[c].at = "done"
          /\ accept[c].at = "reread" => create[c].at = "done"
          /\ accept[c].outcome \in {"applied", "repeated"} =>
               /\ create[c].at = "done"
               /\ request[q].status \in {"ACCEPTED", "PAID"}
               /\ request[q].link = create[c].got
      BY <1>1, <1>3 DEF AcceptFits
    <2>2. RequestKept(q)
      BY <2>1
    <2>3. /\ create'[c].at /= "idle" /\ create'[c].key = create[c].key
          /\ create'[c].to = create[c].to /\ create'[c].amount = create[c].amount
          /\ create[c].at = "done" => create'[c] = create[c]
      BY <1>1, <2>1, IntentsKept
    <2> HIDE DEF q
    <2>4. /\ request'[q].status /= None
          /\ request'[q].from = request[q].from /\ request'[q].amount = request[q].amount
          /\ request[q].status \in {"ACCEPTED", "PAID"} =>
               request'[q].status \in {"ACCEPTED", "PAID"} /\ request'[q].link = request[q].link
      BY <2>1, <2>2 DEF RequestKept
    <2> QED BY <1>3, <2>1, <2>3, <2>4 DEF AcceptFits, q
  <1> QED BY <1>2, <1>3

LEMMA ClosingFitsStays ==
  ASSUME RequestsInv, \A q \in Asks : RequestKept(q),
         NEW x \in Closings, closing'[x] = closing[x]
  PROVE  ClosingFits(x)'
  <1>1. ClosingFits(x)
    BY DEF RequestsInv
  <1>2. CASE closing[x].outcome /= "applied"
    BY <1>1, <1>2 DEF ClosingFits
  <1>3. CASE closing[x].outcome = "applied"
    <2>1. /\ closing[x].req \in Asks /\ closing[x].to \in {"DECLINED", "CANCELLED"}
          /\ request[closing[x].req].status = closing[x].to
      BY <1>1, <1>3 DEF ClosingFits, None
    <2>2. request'[closing[x].req].status = closing[x].to
      BY <2>1 DEF RequestKept, None
    <2> QED BY <1>1, <2>2 DEF ClosingFits
  <1> QED BY <1>2, <1>3

(* A step that only reads: nothing of the requests, or of one call's       *)
(* answer, changes.                                                        *)
LEMMA RequestsStay ==
  ASSUME RequestsInv, [Next]_intentVars, UNCHANGED <<ask, request, accept, closing>>
  PROVE  RequestsInv'
  <1>1. \A q \in Asks : RequestKept(q)
    BY DEF RequestKept
  <1>2. IInv'
    BY StepKeeps DEF RequestsInv
  <1>3. /\ RequestsTypeOK'
        /\ RequestsAreAsked' /\ OneRequestPerKey' /\ AppliedOnce'
    BY <1>2 DEF RequestsInv, RequestsTypeOK, RequestsAreAsked, OneRequestPerKey, AppliedOnce,
                IInv
  <1>4. (\A c \in Calls : AcceptFits(c)') /\ \A q \in Asks : LinkFits(q)'
    BY <1>1, AcceptFitsStays, LinkFitsStays
  <1>5. \A x \in Closings : ClosingFits(x)'
    BY <1>1, ClosingFitsStays
  <1> QED BY <1>2, <1>3, <1>4, <1>5 DEF RequestsInv

-----------------------------------------------------------------------------
(* The fields of calls, requests and answers stay in their types.          *)
LEMMA RequestFieldTypes ==
  /\ \A r \in AskStates, k \in AskKeys, t \in Recipients, a \in Amounts :
       [r EXCEPT !.key = k, !.from = t, !.amount = a] \in AskStates
  /\ \A r \in AskStates : [r EXCEPT !.at = "claim"] \in AskStates
  /\ \A r \in AskStates, o \in {"created", "existing", "conflict", "unavailable"},
        p \in Asks \cup {None} :
       [r EXCEPT !.at = "done", !.outcome = o, !.got = p] \in AskStates
  /\ \A r \in Requests, k \in AskKeys \cup {None}, t \in Recipients \cup {None},
        a \in Amounts \cup {None} :
       [r EXCEPT !.key = k, !.from = t, !.amount = a, !.status = "PENDING"] \in Requests
  /\ \A r \in Requests, v \in 0..2, p \in Calls :
       [r EXCEPT !.status = "ACCEPTED", !.version = v, !.link = p] \in Requests
  /\ \A r \in Requests, s \in RequestStatuses, v \in 0..2 :
       [r EXCEPT !.status = s, !.version = v] \in Requests
  /\ \A r \in AcceptStates, q \in Asks, v \in 0..2 :
       [r EXCEPT !.at = "creating", !.req = q, !.version = v] \in AcceptStates
  /\ \A r \in AcceptStates, o \in {"applied", "repeated", "conflict", "refused"} :
       [r EXCEPT !.at = "done", !.outcome = o] \in AcceptStates
  /\ \A r \in AcceptStates : [r EXCEPT !.at = "reread"] \in AcceptStates
  /\ \A r \in ClosingStates, q \in Asks, v \in 0..2, to \in {"DECLINED", "CANCELLED"} :
       [r EXCEPT !.at = "write", !.req = q, !.version = v, !.to = to] \in ClosingStates
  /\ \A r \in ClosingStates, o \in {"applied", "conflict"} :
       [r EXCEPT !.at = "done", !.outcome = o] \in ClosingStates
  BY DEF AskStates, Requests, RequestStatuses, AcceptStates, ClosingStates

LEMMA IdleTypes ==
  /\ IdleAsk \in AskStates /\ NoRequest \in Requests
  /\ IdleAccept \in AcceptStates /\ IdleClosing \in ClosingStates
  BY DEF IdleAsk, AskStates, NoRequest, Requests, RequestStatuses, IdleAccept, AcceptStates,
         IdleClosing, ClosingStates

(* A request to ask that stays: it is looked up, refused or answered.      *)
LEMMA AskMoves ==
  ASSUME RequestsInv, NEW q \in Asks, NEW new \in AskStates,
         ask' = [ask EXCEPT ![q] = new],
         new.at = "claim" =>
           ask[q].at = "idle" /\ new.from \in Recipients /\ new.amount \in Amounts,
         new.at /= "idle", UNCHANGED <<intentVars, request, accept, closing>>
  PROVE  RequestsInv'
  <1>1. \A p \in Asks : RequestKept(p)
    BY DEF RequestKept
  <1>2. IInv'
    BY StepKeeps DEF RequestsInv
  <1>3. ask' \in [Asks -> AskStates] /\ ask'[q] = new /\ \A p \in Asks \ {q} : ask'[p] = ask[p]
    BY DEF RequestsInv, RequestsTypeOK
  <1>4. RequestsTypeOK' /\ OneRequestPerKey' /\ AppliedOnce'
    BY <1>2, <1>3 DEF RequestsInv, RequestsTypeOK, OneRequestPerKey, AppliedOnce, IInv
  <1>5. RequestsAreAsked'
    BY <1>3 DEF RequestsInv, RequestsAreAsked
  <1>6. (\A c \in Calls : AcceptFits(c)') /\ \A p \in Asks : LinkFits(p)'
    BY <1>1, AcceptFitsStays, LinkFitsStays
  <1>7. \A x \in Closings : ClosingFits(x)'
    BY <1>1, ClosingFitsStays
  <1> QED BY <1>2, <1>4, <1>5, <1>6, <1>7 DEF RequestsInv

LEMMA AskAnswerInductive ==
  ASSUME RequestsInv, NEW q \in Asks, NEW asked \in AskStates,
         NEW outcome \in {"created", "existing", "conflict", "unavailable"},
         NEW got \in Asks \cup {None}, AskAnswer(q, asked, outcome, got),
         UNCHANGED <<intentVars, request, accept, closing>>
  PROVE  RequestsInv'
  <1> DEFINE new == [asked EXCEPT !.at = "done", !.outcome = outcome, !.got = got]
  <1>1. new \in AskStates
    BY RequestFieldTypes
  <1>2. new.at = "done"
    BY DEF AskStates
  <1>3. ask' = [ask EXCEPT ![q] = new]
    BY DEF AskAnswer
  <1> HIDE DEF new
  <1> QED BY <1>1, <1>2, <1>3, AskMoves

LEMMA AskLookupInductive ==
  ASSUME RequestsInv, NEW q \in Asks, NEW k \in AskKeys, NEW r \in Recipients,
         NEW a \in Amounts, AskLookup(q, k, r, a)
  PROVE  RequestsInv'
  <1> DEFINE asked == [IdleAsk EXCEPT !.key = k, !.from = r, !.amount = a]
             new == [asked EXCEPT !.at = "claim"]
  <1>1. /\ ask[q].at = "idle" /\ UNCHANGED <<intentVars, request, accept, closing>>
        /\ \/ \E p \in RequestRows(k, r) : AskAnswerFrom(q, asked, p)
           \/ AskAnswer(q, asked, "unavailable", None)
           \/ ask' = [ask EXCEPT ![q] = new]
    BY DEF AskLookup
  <1>2. asked \in AskStates /\ asked.from = r /\ asked.amount = a
    BY IdleTypes, RequestFieldTypes DEF IdleAsk
  <1> HIDE DEF asked
  <1>3. new \in AskStates /\ new.at = "claim" /\ new.from = r /\ new.amount = a
    <2>1. new \in AskStates
      BY <1>2, RequestFieldTypes
    <2>2. new.at = "claim" /\ new.from = asked.from /\ new.amount = asked.amount
      BY <1>2 DEF AskStates
    <2> QED BY <1>2, <2>1, <2>2
  <1> HIDE DEF new
  <1>4. CASE \E p \in RequestRows(k, r) : AskAnswerFrom(q, asked, p)
    BY <1>1, <1>2, <1>4, AskAnswerInductive DEF AskAnswerFrom, RequestRows
  <1>5. CASE AskAnswer(q, asked, "unavailable", None)
    BY <1>1, <1>2, <1>5, AskAnswerInductive
  <1>6. CASE ask' = [ask EXCEPT ![q] = new]
    BY <1>1, <1>3, <1>6, AskMoves
  <1> QED BY <1>1, <1>4, <1>5, <1>6

(* A request that is inserted is the only one of its requester and key.    *)
LEMMA AskClaimInductive ==
  ASSUME RequestsInv, NEW q \in Asks, AskClaim(q)
  PROVE  RequestsInv'
  <1>1. /\ ask[q].at = "claim" /\ ask[q] \in AskStates
        /\ UNCHANGED <<intentVars, accept, closing>>
    BY DEF AskClaim, RequestsInv, RequestsTypeOK
  <1>2. ASSUME UNCHANGED request,
               \E p \in RequestRows(ask[q].key, ask[q].from) : AskAnswerFrom(q, ask[q], p)
        PROVE  RequestsInv'
    BY <1>1, <1>2, AskAnswerInductive DEF AskAnswerFrom, RequestRows
  <1>3. ASSUME AskKeyFree(q), AskAnswer(q, ask[q], "created", q),
               request' = [request EXCEPT ![q] =
                 [NoRequest EXCEPT !.key = ask[q].key, !.from = ask[q].from,
                                   !.amount = ask[q].amount, !.status = "PENDING"]]
        PROVE  RequestsInv'
    <2> DEFINE row == [NoRequest EXCEPT !.key = ask[q].key, !.from = ask[q].from,
                                        !.amount = ask[q].amount, !.status = "PENDING"]
               new == [ask[q] EXCEPT !.at = "done", !.outcome = "created", !.got = q]
    <2>1. /\ request[q].status = None
          /\ ask[q].from \in Recipients /\ ask[q].amount \in Amounts
          /\ ask[q].key \in AskKeys \cup {None}
      BY <1>1 DEF RequestsInv, RequestsAreAsked, AskStates
    <2>2. row \in Requests /\ new \in AskStates
      BY <1>1, <2>1, IdleTypes, RequestFieldTypes
    <2>3. /\ row.status = "PENDING" /\ row.version = 0 /\ row.link = None
          /\ row.key = ask[q].key /\ row.from = ask[q].from /\ row.amount = ask[q].amount
      BY DEF NoRequest
    <2>4. new.at = "done"
      BY <1>1 DEF AskStates
    <2>5. request' = [request EXCEPT ![q] = row] /\ ask' = [ask EXCEPT ![q] = new]
      BY <1>3 DEF AskAnswer
    <2> HIDE DEF row, new
    <2>6. /\ request' \in [Asks -> Requests] /\ request'[q] = row
          /\ \A p \in Asks \ {q} : request'[p] = request[p]
          /\ ask' \in [Asks -> AskStates] /\ ask'[q] = new
          /\ \A p \in Asks \ {q} : ask'[p] = ask[p]
      BY <2>2, <2>5 DEF RequestsInv, RequestsTypeOK
    <2>7. IInv'
      BY <1>1, StepKeeps DEF RequestsInv
    <2>8. \A p \in Asks : RequestKept(p)
      BY <2>1, <2>6 DEF RequestKept
    <2>9. RequestsTypeOK' /\ AppliedOnce'
      BY <1>1, <2>6, <2>7 DEF RequestsInv, RequestsTypeOK, AppliedOnce, IInv
    <2>10. RequestsAreAsked'
      BY <2>1, <2>3, <2>4, <2>6 DEF RequestsInv, RequestsAreAsked, None
    <2>11. OneRequestPerKey'
      BY <1>3, <2>3, <2>6 DEF RequestsInv, OneRequestPerKey, AskKeyFree, RequestRows
    <2>12. \A c \in Calls : AcceptFits(c)'
      BY <1>1, <2>8, AcceptFitsStays
    <2>13. \A p \in Asks \ {q} : LinkFits(p)'
      BY <1>1, <2>6, LinkFitsStays
    <2>14. LinkFits(q)'
      BY <2>3, <2>6 DEF LinkFits
    <2>15. \A x \in Closings : ClosingFits(x)'
      BY <1>1, <2>8, ClosingFitsStays
    <2> QED BY <2>7, <2>9, <2>10, <2>11, <2>12, <2>13, <2>14, <2>15 DEF RequestsInv
  <1> QED BY <1>2, <1>3 DEF AskClaim

-----------------------------------------------------------------------------
(* One call's answer moves, and nothing else of the requests.              *)
LEMMA AcceptMoves ==
  ASSUME RequestsInv, [Next]_intentVars, NEW c \in Calls, NEW new \in AcceptStates,
         accept' = [accept EXCEPT ![c] = new], AcceptFits(c)',
         new.outcome /= "applied", UNCHANGED <<ask, request, closing>>
  PROVE  RequestsInv'
  <1>1. \A q \in Asks : RequestKept(q)
    BY DEF RequestKept
  <1>2. IInv'
    BY StepKeeps DEF RequestsInv
  <1>3. /\ accept' \in [Calls -> AcceptStates] /\ accept'[c] = new
        /\ \A d \in Calls \ {c} : accept'[d] = accept[d]
    BY DEF RequestsInv, RequestsTypeOK
  <1>4. RequestsTypeOK' /\ RequestsAreAsked' /\ OneRequestPerKey'
    BY <1>2, <1>3 DEF RequestsInv, RequestsTypeOK, RequestsAreAsked, OneRequestPerKey, IInv
  <1>5. AppliedOnce'
    BY <1>3 DEF RequestsInv, AppliedOnce
  <1>6. (\A d \in Calls \ {c} : AcceptFits(d)') /\ \A q \in Asks : LinkFits(q)'
    BY <1>1, <1>3, AcceptFitsStays, LinkFitsStays
  <1>7. \A x \in Closings : ClosingFits(x)'
    BY <1>1, ClosingFitsStays
  <1> QED BY <1>2, <1>4, <1>5, <1>6, <1>7 DEF RequestsInv

(* Accepting begins a create request of the intents.                       *)
LEMMA AcceptBegins ==
  ASSUME RequestsInv, NEW c \in Calls, NEW q \in Asks, NEW v \in 0..2, NEW ack \in BOOLEAN,
         AcceptBegin(c, q, v, ack)
  PROVE  Next /\ RequestsInv'
  <1> USE DEF AcceptBegin
  <1> DEFINE new == [IdleAccept EXCEPT !.at = "creating", !.req = q, !.version = v]
  <1>1. /\ RequestKey[q] \in Keys /\ request[q].from \in Targets /\ request[q].amount \in Amounts
        /\ request[q].status = "PENDING"
    BY AskAssumption DEF Pending, RequestsInv, RequestsAreAsked, Targets, Identities, None
  <1>2. Begin(c, RequestKey[q], request[q].from, request[q].amount, ack)
    BY DEF KeyFor
  <1>3. Next
    BY <1>1, <1>2 DEF Next
  <1>4. /\ create'[c].at /= "idle" /\ create'[c].at /= "done" /\ create'[c].key = RequestKey[q]
        /\ create'[c].to = request[q].from /\ create'[c].amount = request[q].amount
    BY <1>2 DEF Begin, RequestsInv, IInv, TypeOK
  <1>5. new \in AcceptStates
    BY IdleTypes, RequestFieldTypes
  <1>6. new.at = "creating" /\ new.req = q /\ new.outcome = None
    BY DEF IdleAccept
  <1>7. accept' = [accept EXCEPT ![c] = new] /\ UNCHANGED <<ask, request, closing>>
    OBVIOUS
  <1> HIDE DEF AcceptBegin, new
  <1>8. accept'[c] = new
    BY <1>7 DEF RequestsInv, RequestsTypeOK
  <1>9. AcceptFits(c)'
    BY <1>1, <1>4, <1>6, <1>7, <1>8 DEF AcceptFits, None
  <1>10. new.outcome /= "applied"
    BY <1>6 DEF None
  <1> QED BY <1>3, <1>5, <1>7, <1>9, <1>10, AcceptMoves

LEMMA AcceptRereadInductive ==
  ASSUME RequestsInv, NEW c \in Calls, AcceptReread(c)
  PROVE  RequestsInv'
  <1> DEFINE outcome == IF Repeats(c) THEN "repeated" ELSE "conflict"
             new == [accept[c] EXCEPT !.at = "done", !.outcome = outcome]
  <1>1. /\ accept[c].at = "reread" /\ accept' = [accept EXCEPT ![c] = new]
        /\ UNCHANGED <<intentVars, ask, request, closing>>
    BY DEF AcceptReread, AcceptAnswer
  <1>2. accept[c] \in AcceptStates /\ AcceptFits(c)
    BY DEF RequestsInv, RequestsTypeOK
  <1>3. new \in AcceptStates
    BY <1>2, RequestFieldTypes
  <1>4. new.at = "done" /\ new.req = accept[c].req /\ new.outcome = outcome
    BY <1>2 DEF AcceptStates
  <1> HIDE DEF new
  <1>5. accept'[c] = new
    BY <1>1 DEF RequestsInv, RequestsTypeOK
  <1>6. create' = create
    BY <1>1 DEF intentVars
  <1>7. AcceptFits(c)'
    <2>1. CASE Repeats(c)
      BY <1>1, <1>2, <1>4, <1>5, <1>6, <2>1 DEF AcceptFits, Repeats
    <2>2. CASE ~Repeats(c)
      BY <1>1, <1>2, <1>4, <1>5, <1>6, <2>2 DEF AcceptFits
    <2> QED BY <2>1, <2>2
  <1> QED BY <1>1, <1>3, <1>4, <1>7, AcceptMoves

(* The request is linked while it is pending, so no answer about it has    *)
(* applied; the payment is what its create request asked for.              *)
LEMMA AcceptLinkInductive ==
  ASSUME RequestsInv, NEW c \in Calls, AcceptLink(c)
  PROVE  RequestsInv'
  <1>1. /\ accept[c].at = "creating" /\ create[c].at = "done"
        /\ UNCHANGED <<intentVars, ask, closing>>
    BY DEF AcceptLink
  <1>2. /\ accept[c] \in AcceptStates /\ AcceptFits(c) /\ IInv
        /\ create' = create /\ payment' = payment /\ receipt' = receipt
    BY <1>1 DEF RequestsInv, RequestsTypeOK, intentVars
  <1>3. PICK q \in Asks :
          /\ q = accept[c].req /\ request[q].status /= None
          /\ create[c].key = RequestKey[q]
          /\ create[c].to = request[q].from /\ create[c].amount = request[q].amount
    BY <1>1, <1>2 DEF AcceptFits
  <1>4. ASSUME AcceptAnswer(c, "refused"), UNCHANGED request
        PROVE  RequestsInv'
    <2> DEFINE new == [accept[c] EXCEPT !.at = "done", !.outcome = "refused"]
    <2>1. new \in AcceptStates
      BY <1>2, RequestFieldTypes
    <2>2. new.at = "done" /\ new.req = accept[c].req /\ new.outcome = "refused"
      BY <1>2 DEF AcceptStates
    <2>3. accept' = [accept EXCEPT ![c] = new]
      BY <1>4 DEF AcceptAnswer
    <2> HIDE DEF new
    <2>4. accept'[c] = new
      BY <2>3 DEF RequestsInv, RequestsTypeOK
    <2>5. AcceptFits(c)'
      BY <1>1, <1>2, <1>4, <2>2, <2>4 DEF AcceptFits
    <2> QED BY <1>1, <1>4, <2>1, <2>2, <2>3, <2>5, AcceptMoves
  <1>5. ASSUME accept' = [accept EXCEPT ![c] = [@ EXCEPT !.at = "reread"]], UNCHANGED request
        PROVE  RequestsInv'
    <2> DEFINE new == [accept[c] EXCEPT !.at = "reread"]
    <2>1. new \in AcceptStates
      BY <1>2, RequestFieldTypes
    <2>2. new.at = "reread" /\ new.req = accept[c].req /\ new.outcome = accept[c].outcome
      BY <1>2 DEF AcceptStates
    <2>3. accept' = [accept EXCEPT ![c] = new]
      BY <1>5
    <2> HIDE DEF new
    <2>4. accept'[c] = new
      BY <2>3 DEF RequestsInv, RequestsTypeOK
    <2>5. accept[c].outcome = None
      BY <1>1, <1>2 DEF AcceptFits
    <2>6. AcceptFits(c)'
      BY <1>1, <1>2, <1>5, <2>2, <2>4, <2>5 DEF AcceptFits, None
    <2>7. new.outcome /= "applied"
      BY <2>2, <2>5 DEF None
    <2> QED BY <1>1, <1>5, <2>1, <2>3, <2>6, <2>7, AcceptMoves
  <1>6. ASSUME Succeeded(c), RequestVersionHolds(q, accept[c].version),
               request' = [request EXCEPT ![q] =
                 [@ EXCEPT !.status = "ACCEPTED", !.version = request[q].version + 1,
                           !.link = create[c].got]],
               AcceptAnswer(c, "applied")
        PROVE  RequestsInv'
    <2> DEFINE new == [accept[c] EXCEPT !.at = "done", !.outcome = "applied"]
               p == create[c].got
               row == [request[q] EXCEPT !.status = "ACCEPTED",
                         !.version = request[q].version + 1, !.link = p]
    <2>1. /\ p \in Calls /\ payment[p].status /= None
          /\ payment[p].key = RequestKey[q] /\ payment[p].meaning.to = request[q].from
          /\ payment[p].meaning.amount = request[q].amount
      BY <1>2, <1>3, <1>6 DEF IInv, AnsweredAsAsked, CallsAsk
    <2>2. /\ request[q] \in Requests /\ request[q].status = "PENDING"
          /\ request[q].version = 0 /\ request[q].version + 1 = 1
      BY <1>3, <1>6 DEF RequestVersionHolds, Pending, RequestsInv, RequestsTypeOK,
                        RequestsAreAsked
    <2>3. row \in Requests /\ new \in AcceptStates
      <3>1. \A v \in 0..2 :
              [request[q] EXCEPT !.status = "ACCEPTED", !.version = v, !.link = p] \in Requests
        BY <2>1, <2>2, RequestFieldTypes
      <3>2. request[q].version + 1 \in 0..2
        BY <2>2
      <3>3. new \in AcceptStates
        BY <1>2, RequestFieldTypes
      <3> QED BY <3>1, <3>2, <3>3
    <2>4. /\ row.status = "ACCEPTED" /\ row.version = 1 /\ row.link = p
          /\ row.key = request[q].key /\ row.from = request[q].from
          /\ row.amount = request[q].amount
      BY <2>2 DEF Requests
    <2>5. new.at = "done" /\ new.req = accept[c].req /\ new.outcome = "applied"
      BY <1>2 DEF AcceptStates
    <2>6. request' = [request EXCEPT ![q] = row] /\ accept' = [accept EXCEPT ![c] = new]
      BY <1>6 DEF AcceptAnswer
    <2> HIDE DEF row, new
    <2>7. /\ request' \in [Asks -> Requests] /\ request'[q] = row
          /\ \A r \in Asks \ {q} : request'[r] = request[r]
          /\ accept' \in [Calls -> AcceptStates] /\ accept'[c] = new
          /\ \A d \in Calls \ {c} : accept'[d] = accept[d]
      BY <1>3, <2>3, <2>6 DEF RequestsInv, RequestsTypeOK
    <2>8. IInv'
      BY <1>1, StepKeeps DEF RequestsInv
    <2>9. \A r \in Asks : RequestKept(r)
      BY <2>2, <2>4, <2>7 DEF RequestKept, None
    <2>10. RequestsTypeOK' /\ OneRequestPerKey'
      BY <1>1, <1>3, <2>4, <2>7, <2>8
         DEF RequestsInv, RequestsTypeOK, OneRequestPerKey, IInv
    <2>11. RequestsAreAsked'
      BY <1>1, <2>2, <2>4, <2>7 DEF RequestsInv, RequestsAreAsked, None
    <2>12. \A d \in Calls \ {c} : AcceptFits(d)'
      BY <1>1, <2>7, <2>9, AcceptFitsStays
    <2>13. AcceptFits(c)'
      BY <1>1, <1>2, <1>3, <2>4, <2>5, <2>7 DEF AcceptFits, None
    <2>14. \A r \in Asks \ {q} : LinkFits(r)'
      BY <1>1, <2>7, LinkFitsStays
    <2>15. LinkFits(q)'
      BY <1>2, <2>1, <2>4, <2>7 DEF LinkFits
    <2>16. \A x \in Closings : ClosingFits(x)'
      BY <1>1, <2>9, ClosingFitsStays
    <2>17. \A d \in Calls : accept[d].req = q => accept[d].outcome /= "applied"
      BY <2>2 DEF RequestsInv, AcceptFits
    <2>18. AppliedOnce'
      BY <1>1, <1>3, <2>5, <2>7, <2>17 DEF RequestsInv, AppliedOnce
    <2> QED BY <2>8, <2>10, <2>11, <2>12, <2>13, <2>14, <2>15, <2>16, <2>18 DEF RequestsInv
  <1> QED BY <1>3, <1>4, <1>5, <1>6 DEF AcceptLink

-----------------------------------------------------------------------------
LEMMA CloseReadInductive ==
  ASSUME RequestsInv, NEW x \in Closings, NEW q \in Asks, NEW v \in 0..2,
         NEW to \in {"DECLINED", "CANCELLED"}, CloseRead(x, q, v, to)
  PROVE  RequestsInv'
  <1> DEFINE new == [IdleClosing EXCEPT !.at = "write", !.req = q, !.version = v, !.to = to]
  <1>1. /\ closing' = [closing EXCEPT ![x] = new]
        /\ UNCHANGED <<intentVars, ask, request, accept>>
    BY DEF CloseRead
  <1>2. new \in ClosingStates
    BY IdleTypes, RequestFieldTypes
  <1>3. new.at = "write" /\ new.req = q /\ new.to = to /\ new.outcome = None
    BY DEF IdleClosing
  <1> HIDE DEF new
  <1>4. /\ closing' \in [Closings -> ClosingStates] /\ closing'[x] = new
        /\ \A y \in Closings \ {x} : closing'[y] = closing[y]
    BY <1>1, <1>2 DEF RequestsInv, RequestsTypeOK
  <1>5. IInv' /\ \A r \in Asks : RequestKept(r)
    BY <1>1, StepKeeps DEF RequestsInv, RequestKept
  <1>6. RequestsTypeOK' /\ RequestsAreAsked' /\ OneRequestPerKey'
    BY <1>1, <1>4, <1>5
       DEF RequestsInv, RequestsTypeOK, RequestsAreAsked, OneRequestPerKey, IInv
  <1>7. AppliedOnce'
    BY <1>1, <1>3, <1>4 DEF RequestsInv, AppliedOnce, None
  <1>8. (\A c \in Calls : AcceptFits(c)') /\ \A r \in Asks : LinkFits(r)'
    BY <1>1, <1>5, AcceptFitsStays, LinkFitsStays
  <1>9. \A y \in Closings \ {x} : ClosingFits(y)'
    BY <1>4, <1>5, ClosingFitsStays
  <1>10. ClosingFits(x)'
    BY <1>3, <1>4 DEF ClosingFits, None
  <1> QED BY <1>5, <1>6, <1>7, <1>8, <1>9, <1>10 DEF RequestsInv

(* A decline or cancel closes a pending request: none about it has applied *)
(* before, and no accept.                                                  *)
LEMMA CloseWriteInductive ==
  ASSUME RequestsInv, NEW x \in Closings, CloseWrite(x)
  PROVE  RequestsInv'
  <1>1. /\ closing[x].at = "write" /\ UNCHANGED <<intentVars, ask, accept>>
        /\ closing[x] \in ClosingStates /\ ClosingFits(x)
    BY DEF CloseWrite, RequestsInv, RequestsTypeOK
  <1>2. PICK q \in Asks : q = closing[x].req
    BY <1>1 DEF ClosingFits
  <1>3. PICK to \in {"DECLINED", "CANCELLED"} : to = closing[x].to
    BY <1>1 DEF ClosingFits
  <1>4. PICK outcome \in {"applied", "conflict"} :
          /\ closing' = [closing EXCEPT ![x] = [@ EXCEPT !.at = "done", !.outcome = outcome]]
          /\ outcome = "conflict" => request' = request
          /\ outcome = "applied" =>
               /\ RequestVersionHolds(q, closing[x].version)
               /\ request' = [request EXCEPT ![q] =
                    [@ EXCEPT !.status = to, !.version = request[q].version + 1]]
    <2>1. CASE RequestVersionHolds(q, closing[x].version)
      BY <1>2, <1>3, <2>1 DEF CloseWrite
    <2>2. CASE ~RequestVersionHolds(q, closing[x].version)
      BY <1>2, <1>3, <2>2 DEF CloseWrite
    <2> QED BY <2>1, <2>2
  <1> DEFINE new == [closing[x] EXCEPT !.at = "done", !.outcome = outcome]
  <1>5. new \in ClosingStates
    BY <1>1, RequestFieldTypes
  <1>6. new.at = "done" /\ new.req = q /\ new.to = to /\ new.outcome = outcome
    BY <1>1, <1>2, <1>3 DEF ClosingStates
  <1>7. /\ closing' \in [Closings -> ClosingStates] /\ closing'[x] = new
        /\ \A y \in Closings \ {x} : closing'[y] = closing[y]
    BY <1>4, <1>5 DEF RequestsInv, RequestsTypeOK
  <1> HIDE DEF new
  <1>8. IInv'
    BY <1>1, StepKeeps DEF RequestsInv
  <1>9. /\ request' \in [Asks -> Requests]
        /\ \A r \in Asks \ {q} : request'[r] = request[r]
        /\ outcome = "conflict" => request'[q] = request[q]
        /\ outcome = "applied" =>
             /\ request[q].status = "PENDING"
             /\ request'[q].status = to /\ request'[q].version = 1
             /\ request'[q].key = request[q].key /\ request'[q].from = request[q].from
             /\ request'[q].amount = request[q].amount /\ request'[q].link = request[q].link
    <2>1. CASE outcome = "conflict"
      BY <1>4, <2>1 DEF RequestsInv, RequestsTypeOK
    <2>2. CASE outcome = "applied"
      <3> DEFINE row == [request[q] EXCEPT !.status = to, !.version = request[q].version + 1]
      <3>1. /\ request[q] \in Requests /\ request[q].status = "PENDING"
            /\ request[q].version = 0 /\ request[q].version + 1 = 1
            /\ request' = [request EXCEPT ![q] = row]
        BY <1>4, <2>2 DEF RequestVersionHolds, Pending, RequestsInv, RequestsTypeOK,
                          RequestsAreAsked
      <3>2. row \in Requests
        <4>1. \A v \in 0..2 : [request[q] EXCEPT !.status = to, !.version = v] \in Requests
          BY <3>1, RequestFieldTypes DEF RequestStatuses
        <4> QED BY <3>1, <4>1
      <3>3. /\ row.status = to /\ row.version = 1 /\ row.key = request[q].key
            /\ row.from = request[q].from /\ row.amount = request[q].amount
            /\ row.link = request[q].link
        BY <3>1 DEF Requests
      <3> HIDE DEF row
      <3> QED BY <2>2, <3>1, <3>2, <3>3 DEF RequestsInv, RequestsTypeOK
    <2> QED BY <2>1, <2>2
  <1>10. \A r \in Asks : RequestKept(r)
    BY <1>9 DEF RequestKept, None
  <1>11. RequestsTypeOK' /\ OneRequestPerKey'
    <2>1. \A r \in Asks :
            /\ request'[r].key = request[r].key /\ request'[r].from = request[r].from
            /\ request'[r].status /= None => request[r].status /= None
      BY <1>9 DEF None
    <2>2. OneRequestPerKey'
      BY <2>1 DEF RequestsInv, OneRequestPerKey
    <2> QED BY <1>1, <1>7, <1>8, <1>9, <2>2 DEF RequestsInv, RequestsTypeOK, IInv
  <1>12. RequestsAreAsked'
    BY <1>1, <1>9 DEF RequestsInv, RequestsAreAsked, None
  <1>13. AppliedOnce'
    <2>1. outcome = "applied" =>
            \A y \in Closings : closing[y].req = q => closing[y].outcome /= "applied"
      <3> SUFFICES ASSUME outcome = "applied", NEW y \in Closings, closing[y].req = q,
                          closing[y].outcome = "applied"
                   PROVE  FALSE
        OBVIOUS
      <3>1. request[q].status \in {"DECLINED", "CANCELLED"}
        BY DEF RequestsInv, ClosingFits, None
      <3> QED BY <1>9, <3>1
    <2>2. \A y, z \in Closings :
            /\ closing'[y].outcome = "applied" /\ closing'[z].outcome = "applied"
            /\ closing'[y].req = closing'[z].req
            => y = z
      BY <1>6, <1>7, <2>1 DEF RequestsInv, AppliedOnce
    <2> QED BY <1>1, <2>2 DEF RequestsInv, AppliedOnce
  <1>14. \A c \in Calls : AcceptFits(c)'
    BY <1>1, <1>10, AcceptFitsStays
  <1>15. \A r \in Asks : LinkFits(r)'
    <2>1. \A r \in Asks : request'[r] = request[r] => LinkFits(r)'
      BY <1>1, LinkFitsStays
    <2>2. outcome = "applied" => LinkFits(q)'
      BY <1>9 DEF LinkFits, RequestsInv
    <2> QED BY <1>9, <2>1, <2>2
  <1>16. \A y \in Closings \ {x} : ClosingFits(y)'
    BY <1>7, <1>10, ClosingFitsStays
  <1>17. ClosingFits(x)'
    BY <1>6, <1>7, <1>9 DEF ClosingFits
  <1> QED BY <1>8, <1>11, <1>12, <1>13, <1>14, <1>15, <1>16, <1>17 DEF RequestsInv

(* The receipt's trigger marks the requests its payment is linked to.      *)
LEMMA ReceiveAndMarkInductive ==
  ASSUME RequestsInv, NEW p \in Calls, NEW completes \in BOOLEAN, ReceiveAndMark(p, completes)
  PROVE  Next /\ RequestsInv'
  <1>1. Receive(p, completes) /\ UNCHANGED <<ask, accept, closing>>
    BY DEF ReceiveAndMark
  <1>2. Next
    BY <1>1 DEF Next
  <1>3. IInv' /\ IInv
    BY <1>2, StepKeeps DEF RequestsInv
  <1>4. /\ \A q \in Asks : ~MarksPaid(q, p) => request'[q] = request[q]
        /\ request' = [q \in Asks |-> request'[q]]
        /\ \A q \in Asks : MarksPaid(q, p) =>
             request'[q] = [request[q] EXCEPT !.status = "PAID",
                                              !.version = request[q].version + 1]
    BY DEF ReceiveAndMark
  <1>5. ASSUME NEW q \in Asks, MarksPaid(q, p)
        PROVE  /\ request'[q] \in Requests
               /\ request[q].status = "ACCEPTED" /\ request[q].link = p
               /\ request'[q].status = "PAID" /\ request'[q].key = request[q].key
               /\ request'[q].from = request[q].from /\ request'[q].amount = request[q].amount
               /\ request'[q].link = request[q].link
    <2> DEFINE row == [request[q] EXCEPT !.status = "PAID", !.version = request[q].version + 1]
    <2>1. /\ request[q] \in Requests /\ request[q].status = "ACCEPTED" /\ request[q].link = p
          /\ request[q].version = 1
      BY <1>5 DEF MarksPaid, RequestsInv, RequestsTypeOK, RequestsAreAsked
    <2>2. row \in Requests
      <3>1. \A v \in 0..2 : [request[q] EXCEPT !.status = "PAID", !.version = v] \in Requests
        BY <2>1, RequestFieldTypes DEF RequestStatuses
      <3> QED BY <2>1, <3>1
    <2>3. /\ row.status = "PAID" /\ row.key = request[q].key /\ row.from = request[q].from
          /\ row.amount = request[q].amount /\ row.link = request[q].link
      BY <2>1 DEF Requests
    <2> HIDE DEF row
    <2>4. request'[q] = row
      BY <1>4, <1>5 DEF row
    <2> QED BY <2>1, <2>2, <2>3, <2>4
  <1>6. request' \in [Asks -> Requests]
    BY <1>4, <1>5 DEF RequestsInv, RequestsTypeOK
  <1>7. \A q \in Asks : RequestKept(q)
    BY <1>4, <1>5 DEF RequestKept, None
  <1>8. RequestsTypeOK' /\ AppliedOnce'
    BY <1>1, <1>3, <1>6 DEF RequestsInv, RequestsTypeOK, AppliedOnce, IInv
  <1>9. RequestsAreAsked'
    <2> SUFFICES ASSUME NEW q \in Asks
                 PROVE  /\ ask[q].at \in {"idle", "claim"} => request'[q].status = None
                        /\ ask[q].at = "claim" =>
                             ask[q].from \in Recipients /\ ask[q].amount \in Amounts
                        /\ request'[q].status /= None =>
                             request'[q].from \in Recipients /\ request'[q].amount \in Amounts
                        /\ request'[q].status = "PENDING" => request'[q].version = 0
                        /\ request'[q].status \in {"ACCEPTED", "DECLINED", "CANCELLED"} =>
                             request'[q].version = 1
      BY <1>1 DEF RequestsAreAsked
    <2>1. CASE ~MarksPaid(q, p)
      BY <1>4, <2>1 DEF RequestsInv, RequestsAreAsked
    <2>2. CASE MarksPaid(q, p)
      BY <1>5, <2>2 DEF RequestsInv, RequestsAreAsked, None
    <2> QED BY <2>1, <2>2
  <1>10. \A q \in Asks :
           /\ request'[q].key = request[q].key /\ request'[q].from = request[q].from
           /\ request'[q].status /= None => request[q].status /= None
    BY <1>4, <1>5 DEF None
  <1>11. OneRequestPerKey'
    BY <1>10 DEF RequestsInv, OneRequestPerKey
  <1>12. \A c \in Calls : AcceptFits(c)'
    BY <1>1, <1>2, <1>7, AcceptFitsStays
  <1>13. \A x \in Closings : ClosingFits(x)'
    BY <1>1, <1>7, ClosingFitsStays
  <1>14. ASSUME NEW q \in Asks, MarksPaid(q, p) PROVE LinkFits(q)'
    <2>1. LinkFits(q)
      BY DEF RequestsInv
    <2>2. receipt'[p] /\ payment'[p].status \in Confirmed
      <3>1. receipt'[p] /\ payment[p].status \in Confirmed
        BY <1>1, <1>3 DEF Receive, IInv, TypeOK, Confirmed
      <3> QED BY <1>2, <1>3, <3>1, IntentsKept
    <2>3. /\ payment'[p].status /= None /\ payment'[p].key = payment[p].key
          /\ payment'[p].meaning = payment[p].meaning
      BY <1>2, <1>3, <1>5, <1>14, <2>1, IntentsKept DEF LinkFits
    <2> QED BY <1>5, <1>14, <2>1, <2>2, <2>3 DEF LinkFits
  <1>15. \A q \in Asks : LinkFits(q)'
    BY <1>2, <1>4, <1>14, LinkFitsStays
  <1> QED BY <1>2, <1>3, <1>8, <1>9, <1>11, <1>12, <1>13, <1>15 DEF RequestsInv

-----------------------------------------------------------------------------
LEMMA RequestsInitHolds == RequestsInit => RequestsInv
  <1> SUFFICES ASSUME RequestsInit PROVE RequestsInv
    OBVIOUS
  <1>1. IInv
    BY InitHolds DEF RequestsInit
  <1>2. /\ \A q \in Asks : request[q] = NoRequest /\ ask[q] = IdleAsk
        /\ \A c \in Calls : accept[c] = IdleAccept
        /\ \A x \in Closings : closing[x] = IdleClosing
    BY DEF RequestsInit
  <1>3. RequestsTypeOK
    BY <1>1, IdleTypes DEF RequestsInit, RequestsTypeOK, IInv
  <1>4. RequestsAreAsked /\ OneRequestPerKey /\ \A q \in Asks : LinkFits(q)
    BY <1>2 DEF RequestsAreAsked, OneRequestPerKey, LinkFits, NoRequest, IdleAsk, None
  <1>5. AppliedOnce /\ (\A c \in Calls : AcceptFits(c)) /\ \A x \in Closings : ClosingFits(x)
    BY <1>2 DEF AppliedOnce, AcceptFits, ClosingFits, IdleAccept, IdleClosing, None
  <1> QED BY <1>1, <1>3, <1>4, <1>5 DEF RequestsInv

(* Every step of the requests is one of the intents or leaves them alone.  *)
LEMMA RequestsStep ==
  RequestsInv /\ [RequestsNext]_vars => [Next]_intentVars /\ RequestsInv'
  <1> SUFFICES ASSUME RequestsInv, [RequestsNext]_vars
               PROVE  [Next]_intentVars /\ RequestsInv'
    OBVIOUS
  <1>1. CASE UNCHANGED vars
    BY <1>1, RequestsStay DEF vars, requestVars
  <1>2. CASE IntentStep
    <2>1. Next /\ UNCHANGED <<ask, request, accept, closing>>
      BY <1>2 DEF IntentStep, Next, OwnKeys, requestVars
    <2> QED BY <2>1, RequestsStay
  <1>3. CASE RequestStep
    <2>1. CASE \E q \in Asks :
                 \/ \E k \in AskKeys, r \in Recipients, a \in Amounts : AskLookup(q, k, r, a)
                 \/ AskClaim(q)
      <3>1. ASSUME NEW q \in Asks, NEW k \in AskKeys, NEW r \in Recipients, NEW a \in Amounts,
                   AskLookup(q, k, r, a)
            PROVE  UNCHANGED intentVars /\ RequestsInv'
        <4>1. UNCHANGED intentVars
          BY <3>1 DEF AskLookup
        <4>2. RequestsInv'
          BY <3>1, AskLookupInductive
        <4> QED BY <4>1, <4>2
      <3>2. ASSUME NEW q \in Asks, AskClaim(q) PROVE UNCHANGED intentVars /\ RequestsInv'
        BY <3>2, AskClaimInductive DEF AskClaim
      <3> QED BY <2>1, <3>1, <3>2
    <2>2. CASE \E c \in Calls :
                 \/ \E q \in Asks, v \in 0..2, ack \in BOOLEAN : AcceptBegin(c, q, v, ack)
                 \/ AcceptLink(c)
                 \/ AcceptReread(c)
      BY <2>2, AcceptBegins, AcceptLinkInductive, AcceptRereadInductive
         DEF AcceptLink, AcceptReread
    <2>3. CASE \E x \in Closings :
                 \/ \E q \in Asks, v \in 0..2, to \in {"DECLINED", "CANCELLED"} :
                      CloseRead(x, q, v, to)
                 \/ CloseWrite(x)
      BY <2>3, CloseReadInductive, CloseWriteInductive DEF CloseRead, CloseWrite
    <2>4. CASE \E p \in Calls, completes \in BOOLEAN : ReceiveAndMark(p, completes)
      BY <2>4, ReceiveAndMarkInductive
    <2> QED BY <1>3, <2>1, <2>2, <2>3, <2>4 DEF RequestStep
  <1> QED BY <1>1, <1>2, <1>3 DEF RequestsNext

(* However asks, accepts, declines, cancels and receipts interleave, the   *)
(* invariant of the requests holds, and that of the intents under it.      *)
THEOREM RequestsSafety == RequestsSpec => []RequestsInv
  BY RequestsInitHolds, RequestsStep, PTL DEF RequestsSpec

(* Accepting a request keeps all the intents promise: to the intents, a    *)
(* payment of a request is a payment like any other (acceptPaymentRequest  *)
(* calls intents.create).                                                  *)
THEOREM RequestsKeepIntents == RequestsSpec => Spec
  <1>1. RequestsInit => Init
    BY DEF RequestsInit
  <1> QED BY <1>1, RequestsSafety, RequestsStep, PTL DEF RequestsSpec, Spec

(* Requests, calls about them and their answers are always of their types. *)
THEOREM RequestTypes == RequestsSpec => []RequestsTypeOK
  <1>1. RequestsInv => RequestsTypeOK
    BY DEF RequestsInv
  <1> QED BY <1>1, RequestsSafety, PTL

(* An accepted request is linked to one payment, under its own key, to its *)
(* requester and for its amount, and is paid only once that was received   *)
(* (PaymentRequestService.accept, mark_payment_request_paid_from_receipt). *)
THEOREM LinksMeanRequests == RequestsSpec => []LinkMeansTheRequest
  BY LinksMean, RequestsSafety, PTL

(* A request is decided once, and every answer about it agrees with the    *)
(* decision (transition on the locked row, and accept's second read).      *)
THEOREM DecidedOnce == RequestsSpec => []OneDecision
  BY OneDecisionHolds, RequestsSafety, PTL

(* What the intents promise of consent, of confirmations, of replays and   *)
(* of the ledger holds of payments made for requests too.                  *)
THEOREM RequestsKeepConsent ==
  RequestsSpec => /\ [](ConsentIsInformed /\ MatchingConfirmSucceeds)
                  /\ ReplayReturnsThePayment /\ ImplementsLedger
  BY RequestsKeepIntents, InformedConsent, MatchingConfirms, ReplaysReturn, LedgerIsKept, PTL
=============================================================================
