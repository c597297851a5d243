--------------------------- MODULE PaymentIntents ---------------------------
(***************************************************************************)
(* Payment intents of one account: creation under an Idempotency-Key and   *)
(* explicit confirmation.  A create request to a payment identity runs two *)
(* transactions, a replay check and a claim; the recipient may change its  *)
(* profile, verification or payability, and another request with the same  *)
(* key may win, between them.  A confirm request reads the intent, then    *)
(* moves it under its version, then reads it again if it lost.             *)
(***************************************************************************)
EXTENDS Naturals

CONSTANTS
  Calls,       \* create requests; a call also names the payment id it generates
  Confirms,    \* confirm requests
  Keys,        \* Idempotency-Key values the account uses
  Recipients,  \* accounts of the recipient directory
  Synthetics,  \* synthetic beta identities
  Wallets,     \* raw wallet addresses
  Amounts,     \* amount and purpose of a request
  Profiles     \* names and destination address of a directory entry

None == "none"

ASSUME NameAssumption ==
  /\ None \notin Calls
  /\ None \notin Keys
  /\ None \notin Recipients \cup Synthetics \cup Wallets
  /\ None \notin Amounts
ASSUME KindAssumption ==
  /\ Recipients \cap Synthetics = {}
  /\ Recipients \cap Wallets = {}
  /\ Synthetics \cap Wallets = {}

Identities == Recipients \cup Synthetics
Targets == Identities \cup Wallets

VARIABLES
  directory,  \* economic_identities joined with the primary destination
  create,     \* create requests in progress or answered
  payment,    \* payments, by the call that generated the id
  confirm,    \* confirm requests in progress or answered
  receipt     \* payment_execution_receipts, by payment

intentVars == <<directory, create, payment, confirm, receipt>>

Entries == [profile: Profiles, verified: BOOLEAN, payable: BOOLEAN]

\* What a row freezes of its recipient; wallets have no snapshot and a
\* synthetic identity never changes.
Snapshots == [profile: Profiles \cup {None}, verified: BOOLEAN]
NoSnapshot == [profile |-> None, verified |-> FALSE]

Trusts == {None, "NOT_REQUIRED", "ACKNOWLEDGED"}
Statuses == {None, "AWAITING_CONFIRMATION", "PROCESSING", "COMPLETED"}
Confirmed == {"PROCESSING", "COMPLETED"}

\* The fields createPaymentRequestHash and createPaymentIdentityRequestHash
\* digest; the digest is taken to be injective.
Meanings ==
  [to: Targets \cup {None}, amount: Amounts \cup {None},
   snapshot: Snapshots, trust: Trusts]
NoMeaning ==
  [to |-> None, amount |-> None, snapshot |-> NoSnapshot, trust |-> None]

Payments ==
  [key: Keys \cup {None}, meaning: Meanings, status: Statuses,
   version: 0..2, confirmations: 0..2]
NoPayment ==
  [key |-> None, meaning |-> NoMeaning, status |-> None, version |-> 0,
   confirmations |-> 0]

Outcomes ==
  {None, "created", "existing", "conflict", "unavailable", "trust_required"}
Creates ==
  [at: {"idle", "replay", "claim", "done"}, key: Keys \cup {None},
   to: Targets \cup {None}, amount: Amounts \cup {None}, ack: BOOLEAN,
   outcome: Outcomes, got: Calls \cup {None}]
IdleCreate ==
  [at |-> "idle", key |-> None, to |-> None, amount |-> None, ack |-> FALSE,
   outcome |-> None, got |-> None]

ConfirmsState ==
  [at: {"idle", "transition", "reread", "done"}, payment: Calls \cup {None},
   hash: Meanings, version: 0..2,
   outcome: {None, "applied", "replayed", "conflict"}]
IdleConfirm ==
  [at |-> "idle", payment |-> None, hash |-> NoMeaning, version |-> 0,
   outcome |-> None]

TypeOK ==
  /\ directory \in [Recipients -> Entries]
  /\ create \in [Calls -> Creates]
  /\ payment \in [Calls -> Payments]
  /\ confirm \in [Confirms -> ConfirmsState]
  /\ receipt \in [Calls -> BOOLEAN]

Init ==
  /\ directory \in [Recipients -> Entries]
  /\ create = [c \in Calls |-> IdleCreate]
  /\ payment = [c \in Calls |-> NoPayment]
  /\ confirm = [f \in Confirms |-> IdleConfirm]
  /\ receipt = [c \in Calls |-> FALSE]

-----------------------------------------------------------------------------
\* The recipient, or an operator, changes the directory entry.
Edit(r) ==
  /\ \E entry \in Entries : directory' = [directory EXCEPT ![r] = entry]
  /\ UNCHANGED <<create, payment, confirm, receipt>>

\* create(): a payment identity is first looked up as a replay.
Begin(c, k, t, a, ack) ==
  /\ create[c].at = "idle"
  /\ t \in Wallets => ~ack
  /\ create' = [create EXCEPT ![c] =
       [at |-> IF t \in Wallets THEN "claim" ELSE "replay",
        key |-> k, to |-> t, amount |-> a, ack |-> ack,
        outcome |-> None, got |-> None]]
  /\ UNCHANGED <<directory, payment, confirm, receipt>>

Rows(k) == {p \in Calls : payment[p].status /= None /\ payment[p].key = k}

WalletMeaning(c) ==
  [to |-> create[c].to, amount |-> create[c].amount,
   snapshot |-> NoSnapshot, trust |-> None]

MatchesToday(p, c) ==
  /\ payment[p].meaning.to = create[c].to
  /\ payment[p].meaning.amount = create[c].amount
  /\ payment[p].meaning.trust = "ACKNOWLEDGED" => create[c].ack
  /\ create[c].to \in Recipients =>
       payment[p].meaning.snapshot.profile = directory[create[c].to].profile

(***************************************************************************)
(* Does the call mean what the row already says?  A wallet request by its  *)
(* hash; an identity request by matchesFrozenPaymentIdentityRequest, which *)
(* takes the recipient's meaning from the row and not from the directory.  *)
(***************************************************************************)
Matches(p, c) ==
  IF create[c].to \in Wallets
  THEN payment[p].meaning = WalletMeaning(c)
  ELSE /\ payment[p].meaning.to = create[c].to
       /\ payment[p].meaning.amount = create[c].amount
       /\ payment[p].meaning.trust = "ACKNOWLEDGED" => create[c].ack

Answer(c, outcome, p) ==
  create' = [create EXCEPT ![c] =
               [@ EXCEPT !.at = "done", !.outcome = outcome, !.got = p]]

AnswerFrom(c, p) ==
  Answer(c, IF Matches(p, c) THEN "existing" ELSE "conflict",
         IF Matches(p, c) THEN p ELSE None)

Replay(c) ==
  /\ create[c].at = "replay"
  /\ \/ \E p \in Rows(create[c].key) : AnswerFrom(c, p)
     \/ /\ Rows(create[c].key) = {}
        /\ create' = [create EXCEPT ![c] = [@ EXCEPT !.at = "claim"]]
  /\ UNCHANGED <<directory, payment, confirm, receipt>>

\* The directory query of claimPaymentIdentityKey, at the time of the claim.
Unavailable(c) ==
  create[c].to \in Recipients /\ ~directory[create[c].to].payable

NeedsTrust(c) ==
  create[c].to \in Recipients /\ ~directory[create[c].to].verified

Frozen(c) ==
  IF create[c].to \in Recipients
  THEN [profile |-> directory[create[c].to].profile,
        verified |-> directory[create[c].to].verified]
  ELSE NoSnapshot

TrustOutcome(c) ==
  IF create[c].to \in Wallets THEN None
  ELSE IF NeedsTrust(c) THEN "ACKNOWLEDGED"
  ELSE "NOT_REQUIRED"

Insert(c) ==
  payment' = [payment EXCEPT ![c] =
    [key |-> create[c].key,
     meaning |-> [to |-> create[c].to, amount |-> create[c].amount,
                  snapshot |-> Frozen(c), trust |-> TrustOutcome(c)],
     status |-> "AWAITING_CONFIRMATION", version |-> 0, confirmations |-> 0]]

KeyFreeAsReplayed(c) == TRUE
KeyFree(c) == Rows(create[c].key) = {}

(***************************************************************************)
(* claimPaymentIdentityKey, claimSyntheticPaymentIdentityKey and           *)
(* claimIdempotencyKey, each one transaction: the unique key decides.      *)
(***************************************************************************)
Claim(c) ==
  /\ create[c].at = "claim"
  /\ \/ /\ ~KeyFree(c)
        /\ \E p \in Rows(create[c].key) : AnswerFrom(c, p)
        /\ UNCHANGED payment
     \/ /\ KeyFree(c)
        /\ Unavailable(c)
        /\ Answer(c, "unavailable", None)
        /\ UNCHANGED payment
     \/ /\ KeyFree(c)
        /\ ~Unavailable(c)
        /\ NeedsTrust(c) /\ ~create[c].ack
        /\ Answer(c, "trust_required", None)
        /\ UNCHANGED payment
     \/ /\ KeyFree(c)
        /\ ~Unavailable(c)
        /\ NeedsTrust(c) => create[c].ack
        /\ Answer(c, "created", c)
        /\ Insert(c)
  /\ UNCHANGED <<directory, confirm, receipt>>

-----------------------------------------------------------------------------
ConfirmAnswer(f, outcome) ==
  confirm' = [confirm EXCEPT ![f] =
                [@ EXCEPT !.at = "done", !.outcome = outcome]]

HashMatchesTarget(p, h) == h.to = payment[p].meaning.to
HashMatches(p, h) == h = payment[p].meaning

\* requireMatchingHash, replayResult and the version check on what was read.
Judge(f, p, h, v) ==
  IF ~HashMatches(p, h) THEN "conflict"
  ELSE IF payment[p].status \in Confirmed THEN "replayed"
  ELSE IF payment[p].version /= v THEN "conflict"
  ELSE None

ReadForConfirm(f, p, h, v) ==
  LET judged == Judge(f, p, h, v)
  IN  /\ confirm[f].at = "idle"
      /\ payment[p].status /= None
      /\ confirm' = [confirm EXCEPT ![f] =
           [at |-> IF judged = None THEN "transition" ELSE "done",
            payment |-> p, hash |-> h, version |-> v, outcome |-> judged]]
      /\ UNCHANGED <<directory, create, payment, receipt>>

(***************************************************************************)
(* transitionPayment decides on the locked row.  A version that still      *)
(* holds means AWAITING_CONFIRMATION, so the lifecycle check never raises. *)
(***************************************************************************)
MayTransition(f) ==
  /\ payment[confirm[f].payment].version = confirm[f].version
  /\ payment[confirm[f].payment].status = "AWAITING_CONFIRMATION"

\* The row and its USER_CONFIRMED event are one transaction.
TransitionForConfirm(f) ==
  LET p == confirm[f].payment
  IN  /\ confirm[f].at = "transition"
      /\ \/ /\ MayTransition(f)
            /\ payment' = [payment EXCEPT ![p] =
                 [@ EXCEPT !.status = "PROCESSING",
                           !.version = payment[p].version + 1,
                           !.confirmations = payment[p].confirmations + 1]]
            /\ ConfirmAnswer(f, "applied")
         \/ /\ ~MayTransition(f)
            /\ confirm' = [confirm EXCEPT ![f] = [@ EXCEPT !.at = "reread"]]
            /\ UNCHANGED payment
      /\ UNCHANGED <<directory, create, receipt>>

ReplaysProcessing == {"PROCESSING"}
Replays == Confirmed

\* After a version conflict: the winner's state is this request's answer.
RereadForConfirm(f) ==
  LET p == confirm[f].payment
  IN  /\ confirm[f].at = "reread"
      /\ ConfirmAnswer(f, IF /\ HashMatches(p, confirm[f].hash)
                             /\ payment[p].status \in Replays
                          THEN "replayed" ELSE "conflict")
      /\ UNCHANGED <<directory, create, payment, receipt>>

(***************************************************************************)
(* Settlement of a confirmed payment: its receipt is inserted, and with a  *)
(* Devnet settlement the payment is completed in the same transaction; a   *)
(* Mock settlement leaves it PROCESSING.                                   *)
(***************************************************************************)
Receive(p, completes) ==
  /\ payment[p].status = "PROCESSING"
  /\ ~receipt[p]
  /\ receipt' = [receipt EXCEPT ![p] = TRUE]
  /\ payment' = IF completes
                THEN [payment EXCEPT ![p] =
                        [@ EXCEPT !.status = "COMPLETED",
                                  !.version = payment[p].version + 1]]
                ELSE payment
  /\ UNCHANGED <<directory, create, confirm>>

CreateStep(c) == Replay(c) \/ Claim(c)

ConfirmStep(f) ==
  \/ \E p, q \in Calls, v \in 0..2 :
       /\ payment[q].status /= None
       /\ ReadForConfirm(f, p, payment[q].meaning, v)
  \/ TransitionForConfirm(f)
  \/ RereadForConfirm(f)

Next ==
  \/ \E r \in Recipients : Edit(r)
  \/ \E c \in Calls :
       \/ \E k \in Keys, t \in Targets, a \in Amounts, ack \in BOOLEAN :
            Begin(c, k, t, a, ack)
       \/ CreateStep(c)
  \/ \E f \in Confirms : ConfirmStep(f)
  \/ \E p \in Calls, completes \in BOOLEAN : Receive(p, completes)

Spec == Init /\ [][Next]_intentVars

-----------------------------------------------------------------------------
Asked(c) == <<create[c].key, create[c].to, create[c].amount, create[c].ack>>
Succeeded(c) == create[c].outcome \in {"created", "existing"}

(* An account and an Idempotency-Key name one payment, however requests    *)
(* interleave between the replay check and the claim                       *)
(* (payments_actor_idempotency_unique, ON CONFLICT DO NOTHING).            *)
OnePaymentPerKey ==
  \A p, q \in Calls :
    /\ payment[p].status /= None
    /\ payment[q].status /= None
    /\ payment[p].key = payment[q].key
    => p = q

(* A create request that succeeds answers with a payment of its own key,   *)
(* recipient and amount, and one whose trust outcome the caller has itself *)
(* acknowledged, whichever call inserted it.                               *)
AnsweredAsAsked ==
  \A c \in Calls : Succeeded(c) =>
    LET p == payment[create[c].got]
    IN  /\ p.status /= None
        /\ p.key = create[c].key
        /\ p.meaning.to = create[c].to
        /\ p.meaning.amount = create[c].amount
        /\ p.meaning.trust = "ACKNOWLEDGED" => create[c].ack

(* A payment to a recipient not verified when it was claimed was           *)
(* acknowledged by the call that created it, whatever the directory said   *)
(* when the payer looked the recipient up.                                 *)
UnverifiedIsAcknowledged ==
  \A c \in Calls :
    /\ payment[c].meaning.to \in Recipients
    /\ ~payment[c].meaning.snapshot.verified
    => payment[c].meaning.trust = "ACKNOWLEDGED" /\ create[c].ack

(* A confirmation applies once: one USER_CONFIRMED event and one applied   *)
(* answer for a confirmed payment, none for an unconfirmed one.            *)
ConfirmedOnce ==
  \A p \in Calls :
    LET applied == {f \in Confirms : /\ confirm[f].payment = p
                                     /\ confirm[f].outcome = "applied"}
    IN  /\ \A f, g \in applied : f = g
        /\ payment[p].confirmations =
             IF payment[p].status \in Confirmed THEN 1 ELSE 0
        /\ applied /= {} <=> payment[p].status \in Confirmed

(* What is confirmed is what the user saw: a confirm request that is       *)
(* answered as applied or replayed carried the hash of the whole meaning   *)
(* of the payment, recipient snapshot and trust outcome included.          *)
ConfirmedAsSeen ==
  \A f \in Confirms : confirm[f].outcome \in {"applied", "replayed"} =>
    /\ payment[confirm[f].payment].status \in Confirmed
    /\ confirm[f].hash = payment[confirm[f].payment].meaning

(* Consent is informed, of the recipient's verification too.               *)
ConsentIsInformed == ConfirmedAsSeen /\ UnverifiedIsAcknowledged

(* A confirm request for the payment as it was created never fails because *)
(* another one, or the settlement, was faster                              *)
(* (docs/payment-intents-phase-a.md: "Matching retries return the          *)
(* canonical state without another transition").                           *)
MatchingConfirmSucceeds ==
  \A f \in Confirms :
    /\ confirm[f].at = "done"
    /\ confirm[f].version = 0
    /\ confirm[f].hash = payment[confirm[f].payment].meaning
    => confirm[f].outcome \in {"applied", "replayed"}

(* Replaying a request that succeeded answers with the same payment, even  *)
(* if the recipient has since changed its profile, lost its verification   *)
(* or become unavailable.                                                  *)
ReplayReturnsThePayment ==
  [][\A c, d \in Calls :
       /\ Succeeded(c)
       /\ create[d].at \in {"replay", "claim"}
       /\ create'[d].at = "done"
       /\ Asked(c) = Asked(d)
       => /\ create'[d].outcome = "existing"
          /\ create'[d].got = create[c].got]_intentVars

-----------------------------------------------------------------------------
LedgerOf(k) ==
  LET rows == Rows(k)
      p == CHOOSE q \in rows : TRUE
  IN  IF rows = {}
      THEN [stage |-> "EMPTY", meaning |-> NoMeaning, received |-> FALSE]
      ELSE [stage |-> payment[p].status, meaning |-> payment[p].meaning,
            received |-> receipt[p]]

Ledger == INSTANCE PaymentLedger
  WITH ledger <- [k \in Keys |-> LedgerOf(k)]

(* Per key, the tables implement a ledger entry that is opened once with   *)
(* terms that never change, confirmed once and received once.              *)
ImplementsLedger == Ledger!Spec
=============================================================================
