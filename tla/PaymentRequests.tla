-------------------------- MODULE PaymentRequests --------------------------
(***************************************************************************)
(* Payment requests: a requester asks the account of PaymentIntents for a  *)
(* payment, the payer accepts or declines, the requester may cancel.       *)
(* Accepting first creates the payment intent, by the create request of    *)
(* PaymentIntents under a key derived from the request, and links it to    *)
(* the request in a later transaction; a receipt for a linked payment      *)
(* marks the request paid in the receipt's own transaction.                *)
(***************************************************************************)
EXTENDS PaymentIntents

CONSTANTS
  Asks,        \* POST /payment-requests; a call also names the id it generates
  Closings,    \* decline and cancel requests
  AskKeys,     \* Idempotency-Key values the requesters use
  RequestKey   \* intentKey: the payer's key `payment-request:<id>` of a request

ASSUME AskAssumption ==
  /\ None \notin Asks
  /\ None \notin AskKeys
  /\ RequestKey \in [Asks -> Keys]
  /\ \A q, r \in Asks : RequestKey[q] = RequestKey[r] => q = r

VARIABLES
  ask,      \* requests to create a payment request
  request,  \* payment_requests, by the call that generated the id
  accept,   \* what a create request of the payer is doing for a request
  closing   \* decline and cancel requests

requestVars == <<ask, request, accept, closing>>
vars == <<intentVars, requestVars>>

\* No code writes EXPIRED.
RequestStatuses ==
  {None, "PENDING", "ACCEPTED", "DECLINED", "CANCELLED", "PAID"}


Requests ==
  [key: AskKeys \cup {None}, from: Recipients \cup {None},
   amount: Amounts \cup {None}, status: RequestStatuses, version: 0..2,
   link: Calls \cup {None}]
NoRequest ==
  [key |-> None, from |-> None, amount |-> None, status |-> None,
   version |-> 0, link |-> None]

AskStates ==
  [at: {"idle", "claim", "done"}, key: AskKeys \cup {None},
   from: Recipients \cup {None}, amount: Amounts \cup {None},
   outcome: {None, "created", "existing", "conflict", "unavailable"},
   got: Asks \cup {None}]
IdleAsk ==
  [at |-> "idle", key |-> None, from |-> None, amount |-> None,
   outcome |-> None, got |-> None]

AcceptStates ==
  [at: {"idle", "creating", "reread", "done"}, req: Asks \cup {None},
   version: 0..2,
   outcome: {None, "applied", "repeated", "conflict", "refused"}]
IdleAccept == [at |-> "idle", req |-> None, version |-> 0, outcome |-> None]

ClosingStates ==
  [at: {"idle", "write", "done"}, req: Asks \cup {None}, version: 0..2,
   to: {None, "DECLINED", "CANCELLED"}, outcome: {None, "applied", "conflict"}]
IdleClosing ==
  [at |-> "idle", req |-> None, version |-> 0, to |-> None, outcome |-> None]

RequestsTypeOK ==
  /\ TypeOK
  /\ ask \in [Asks -> AskStates]
  /\ request \in [Asks -> Requests]
  /\ accept \in [Calls -> AcceptStates]
  /\ closing \in [Closings -> ClosingStates]

RequestsInit ==
  /\ Init
  /\ ask = [q \in Asks |-> IdleAsk]
  /\ request = [q \in Asks |-> NoRequest]
  /\ accept = [c \in Calls |-> IdleAccept]
  /\ closing = [x \in Closings |-> IdleClosing]

-----------------------------------------------------------------------------
RequestRows(k, r) ==
  {q \in Asks : /\ request[q].status /= None
                /\ request[q].key = k
                /\ request[q].from = r}

AskAnswer(q, asked, outcome, got) ==
  ask' = [ask EXCEPT ![q] =
            [asked EXCEPT !.at = "done", !.outcome = outcome, !.got = got]]

\* paymentRequestHash: the requester, the payer, the amount and the purpose.
AskAnswerFrom(q, asked, p) ==
  IF request[p].amount = asked.amount
  THEN AskAnswer(q, asked, "existing", p)
  ELSE AskAnswer(q, asked, "conflict", None)

\* create(): findByIdempotencyKey, then the directory, outside a transaction.
AskLookup(q, k, r, a) ==
  LET asked == [IdleAsk EXCEPT !.key = k, !.from = r, !.amount = a]
  IN  /\ ask[q].at = "idle"
      /\ \/ \E p \in RequestRows(k, r) : AskAnswerFrom(q, asked, p)
         \/ /\ RequestRows(k, r) = {}
            /\ ~directory[r].payable
            /\ AskAnswer(q, asked, "unavailable", None)
         \/ /\ RequestRows(k, r) = {}
            /\ directory[r].payable
            /\ ask' = [ask EXCEPT ![q] = [asked EXCEPT !.at = "claim"]]
      /\ UNCHANGED <<intentVars, request, accept, closing>>

AskKeyFree(q) == RequestRows(ask[q].key, ask[q].from) = {}

AskClaim(q) ==
  /\ ask[q].at = "claim"
  /\ \/ /\ ~AskKeyFree(q)
        /\ \E p \in RequestRows(ask[q].key, ask[q].from) :
             AskAnswerFrom(q, ask[q], p)
        /\ UNCHANGED request
     \/ /\ AskKeyFree(q)
        /\ AskAnswer(q, ask[q], "created", q)
        /\ request' = [request EXCEPT ![q] =
             [NoRequest EXCEPT !.key = ask[q].key, !.from = ask[q].from,
                               !.amount = ask[q].amount, !.status = "PENDING"]]
  /\ UNCHANGED <<intentVars, accept, closing>>

-----------------------------------------------------------------------------
\* ownedPending
Pending(q, v) == request[q].status = "PENDING" /\ request[q].version = v

KeyForShared(q) == CHOOSE k \in Keys : TRUE
KeyFor(q) == RequestKey[q]

\* accept() as far as the first transaction of intents.create.
AcceptBegin(c, q, v, ack) ==
  /\ Pending(q, v)
  /\ Begin(c, KeyFor(q), request[q].from, request[q].amount, ack)
  /\ accept' = [accept EXCEPT ![c] =
                  [IdleAccept EXCEPT !.at = "creating", !.req = q, !.version = v]]
  /\ UNCHANGED <<ask, request, closing>>

AcceptAnswer(c, outcome) ==
  accept' = [accept EXCEPT ![c] = [@ EXCEPT !.at = "done", !.outcome = outcome]]

\* transition(): decided on the locked row.
RequestVersionHolds(q, v) == Pending(q, v)

AcceptLink(c) ==
  LET q == accept[c].req
  IN  /\ accept[c].at = "creating"
      /\ create[c].at = "done"
      /\ \/ /\ ~Succeeded(c)
            /\ AcceptAnswer(c, "refused")
            /\ UNCHANGED request
         \/ /\ Succeeded(c)
            /\ RequestVersionHolds(q, accept[c].version)
            /\ request' = [request EXCEPT ![q] =
                 [@ EXCEPT !.status = "ACCEPTED",
                           !.version = request[q].version + 1,
                           !.link = create[c].got]]
            /\ AcceptAnswer(c, "applied")
         \/ /\ Succeeded(c)
            /\ ~RequestVersionHolds(q, accept[c].version)
            /\ accept' = [accept EXCEPT ![c] = [@ EXCEPT !.at = "reread"]]
            /\ UNCHANGED request
      /\ UNCHANGED <<intentVars, ask, closing>>

RepeatsAnyway(c) == request[accept[c].req].status /= "PENDING"
Repeats(c) ==
  /\ request[accept[c].req].status = "ACCEPTED"
  /\ request[accept[c].req].link = create[c].got

\* After a version conflict: somebody else may have accepted for this payer.
AcceptReread(c) ==
  /\ accept[c].at = "reread"
  /\ AcceptAnswer(c, IF Repeats(c) THEN "repeated" ELSE "conflict")
  /\ UNCHANGED <<intentVars, ask, request, closing>>

CloseRead(x, q, v, to) ==
  /\ closing[x].at = "idle"
  /\ Pending(q, v)
  /\ closing' = [closing EXCEPT ![x] =
       [IdleClosing EXCEPT !.at = "write", !.req = q, !.version = v, !.to = to]]
  /\ UNCHANGED <<intentVars, ask, request, accept>>

CloseWrite(x) ==
  LET q == closing[x].req
      holds == RequestVersionHolds(q, closing[x].version)
  IN  /\ closing[x].at = "write"
      /\ closing' = [closing EXCEPT ![x] =
           [@ EXCEPT !.at = "done",
                     !.outcome = IF holds THEN "applied" ELSE "conflict"]]
      /\ request' = IF holds
                    THEN [request EXCEPT ![q] =
                            [@ EXCEPT !.status = closing[x].to,
                                      !.version = request[q].version + 1]]
                    ELSE request
      /\ UNCHANGED <<intentVars, ask, accept>>

-----------------------------------------------------------------------------
MarksPaid(q, p) == request[q].status = "ACCEPTED" /\ request[q].link = p

\* The trigger mark_payment_request_paid_from_receipt.
ReceiveAndMark(p, completes) ==
  /\ Receive(p, completes)
  /\ request' = [q \in Asks |->
       IF MarksPaid(q, p)
       THEN [request[q] EXCEPT !.status = "PAID",
                               !.version = request[q].version + 1]
       ELSE request[q]]
  /\ UNCHANGED <<ask, accept, closing>>

RequestStep ==
  \/ \E q \in Asks :
       \/ \E k \in AskKeys, r \in Recipients, a \in Amounts : AskLookup(q, k, r, a)
       \/ AskClaim(q)
  \/ \E c \in Calls :
       \/ \E q \in Asks, v \in 0..2, ack \in BOOLEAN : AcceptBegin(c, q, v, ack)
       \/ AcceptLink(c)
       \/ AcceptReread(c)
  \/ \E x \in Closings :
       \/ \E q \in Asks, v \in 0..2, to \in {"DECLINED", "CANCELLED"} :
            CloseRead(x, q, v, to)
       \/ CloseWrite(x)
  \/ \E p \in Calls, completes \in BOOLEAN : ReceiveAndMark(p, completes)

\* The payer's own requests use keys of their own.
OwnKeys == Keys \ {RequestKey[q] : q \in Asks}

IntentStep ==
  /\ \/ \E r \in Recipients : Edit(r)
     \/ \E c \in Calls :
          \/ \E k \in OwnKeys, t \in Targets, a \in Amounts, ack \in BOOLEAN :
               Begin(c, k, t, a, ack)
          \/ CreateStep(c)
     \/ \E f \in Confirms : ConfirmStep(f)
  /\ UNCHANGED requestVars

RequestsNext == RequestStep \/ IntentStep

RequestsSpec == RequestsInit /\ [][RequestsNext]_vars

-----------------------------------------------------------------------------
(* A request that was accepted is linked to the payment under its own key, *)
(* to the requester, for the amount asked, and no other request is linked  *)
(* to that payment; it is paid only once that payment was confirmed by the *)
(* payer and received.                                                     *)
LinkMeansTheRequest ==
  \A q \in Asks :
    IF request[q].status \in {"ACCEPTED", "PAID"}
    THEN LET p == payment[request[q].link]
         IN  /\ request[q].link \in Calls
             /\ p.key = RequestKey[q]
             /\ p.meaning.to = request[q].from
             /\ p.meaning.amount = request[q].amount
             /\ \A r \in Asks \ {q} : request[r].link /= request[q].link
             /\ request[q].status = "PAID" =>
                  receipt[request[q].link] /\ p.status \in Confirmed
    ELSE request[q].link = None

(* A requester and an Idempotency-Key name one request.  Of all accepts,   *)
(* declines and cancels of a request one applies, and the answers agree    *)
(* with the request: the accepts that succeed all answer with the linked   *)
(* payment, and a decline or cancel that succeeds leaves it closed.        *)
OneDecision ==
  \A q \in Asks :
    LET accepted == {c \in Calls : /\ accept[c].req = q
                                   /\ accept[c].outcome = "applied"}
        repeated == {c \in Calls : /\ accept[c].req = q
                                   /\ accept[c].outcome = "repeated"}
        closed == {x \in Closings : /\ closing[x].req = q
                                    /\ closing[x].outcome = "applied"}
    IN  /\ request[q].status /= None =>
             RequestRows(request[q].key, request[q].from) = {q}
        /\ \A c, d \in accepted : c = d
        /\ \A x, y \in closed : x = y
        /\ accepted = {} \/ closed = {}
        /\ \A c \in accepted \cup repeated :
             /\ request[q].status \in {"ACCEPTED", "PAID"}
             /\ request[q].link = create[c].got
        /\ \A x \in closed : request[q].status = closing[x].to

(* "Canonical receipt insertion transitions the linked request from        *)
(* accepted to paid" (docs/payment-requests.md:14): no accepted request    *)
(* has a linked payment that was already received.                         *)
ReceivedMeansPaid ==
  \A q \in Asks :
    request[q].status = "ACCEPTED" => ~receipt[request[q].link]
=============================================================================
