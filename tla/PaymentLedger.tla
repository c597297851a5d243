--------------------------- MODULE PaymentLedger ---------------------------
(***************************************************************************)
(* What payment intents promise an account: under each Idempotency-Key at  *)
(* most one payment is opened, its terms are fixed from then on, it is     *)
(* confirmed at most once, and only a confirmed payment is received, once. *)
(***************************************************************************)
CONSTANTS Keys, Meanings, NoMeaning

VARIABLE ledger  \* [stage, meaning, received] of every key

Empty == [stage |-> "EMPTY", meaning |-> NoMeaning, received |-> FALSE]

Init == ledger = [k \in Keys |-> Empty]

Open(k) ==
  /\ ledger[k] = Empty
  /\ ledger'[k].meaning \in Meanings
  /\ ledger' = [ledger EXCEPT ![k] =
       [Empty EXCEPT !.stage = "AWAITING_CONFIRMATION",
                     !.meaning = ledger'[k].meaning]]

Confirm(k) ==
  /\ ledger[k].stage = "AWAITING_CONFIRMATION"
  /\ ledger' = [ledger EXCEPT ![k].stage = "PROCESSING"]

Receive(k) ==
  /\ ledger[k].stage = "PROCESSING"
  /\ ~ledger[k].received
  /\ \E stage \in {"PROCESSING", "COMPLETED"} :
       ledger' = [ledger EXCEPT ![k] =
         [stage |-> stage, meaning |-> ledger[k].meaning, received |-> TRUE]]

Next == \E k \in Keys : Open(k) \/ Confirm(k) \/ Receive(k)

Spec == Init /\ [][Next]_ledger
=============================================================================
