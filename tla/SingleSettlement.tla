-------------------------- MODULE SingleSettlement --------------------------
(***************************************************************************)
(* What the Devnet execution of a payment promises: of all the             *)
(* transactions it may sign, one is chosen, that one is handed to the      *)
(* network at most once, the network decides it at most once, and the      *)
(* payment is paid only after the decision is known to be success.         *)
(***************************************************************************)
EXTENDS Naturals

CONSTANTS
  Transactions,
  None  \* no transaction

VARIABLES
  chosen,   \* the transaction durably committed to, or None
  handed,   \* how often each transaction was handed to the network
  ledger,   \* the network's decision
  verdict,  \* the decision as the payment system durably knows it
  paid      \* the payment is complete

vars == <<chosen, handed, ledger, verdict, paid>>

Decisions == {"finalized", "failed"}

Init ==
  /\ chosen = None
  /\ handed = [t \in Transactions |-> 0]
  /\ ledger = "open"
  /\ verdict = "open"
  /\ paid = FALSE

Choose(t) ==
  /\ chosen = None
  /\ chosen' = t
  /\ UNCHANGED <<handed, ledger, verdict, paid>>

HandOver ==
  /\ chosen # None
  /\ \A t \in Transactions : handed[t] = 0
  /\ handed' = [handed EXCEPT ![chosen] = 1]
  /\ UNCHANGED <<chosen, ledger, verdict, paid>>

Decide ==
  /\ \E t \in Transactions : handed[t] > 0
  /\ ledger = "open"
  /\ ledger' \in Decisions
  /\ UNCHANGED <<chosen, handed, verdict, paid>>

Learn ==
  /\ ledger \in Decisions
  /\ verdict = "open"
  /\ verdict' = ledger
  /\ UNCHANGED <<chosen, handed, ledger, paid>>

Pay ==
  /\ verdict = "finalized"
  /\ ~paid
  /\ paid' = TRUE
  /\ UNCHANGED <<chosen, handed, ledger, verdict>>

Next == (\E t \in Transactions : Choose(t)) \/ HandOver \/ Decide \/ Learn \/ Pay

Spec == Init /\ [][Next]_vars
=============================================================================
