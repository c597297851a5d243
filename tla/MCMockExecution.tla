-------------------------- MODULE MCMockExecution --------------------------
(* Small instances of MockExecution for TLC. *)
EXTENDS MockExecution, TLC

CONSTANTS e1, e2, w1, w2

\* MockRailScenario; the rail's reconcile decides the first group in the end.
DecidedScenarios ==
  {"accepted_then_settled", "unknown_then_settled", "unknown_then_failed",
   "authoritative_failed"}
AllScenarios ==
  DecidedScenarios \cup
    {"immediate_settled", "rejected_pre_submission", "accepted_pending",
     "unknown_submission"}
ShippedScenario == {"immediate_settled"}

\* Every remembered value, the row's own and a fresh one.
SmallVersions == 1..4
=============================================================================
