--------------------------- MODULE MCFinalization ---------------------------
(***************************************************************************)
(* Instances of Finalization for TLC.                                      *)
(***************************************************************************)
EXTENDS Finalization, TLC

CONSTANTS i1, i2, e11, e12, e21, c11, c12, c21, f1, f2, r1, r2, s1

AllIntents == {i1, i2}
AllEnvelopes == {e11, e12, e21}
MCIntentOf == e11 :> i1 @@ e12 :> i1 @@ e21 :> i2
MCGenerationOf == e11 :> 1 @@ e12 :> 2 @@ e21 :> 1
MCFee == e11 :> 1 @@ e12 :> 2 @@ e21 :> 2
MCEnvelopeOf == c11 :> e11 @@ c12 :> e12 @@ c21 :> e21

Wide == [limit |-> 3, outstanding |-> 2]
Narrow == [limit |-> 2, outstanding |-> 1]
MCBudgets == <<Wide, Narrow>>

Report(reference, bound, tx, cost, state) ==
  [reference |-> reference, bound |-> bound, tx |-> tx, cost |-> cost, state |-> state]
MCReports ==
  {Report("o1", TRUE, "other", 0, "POSSIBLE_EFFECT"),
   Report("o2", TRUE, "own", 1, "FINALIZED"),
   Report("o3", TRUE, "own", 0, "FINALIZED"),
   Report("o4", TRUE, "own", 0, "FINALIZED")}
MCSettlements == {[reference |-> "a1", cost |-> 0], [reference |-> "a2", cost |-> 1]}

\* What goes on in a behavior: `envelopes` that are registered, `callers` of
\* recover, evidence that ends, envelopes with failed claims, changes of the
\* budget, reports and settlements.
VARIABLE scope

Generations ==
  [envelopes |-> {e11, e12}, callers |-> {r1, r2},
   ending |-> {c12, "account"}, failing |-> {e11},
   revision |-> 1, reports |-> {}, settlements |-> {}]
Budgeting ==
  [envelopes |-> {e11, e21}, callers |-> {r1}, ending |-> {c21},
   failing |-> {}, revision |-> 3, reports |-> {}, settlements |-> {}]
Observing ==
  [envelopes |-> {e11}, callers |-> {r1, r2}, ending |-> {"registry"},
   failing |-> {}, revision |-> 1, reports |-> MCReports,
   settlements |-> MCSettlements]
Settling ==
  [envelopes |-> {e11, e21}, callers |-> {r1}, ending |-> {e21}, failing |-> {},
   revision |-> 1, reports |-> {}, settlements |-> MCSettlements]

InScope ==
  /\ \A e \in Envelopes \ scope.envelopes : attempt'[e] = "none"
  /\ \A r \in Recoverers \ scope.callers : call'[r] = Idle
  /\ \A c \in Consents \ scope.ending : consent'[c] /= "ended"
  /\ \A e \in Envelopes \ scope.ending : runtime'[e] /= "ended" /\ e \notin expired'
  /\ "account" \in scope.ending \/ active'
  /\ "registry" \in scope.ending \/ qualified'
  /\ tainted' \subseteq scope.failing
  /\ budget'.revision <= scope.revision
  /\ \A f \in Ids :
       /\ \A r \in Reports \ scope.reports : reported'[f][r] = "none"
       /\ scope.settlements = {} => \A e \in effects'[f] :
            \A s \in Settlements : e.reference /= s.reference

MCInit == Init /\ scope \in {Generations, Budgeting, Observing, Settling}
MCSpec == MCInit /\ [][Next /\ InScope /\ UNCHANGED scope]_<<vars, scope>>
=============================================================================
