--------------------------- MODULE MCConfirmation ---------------------------
(***************************************************************************)
(* Instances of Confirmation for TLC: two web sessions for one payment,    *)
(* several payments and tokens of one call, concurrent confirms, and all   *)
(* that may change under a single call.                                    *)
(***************************************************************************)
EXTENDS Confirmation, TLC

CONSTANTS p1, p2, w1, w2, login, t1, t2, a1, a2, k1, k2, none

AllPayments == {p1, p2}
MCTokenOf == login :> none @@ t1 :> p1 @@ t2 :> p1

\* What goes on in a behavior.
VARIABLE scope

Sessions == [callers |-> {k1, k2}, payments |-> {p1}, references |-> {w1, w2},
             tokens |-> {t1}, access |-> {a1}, events |-> {"logout"}]
TwoPayments == [callers |-> {k1}, payments |-> {p1, p2}, references |-> {w1, w2},
             tokens |-> {login, t1}, access |-> {a1}, events |-> {"bind"}]
DoubleConfirm == [callers |-> {k1, k2}, payments |-> {p1}, references |-> {w1},
             tokens |-> {t1, t2}, access |-> {a1, a2}, events |-> {}]
Account == [callers |-> {k1}, payments |-> {p1}, references |-> {w1},
             tokens |-> {t1}, access |-> {a1},
             events |-> {"logout", "expiry", "status", "registry", "close", "confirm",
                          "revision", "bind"}]

InScope ==
  /\ \A k \in Callers : call'[k] /= Idle =>
       /\ k \in scope.callers
       /\ call'[k].payment \in scope.payments /\ call'[k].token \in scope.tokens
       /\ call'[k].reference \in scope.references /\ call'[k].access \in scope.access
  /\ "status" \notin scope.events => active'
  /\ "registry" \notin scope.events => qualified'
  /\ "expiry" \notin scope.events => expired' = {}
  /\ "close" \notin scope.events => closed' = {}
  /\ "logout" \notin scope.events => revoked' = {}
  /\ "confirm" \notin scope.events => confirmed' = {}
  /\ confirmed' \subseteq scope.payments /\ revoked' \subseteq scope.references
  /\ \A w \in References :
       /\ "logout" \notin scope.events => session'[w] /= "revoked"
       /\ "expiry" \notin scope.events => session'[w] /= "expired"
  /\ "bind" \notin scope.events => bound' = bound \/ call' /= call
  /\ \A t \in Tokens : bound'[t] /= NoReference =>
       t \in scope.tokens /\ bound'[t] \in scope.references
  /\ "revision" \notin scope.events =>
       (outdated' = outdated \/ session' /= session \/ active' /= active)

MCInit == Init /\ scope \in {Sessions, TwoPayments, DoubleConfirm, Account}
MCSpec == MCInit /\ [][Next /\ InScope /\ UNCHANGED scope]_<<vars, scope>>
=============================================================================
