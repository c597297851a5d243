--------------------------- MODULE MCPaymentStore ---------------------------
(***************************************************************************)
(* PaymentStore for TLC, in one of two scopes: transitions that bring      *)
(* evidence of their own, or informational events around plain ones.  One  *)
(* payment may go all the way, the other far enough to compete for a       *)
(* signature or a receipt account.                                         *)
(***************************************************************************)
EXTENDS PaymentStore, TLC

CONSTANTS p1, p2, s1, s2, n1, n2, b1, b2, d1, d2, e1

VARIABLE scope

Bounds == [p \in {p1, p2} |-> IF p = p1 THEN 4 ELSE 2]

\* A signature, a receipt account, both or neither.
MCBrought ==
  {e \in Evidence : e.blockhash = None /\ e.slot = None /\ e.proof = None}

\* No event is appended but by the other operations.
Bringing ==
  \A p \in Payments :
    \A n \in DOMAIN event'[p] : event'[p][n].type /= "SUBMISSION_STARTED"

\* A receipt account comes with a receipt, and a submission is not told apart.
Noting ==
  \A p \in Payments :
    /\ row'[p].evidence.pda = receipt'[p].pda
    /\ row'[p].evidence.blockhash = None

InScope == (scope = "bringing" => Bringing) /\ (scope = "noting" => Noting)

MCInit == StoreInit /\ scope \in {"bringing", "noting"}
MCSpec == MCInit /\ [][StoreNext /\ InScope /\ UNCHANGED scope]_<<storeVars, scope>>

\* No scope and no action tells these values apart.
StoreSymmetry ==
  {f @@ g @@ h @@ i :
     f \in Permutations({s1, s2}), g \in Permutations({n1, n2}),
     h \in Permutations({b1, b2}), i \in Permutations({d1, d2})}
=============================================================================
