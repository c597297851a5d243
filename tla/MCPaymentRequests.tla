------------------------- MODULE MCPaymentRequests -------------------------
(***************************************************************************)
(* PaymentRequests for TLC, in one of two scopes: the payer's own payments *)
(* (PaymentIntents alone), or payment requests accepted by the payer.      *)
(***************************************************************************)
EXTENDS PaymentRequests, TLC

CONSTANTS c1, c2, f1, f2, q1, q2, k1, k2, k3, recipient, synthetic, wallet,
          small, large, before, after

OneRequestKey == q1 :> k1
TwoRequestKeys == (q1 :> k1) @@ (q2 :> k2)

VARIABLE scope

Steady(entry) == entry.profile = before /\ entry.verified

\* Every kind of recipient, whose entry changes in every way; one key.
Paying ==
  /\ ask' = ask
  /\ closing' = closing
  /\ accept' = accept
  /\ \A c \in Calls : create'[c].key \in {None, k3}

\* One verified recipient, payable or not, and one confirm request.
Asking ==
  /\ \A c \in Calls : create'[c].to \in Recipients \cup {None} /\ ~create'[c].ack
  /\ confirm'[f2] = IdleConfirm
  /\ \A r \in Recipients : Steady(directory'[r])

InScope == (scope = "paying" => Paying) /\ (scope = "asking" => Asking)

MCInit ==
  /\ RequestsInit
  /\ scope \in {"paying", "asking"}
  /\ scope = "asking" => \A r \in Recipients : Steady(directory[r])
MCSpec == MCInit /\ [][RequestsNext /\ InScope /\ UNCHANGED scope]_<<vars, scope>>

\* Sound for safety runs: the payer's calls are interchangeable.
RequestSymmetry == Permutations({c1, c2})
=============================================================================
