-------------------------- MODULE MCDevnetContact --------------------------
(***************************************************************************)
(* DevnetExecution for TLC, in one of two scopes: everything that may hand *)
(* bytes to the provider, or everything that may record what became of it. *)
(***************************************************************************)
EXTENDS MCDevnetExecution

VARIABLE scope

\* Both requests, retried without end, and the preparation worker.
Contact == \A h \in Reconcilers : pc'[h] = "idle"

\* One request sent once, and two reconcilers; no refresh.
Fence ==
  /\ \A r \in Requests :
       /\ pc[r] # "idle" => pc'[r] # "idle"
       /\ \A q \in Requests \ {r} : pc'[r] # "idle" => pc'[q] = "idle"
  /\ \A p \in Preparers : pc'[p] = "idle"
  /\ prep'[2] = "ABSENT"

InScope == (scope = "contact" => Contact) /\ (scope = "fence" => Fence)

MCInit == Init /\ scope \in {"contact", "fence"}
MCSpec == MCInit /\ [][Next /\ InScope /\ UNCHANGED scope]_<<vars, scope>>

\* Sound for safety runs: no scope and no action tells these values apart.
ContactSymmetry ==
  {p @@ q @@ r : p \in Permutations({r1, r2}), q \in Permutations({h1, h2}),
                 r \in Permutations({t1, t2})}
=============================================================================
