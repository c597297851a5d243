------------------------ MODULE MCRecipientDirectory ------------------------
(* A small instance of RecipientDirectory for TLC: two logins of one or two  *)
(* principals, and an account made without a login that may be linked.       *)
EXTENDS RecipientDirectory, TLC

CONSTANTS a0, a1, a2, x1, x2, l1, l2, s1, d1, d2, u1, u2, w1, w2, q1, t1, t2

TheirAccount == (l1 :> a1) @@ (l2 :> a2)

\* Deep in the accounts or deep in the directory, and some of both.
Regions == {[mutations |-> 4, edits |-> 0], [mutations |-> 3, edits |-> 1],
            [mutations |-> 2, edits |-> 3], [mutations |-> 1, edits |-> 4]}

\* A login and the account it would make change places together.
LoginsSwapped == (l1 :> l2) @@ (l2 :> l1) @@ (a1 :> a2) @@ (a2 :> a1)
DirectorySymmetry ==
  {f @@ g @@ h @@ i @@ j @@ k :
     f \in Permutations({x1, x2}), g \in Permutations({d1, d2}),
     h \in Permutations({u1, u2}), i \in Permutations({w1, w2}),
     j \in Permutations({t1, t2}),
     k \in {LoginsSwapped, [e \in DOMAIN LoginsSwapped |-> e]}}
=============================================================================
