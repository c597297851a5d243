------------------------- MODULE Confirmation_proofs -------------------------
(***************************************************************************)
(* The evidence of a confirmation, its answers and its refusals for every  *)
(* number of payments, sessions, tokens and concurrent calls.  The         *)
(* inductive invariant says what a call knows at each of its transactions: *)
(* what it found or made before is still there, because preparation,       *)
(* ceremony, binding and admission are each written once.                  *)
(***************************************************************************)
EXTENDS Confirmation, TLAPS

(* The evidence of one payment, as EvidenceChain has it of all.            *)
ChainHolds(p) ==
  /\ p \in admitted => proof[p] /= NoProof
  /\ proof[p] /= NoProof => callback[p] = proof[p].token
  /\ callback[p] /= NoToken =>
       /\ p \in started
       /\ TokenOf[callback[p]] = p /\ bound[callback[p]] = ceremony[p]
  /\ p \in started => ceremony[p] /= NoReference
  /\ ceremony[p] /= NoReference => challenge[p] = ceremony[p]
  /\ challenge[p] /= NoReference => prepared[p] = challenge[p]
  /\ prepared[p] /= NoReference =>
       p \notin confirmed /\ session[prepared[p]] /= "none"

(* What a call knows: its action, the preparation of its session, and once *)
(* it has read the ceremony, that this is its session's.                   *)
CallHolds(k) ==
  call[k] /= Idle =>
    /\ call[k].at \in {"prepare", "challenge", "record"} => call[k].action = "prepare"
    /\ call[k].at = "bind" => call[k].action \in {"prepare", "start"}
    /\ call[k].at = "start" => call[k].action = "start"
    /\ call[k].at = "callback" => call[k].action = "callback"
    /\ call[k].at \in {"bind", "challenge", "record"} /\ call[k].action = "prepare" =>
         prepared[call[k].payment] = call[k].reference
    /\ \/ call[k].at \in {"prior", "start", "callback", "proof", "admit", "rescue", "answer"}
       \/ call[k].at = "bind" /\ call[k].action = "start"
       => ceremony[call[k].payment] = call[k].reference
    /\ call[k].at = "answer" /\ call[k].action = "confirm" => call[k].payment \in admitted

(* A logout has ended the session it names, or no such session comes.      *)
LogoutEnds == \A w \in References : w \in revoked => session[w] /= "active"

IInv ==
  /\ ConfirmationTypeOK
  /\ \A p \in Payments : ChainHolds(p)
  /\ \A k \in Callers : CallHolds(k)
  /\ LogoutEnds

-----------------------------------------------------------------------------
LEMMA ChainIsEvidence == EvidenceChain <=> \A p \in Payments : ChainHolds(p)
  BY DEF EvidenceChain, ChainHolds

LEMMA CallInProgress ==
  ASSUME ConfirmationTypeOK, NEW k \in Callers, call[k].at /= "idle"
  PROVE  /\ call[k] \in Calls /\ call[k] /= Idle
         /\ call[k].payment \in Payments /\ call[k].reference \in References
         /\ call[k].token \in Tokens /\ call[k].access \in Access
         /\ call[k].action \in Actions
  <1>1. call[k] \in Calls /\ call[k] /= Idle
    BY DEF ConfirmationTypeOK, Idle
  <1> QED BY <1>1 DEF Calls

LEMMA CallMoves ==
  ASSUME ConfirmationTypeOK, NEW k \in Callers, call[k].at /= "idle", NEW at \in Steps,
         GoTo(k, at)
  PROVE  /\ call' \in [Callers -> Calls \cup {Idle}]
         /\ call'[k].at = at /\ call'[k].action = call[k].action
         /\ call'[k].payment = call[k].payment /\ call'[k].reference = call[k].reference
         /\ call'[k].token = call[k].token /\ call'[k].access = call[k].access
         /\ \A j \in Callers \ {k} : call'[j] = call[j]
  <1> DEFINE new == [call[k] EXCEPT !.at = at]
  <1>1. call[k] \in Calls
    BY CallInProgress
  <1>2. /\ new \in Calls /\ new.at = at /\ new.action = call[k].action
        /\ new.payment = call[k].payment /\ new.reference = call[k].reference
        /\ new.token = call[k].token /\ new.access = call[k].access
    BY <1>1 DEF Calls
  <1>3. call' = [call EXCEPT ![k] = new]
    BY DEF GoTo
  <1> HIDE DEF new
  <1> QED BY <1>2, <1>3 DEF ConfirmationTypeOK

LEMMA CallReturns ==
  ASSUME ConfirmationTypeOK, NEW k \in Callers, Return(k)
  PROVE  /\ call' \in [Callers -> Calls \cup {Idle}] /\ call'[k] = Idle
         /\ \A j \in Callers \ {k} : call'[j] = call[j]
  BY DEF Return, ConfirmationTypeOK

(* What is written once stays.                                             *)
Written ==
  /\ \A p \in Payments : prepared[p] /= NoReference => prepared'[p] = prepared[p]
  /\ \A p \in Payments : ceremony[p] /= NoReference => ceremony'[p] = ceremony[p]
  /\ admitted \subseteq admitted'

LEMMA CallsStay ==
  ASSUME IInv, Written, NEW j \in Callers, call'[j] = call[j]
  PROVE  CallHolds(j)'
  <1>1. CallHolds(j)
    BY DEF IInv
  <1>2. call[j] /= Idle =>
          call[j].payment \in Payments /\ call[j].reference /= NoReference
    BY ConfirmationAssumption DEF IInv, ConfirmationTypeOK, Calls
  <1> QED BY <1>1, <1>2 DEF CallHolds, Written

(* A payment keeps its evidence where nothing of it changes.               *)
LEMMA ChainStays ==
  ASSUME IInv, NEW p \in Payments,
         prepared'[p] = prepared[p], challenge'[p] = challenge[p],
         ceremony'[p] = ceremony[p], callback'[p] = callback[p], proof'[p] = proof[p],
         p \in started' <=> p \in started, p \in admitted' <=> p \in admitted,
         \A w \in References : session[w] /= "none" => session'[w] /= "none",
         \A t \in Tokens : bound[t] /= NoReference => bound'[t] = bound[t],
         prepared[p] /= NoReference /\ p \in confirmed' => p \in confirmed
  PROVE  ChainHolds(p)'
  <1>1. ChainHolds(p)
    BY DEF IInv
  <1>2. /\ prepared[p] \in References \cup {NoReference}
        /\ callback[p] \in Tokens \cup {NoToken}
    BY DEF IInv, ConfirmationTypeOK
  <1> QED BY <1>1, <1>2 DEF ChainHolds

-----------------------------------------------------------------------------
(* What goes on around the calls: sessions and accounts end, challenges    *)
(* become worthless, payments without preparation are confirmed.           *)
LEMMA AroundInductive ==
  ASSUME IInv, ConfirmationTypeOK', \A k \in Callers : call'[k] = call[k],
         UNCHANGED <<prepared, challenge, ceremony, started, callback, proof, admitted>>,
         \A w \in References : session[w] /= "none" => session'[w] /= "none",
         \A t \in Tokens : bound[t] /= NoReference => bound'[t] = bound[t],
         \A p \in Payments : prepared[p] /= NoReference /\ p \in confirmed' => p \in confirmed,
         LogoutEnds'
  PROVE  IInv'
  <1>1. \A p \in Payments : ChainHolds(p)'
    BY ChainStays
  <1>2. \A k \in Callers : CallHolds(k)'
    BY CallsStay DEF Written
  <1> QED BY <1>1, <1>2 DEF IInv

LEMMA EnvironmentInductive ==
  ASSUME IInv, Environment
  PROVE  IInv'
  <1> USE DEF accountVars, envelopeVars, evidenceVars
  <1>1. ConfirmationTypeOK /\ LogoutEnds
    BY DEF IInv
  <1>2. Challenged \subseteq Payments
    BY DEF Challenged
  <1>3. ASSUME NEW w \in References, Logout(w) PROVE IInv'
    <2>1. /\ UNCHANGED <<active, qualified, confirmed, prepared, closed, challenge,
                         expired, evidenceVars, call>>
          /\ revoked' = revoked \cup {w}
          /\ \/ session' = [session EXCEPT ![w] = "revoked"]
             \/ session' = session /\ session[w] \notin {"active", "expired"}
          /\ outdated' \in {outdated, Challenged}
      BY <1>3 DEF Logout
    <2>2. ConfirmationTypeOK'
      BY <1>1, <1>2, <2>1 DEF ConfirmationTypeOK
    <2>3. LogoutEnds' /\ \A v \in References : session[v] /= "none" => session'[v] /= "none"
      BY <1>1, <2>1 DEF ConfirmationTypeOK, LogoutEnds
    <2> QED BY <2>1, <2>2, <2>3, AroundInductive
  <1>4. ASSUME NEW w \in References, RevokeSession(w) \/ SessionExpires(w) PROVE IInv'
    <2>1. /\ UNCHANGED <<active, qualified, revoked, confirmed, prepared, closed,
                         challenge, evidenceVars, call>>
          /\ \E end \in {"expired", "revoked"} : session' = [session EXCEPT ![w] = end]
          /\ outdated' \in {outdated, Challenged}
          /\ expired' \subseteq Payments
      BY <1>1, <1>4 DEF RevokeSession, SessionExpires, ConfirmationTypeOK
    <2>2. ConfirmationTypeOK'
      BY <1>1, <1>2, <2>1 DEF ConfirmationTypeOK
    <2>3. LogoutEnds' /\ \A v \in References : session[v] /= "none" => session'[v] /= "none"
      BY <1>1, <2>1 DEF ConfirmationTypeOK, LogoutEnds
    <2> QED BY <2>1, <2>2, <2>3, AroundInductive
  <1>5. CASE UpdateAccountStatus
    <2>1. /\ UNCHANGED <<qualified, session, revoked, confirmed, prepared, closed,
                         challenge, expired, evidenceVars, call>>
          /\ outdated' = Challenged
      BY <1>5 DEF UpdateAccountStatus
    <2>2. active' \in BOOLEAN
      BY <1>5, Zenon DEF UpdateAccountStatus
    <2>3. ConfirmationTypeOK'
      BY <1>1, <1>2, <2>1, <2>2 DEF ConfirmationTypeOK
    <2>4. LogoutEnds'
      BY <1>1, <2>1 DEF LogoutEnds
    <2> QED BY <2>1, <2>3, <2>4, AroundInductive
  <1>6. CASE CreateSession \/ RegisterPolicy \/ RevokeRegistry
    <2>1. /\ UNCHANGED <<active, session, revoked, confirmed, prepared, closed,
                         challenge, expired, evidenceVars, call>>
          /\ outdated' \in {outdated, Challenged}
          /\ qualified' \in {qualified, FALSE}
      BY <1>6 DEF CreateSession, RegisterPolicy, RevokeRegistry
    <2>2. ConfirmationTypeOK'
      BY <1>1, <1>2, <2>1 DEF ConfirmationTypeOK
    <2>3. LogoutEnds'
      BY <1>1, <2>1 DEF LogoutEnds
    <2> QED BY <2>1, <2>2, <2>3, AroundInductive
  <1>7. ASSUME NEW p \in Payments,
               ChallengeExpires(p) \/ EnvelopeCloses(p) \/ ConfirmPayment(p)
        PROVE  IInv'
    <2>1. /\ UNCHANGED <<active, qualified, session, revoked, prepared, challenge,
                         outdated, evidenceVars, call>>
          /\ expired' \subseteq Payments /\ closed' \subseteq Payments
          /\ confirmed' \subseteq Payments
          /\ \A q \in Payments : prepared[q] /= NoReference /\ q \in confirmed' => q \in confirmed
      BY <1>1, <1>7
         DEF ChallengeExpires, EnvelopeCloses, ConfirmPayment, ConfirmationTypeOK
    <2>2. ConfirmationTypeOK'
      BY <1>1, <2>1 DEF ConfirmationTypeOK
    <2>3. LogoutEnds'
      BY <1>1, <2>1 DEF LogoutEnds
    <2> QED BY <2>1, <2>2, <2>3, AroundInductive
  <1>8. ASSUME NEW t \in Tokens, NEW w \in References, BindSession(t, w) PROVE IInv'
    <2>1. /\ UNCHANGED <<accountVars, envelopeVars, ceremony, started, callback, proof,
                         admitted, call>>
          /\ bound' = [bound EXCEPT ![t] = w] /\ bound[t] \in {NoReference, w}
      BY <1>8 DEF BindSession, MayBind
    <2>2. ConfirmationTypeOK'
      BY <1>1, <2>1 DEF ConfirmationTypeOK
    <2>3. LogoutEnds' /\ \A u \in Tokens : bound[u] /= NoReference => bound'[u] = bound[u]
      BY <1>1, <2>1 DEF LogoutEnds, ConfirmationTypeOK
    <2> QED BY <2>1, <2>2, <2>3, AroundInductive
  <1> QED BY <1>3, <1>4, <1>5, <1>6, <1>7, <1>8 DEF Environment

-----------------------------------------------------------------------------
(* A call that starts, goes on without writing, or ends.                   *)
LEMMA ReadingInductive ==
  ASSUME IInv, UNCHANGED <<accountVars, envelopeVars, evidenceVars>>,
         call' \in [Callers -> Calls \cup {Idle}], NEW k \in Callers, CallHolds(k)',
         \A j \in Callers \ {k} : call'[j] = call[j]
  PROVE  IInv'
  <1> USE DEF accountVars, envelopeVars, evidenceVars
  <1>1. ConfirmationTypeOK'
    BY DEF IInv, ConfirmationTypeOK
  <1>2. \A p \in Payments : ChainHolds(p)'
    BY ChainStays
  <1>3. \A j \in Callers \ {k} : CallHolds(j)'
    BY CallsStay DEF Written
  <1>4. LogoutEnds'
    BY DEF IInv, LogoutEnds
  <1> QED BY <1>1, <1>2, <1>3, <1>4 DEF IInv

LEMMA SendInductive ==
  ASSUME IInv, NEW k \in Callers, NEW action \in Actions, NEW p \in Payments,
         NEW w \in References, NEW t \in Tokens, NEW a \in Access,
         Send(k, action, p, w, t, a)
  PROVE  IInv'
  <1> DEFINE new == [at |-> "session", action |-> action, payment |-> p, reference |-> w,
                     token |-> t, access |-> a]
  <1>1. call' = [call EXCEPT ![k] = new] /\ new \in Calls /\ new.at = "session"
    BY DEF Send, Calls, Steps
  <1>2. call' \in [Callers -> Calls \cup {Idle}] /\ call'[k].at = "session"
        /\ \A j \in Callers \ {k} : call'[j] = call[j]
    <2> HIDE DEF new
    <2> QED BY <1>1 DEF IInv, ConfirmationTypeOK
  <1>3. CallHolds(k)'
    BY <1>2 DEF CallHolds
  <1> QED BY <1>2, <1>3, ReadingInductive DEF Send

LEMMA ReturnInductive ==
  ASSUME IInv, NEW k \in Callers, Return(k),
         UNCHANGED <<accountVars, envelopeVars, evidenceVars>>
  PROVE  IInv'
  <1>1. call' \in [Callers -> Calls \cup {Idle}] /\ call'[k] = Idle
        /\ \A j \in Callers \ {k} : call'[j] = call[j]
    BY CallReturns DEF IInv
  <1>2. CallHolds(k)'
    BY <1>1 DEF CallHolds
  <1> QED BY <1>1, <1>2, ReadingInductive

LEMMA FindCeremonyInductive ==
  ASSUME IInv, NEW k \in Callers, FindCeremony(k)
  PROVE  IInv'
  <1>1. ConfirmationTypeOK /\ call[k].at = "ceremony"
    BY DEF FindCeremony, IInv
  <1>2. CASE call[k].action = "prepare" /\ GoTo(k, "prepare")
    <2>1. /\ call' \in [Callers -> Calls \cup {Idle}]
          /\ call'[k].at = "prepare" /\ call'[k].action = "prepare"
          /\ \A j \in Callers \ {k} : call'[j] = call[j]
      BY <1>1, <1>2, CallMoves DEF Steps
    <2>2. CallHolds(k)'
      BY <2>1 DEF CallHolds
    <2> QED BY <2>1, <2>2, ReadingInductive DEF FindCeremony
  <1>3. CASE ceremony[call[k].payment] = call[k].reference /\ GoTo(k, "prior")
    <2>1. /\ call' \in [Callers -> Calls \cup {Idle}]
          /\ call'[k].at = "prior"
          /\ call'[k].payment = call[k].payment /\ call'[k].reference = call[k].reference
          /\ \A j \in Callers \ {k} : call'[j] = call[j]
      BY <1>1, <1>3, CallMoves DEF Steps
    <2>2. CallHolds(k)'
      BY <1>3, <2>1 DEF CallHolds, FindCeremony, evidenceVars
    <2> QED BY <2>1, <2>2, ReadingInductive DEF FindCeremony
  <1> QED BY <1>2, <1>3 DEF FindCeremony

LEMMA ReadPriorInductive ==
  ASSUME IInv, NEW k \in Callers, ReadPrior(k)
  PROVE  IInv'
  <1>1. ConfirmationTypeOK /\ call[k].at = "prior" /\ CallHolds(k)
    BY DEF ReadPrior, IInv
  <1>2. call[k] /= Idle /\ ceremony[call[k].payment] = call[k].reference
    BY <1>1, CallInProgress DEF CallHolds
  <1>3. \/ Return(k)
        \/ call[k].action = "start" /\ GoTo(k, "bind")
        \/ call[k].action = "callback" /\ GoTo(k, "callback")
        \/ call[k].action = "confirm" /\ GoTo(k, "proof")
    BY DEF ReadPrior
  <1>4. CASE Return(k)
    BY <1>4, ReturnInductive DEF ReadPrior
  <1>5. ASSUME NEW at \in {"bind", "callback", "proof"}, GoTo(k, at),
               at = "bind" => call[k].action = "start",
               at = "callback" => call[k].action = "callback"
        PROVE  IInv'
    <2>1. /\ call' \in [Callers -> Calls \cup {Idle}]
          /\ call'[k].at = at /\ call'[k].action = call[k].action
          /\ call'[k].payment = call[k].payment /\ call'[k].reference = call[k].reference
          /\ \A j \in Callers \ {k} : call'[j] = call[j]
      BY <1>1, <1>5, CallMoves DEF Steps
    <2>2. CallHolds(k)'
      BY <1>2, <1>5, <2>1 DEF CallHolds, ReadPrior, evidenceVars
    <2> QED BY <2>1, <2>2, ReadingInductive DEF ReadPrior
  <1> QED BY <1>3, <1>4, <1>5

(* A failed confirm answers only what is admitted.                         *)
LEMMA RescueInductive ==
  ASSUME IInv, NEW k \in Callers, ConfirmFails(k) \/ RecoverConfirm(k)
  PROVE  IInv'
  <1> USE DEF accountVars, envelopeVars, evidenceVars
  <1>1. ConfirmationTypeOK /\ call[k].at \in {"proof", "admit", "rescue"} /\ CallHolds(k)
    BY DEF ConfirmFails, RecoverConfirm, IInv
  <1>2. call[k] /= Idle /\ ceremony[call[k].payment] = call[k].reference
    BY <1>1, CallInProgress DEF CallHolds
  <1>3. PICK at \in {"rescue", "answer"} :
          GoTo(k, at) /\ (at = "answer" => RecoverConfirm(k))
    BY DEF ConfirmFails, RecoverConfirm
  <1>4. RecoverConfirm(k) => call[k].payment \in admitted
    BY DEF RecoverConfirm, Recovers, WebState, Shown
  <1>5. /\ call' \in [Callers -> Calls \cup {Idle}]
        /\ call'[k].at = at /\ call'[k].action = call[k].action
        /\ call'[k].payment = call[k].payment /\ call'[k].reference = call[k].reference
        /\ \A j \in Callers \ {k} : call'[j] = call[j]
    BY <1>1, <1>3, CallMoves DEF Steps
  <1>6. UNCHANGED <<accountVars, envelopeVars, evidenceVars>>
    BY DEF ConfirmFails, RecoverConfirm
  <1>7. CallHolds(k)'
    BY <1>2, <1>3, <1>4, <1>5, <1>6 DEF CallHolds
  <1> QED BY <1>5, <1>6, <1>7, ReadingInductive

LEMMA OpenSessionInductive ==
  ASSUME IInv, NEW k \in Callers, OpenSession(k)
  PROVE  IInv'
  <1> USE DEF accountVars, envelopeVars, evidenceVars
  <1> DEFINE w == call[k].reference
  <1>1. ConfirmationTypeOK /\ LogoutEnds /\ call[k].at = "session"
    BY DEF IInv, OpenSession
  <1>2. w \in References /\ w \notin revoked
    BY <1>1, CallInProgress DEF OpenSession, MayOpen
  <1>3. /\ UNCHANGED <<active, qualified, revoked, confirmed, prepared, closed,
                       challenge, expired, evidenceVars>>
        /\ \/ session' = [session EXCEPT ![w] = "active"]
           \/ session' = session
        /\ outdated' \in {outdated, Challenged}
    BY DEF OpenSession
  <1>4. /\ call' \in [Callers -> Calls \cup {Idle}] /\ call'[k].at = "ceremony"
        /\ \A j \in Callers \ {k} : call'[j] = call[j]
    BY <1>1, CallMoves DEF OpenSession, Steps
  <1>5. ConfirmationTypeOK'
    <2>1. Challenged \subseteq Payments
      BY DEF Challenged
    <2> QED BY <1>1, <1>2, <1>3, <1>4, <2>1 DEF ConfirmationTypeOK
  <1>6. LogoutEnds' /\ \A v \in References : session[v] /= "none" => session'[v] /= "none"
    BY <1>1, <1>2, <1>3 DEF LogoutEnds, ConfirmationTypeOK
  <1>7. \A p \in Payments : ChainHolds(p)'
    BY <1>3, <1>6, ChainStays
  <1>8. CallHolds(k)'
    BY <1>4 DEF CallHolds
  <1>9. \A j \in Callers \ {k} : CallHolds(j)'
    BY <1>3, <1>4, CallsStay DEF Written
  <1> QED BY <1>5, <1>6, <1>7, <1>8, <1>9 DEF IInv

LEMMA PrepareInductive ==
  ASSUME IInv, NEW k \in Callers, Prepare(k)
  PROVE  IInv'
  <1> USE DEF accountVars, envelopeVars, evidenceVars
  <1>1. ConfirmationTypeOK /\ LogoutEnds /\ call[k].at = "prepare" /\ CallHolds(k)
    BY DEF IInv, Prepare
  <1>2. PICK p \in Payments, w \in References :
          p = call[k].payment /\ w = call[k].reference /\ w /= NoReference
    BY <1>1, CallInProgress, ConfirmationAssumption
  <1>3. /\ UNCHANGED <<accountVars, closed, challenge, expired, outdated, evidenceVars>>
        /\ prepared' = [prepared EXCEPT ![p] = w]
        /\ prepared[p] \in {NoReference, w}
        /\ prepared[p] = NoReference => p \notin confirmed
        /\ session[w] = "active"
    BY <1>2 DEF Prepare, Canonical
  <1>4. /\ call' \in [Callers -> Calls \cup {Idle}]
        /\ call'[k].at = "bind" /\ call'[k].action = "prepare"
        /\ call'[k].payment = p /\ call'[k].reference = w
        /\ \A j \in Callers \ {k} : call'[j] = call[j]
    BY <1>1, <1>2, CallMoves, CallInProgress DEF Prepare, Steps, CallHolds
  <1>5. ConfirmationTypeOK'
    BY <1>1, <1>2, <1>3, <1>4 DEF ConfirmationTypeOK
  <1>6. prepared'[p] = w /\ \A q \in Payments \ {p} : prepared'[q] = prepared[q]
    BY <1>1, <1>2, <1>3 DEF ConfirmationTypeOK
  <1>7. Written
    BY <1>3, <1>6 DEF Written
  <1>8. \A q \in Payments \ {p} : ChainHolds(q)'
    BY <1>3, <1>6, ChainStays
  <1>9. ChainHolds(p)'
    <2>1. ChainHolds(p)
      BY <1>2 DEF IInv
    <2> QED BY <1>2, <1>3, <1>6, <2>1 DEF ChainHolds
  <1>10. CallHolds(k)'
    BY <1>4, <1>6 DEF CallHolds
  <1>11. \A j \in Callers \ {k} : CallHolds(j)'
    BY <1>4, <1>7, CallsStay
  <1>12. LogoutEnds'
    BY <1>1, <1>3 DEF LogoutEnds
  <1> QED BY <1>5, <1>8, <1>9, <1>10, <1>11, <1>12 DEF IInv

LEMMA BindExistingSessionInductive ==
  ASSUME IInv, NEW k \in Callers, BindExistingSession(k)
  PROVE  IInv'
  <1> USE DEF accountVars, envelopeVars, evidenceVars
  <1>1. ConfirmationTypeOK /\ LogoutEnds /\ call[k].at = "bind" /\ CallHolds(k)
    BY DEF IInv, BindExistingSession
  <1> DEFINE w == call[k].reference
             t == call[k].token
             at == IF call[k].action = "prepare" THEN "challenge" ELSE "start"
  <1>2. t \in Tokens /\ w \in References /\ call[k] /= Idle /\ at \in Steps
    BY <1>1, CallInProgress DEF Steps
  <1>3. /\ UNCHANGED <<accountVars, envelopeVars, ceremony, started, callback, proof,
                       admitted>>
        /\ bound' = [bound EXCEPT ![t] = w] /\ bound[t] \in {NoReference, w}
        /\ GoTo(k, at)
    BY DEF BindExistingSession, MayBind
  <1>4. /\ call' \in [Callers -> Calls \cup {Idle}]
        /\ call'[k].at = at /\ call'[k].action = call[k].action
        /\ call'[k].payment = call[k].payment /\ call'[k].reference = call[k].reference
        /\ \A j \in Callers \ {k} : call'[j] = call[j]
    <2> HIDE DEF at
    <2> QED BY <1>1, <1>2, <1>3, CallMoves
  <1>5. CallHolds(k)'
    BY <1>1, <1>2, <1>3, <1>4 DEF CallHolds
  <1> HIDE DEF w, t, at
  <1>6. ConfirmationTypeOK'
    BY <1>1, <1>2, <1>3, <1>4 DEF ConfirmationTypeOK
  <1>7. \A u \in Tokens : bound[u] /= NoReference => bound'[u] = bound[u]
    BY <1>1, <1>2, <1>3 DEF ConfirmationTypeOK
  <1>8. \A q \in Payments : ChainHolds(q)'
    BY <1>3, <1>7, ChainStays
  <1>9. \A j \in Callers \ {k} : CallHolds(j)'
    BY <1>3, <1>4, CallsStay DEF Written
  <1>10. LogoutEnds'
    BY <1>1, <1>3 DEF LogoutEnds
  <1> QED BY <1>5, <1>6, <1>8, <1>9, <1>10 DEF IInv

LEMMA IssueChallengeInductive ==
  ASSUME IInv, NEW k \in Callers, IssueChallenge(k)
  PROVE  IInv'
  <1> USE DEF accountVars, envelopeVars, evidenceVars
  <1>1. /\ ConfirmationTypeOK /\ LogoutEnds /\ call[k].at = "challenge" /\ CallHolds(k)
        /\ call[k] /= Idle
    BY CallInProgress DEF IInv, IssueChallenge
  <1>2. PICK p \in Payments, w \in References, t \in Tokens, a \in Access :
          /\ p = call[k].payment /\ w = call[k].reference
          /\ t = call[k].token /\ a = call[k].access
    BY <1>1, CallInProgress
  <1>3. /\ UNCHANGED <<accountVars, prepared, closed, expired, outdated, evidenceVars>>
        /\ challenge' = [challenge EXCEPT ![p] = w] /\ challenge[p] \in {NoReference, w}
        /\ GoTo(k, "record")
    BY <1>2 DEF IssueChallenge
  <1>4. /\ call' \in [Callers -> Calls \cup {Idle}]
        /\ call'[k].at = "record" /\ call'[k].action = call[k].action
        /\ call'[k].payment = p /\ call'[k].reference = w
        /\ \A j \in Callers \ {k} : call'[j] = call[j]
    BY <1>1, <1>2, <1>3, CallMoves DEF Steps
  <1>5. ConfirmationTypeOK'
    BY <1>1, <1>2, <1>3, <1>4 DEF ConfirmationTypeOK
  <1>6. challenge'[p] = w /\ \A q \in Payments \ {p} : challenge'[q] = challenge[q]
    BY <1>1, <1>2, <1>3 DEF ConfirmationTypeOK
  <1>7. Written
    BY <1>3, <1>6 DEF Written
  <1>8. \A q \in Payments \ {p} : ChainHolds(q)'
    BY <1>3, <1>6, ChainStays
  <1>9. ChainHolds(p)'
    <2>1. ChainHolds(p)
      BY DEF IInv
    <2> QED BY <1>1, <1>2, <1>3, <1>6, <2>1, ConfirmationAssumption DEF ChainHolds, CallHolds
  <1>10. CallHolds(k)'
    BY <1>1, <1>2, <1>3, <1>4, <1>6 DEF CallHolds
  <1>11. \A j \in Callers \ {k} : CallHolds(j)'
    BY <1>4, <1>7, CallsStay
  <1>12. LogoutEnds'
    BY <1>1, <1>3 DEF LogoutEnds
  <1> QED BY <1>5, <1>8, <1>9, <1>10, <1>11, <1>12 DEF IInv

LEMMA RecordCeremonyInductive ==
  ASSUME IInv, NEW k \in Callers, RecordCeremony(k)
  PROVE  IInv'
  <1> USE DEF accountVars, envelopeVars, evidenceVars
  <1>1. /\ ConfirmationTypeOK /\ LogoutEnds /\ call[k].at = "record" /\ CallHolds(k)
        /\ call[k] /= Idle
    BY CallInProgress DEF IInv, RecordCeremony
  <1>2. PICK p \in Payments, w \in References, t \in Tokens, a \in Access :
          /\ p = call[k].payment /\ w = call[k].reference
          /\ t = call[k].token /\ a = call[k].access
    BY <1>1, CallInProgress
  <1>3. /\ UNCHANGED <<accountVars, envelopeVars, bound, started, callback, proof, admitted>>
        /\ ceremony' = [ceremony EXCEPT ![p] = w] /\ ceremony[p] \in {NoReference, w}
        /\ challenge[p] = w /\ GoTo(k, "prior")
    BY <1>2 DEF RecordCeremony
  <1>4. /\ call' \in [Callers -> Calls \cup {Idle}]
        /\ call'[k].at = "prior" /\ call'[k].action = call[k].action
        /\ call'[k].payment = p /\ call'[k].reference = w
        /\ \A j \in Callers \ {k} : call'[j] = call[j]
    BY <1>1, <1>2, <1>3, CallMoves DEF Steps
  <1>5. ConfirmationTypeOK'
    BY <1>1, <1>2, <1>3, <1>4 DEF ConfirmationTypeOK
  <1>6. ceremony'[p] = w /\ \A q \in Payments \ {p} : ceremony'[q] = ceremony[q]
    BY <1>1, <1>2, <1>3 DEF ConfirmationTypeOK
  <1>7. Written
    BY <1>3, <1>6 DEF Written
  <1>8. \A q \in Payments \ {p} : ChainHolds(q)'
    BY <1>3, <1>6, ChainStays
  <1>9. ChainHolds(p)'
    <2>1. ChainHolds(p) /\ callback[p] \in Tokens \cup {NoToken}
      BY <1>1 DEF IInv, ConfirmationTypeOK
    <2> QED BY <1>1, <1>2, <1>3, <1>6, <2>1, ConfirmationAssumption DEF ChainHolds
  <1>10. CallHolds(k)'
    BY <1>1, <1>2, <1>3, <1>4, <1>6 DEF CallHolds
  <1>11. \A j \in Callers \ {k} : CallHolds(j)'
    BY <1>4, <1>7, CallsStay
  <1>12. LogoutEnds'
    BY <1>1, <1>3 DEF LogoutEnds
  <1> QED BY <1>5, <1>8, <1>9, <1>10, <1>11, <1>12 DEF IInv

LEMMA StartSdkInductive ==
  ASSUME IInv, NEW k \in Callers, StartSdk(k)
  PROVE  IInv'
  <1> USE DEF accountVars, envelopeVars, evidenceVars
  <1>1. /\ ConfirmationTypeOK /\ LogoutEnds /\ call[k].at = "start" /\ CallHolds(k)
        /\ call[k] /= Idle
    BY CallInProgress DEF IInv, StartSdk
  <1>2. PICK p \in Payments, w \in References, t \in Tokens, a \in Access :
          /\ p = call[k].payment /\ w = call[k].reference
          /\ t = call[k].token /\ a = call[k].access
    BY <1>1, CallInProgress
  <1>3. /\ UNCHANGED <<accountVars, envelopeVars, ceremony, bound, callback, proof, admitted>>
        /\ started' = started \cup {p} /\ GoTo(k, "answer")
        /\ call[k].action = "start" /\ ceremony[p] = w
    BY <1>1, <1>2 DEF StartSdk, CallHolds
  <1>4. /\ call' \in [Callers -> Calls \cup {Idle}]
        /\ call'[k].at = "answer" /\ call'[k].action = call[k].action
        /\ call'[k].payment = p /\ call'[k].reference = w
        /\ \A j \in Callers \ {k} : call'[j] = call[j]
    BY <1>1, <1>2, <1>3, CallMoves DEF Steps
  <1>5. ConfirmationTypeOK'
    BY <1>1, <1>2, <1>3, <1>4 DEF ConfirmationTypeOK
  <1>6. \A q \in Payments \ {p} : q \in started' <=> q \in started
    BY <1>1, <1>2, <1>3 DEF ConfirmationTypeOK
  <1>7. Written
    BY <1>3, <1>6 DEF Written
  <1>8. \A q \in Payments \ {p} : ChainHolds(q)'
    BY <1>3, <1>6, ChainStays
  <1>9. ChainHolds(p)'
    <2>1. ChainHolds(p)
      BY DEF IInv
    <2> QED BY <1>1, <1>2, <1>3, <1>6, <2>1, ConfirmationAssumption DEF ChainHolds, CallHolds
  <1>10. CallHolds(k)'
    BY <1>1, <1>2, <1>3, <1>4, <1>6 DEF CallHolds
  <1>11. \A j \in Callers \ {k} : CallHolds(j)'
    BY <1>4, <1>7, CallsStay
  <1>12. LogoutEnds'
    BY <1>1, <1>3 DEF LogoutEnds
  <1> QED BY <1>5, <1>8, <1>9, <1>10, <1>11, <1>12 DEF IInv

LEMMA RecordProofInductive ==
  ASSUME IInv, NEW k \in Callers, RecordProof(k)
  PROVE  IInv'
  <1> USE DEF accountVars, envelopeVars, evidenceVars
  <1>1. /\ ConfirmationTypeOK /\ LogoutEnds /\ call[k].at = "proof" /\ CallHolds(k)
        /\ call[k] /= Idle
    BY CallInProgress DEF IInv, RecordProof
  <1>2. PICK p \in Payments, w \in References, t \in Tokens, a \in Access :
          /\ p = call[k].payment /\ w = call[k].reference
          /\ t = call[k].token /\ a = call[k].access
    BY <1>1, CallInProgress
  <1>3. /\ UNCHANGED <<accountVars, envelopeVars, ceremony, bound, started, callback, admitted>>
        /\ proof' = [proof EXCEPT ![p] = [token |-> t, access |-> a]]
        /\ callback[p] = t /\ ceremony[p] = w /\ GoTo(k, "admit")
    BY <1>1, <1>2 DEF RecordProof, CallHolds
  <1>4. /\ call' \in [Callers -> Calls \cup {Idle}]
        /\ call'[k].at = "admit" /\ call'[k].action = call[k].action
        /\ call'[k].payment = p /\ call'[k].reference = w
        /\ \A j \in Callers \ {k} : call'[j] = call[j]
    BY <1>1, <1>2, <1>3, CallMoves DEF Steps
  <1>5. ConfirmationTypeOK'
    BY <1>1, <1>2, <1>3, <1>4 DEF ConfirmationTypeOK
  <1>6. proof'[p] = [token |-> t, access |-> a] /\ \A q \in Payments \ {p} : proof'[q] = proof[q]
    BY <1>1, <1>2, <1>3 DEF ConfirmationTypeOK
  <1>7. Written
    BY <1>3, <1>6 DEF Written
  <1>8. \A q \in Payments \ {p} : ChainHolds(q)'
    BY <1>3, <1>6, ChainStays
  <1>9. ChainHolds(p)'
    <2>1. ChainHolds(p)
      BY DEF IInv
    <2> QED BY <1>1, <1>2, <1>3, <1>6, <2>1, ConfirmationAssumption DEF ChainHolds, CallHolds
  <1>10. CallHolds(k)'
    BY <1>1, <1>2, <1>3, <1>4, <1>6 DEF CallHolds
  <1>11. \A j \in Callers \ {k} : CallHolds(j)'
    BY <1>4, <1>7, CallsStay
  <1>12. LogoutEnds'
    BY <1>1, <1>3 DEF LogoutEnds
  <1> QED BY <1>5, <1>8, <1>9, <1>10, <1>11, <1>12 DEF IInv

LEMMA RecordCallbackInductive ==
  ASSUME IInv, NEW k \in Callers, RecordCallback(k)
  PROVE  IInv'
  <1> USE DEF accountVars, envelopeVars, evidenceVars
  <1>1. /\ ConfirmationTypeOK /\ LogoutEnds /\ call[k].at = "callback" /\ CallHolds(k)
        /\ call[k] /= Idle
    BY CallInProgress DEF IInv, RecordCallback
  <1>2. PICK p \in Payments, w \in References, t \in Tokens, a \in Access :
          /\ p = call[k].payment /\ w = call[k].reference
          /\ t = call[k].token /\ a = call[k].access
    BY <1>1, CallInProgress
  <1>3. /\ UNCHANGED <<accountVars, envelopeVars, ceremony, started, proof, admitted>>
        /\ bound' = [bound EXCEPT ![t] = challenge[p]]
        /\ bound[t] \in {NoReference, challenge[p]}
        /\ callback' = [callback EXCEPT ![p] = t] /\ callback[p] = NoToken
        /\ p \in started /\ TokenOf[t] = p /\ p \in Challenged
        /\ call[k].action = "callback" /\ ceremony[p] = w /\ GoTo(k, "answer")
    BY <1>1, <1>2 DEF RecordCallback, CallHolds, MayBind, Issued
  <1>4. /\ call' \in [Callers -> Calls \cup {Idle}]
        /\ call'[k].at = "answer" /\ call'[k].action = call[k].action
        /\ call'[k].payment = p /\ call'[k].reference = w
        /\ \A j \in Callers \ {k} : call'[j] = call[j]
    BY <1>1, <1>2, <1>3, CallMoves DEF Steps
  <1>5. ConfirmationTypeOK'
    BY <1>1, <1>2, <1>3, <1>4 DEF ConfirmationTypeOK
  <1>6. /\ callback'[p] = t /\ \A q \in Payments \ {p} : callback'[q] = callback[q]
        /\ bound'[t] = challenge[p]
        /\ \A u \in Tokens : bound[u] /= NoReference => bound'[u] = bound[u]
    BY <1>1, <1>2, <1>3 DEF ConfirmationTypeOK
  <1>7. Written
    BY <1>3, <1>6 DEF Written
  <1>8. \A q \in Payments \ {p} : ChainHolds(q)'
    BY <1>3, <1>6, ChainStays
  <1>9. ChainHolds(p)'
    <2>1. ChainHolds(p)
      BY DEF IInv
    <2>2. proof[p] = NoProof
      BY <1>1, <1>3, <2>1, ConfirmationAssumption DEF ChainHolds, ConfirmationTypeOK
    <2>3. ceremony[p] = challenge[p]
      BY <1>3, <2>1 DEF ChainHolds
    <2> QED BY <1>3, <1>6, <2>1, <2>2, <2>3 DEF ChainHolds
  <1>10. CallHolds(k)'
    BY <1>1, <1>2, <1>3, <1>4, <1>6 DEF CallHolds
  <1>11. \A j \in Callers \ {k} : CallHolds(j)'
    BY <1>4, <1>7, CallsStay
  <1>12. LogoutEnds'
    BY <1>1, <1>3 DEF LogoutEnds
  <1> QED BY <1>5, <1>8, <1>9, <1>10, <1>11, <1>12 DEF IInv

LEMMA AdmitInductive ==
  ASSUME IInv, NEW k \in Callers, Admit(k)
  PROVE  IInv'
  <1> USE DEF accountVars, envelopeVars, evidenceVars
  <1>1. /\ ConfirmationTypeOK /\ LogoutEnds /\ call[k].at = "admit" /\ CallHolds(k)
        /\ call[k] /= Idle
    BY CallInProgress DEF IInv, Admit
  <1>2. PICK p \in Payments, w \in References, t \in Tokens, a \in Access :
          /\ p = call[k].payment /\ w = call[k].reference
          /\ t = call[k].token /\ a = call[k].access
    BY <1>1, CallInProgress
  <1>3. /\ UNCHANGED <<accountVars, envelopeVars, ceremony, bound, started, callback, proof>>
        /\ admitted' = admitted \cup {p}
        /\ proof[p] = [token |-> t, access |-> a] /\ ceremony[p] = w
        /\ GoTo(k, "answer") \/ GoTo(k, "rescue")
    BY <1>1, <1>2 DEF Admit, CallHolds
  <1>4. /\ call' \in [Callers -> Calls \cup {Idle}]
        /\ call'[k].at \in {"answer", "rescue"} /\ call'[k].action = call[k].action
        /\ call'[k].payment = p /\ call'[k].reference = w
        /\ \A j \in Callers \ {k} : call'[j] = call[j]
    BY <1>1, <1>2, <1>3, CallMoves DEF Steps
  <1>5. ConfirmationTypeOK'
    BY <1>1, <1>2, <1>3, <1>4 DEF ConfirmationTypeOK
  <1>6. \A q \in Payments \ {p} : q \in admitted' <=> q \in admitted
    BY <1>1, <1>2, <1>3 DEF ConfirmationTypeOK
  <1>7. Written
    BY <1>3, <1>6 DEF Written
  <1>8. \A q \in Payments \ {p} : ChainHolds(q)'
    BY <1>3, <1>6, ChainStays
  <1>9. ChainHolds(p)'
    <2>1. ChainHolds(p) /\ [token |-> t, access |-> a] \in [token : Tokens, access : Access]
      BY DEF IInv
    <2> QED BY <1>3, <2>1, ConfirmationAssumption DEF ChainHolds
  <1>10. CallHolds(k)'
    BY <1>1, <1>2, <1>3, <1>4, <1>6 DEF CallHolds
  <1>11. \A j \in Callers \ {k} : CallHolds(j)'
    BY <1>4, <1>7, CallsStay
  <1>12. LogoutEnds'
    BY <1>1, <1>3 DEF LogoutEnds
  <1> QED BY <1>5, <1>8, <1>9, <1>10, <1>11, <1>12 DEF IInv

LEMMA CallStepInductive ==
  ASSUME IInv, NEW k \in Callers, CallStep(k)
  PROVE  IInv'
  <1>1. ASSUME NEW action \in Actions, NEW p \in Payments, NEW w \in References,
               NEW t \in Tokens, NEW a \in Access, Send(k, action, p, w, t, a)
        PROVE  IInv'
    BY <1>1, SendInductive
  <1>2. CASE Answer(k) \/ FailCall(k)
    BY <1>2, ReturnInductive DEF Answer, FailCall
  <1>3. CASE OpenSession(k) \/ FindCeremony(k) \/ Prepare(k) \/ BindExistingSession(k)
    BY <1>3, OpenSessionInductive, FindCeremonyInductive, PrepareInductive,
       BindExistingSessionInductive
  <1>4. CASE IssueChallenge(k) \/ RecordCeremony(k) \/ ReadPrior(k) \/ StartSdk(k)
    BY <1>4, IssueChallengeInductive, RecordCeremonyInductive, ReadPriorInductive,
       StartSdkInductive
  <1>5. CASE RecordCallback(k) \/ RecordProof(k) \/ Admit(k)
    BY <1>5, RecordCallbackInductive, RecordProofInductive, AdmitInductive
  <1>6. CASE ConfirmFails(k) \/ RecoverConfirm(k)
    BY <1>6, RescueInductive
  <1> QED BY <1>1, <1>2, <1>3, <1>4, <1>5, <1>6 DEF CallStep

LEMMA InitInductive == Init => IInv
  <1> SUFFICES ASSUME Init PROVE IInv
    OBVIOUS
  <1>1. ConfirmationTypeOK
    BY DEF Init, ConfirmationTypeOK
  <1>2. \A p \in Payments : ChainHolds(p)
    BY DEF Init, ChainHolds
  <1>3. \A k \in Callers : CallHolds(k)
    BY DEF Init, CallHolds
  <1>4. LogoutEnds
    BY DEF Init, LogoutEnds
  <1> QED BY <1>1, <1>2, <1>3, <1>4 DEF IInv

LEMMA NextInductive == IInv /\ [Next]_vars => IInv'
  <1> SUFFICES ASSUME IInv, [Next]_vars PROVE IInv'
    OBVIOUS
  <1>1. ASSUME NEW k \in Callers, CallStep(k) PROVE IInv'
    BY <1>1, CallStepInductive
  <1>2. CASE Environment
    BY <1>2, EnvironmentInductive
  <1>3. CASE UNCHANGED vars
    <2> USE <1>3 DEF vars, accountVars, envelopeVars, evidenceVars
    <2>1. ConfirmationTypeOK' /\ LogoutEnds'
      BY DEF IInv, ConfirmationTypeOK, LogoutEnds
    <2> QED BY <2>1, AroundInductive
  <1> QED BY <1>1, <1>2, <1>3 DEF Next

-----------------------------------------------------------------------------
(* The inductive invariant, from which the others follow.                  *)
THEOREM ConfirmationSafety == Spec => []IInv
  <1>1. Init => IInv
    BY InitInductive
  <1>2. IInv /\ [Next]_vars => IInv'
    BY NextInductive
  <1> QED BY <1>1, <1>2, PTL DEF Spec

(* Every variable keeps its type, however many calls run at once.          *)
THEOREM ConfirmationTypes == Spec => []ConfirmationTypeOK
  <1>1. IInv => ConfirmationTypeOK
    BY DEF IInv
  <1> QED BY <1>1, ConfirmationSafety, PTL

(* No interleaving mixes the evidence of two sessions or of two            *)
(* reauthentications in one payment.                                       *)
THEOREM EvidenceIsOfOneSession == Spec => []EvidenceChain
  <1>1. IInv => EvidenceChain
    BY ChainIsEvidence DEF IInv
  <1> QED BY <1>1, ConfirmationSafety, PTL

(* A confirm that gets an answer has the consent: the winner of a double   *)
(* confirm, its loser, and one that lost its answer.                       *)
THEOREM AnswersConsent == Spec => []ConfirmAnswersConsent
  <1>1. IInv => ConfirmAnswersConsent
    <2> SUFFICES ASSUME IInv, NEW k \in Callers,
                        call[k].at = "answer", call[k].action = "confirm"
                 PROVE  call[k].payment \in admitted
      BY DEF ConfirmAnswersConsent
    <2>1. call[k] /= Idle /\ CallHolds(k)
      BY CallInProgress DEF IInv
    <2> QED BY <2>1 DEF CallHolds
  <1> QED BY <1>1, ConfirmationSafety, PTL

-----------------------------------------------------------------------------
(* What no step takes back, and what each step that goes on rests on.      *)
Ended(w) == session[w] \in {"expired", "revoked"}
Forward ==
  /\ revoked \subseteq revoked' /\ expired \subseteq expired' /\ closed \subseteq closed'
  /\ admitted \subseteq admitted'
  /\ \A w \in References : Ended(w) => Ended(w)'
  /\ \A p \in Payments :
       /\ prepared'[p] /= prepared[p] => session[prepared'[p]] = "active"
       /\ challenge'[p] /= challenge[p] =>
            challenge[p] = NoReference /\ session[challenge'[p]] = "active"
       /\ p \in admitted' => p \in admitted \/ Issued(p)
  /\ \/ outdated' = Challenged
     \/ /\ outdated' = outdated /\ active' = active
        /\ \A w \in References : session'[w] = "active" => session[w] = "active"

LEMMA CallGoesForward ==
  ASSUME IInv, NEW k \in Callers, CallStep(k)
  PROVE  Forward
  <1> USE DEF accountVars, envelopeVars, evidenceVars
  <1>1. ConfirmationTypeOK
    BY DEF IInv
  <1>2. CASE OpenSession(k)
    <2>1. PICK w \in References : w = call[k].reference
      BY <1>1, <1>2, CallInProgress DEF OpenSession
    <2>2. /\ UNCHANGED <<active, revoked, prepared, closed, challenge, expired, admitted>>
          /\ \/ session[w] = "none" /\ session' = [session EXCEPT ![w] = "active"]
                /\ outdated' = Challenged
             \/ session' = session /\ outdated' = outdated
      BY <1>2, <2>1 DEF OpenSession
    <2> QED BY <1>1, <2>2 DEF Forward, Ended, ConfirmationTypeOK
  <1>3. CASE Prepare(k)
    <2>1. PICK p \in Payments, w \in References :
            p = call[k].payment /\ w = call[k].reference
      BY <1>1, <1>3, CallInProgress DEF Prepare
    <2>2. /\ UNCHANGED <<active, session, revoked, closed, challenge, expired, outdated, admitted>>
          /\ prepared' = [prepared EXCEPT ![p] = w] /\ session[w] = "active"
      BY <1>3, <2>1 DEF Prepare, Canonical
    <2> QED BY <1>1, <2>2 DEF Forward, Ended, ConfirmationTypeOK
  <1>4. CASE IssueChallenge(k)
    <2>1. PICK p \in Payments, w \in References :
            p = call[k].payment /\ w = call[k].reference
      BY <1>1, <1>4, CallInProgress DEF IssueChallenge
    <2>2. /\ UNCHANGED <<active, session, revoked, prepared, closed, expired, outdated, admitted>>
          /\ challenge' = [challenge EXCEPT ![p] = w] /\ challenge[p] \in {NoReference, w}
          /\ session[w] = "active"
      BY <1>4, <2>1 DEF IssueChallenge, Canonical
    <2> QED BY <1>1, <2>2 DEF Forward, Ended, ConfirmationTypeOK
  <1>5. CASE Admit(k)
    <2>1. PICK p \in Payments : p = call[k].payment
      BY <1>1, <1>5, CallInProgress DEF Admit
    <2>2. /\ UNCHANGED <<active, session, revoked, prepared, closed, challenge, expired, outdated>>
          /\ admitted' = admitted \cup {p} /\ Issued(p)
      BY <1>5, <2>1 DEF Admit
    <2> QED BY <2>2 DEF Forward, Ended
  <1>6. CASE UNCHANGED <<active, session, revoked, envelopeVars, admitted>>
    BY <1>6 DEF Forward, Ended
  <1>7. \/ OpenSession(k) \/ Prepare(k) \/ IssueChallenge(k) \/ Admit(k)
        \/ UNCHANGED <<active, session, revoked, envelopeVars, admitted>>
    BY DEF CallStep, Send, FindCeremony, BindExistingSession, RecordCeremony, ReadPrior,
           StartSdk, RecordCallback, RecordProof, ConfirmFails, RecoverConfirm, Answer,
           FailCall
  <1> QED BY <1>2, <1>3, <1>4, <1>5, <1>6, <1>7

LEMMA EnvironmentGoesForward ==
  ASSUME IInv, Environment
  PROVE  Forward
  <1> USE DEF accountVars, envelopeVars, evidenceVars
  <1>1. ConfirmationTypeOK
    BY DEF IInv
  <1>2. ASSUME NEW w \in References, Logout(w) \/ RevokeSession(w) \/ SessionExpires(w)
        PROVE  Forward
    <2>1. /\ UNCHANGED <<active, prepared, closed, challenge, admitted>>
          /\ revoked \subseteq revoked' /\ expired \subseteq expired'
          /\ \/ session' = session
             \/ \E end \in {"expired", "revoked"} : session' = [session EXCEPT ![w] = end]
          /\ outdated' \in {outdated, Challenged}
      BY <1>2 DEF Logout, RevokeSession, SessionExpires
    <2> QED BY <1>1, <2>1 DEF Forward, Ended, ConfirmationTypeOK
  <1>3. CASE UpdateAccountStatus
    BY <1>3 DEF UpdateAccountStatus, Forward, Ended
  <1>4. CASE \/ CreateSession \/ RegisterPolicy \/ RevokeRegistry
             \/ \E t \in Tokens, w \in References : BindSession(t, w)
    BY <1>4 DEF CreateSession, RegisterPolicy, RevokeRegistry, BindSession, Forward, Ended
  <1>5. CASE \E p \in Payments : ChallengeExpires(p) \/ EnvelopeCloses(p) \/ ConfirmPayment(p)
    BY <1>5 DEF ChallengeExpires, EnvelopeCloses, ConfirmPayment, Forward, Ended
  <1> QED BY <1>2, <1>3, <1>4, <1>5 DEF Environment

LEMMA NextGoesForward == IInv /\ [Next]_vars => Forward
  <1>1. UNCHANGED vars => Forward
    BY DEF vars, accountVars, envelopeVars, evidenceVars, Forward, Ended
  <1> QED BY <1>1, CallGoesForward, EnvironmentGoesForward DEF Next

(* No later call, retry or reinstatement revives a web session that was    *)
(* logged out or has ended.                                                *)
THEOREM LogoutIsFinal == Spec => RevokedStaysOut
  <1>1. IInv /\ IInv' /\ [Next]_vars =>
          \A w \in References : Out(w) =>
            /\ session'[w] /= "active"
            /\ \A p \in Payments :
                 /\ prepared'[p] = w => prepared[p] = w
                 /\ challenge'[p] = w => challenge[p] = w
                 /\ challenge[p] = w /\ p \in admitted' => p \in admitted
    <2> SUFFICES ASSUME IInv, IInv', [Next]_vars, NEW w \in References, Out(w)
                 PROVE  /\ session'[w] /= "active"
                        /\ \A p \in Payments :
                             /\ prepared'[p] = w => prepared[p] = w
                             /\ challenge'[p] = w => challenge[p] = w
                             /\ challenge[p] = w /\ p \in admitted' => p \in admitted
      OBVIOUS
    <2>1. Forward
      BY NextGoesForward
    <2>2. session[w] /= "active"
      BY DEF IInv, LogoutEnds, Out
    <2>3. session'[w] /= "active"
      BY <2>1 DEF IInv, LogoutEnds, Out, Forward, Ended
    <2>4. \A p \in Payments : Issued(p) => challenge[p] /= w
      BY <2>2 DEF Issued, Canonical
    <2> QED BY <2>1, <2>2, <2>3, <2>4 DEF Forward
  <1> QED BY <1>1, ConfirmationSafety, PTL DEF Spec, RevokedStaysOut

LEMMA ShownStays ==
  ASSUME IInv, [Next]_vars, NEW p \in Challenged
  PROVE  /\ Shown(p) \in {"EXPIRED", "INVALIDATED"} =>
              Shown(p)' \in {"EXPIRED", "INVALIDATED"}
         /\ Shown(p) = "CONFIRMED" => Shown(p)' = "CONFIRMED"
  <1>1. p \in Payments /\ challenge[p] /= NoReference
    BY DEF Challenged
  <1>2. Forward
    BY NextGoesForward
  <1>3. challenge'[p] = challenge[p] /\ challenge[p] \in References
    BY <1>1, <1>2 DEF Forward, IInv, ConfirmationTypeOK
  <1>4. CASE p \in admitted
    BY <1>2, <1>4 DEF Shown, Forward
  <1>5. CASE p \notin admitted /\ p \in expired
    <2>1. p \notin admitted' /\ p \in expired'
      BY <1>1, <1>2, <1>5 DEF Forward, Issued
    <2> QED BY <1>5, <2>1 DEF Shown
  <1>6. CASE /\ p \notin admitted \cup expired
             /\ ~Canonical(challenge[p]) \/ p \in outdated \cup closed
    <2>1. p \notin admitted'
      BY <1>1, <1>2, <1>6 DEF Forward, Issued
    <2>2. p \in outdated' \cup closed' \/ ~Canonical(challenge[p])'
      BY <1>2, <1>3, <1>6 DEF Forward, Canonical
    <2>3. Shown(p)' \in {"EXPIRED", "INVALIDATED"}
      BY <2>1, <2>2 DEF Shown
    <2> QED BY <1>6, <2>3 DEF Shown
  <1>7. CASE ~ \/ p \in admitted \cup expired
               \/ ~Canonical(challenge[p]) \/ p \in outdated \cup closed
    BY <1>7 DEF Shown
  <1> QED BY <1>4, <1>5, <1>6, <1>7

(* What a customer saw of a challenge that is over holds for ever.         *)
THEOREM OverIsOver == Spec => ShownIsFinal
  <1>1. IInv /\ [Next]_vars =>
          \A p \in Challenged :
            /\ Shown(p) \in {"EXPIRED", "INVALIDATED"} =>
                 Shown(p)' \in {"EXPIRED", "INVALIDATED"}
            /\ Shown(p) = "CONFIRMED" => Shown(p)' = "CONFIRMED"
    BY ShownStays
  <1> QED BY <1>1, ConfirmationSafety, PTL DEF Spec, ShownIsFinal
=============================================================================
