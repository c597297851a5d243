---------------------------- MODULE Confirmation ----------------------------
(***************************************************************************)
(* ControlledWebConfirmation and what it calls: a customer prepares a      *)
(* payment in a web session, reauthenticates with the provider for it, and *)
(* confirms it, which admits the one consent of the payment's envelope.    *)
(* handle() is a sequence of transactions, of the identity service, of the *)
(* preparation service and of the issuer's confirmation bridge; between    *)
(* two of them other calls, logouts and changes of the account take their  *)
(* turns, and a call may fail at each.  The customer has one account and   *)
(* several web sessions; each creates at most one session of the account,  *)
(* which is named here by the web session's reference.                     *)
(***************************************************************************)
EXTENDS FiniteSets

CONSTANTS
  Payments, References,
  Tokens,   \* ID tokens that the customer's browser may hold
  TokenOf,  \* the payment whose challenge a token reauthenticates, or NoPayment
  Access,   \* access tokens
  Callers,  \* concurrent calls of handle
  NoPayment, NoReference, NoToken, NoProof

ASSUME ConfirmationAssumption ==
  /\ NoPayment \notin Payments /\ NoReference \notin References /\ NoToken \notin Tokens
  /\ TokenOf \in [Tokens -> Payments \cup {NoPayment}]
  /\ NoProof \notin [token : Tokens, access : Access]

VARIABLES
  active,    \* the account is ACTIVE
  qualified, \* network and assets are not revoked
  session,   \* economic_web_sessions and the account's session behind each
  revoked,   \* economic_web_revocations
  confirmed, \* payments confirmed without the ceremony
  prepared,  \* economic_payment_preparations: the session by payment
  closed,    \* envelopes no longer OPEN, or past their validity unchallenged
  challenge, \* economic_confirmation_challenges: the session by payment
  expired,   \* challenges past their expiry
  outdated,  \* challenges of an earlier account version, policy or provider key
  ceremony,  \* economic_web_ceremonies: the reference by payment
  bound,     \* economic_session_bindings of ID tokens
  started,   \* economic_confirmation_sdk_transactions
  callback,  \* economic_confirmation_sdk_callbacks: the token by payment
  proof,     \* economic_confirmation_proofs by payment
  admitted,  \* economic_confirmation_admissions, with consumption and consent
  call       \* the calls of handle

accountVars == <<active, qualified, session, revoked, confirmed>>
envelopeVars == <<prepared, closed, challenge, expired, outdated>>
evidenceVars == <<ceremony, bound, started, callback, proof, admitted>>
vars == <<accountVars, envelopeVars, evidenceVars, call>>

Idle == [at |-> "idle"]
Actions == {"prepare", "recover", "start", "callback", "confirm"}
Steps == {"session", "ceremony", "prepare", "bind", "challenge", "record", "prior",
          "start", "callback", "proof", "admit", "rescue", "answer"}
Calls == [at : Steps, action : Actions, payment : Payments, reference : References,
          token : Tokens, access : Access]

ConfirmationTypeOK ==
  /\ active \in BOOLEAN /\ qualified \in BOOLEAN
  /\ session \in [References -> {"none", "active", "expired", "revoked"}]
  /\ revoked \subseteq References
  /\ confirmed \subseteq Payments /\ closed \subseteq Payments
  /\ prepared \in [Payments -> References \cup {NoReference}]
  /\ challenge \in [Payments -> References \cup {NoReference}]
  /\ expired \subseteq Payments /\ outdated \subseteq Payments
  /\ ceremony \in [Payments -> References \cup {NoReference}]
  /\ bound \in [Tokens -> References \cup {NoReference}]
  /\ started \subseteq Payments
  /\ callback \in [Payments -> Tokens \cup {NoToken}]
  /\ proof \in [Payments -> [token : Tokens, access : Access] \cup {NoProof}]
  /\ admitted \subseteq Payments
  /\ call \in [Callers -> Calls \cup {Idle}]

Init ==
  /\ active = TRUE /\ qualified = TRUE
  /\ session = [w \in References |-> "none"]
  /\ revoked = {} /\ confirmed = {} /\ closed = {}
  /\ prepared = [p \in Payments |-> NoReference]
  /\ challenge = [p \in Payments |-> NoReference]
  /\ expired = {} /\ outdated = {}
  /\ ceremony = [p \in Payments |-> NoReference]
  /\ bound = [t \in Tokens |-> NoReference]
  /\ started = {}
  /\ callback = [p \in Payments |-> NoToken]
  /\ proof = [p \in Payments |-> NoProof]
  /\ admitted = {}
  /\ call = [k \in Callers |-> Idle]

-----------------------------------------------------------------------------
Challenged == {p \in Payments : challenge[p] /= NoReference}

\* lockCanonical, lockEconomicSession
Canonical(w) == active /\ session[w] = "active"

\* economic_confirmation_context and economic_confirmation_issued
Issued(p) ==
  /\ p \in Challenged /\ Canonical(challenge[p])
  /\ qualified /\ p \notin closed
  /\ p \notin expired \cup outdated \cup admitted

\* economic_confirmation_summary
Shown(p) ==
  CASE p \in admitted -> "CONFIRMED"
    [] p \notin admitted /\ p \in expired -> "EXPIRED"
    [] p \notin admitted \cup expired /\ ( \/ ~Canonical(challenge[p])
                                           \/ p \in outdated \cup closed) -> "INVALIDATED"
    [] OTHER -> "ISSUED"

\* state
WebState(p, token) ==
  CASE Shown(p) \in {"CONFIRMED", "EXPIRED"} -> Shown(p)
    [] Shown(p) = "INVALIDATED" -> "SESSION_CHANGED"
    [] Shown(p) = "ISSUED" /\ callback[p] = token -> "CONFIRMABLE"
    [] Shown(p) = "ISSUED" /\ callback[p] \notin {token, NoToken} -> "SESSION_CHANGED"
    [] Shown(p) = "ISSUED" /\ callback[p] = NoToken ->
         IF p \in started THEN "AUTHENTICATION_REQUIRED" ELSE "READY"

GoTo(k, at) == call' = [call EXCEPT ![k].at = at]
Return(k) == call' = [call EXCEPT ![k] = Idle]

\* handle, its packet verified and claimed
Send(k, action, p, w, token, access) ==
  /\ call[k] = Idle
  /\ call' = [call EXCEPT ![k] =
       [at |-> "session", action |-> action, payment |-> p, reference |-> w,
        token |-> token, access |-> access]]
  /\ UNCHANGED <<accountVars, envelopeVars, evidenceVars>>

ActiveAccount(w) == active  \* mutant

\* A logout that arrived before stays in force.
MayOpen(w) == w \notin revoked /\ active

\* session: the first prepare creates it, which changes the account's version.
OpenSession(k) ==
  LET w == call[k].reference
  IN  /\ call[k].at = "session" /\ MayOpen(w)
      /\ \/ /\ session[w] = "none" /\ call[k].action = "prepare"
            /\ session' = [session EXCEPT ![w] = "active"]
            /\ outdated' = Challenged
         \/ session[w] = "active" /\ UNCHANGED <<session, outdated>>
      /\ GoTo(k, "ceremony")
      /\ UNCHANGED <<active, qualified, revoked, confirmed, prepared, closed,
                     challenge, expired, evidenceVars>>

\* The ceremony that a callback's binding or the payment has.
FindCeremony(k) ==
  /\ call[k].at = "ceremony"
  /\ \/ /\ ceremony[call[k].payment] = NoReference /\ call[k].action = "prepare"
        /\ GoTo(k, "prepare")
     \/ ceremony[call[k].payment] = call[k].reference /\ GoTo(k, "prior")
  /\ UNCHANGED <<accountVars, envelopeVars, evidenceVars>>

\* PaymentEnvelopePreparation.prepare: a retry returns the preparation of its
\* own session, as old as it is.
Prepare(k) ==
  LET p == call[k].payment
      w == call[k].reference
  IN  /\ call[k].at = "prepare" /\ Canonical(w)
      /\ \/ prepared[p] = NoReference /\ p \notin confirmed /\ qualified
         \/ prepared[p] = w
      /\ prepared' = [prepared EXCEPT ![p] = w]
      /\ GoTo(k, "bind")
      /\ UNCHANGED <<accountVars, closed, challenge, expired, outdated, evidenceVars>>

BindAnyway(token, w) == Canonical(w)  \* mutant

\* bindEconomicSession: a binding cannot be moved to another session.
MayBind(token, w) == Canonical(w) /\ bound[token] \in {NoReference, w}

BindExistingSession(k) ==
  LET w == call[k].reference
  IN  /\ call[k].at = "bind" /\ MayBind(call[k].token, w)
      /\ bound' = [bound EXCEPT ![call[k].token] = w]
      /\ GoTo(k, IF call[k].action = "prepare" THEN "challenge" ELSE "start")
      /\ UNCHANGED <<accountVars, envelopeVars, ceremony, started, callback, proof,
                     admitted>>

\* The bridge's start, with the payment as the request: a retry returns the
\* challenge it has, whatever became of it.
IssueChallenge(k) ==
  LET p == call[k].payment
      w == call[k].reference
  IN  /\ call[k].at = "challenge"
      /\ Canonical(w) /\ qualified /\ p \notin closed
      /\ challenge[p] \in {NoReference, w}
      /\ challenge' = [challenge EXCEPT ![p] = w]
      /\ GoTo(k, "record")
      /\ UNCHANGED <<accountVars, prepared, closed, expired, outdated, evidenceVars>>

\* One ceremony per payment; a concurrent prepare may have recorded it.
RecordCeremony(k) ==
  LET p == call[k].payment
      w == call[k].reference
  IN  /\ call[k].at = "record" /\ prepared[p] = w /\ challenge[p] = w
      /\ ceremony[p] \in {NoReference, w}
      /\ ceremony' = [ceremony EXCEPT ![p] = w]
      /\ GoTo(k, "prior")
      /\ UNCHANGED <<accountVars, envelopeVars, bound, started, callback, proof, admitted>>

\* The state before the action answers for it, or lets it go on.
ReadPrior(k) ==
  LET state == WebState(call[k].payment, call[k].token)
      action == call[k].action
  IN  /\ call[k].at = "prior"
      /\ \/ /\ action \in {"prepare", "recover"} \/ state \in {"CONFIRMED", "EXPIRED"}
            /\ Return(k)
         \/ action = "start" /\ state = "READY" /\ GoTo(k, "bind")
         \/ action = "callback" /\ state \notin {"CONFIRMED", "EXPIRED"} /\ GoTo(k, "callback")
         \/ action = "confirm" /\ state = "CONFIRMABLE" /\ GoTo(k, "proof")
      /\ UNCHANGED <<accountVars, envelopeVars, evidenceVars>>

\* bindSdkTransaction
StartSdk(k) ==
  LET p == call[k].payment
  IN  /\ call[k].at = "start"
      /\ Issued(p) /\ bound[call[k].token] = challenge[p]
      /\ p \notin started /\ proof[p] = NoProof
      /\ started' = started \cup {p}
      /\ GoTo(k, "answer")
      /\ UNCHANGED <<accountVars, envelopeVars, ceremony, bound, callback, proof, admitted>>

\* recordSdkCallback: no second callback.
RecordCallback(k) ==
  LET p == call[k].payment
      token == call[k].token
  IN  /\ call[k].at = "callback"
      /\ Issued(p) /\ p \in started /\ TokenOf[token] = p
      /\ MayBind(token, challenge[p]) /\ callback[p] = NoToken
      /\ bound' = [bound EXCEPT ![token] = challenge[p]]
      /\ callback' = [callback EXCEPT ![p] = token]
      /\ GoTo(k, "answer")
      /\ UNCHANGED <<accountVars, envelopeVars, ceremony, started, proof, admitted>>

\* prepareConfirmation: a retry keeps the request, its access token included.
RecordProof(k) ==
  LET p == call[k].payment
      own == [token |-> call[k].token, access |-> call[k].access]
  IN  /\ call[k].at = "proof"
      /\ Issued(p) /\ callback[p] = call[k].token
      /\ proof[p] \in {NoProof, own}
      /\ proof' = [proof EXCEPT ![p] = own]
      /\ GoTo(k, "admit")
      /\ UNCHANGED <<accountVars, envelopeVars, ceremony, bound, started, callback, admitted>>

\* The bridge's confirm; its answer may get lost.
Admit(k) ==
  LET p == call[k].payment
  IN  /\ call[k].at = "admit"
      /\ Issued(p)
      /\ proof[p] = [token |-> call[k].token, access |-> call[k].access]
      /\ admitted' = admitted \cup {p}
      /\ GoTo(k, "answer") \/ GoTo(k, "rescue")
      /\ UNCHANGED <<accountVars, envelopeVars, ceremony, bound, started, callback, proof>>

ConfirmFails(k) ==
  /\ call[k].at \in {"proof", "admit"}
  /\ GoTo(k, "rescue")
  /\ UNCHANGED <<accountVars, envelopeVars, evidenceVars>>

ConfirmableWasEnough(k) ==  \* mutant
  WebState(call[k].payment, call[k].token) \in {"CONFIRMED", "CONFIRMABLE"}

\* A failed confirm recovers from the admission of another only.
Recovers(k) == WebState(call[k].payment, call[k].token) = "CONFIRMED"

RecoverConfirm(k) ==
  /\ call[k].at = "rescue" /\ Recovers(k)
  /\ GoTo(k, "answer")
  /\ UNCHANGED <<accountVars, envelopeVars, evidenceVars>>

Answer(k) ==
  /\ call[k].at = "answer"
  /\ Return(k)
  /\ UNCHANGED <<accountVars, envelopeVars, evidenceVars>>

\* A guard refuses, credentials or deployment are no longer current, a
\* connection breaks or the process stops.
FailCall(k) ==
  /\ call[k] /= Idle
  /\ Return(k)
  /\ UNCHANGED <<accountVars, envelopeVars, evidenceVars>>

-----------------------------------------------------------------------------
\* handle's revoke: the tombstone, and the end of the session if there is one
Logout(w) ==
  /\ revoked' = revoked \cup {w}
  /\ IF session[w] \in {"active", "expired"}
     THEN /\ session' = [session EXCEPT ![w] = "revoked"]
          /\ outdated' = Challenged
     ELSE UNCHANGED <<session, outdated>>
  /\ UNCHANGED <<active, qualified, confirmed, prepared, closed, challenge, expired,
                 evidenceVars, call>>

\* ProviderSessionAuthority.revoke
RevokeSession(w) ==
  /\ Canonical(w)
  /\ session' = [session EXCEPT ![w] = "revoked"]
  /\ outdated' = Challenged
  /\ UNCHANGED <<active, qualified, revoked, confirmed, prepared, closed, challenge,
                 expired, evidenceVars, call>>

\* No challenge outlives its session.
SessionExpires(w) ==
  /\ session[w] = "active"
  /\ session' = [session EXCEPT ![w] = "expired"]
  /\ expired' = expired \cup {p \in Payments : challenge[p] = w}
  /\ UNCHANGED <<active, qualified, revoked, confirmed, prepared, closed, challenge,
                 outdated, evidenceVars, call>>

ChangeStatusOnly ==  \* mutant
  /\ active' = ~active
  /\ UNCHANGED <<qualified, session, revoked, confirmed, prepared, closed, challenge,
                 expired, outdated, evidenceVars, call>>

UpdateAccountStatus ==
  /\ active' = ~active
  /\ outdated' = Challenged
  /\ UNCHANGED <<qualified, session, revoked, confirmed, prepared, closed, challenge,
                 expired, evidenceVars, call>>

\* ProviderSessionAuthority.create: a session of another device, which changes
\* the account's version.
CreateSession ==
  /\ active
  /\ outdated' = Challenged
  /\ UNCHANGED <<accountVars, prepared, closed, challenge, expired, evidenceVars, call>>

\* ProviderSessionAuthority.bind
BindSession(token, w) ==
  /\ MayBind(token, w)
  /\ bound' = [bound EXCEPT ![token] = w]
  /\ UNCHANGED <<accountVars, envelopeVars, ceremony, started, callback, proof,
                 admitted, call>>

\* registerConfirmationPolicy, or the provider's keys rotate.
RegisterPolicy ==
  /\ outdated' = Challenged
  /\ UNCHANGED <<accountVars, prepared, closed, challenge, expired, evidenceVars, call>>

ChallengeExpires(p) ==
  /\ p \in Challenged
  /\ expired' = expired \cup {p}
  /\ UNCHANGED <<accountVars, prepared, closed, challenge, outdated, evidenceVars, call>>

\* cancelAttempt, or the claim of an admitted consent
EnvelopeCloses(p) ==
  /\ prepared[p] /= NoReference
  /\ closed' = closed \cup {p}
  /\ UNCHANGED <<accountVars, prepared, challenge, expired, outdated, evidenceVars, call>>

RevokeRegistry ==
  /\ qualified' = FALSE
  /\ UNCHANGED <<active, session, revoked, confirmed, envelopeVars, evidenceVars, call>>

\* PaymentIntents' confirm, under economic_prepared_payment_guard
ConfirmPayment(p) ==
  /\ prepared[p] = NoReference
  /\ confirmed' = confirmed \cup {p}
  /\ UNCHANGED <<active, qualified, session, revoked, envelopeVars, evidenceVars, call>>

-----------------------------------------------------------------------------
CallStep(k) ==
  \/ \E action \in Actions, p \in Payments, w \in References, t \in Tokens, a \in Access :
       Send(k, action, p, w, t, a)
  \/ OpenSession(k) \/ FindCeremony(k) \/ Prepare(k) \/ BindExistingSession(k)
  \/ IssueChallenge(k) \/ RecordCeremony(k) \/ ReadPrior(k) \/ StartSdk(k)
  \/ RecordCallback(k) \/ RecordProof(k) \/ Admit(k) \/ ConfirmFails(k)
  \/ RecoverConfirm(k) \/ Answer(k) \/ FailCall(k)

Environment ==
  \/ \E w \in References : Logout(w) \/ RevokeSession(w) \/ SessionExpires(w)
  \/ \E t \in Tokens, w \in References : BindSession(t, w)
  \/ UpdateAccountStatus \/ CreateSession \/ RegisterPolicy \/ RevokeRegistry
  \/ \E p \in Payments : ChallengeExpires(p) \/ EnvelopeCloses(p) \/ ConfirmPayment(p)

Next == (\E k \in Callers : CallStep(k)) \/ Environment

Spec == Init /\ [][Next]_vars

-----------------------------------------------------------------------------
\* All evidence of a payment is of one web session and one reauthentication for
\* that payment: the consent rests on a proof, the proof on the callback of the
\* same token, the callback on a started ceremony and on the token's binding to
\* the session that prepared the payment; such a payment was never confirmed
\* without the ceremony.  No interleaving of two sessions or tokens may mix
\* them (prepare, bindEconomicSession, economic_read_confirmation_sdk,
\* economic_admit_confirmation).
EvidenceChain ==
  \A p \in Payments :
    /\ p \in admitted => proof[p] /= NoProof
    /\ proof[p] /= NoProof => callback[p] = proof[p].token
    /\ callback[p] /= NoToken =>
         /\ p \in started
         /\ TokenOf[callback[p]] = p /\ bound[callback[p]] = ceremony[p]
    /\ p \in started => ceremony[p] /= NoReference
    /\ ceremony[p] /= NoReference => challenge[p] = ceremony[p]
    /\ challenge[p] /= NoReference => prepared[p] = challenge[p]
    /\ prepared[p] /= NoReference =>
         p \notin confirmed /\ session[prepared[p]] /= "none"

\* Every confirm that gets an answer after its attempt has the consent: the
\* loser of a double confirm, or one whose answer got lost, recovers the
\* committed result, and no failed confirm is answered as if it went through
\* (the catch in handle).
ConfirmAnswersConsent ==
  \A k \in Callers :
    call[k].at = "answer" /\ call[k].action = "confirm" => call[k].payment \in admitted

\* After a logout, which may come before the first prepare of its session, or
\* once its session has ended, a web session gets nothing more: no session, no
\* preparation, no challenge, no consent (economic_web_revocations, session).
Out(w) == w \in revoked \/ session[w] \in {"expired", "revoked"}
RevokedStaysOut ==
  [][\A w \in References : Out(w) =>
       /\ session'[w] /= "active"
       /\ \A p \in Payments :
            /\ prepared'[p] = w => prepared[p] = w
            /\ challenge'[p] = w => challenge[p] = w
            /\ challenge[p] = w /\ p \in admitted' => p \in admitted]_vars

\* What a customer saw of a payment's challenge holds: a challenge that was
\* shown EXPIRED or INVALIDATED never becomes ISSUED or CONFIRMED, not even
\* when a suspended account is reinstated, and a confirmed one stays so
\* (economic_confirmation_summary against economic_confirmation_issued).
ShownIsFinal ==
  [][\A p \in Challenged :
       /\ Shown(p) \in {"EXPIRED", "INVALIDATED"} =>
            Shown(p)' \in {"EXPIRED", "INVALIDATED"}
       /\ Shown(p) = "CONFIRMED" => Shown(p)' = "CONFIRMED"]_vars
=============================================================================
