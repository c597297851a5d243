---------------------------- MODULE Finalization ----------------------------
(***************************************************************************)
(* PostgresFinalizationRepository and the database functions behind it: a  *)
(* customer's payment for which a sponsor pays the fee.  An attempt is     *)
(* registered, cancelled and replaced by the next generation, or claimed   *)
(* for finalization under the evidence of consent and Runtime decision and *)
(* within the sponsor's budget.  A claimed attempt gets one contact with   *)
(* the sponsor's signer; without one it may expire.  Observers report what *)
(* the chain did, which settles what the claim reserved.  Every action but *)
(* the signer's is one transaction under the locks of the intent's head    *)
(* and the budget's.                                                       *)
(***************************************************************************)
EXTENDS Integers, FiniteSets, FiniteSetsExt

CONSTANTS
  Intents, Envelopes, Consents,
  IntentOf,      \* the intent of an envelope
  GenerationOf,  \* the generation of an envelope
  Fee,           \* the most the sponsor pays for an envelope, in one dimension
  EnvelopeOf,    \* the envelope that a consent confirms
  Signatures,    \* signatures of the customer
  Ids,           \* identifiers of finalizations
  Recoverers,    \* concurrent callers of recover
  Budgets,       \* versions of the sponsor's budget, as a sequence
  MaxRevision,   \* bound: changes of the budget's head
  Ending,        \* bound: evidence that may end
  Reports,       \* what an observer may report of a finalization
  Settlements    \* what an exposure observer may answer

ASSUME FinalizationAssumption ==
  /\ IntentOf \in [Envelopes -> Intents]
  /\ GenerationOf \in [Envelopes -> Nat \ {0}]
  /\ Fee \in [Envelopes -> Nat]
  /\ EnvelopeOf \in [Consents -> Envelopes]
  /\ MaxRevision \in Nat
  /\ Reports \subseteq
       [reference : STRING, bound : BOOLEAN, tx : {"own", "other"}, cost : Nat,
        state : {"UNKNOWN", "POSSIBLE_EFFECT", "FINALIZED"}]
  /\ Settlements \subseteq [reference : STRING, cost : Nat]
  /\ \A r \in Reports, s \in Settlements : r.reference /= s.reference

ASSUME BudgetAssumption ==
  /\ 1 \in DOMAIN Budgets
  /\ \A n \in DOMAIN Budgets : Budgets[n].limit \in Nat /\ Budgets[n].outstanding \in Nat

VARIABLES
  head,      \* economic_attempt_heads: the current generation, 0 without one
  attempt,   \* economic_attempts by envelope
  consent,   \* economic_consent_evidence, its session included
  runtime,   \* economic_runtime_evidence by envelope
  expired,   \* envelopes past their validity
  active,    \* the principal's account is ACTIVE
  qualified, \* network and assets are not revoked
  budget,    \* economic_budget_heads of the sponsor
  final,     \* economic_finalizations by id
  frozen,    \* finalizations with an economic_authority_incident
  tainted,   \* envelopes with a callback REJECTED or SPONSOR_RESULT_PRESENT
  reported,  \* economic_observer_reports: the disposition by report
  effects,   \* economic_effect_evidence by finalization
  call,      \* the recoverers' calls
  contacts,  \* history: requests for a signature sent to the signer
  signer     \* the signer's own decision

authorityVars == <<consent, runtime, expired, active, qualified>>
evidenceVars == <<frozen, tainted, reported, effects>>
signerVars == <<call, contacts, signer>>
vars == <<head, attempt, authorityVars, budget, final, evidenceVars, signerVars>>

Tuples == {t \in [envelope : Envelopes, consent : Consents,
                  signature : Signatures] : EnvelopeOf[t.consent] = t.envelope}
Terminal == {"REFUSED", "RESULT_AVAILABLE", "EXPIRED_NEVER_CONTACTED"}
SignerStates == Terminal \cup {"NOT_CONTACTED", "CONTACT_COMMITTED", "RESULT_UNKNOWN"}
NoFinalization == [signer |-> "none"]
Finalizations ==
  [tuple : Tuples, signer : SignerStates, budget : DOMAIN Budgets,
   exposure : {"RESERVED", "UNCERTAIN", "RELEASED", "CONSUMED"}, consumed : Nat]
Evidence == [kind : {"POSSIBLE_EFFECT", "FINALIZED_ACCOUNTING"},
             tx : {"own", "other"}, cost : Nat, reference : STRING]
Idle == [at |-> "idle"]
Responses == {"LOST", "UNKNOWN", "REFUSED", "SIGNED", "MISBOUND"}
Calls == [at : {"finalize", "waiting", "answered", "unknown", "conflict", "report"},
          id : Ids, response : Responses \cup {"none"}]

FinalizationTypeOK ==
  /\ head \in [Intents -> Nat]
  /\ attempt \in [Envelopes -> {"none", "OPEN", "CANCELLED", "FINALIZATION_COMMITTED"}]
  /\ consent \in [Consents -> {"none", "valid", "ended"}]
  /\ runtime \in [Envelopes -> {"none", "valid", "ended"}]
  /\ expired \subseteq Envelopes /\ active \in BOOLEAN /\ qualified \in BOOLEAN
  /\ budget \in [status : {"ACTIVE", "DISABLED"}, version : DOMAIN Budgets,
                 revision : Nat]
  /\ final \in [Ids -> Finalizations \cup {NoFinalization}]
  /\ frozen \subseteq Ids /\ tainted \subseteq Envelopes
  /\ reported \in [Ids -> [Reports ->
       {"none", "PENDING", "POSSIBLE_EFFECT", "FINALIZED", "INCIDENT"}]]
  /\ effects \in [Ids -> SUBSET Evidence]
  /\ call \in [Recoverers -> Calls \cup {Idle}]
  /\ contacts \in [Ids -> Nat]
  /\ signer \in [Ids -> {"none", "SIGNED", "REFUSED"}]

Init ==
  /\ head = [i \in Intents |-> 0]
  /\ attempt = [e \in Envelopes |-> "none"]
  /\ consent = [c \in Consents |-> "none"]
  /\ runtime = [e \in Envelopes |-> "none"]
  /\ expired = {} /\ active = TRUE /\ qualified = TRUE
  /\ budget = [status |-> "ACTIVE", version |-> 1, revision |-> 1]
  /\ final = [f \in Ids |-> NoFinalization]
  /\ frozen = {} /\ tainted = {}
  /\ reported = [f \in Ids |-> [r \in Reports |-> "none"]]
  /\ effects = [f \in Ids |-> {}]
  /\ call = [r \in Recoverers |-> Idle]
  /\ contacts = [f \in Ids |-> 0]
  /\ signer = [f \in Ids |-> "none"]

-----------------------------------------------------------------------------
Exists(f) == final[f] /= NoFinalization
Current(e) == head[IntentOf[e]] = GenerationOf[e]

\* replaceCancelledAttemptV1 and economic_head_guard
Replaces(e) ==
  \/ head[IntentOf[e]] = 0 /\ GenerationOf[e] = 1
  \/ /\ GenerationOf[e] = head[IntentOf[e]] + 1
     /\ \E p \in Envelopes : /\ IntentOf[p] = IntentOf[e] /\ Current(p)
                             /\ attempt[p] = "CANCELLED"

\* The envelope in its validity, its principal ACTIVE, its network and assets
\* qualified.
Qualified(e) == e \notin expired /\ active /\ qualified

\* loadAuthoritativeEvidence
Authorized(t) ==
  /\ Qualified(t.envelope)
  /\ consent[t.consent] = "valid" /\ runtime[t.envelope] = "valid"

\* economic_locked_invalidation_reasons
Invalidated(t) ==
  \/ consent[t.consent] = "ended" \/ runtime[t.envelope] = "ended"
  \/ t.envelope \in expired \/ ~active \/ ~qualified

\* What a finalization takes from its sponsor's budget.
Charge(f) ==
  CASE ~Exists(f) \/ final[f].exposure = "RELEASED" -> 0
    [] Exists(f) /\ final[f].exposure = "CONSUMED" -> final[f].consumed
    [] OTHER -> Fee[final[f].tuple.envelope]

Outstanding(S) ==
  Cardinality({f \in S : Exists(f) /\ final[f].exposure \in {"RESERVED", "UNCERTAIN"}})

WithinVersion(e) ==  \* mutant
  LET b == Budgets[budget.version]
      S == {f \in Ids : Exists(f) /\ final[f].budget = budget.version}
  IN  /\ MapThenSumSet(Charge, S) + Fee[e] <= b.limit
      /\ Outstanding(S) < b.outstanding

\* assertBudget: all versions of the budget share what was charged.
WithinBudget(e) ==
  LET b == Budgets[budget.version]
  IN  /\ MapThenSumSet(Charge, Ids) + Fee[e] <= b.limit
      /\ Outstanding(Ids) < b.outstanding

-----------------------------------------------------------------------------
RegisterAttempt(e) ==
  /\ attempt[e] = "none"
  /\ Replaces(e) /\ Qualified(e)
  /\ head' = [head EXCEPT ![IntentOf[e]] = GenerationOf[e]]
  /\ attempt' = [attempt EXCEPT ![e] = "OPEN"]
  /\ UNCHANGED <<authorityVars, budget, final, evidenceVars, signerVars>>

CancellableAnyway(e) ==  \* mutant
  attempt[e] \in {"OPEN", "FINALIZATION_COMMITTED"}

\* cancelAttemptV1: a committed finalization has won.
Cancellable(e) == attempt[e] = "OPEN"

Cancel(e) ==
  /\ Current(e)
  /\ Cancellable(e)
  /\ attempt' = [attempt EXCEPT ![e] = "CANCELLED"]
  /\ UNCHANGED <<head, authorityVars, budget, final, evidenceVars, signerVars>>

\* A claim of a generation that has its finalization replays it or is refused.
Claim(f, t) ==
  /\ ~Exists(f)
  /\ Current(t.envelope) /\ attempt[t.envelope] = "OPEN"
  /\ Authorized(t)
  /\ budget.status = "ACTIVE" /\ WithinBudget(t.envelope)
  /\ final' = [final EXCEPT ![f] =
       [tuple |-> t, signer |-> "NOT_CONTACTED", budget |-> budget.version,
        exposure |-> "RESERVED", consumed |-> 0]]
  /\ attempt' = [attempt EXCEPT ![t.envelope] = "FINALIZATION_COMMITTED"]
  /\ UNCHANGED <<head, authorityVars, budget, evidenceVars, signerVars>>

\* The transaction after a failed claim: an artifact that could not be
\* verified, or one that bears the sponsor's signature, contradicts the
\* finalization of its generation, which a concurrent claim may have made.
RejectCallback(e) ==
  /\ attempt[e] /= "none"
  /\ tainted' = tainted \cup {e}
  /\ frozen' = frozen \cup {f \in Ids : Exists(f) /\ final[f].tuple.envelope = e}
  /\ UNCHANGED <<head, attempt, authorityVars, budget, final, reported, effects,
                 signerVars>>

-----------------------------------------------------------------------------
\* The consent endpoint
AcceptConsent(c) ==
  LET e == EnvelopeOf[c]
  IN  /\ consent[c] = "none" /\ attempt[e] /= "none"
      /\ e \notin expired /\ active
      /\ consent' = [consent EXCEPT ![c] = "valid"]
      /\ UNCHANGED <<head, attempt, runtime, expired, active, qualified, budget,
                     final, evidenceVars, signerVars>>

IssueRuntimeDecision(e) ==
  /\ runtime[e] = "none" /\ attempt[e] /= "none" /\ Qualified(e)
  /\ runtime' = [runtime EXCEPT ![e] = "valid"]
  /\ UNCHANGED <<head, attempt, consent, expired, active, qualified, budget,
                 final, evidenceVars, signerVars>>

\* revoke of the evidence, or it expires; a consent ends with its session too.
RevokeConsent(c) ==
  /\ c \in Ending /\ consent[c] = "valid"
  /\ consent' = [consent EXCEPT ![c] = "ended"]
  /\ UNCHANGED <<head, attempt, runtime, expired, active, qualified, budget,
                 final, evidenceVars, signerVars>>

RevokeRuntime(e) ==
  /\ e \in Ending /\ runtime[e] = "valid"
  /\ runtime' = [runtime EXCEPT ![e] = "ended"]
  /\ UNCHANGED <<head, attempt, consent, expired, active, qualified, budget,
                 final, evidenceVars, signerVars>>

EnvelopeExpires(e) ==
  /\ e \in Ending
  /\ expired' = expired \cup {e}
  /\ UNCHANGED <<head, attempt, consent, runtime, active, qualified, budget,
                 final, evidenceVars, signerVars>>

AccountStatusChanges ==
  /\ "account" \in Ending
  /\ active' = ~active
  /\ UNCHANGED <<head, attempt, consent, runtime, expired, qualified, budget,
                 final, evidenceVars, signerVars>>

\* revoke of the network or of an asset
RevokeRegistry ==
  /\ "registry" \in Ending
  /\ qualified' = FALSE
  /\ UNCHANGED <<head, attempt, consent, runtime, expired, active, budget,
                 final, evidenceVars, signerVars>>

\* Both refuse a stale revision.
SetBudgetStatus(expected, status) ==
  /\ expected = budget.revision /\ budget.revision < MaxRevision
  /\ budget.status /= status
  /\ budget' = [status |-> status, version |-> budget.version,
                revision |-> budget.revision + 1]
  /\ UNCHANGED <<head, attempt, authorityVars, final, evidenceVars, signerVars>>

ReviseBudget(expected) ==
  /\ expected = budget.revision /\ budget.revision < MaxRevision
  /\ budget.version + 1 \in DOMAIN Budgets
  /\ budget' = [status |-> budget.status, version |-> budget.version + 1,
                revision |-> budget.revision + 1]
  /\ UNCHANGED <<head, attempt, authorityVars, final, evidenceVars, signerVars>>

-----------------------------------------------------------------------------
Enter(f, state, exposure) ==
  final' = [final EXCEPT ![f].signer = state, ![f].exposure = exposure]

Contradicted(f) == final[f].tuple.envelope \in tainted \/ effects[f] /= {}

\* recover's first transaction: the one contact, under
\* economic_commit_signer_contact and the freeze of incidents, ...
GrantsContact(f) ==
  /\ Exists(f) /\ final[f].signer = "NOT_CONTACTED"
  /\ Current(final[f].tuple.envelope)
  /\ attempt[final[f].tuple.envelope] = "FINALIZATION_COMMITTED"
  /\ Authorized(final[f].tuple) /\ ~Invalidated(final[f].tuple)
  /\ ~Contradicted(f) /\ f \notin frozen

CommitContact(r, f) ==
  /\ call[r] = Idle
  /\ GrantsContact(f)
  /\ Enter(f, "CONTACT_COMMITTED", "UNCERTAIN")
  /\ call' = [call EXCEPT ![r] = [at |-> "finalize", id |-> f, response |-> "none"]]
  /\ UNCHANGED <<head, attempt, authorityVars, budget, evidenceVars, contacts, signer>>

\* ... or a query about the contact of another call.
RecoverContacted(r, f) ==
  /\ call[r] = Idle /\ Exists(f)
  /\ final[f].signer \in {"CONTACT_COMMITTED", "RESULT_UNKNOWN"}
  /\ call' = [call EXCEPT ![r] = [at |-> "waiting", id |-> f, response |-> "none"]]
  /\ UNCHANGED <<head, attempt, authorityVars, budget, final, evidenceVars,
                 contacts, signer>>

\* signer.finalize goes out.
ContactSigner(r) ==
  /\ call[r].at = "finalize"
  /\ contacts' = [contacts EXCEPT ![call[r].id] = @ + 1]
  /\ call' = [call EXCEPT ![r].at = "waiting"]
  /\ UNCHANGED <<head, attempt, authorityVars, budget, final, evidenceVars, signer>>

\* The signer decides once about a request that reached it, for good.
SignerDecides(f) ==
  /\ contacts[f] > 0 /\ signer[f] = "none"
  /\ \E decision \in {"SIGNED", "REFUSED"} :
       signer' = [signer EXCEPT ![f] = decision]
  /\ UNCHANGED <<head, attempt, authorityVars, budget, final, evidenceVars,
                 call, contacts>>

\* An answer: the decision, none yet, an exception, or one that does not fit
\* the operation.
SignerAnswers(r) ==
  /\ call[r].at = "waiting"
  /\ \E response \in {"LOST", "UNKNOWN", "MISBOUND", signer[call[r].id]} \ {"none"} :
       call' = [call EXCEPT ![r].response = response,
                            ![r].at = IF response = "LOST" THEN "unknown"
                                      ELSE "answered"]
  /\ UNCHANGED <<head, attempt, authorityVars, budget, final, evidenceVars,
                 contacts, signer>>

Return(r) == call' = [call EXCEPT ![r] = Idle]
GoTo(r, at) == call' = [call EXCEPT ![r].at = at]

\* acceptSignerResponse: SignerEvidenceConflict, ...
Conflicts(state, response) ==
  \/ response = "MISBOUND"
  \/ state \in {"NOT_CONTACTED", "EXPIRED_NEVER_CONTACTED"}
  \/ response = "REFUSED" /\ state = "RESULT_AVAILABLE"
  \/ response = "SIGNED" /\ state = "REFUSED"

\* ... a terminal row keeps what it has, ...
Keeps(state, response) ==
  \/ response = "UNKNOWN" /\ state \in Terminal
  \/ response = "REFUSED" /\ state = "REFUSED"
  \/ response = "SIGNED" /\ state = "RESULT_AVAILABLE"

\* ... and the incident's freeze refuses a refusal, which the call then
\* records as unknown.
AcceptSignerResponse(r) ==
  LET f == call[r].id
      state == final[f].signer
      response == call[r].response
  IN  /\ call[r].at = "answered"
      /\ \/ Conflicts(state, response) /\ GoTo(r, "conflict") /\ UNCHANGED final
         \/ ~Conflicts(state, response) /\ Keeps(state, response)
            /\ Return(r) /\ UNCHANGED final
         \/ /\ ~Conflicts(state, response) /\ ~Keeps(state, response)
            /\ \/ /\ response = "UNKNOWN"
                  /\ Enter(f, "RESULT_UNKNOWN", final[f].exposure) /\ Return(r)
               \/ /\ response = "SIGNED"
                  /\ Enter(f, "RESULT_AVAILABLE", final[f].exposure) /\ Return(r)
               \/ /\ response = "REFUSED" /\ f \notin frozen
                  /\ Enter(f, "REFUSED", "RELEASED") /\ Return(r)
               \/ /\ response = "REFUSED" /\ f \in frozen
                  /\ GoTo(r, "unknown") /\ UNCHANGED final
      /\ UNCHANGED <<head, attempt, authorityVars, budget, evidenceVars,
                     contacts, signer>>

\* economic_record_signer_unknown; after a conflict its report follows.
RecordUnknown(r) ==
  LET f == call[r].id
  IN  /\ call[r].at \in {"unknown", "conflict"}
      /\ \/ final[f].signer \in {"REFUSED", "RESULT_AVAILABLE"} /\ UNCHANGED final
         \/ /\ final[f].signer \in {"CONTACT_COMMITTED", "RESULT_UNKNOWN"}
            /\ Enter(f, "RESULT_UNKNOWN", "UNCERTAIN")
      /\ IF call[r].at = "conflict" THEN GoTo(r, "report") ELSE Return(r)
      /\ UNCHANGED <<head, attempt, authorityVars, budget, evidenceVars,
                     contacts, signer>>

\* economic_record_signer_conflict
RecordSignerConflict(r) ==
  /\ call[r].at = "report"
  /\ frozen' = frozen \cup {call[r].id}
  /\ Return(r)
  /\ UNCHANGED <<head, attempt, authorityVars, budget, final, tainted, reported,
                 effects, contacts, signer>>

\* The process of a call dies.
Crash(r) ==
  /\ call[r] /= Idle
  /\ Return(r)
  /\ UNCHANGED <<head, attempt, authorityVars, budget, final, evidenceVars,
                 contacts, signer>>

-----------------------------------------------------------------------------
ExpirableContacted(f) ==  \* mutant
  /\ Exists(f) /\ final[f].signer \in {"NOT_CONTACTED", "CONTACT_COMMITTED"}
  /\ ~Contradicted(f) /\ f \notin frozen
  /\ Invalidated(final[f].tuple)

\* economic_expire_never_contacted
Expirable(f) ==
  /\ Exists(f) /\ final[f].signer = "NOT_CONTACTED" /\ final[f].exposure = "RESERVED"
  /\ Current(final[f].tuple.envelope)
  /\ attempt[final[f].tuple.envelope] = "FINALIZATION_COMMITTED"
  /\ ~Contradicted(f) /\ f \notin frozen
  /\ Invalidated(final[f].tuple)

ExpireNeverContacted(f) ==
  /\ Expirable(f)
  /\ Enter(f, "EXPIRED_NEVER_CONTACTED", "RELEASED")
  /\ UNCHANGED <<head, attempt, authorityVars, budget, evidenceVars, signerVars>>

CandidateThoughFrozen(f) ==  \* mutant
  /\ Exists(f) /\ final[f].signer = "NOT_CONTACTED" /\ final[f].exposure = "RESERVED"
  /\ final[f].tuple.envelope \notin tainted
  /\ Invalidated(final[f].tuple)

\* What the expiry worker's batches select.
Candidate(f) ==
  /\ Exists(f) /\ final[f].signer = "NOT_CONTACTED" /\ final[f].exposure = "RESERVED"
  /\ f \notin frozen /\ final[f].tuple.envelope \notin tainted
  /\ Invalidated(final[f].tuple)

-----------------------------------------------------------------------------
AnyFinality(f, r) ==  \* mutant
  \/ final[f].signer /= "RESULT_AVAILABLE"
  \/ r.cost > Fee[final[f].tuple.envelope]

\* economic_ingest_observation: what makes a report an incident
FinalityProblem(f, r) ==
  \/ final[f].signer /= "RESULT_AVAILABLE"
  \/ r.cost > Fee[final[f].tuple.envelope]
  \/ \E q \in Reports : reported[f][q] = "FINALIZED" /\ q.cost /= r.cost
  \/ final[f].exposure = "CONSUMED" /\ final[f].consumed /= r.cost

Problem(f, r) ==
  \/ ~r.bound
  \/ \E q \in Reports \ {r} :
       reported[f][q] /= "none" /\ q.reference = r.reference
  \/ /\ r.state /= "UNKNOWN"
     /\ \/ final[f].signer \in {"EXPIRED_NEVER_CONTACTED", "REFUSED", "NOT_CONTACTED"}
        \/ final[f].signer = "RESULT_AVAILABLE" /\ r.tx /= "own"
        \/ \E e \in effects[f] : e.tx /= r.tx
        \/ f \in frozen
        \/ r.state = "FINALIZED" /\ FinalityProblem(f, r)

\* A final report shares the evidence of the first one.
HasAccounting(f) ==
  \/ \E q \in Reports : reported[f][q] = "FINALIZED"
  \/ final[f].exposure = "CONSUMED"

Effect(r) ==
  [kind |-> IF r.state = "FINALIZED" THEN "FINALIZED_ACCOUNTING"
            ELSE "POSSIBLE_EFFECT",
   tx |-> r.tx, cost |-> r.cost, reference |-> r.reference]

\* A report that was stored before is returned as it is.
IngestObservation(f, r) ==
  /\ Exists(f) /\ reported[f][r] = "none"
  /\ IF Problem(f, r)
     THEN /\ reported' = [reported EXCEPT ![f][r] = "INCIDENT"]
          /\ frozen' = frozen \cup {f}
          /\ UNCHANGED effects
     ELSE /\ reported' = [reported EXCEPT ![f][r] =
               IF r.state = "UNKNOWN" THEN "PENDING" ELSE r.state]
          /\ effects' = [effects EXCEPT ![f] =
               IF r.state = "UNKNOWN" \/ (r.state = "FINALIZED" /\ HasAccounting(f))
               THEN @ ELSE @ \cup {Effect(r)}]
          /\ UNCHANGED frozen
  /\ UNCHANGED <<head, attempt, authorityVars, budget, final, tainted, signerVars>>

\* settleExposure's evidence, which its table checks
SettleExposure(f, s) ==
  /\ Exists(f) /\ final[f].signer = "RESULT_AVAILABLE"
  /\ s.cost <= Fee[final[f].tuple.envelope]
  /\ \A e \in effects[f] : e.reference /= s.reference
  /\ effects' = [effects EXCEPT ![f] = @ \cup
       {[kind |-> "FINALIZED_ACCOUNTING", tx |-> "own", cost |-> s.cost,
         reference |-> s.reference]}]
  /\ UNCHANGED <<head, attempt, authorityVars, budget, final, frozen, tainted,
                 reported, signerVars>>

\* economic_apply_finalized_accounting, in a transaction after the one that
\* stored the evidence; observing again applies what a crash left.
ApplyAccounting(f, e) ==
  /\ Exists(f) /\ e \in effects[f] /\ e.kind = "FINALIZED_ACCOUNTING"
  /\ final[f].signer = "RESULT_AVAILABLE" /\ e.tx = "own"
  /\ final[f].exposure /= "CONSUMED" /\ f \notin frozen
  /\ final' = [final EXCEPT ![f].exposure = "CONSUMED", ![f].consumed = e.cost]
  /\ UNCHANGED <<head, attempt, authorityVars, budget, evidenceVars, signerVars>>

-----------------------------------------------------------------------------
Next ==
  \/ \E e \in Envelopes :
       \/ RegisterAttempt(e) \/ Cancel(e) \/ RejectCallback(e)
       \/ IssueRuntimeDecision(e) \/ RevokeRuntime(e) \/ EnvelopeExpires(e)
  \/ \E c \in Consents : AcceptConsent(c) \/ RevokeConsent(c)
  \/ AccountStatusChanges \/ RevokeRegistry
  \/ \E n \in 1 .. budget.revision :
       ReviseBudget(n) \/ \E s \in {"ACTIVE", "DISABLED"} : SetBudgetStatus(n, s)
  \/ \E f \in Ids :
       \/ \E t \in Tuples : Claim(f, t)
       \/ \E r \in Recoverers : CommitContact(r, f) \/ RecoverContacted(r, f)
       \/ SignerDecides(f) \/ ExpireNeverContacted(f)
       \/ \E r \in Reports : IngestObservation(f, r)
       \/ \E s \in Settlements : SettleExposure(f, s)
       \/ \E e \in effects[f] : ApplyAccounting(f, e)
  \/ \E r \in Recoverers :
       \/ ContactSigner(r) \/ SignerAnswers(r) \/ AcceptSignerResponse(r)
       \/ RecordUnknown(r) \/ RecordSignerConflict(r) \/ Crash(r)

Spec == Init /\ [][Next]_vars

-----------------------------------------------------------------------------
\* For an intent the sponsor's signer is asked for one signature at most,
\* whatever generations, claims and recoveries compete, and a call that may
\* still ask is counted.  Two signed transactions could pay twice.
Asking(f) == Cardinality({r \in Recoverers : call[r].at = "finalize" /\ call[r].id = f})

OneSignaturePerIntent ==
  \A f, g \in Ids :
    /\ contacts[f] + Asking(f) <= 1
    /\ /\ f /= g /\ Exists(f) /\ Exists(g)
       /\ IntentOf[final[f].tuple.envelope] = IntentOf[final[g].tuple.envelope]
       => contacts[f] + Asking(f) = 0 \/ contacts[g] + Asking(g) = 0

\* What the sponsor reserved is given back only when no signature exists or
\* can still come: the signer refused, or it was never asked and no call is
\* about to ask it.
ReleasedIsUnsigned ==
  \A f \in Ids :
    Exists(f) =>
      CASE final[f].exposure = "RELEASED" ->
             signer[f] = "REFUSED" \/ (contacts[f] = 0 /\ Asking(f) = 0)
        [] final[f].exposure = "RESERVED" -> contacts[f] = 0 /\ Asking(f) = 0
        [] final[f].signer = "RESULT_AVAILABLE" -> signer[f] = "SIGNED"
        [] OTHER -> TRUE

\* What the sponsor may have to pay grows only within the current version of
\* its budget, which counts what every version has charged, and only while
\* the budget is active.
Total == MapThenSumSet(Charge, Ids)

GrowsWithinBudget ==
  [][ Total' > Total \/ Outstanding(Ids)' > Outstanding(Ids)
      => /\ Total' <= Budgets[budget.version].limit
         /\ Outstanding(Ids)' <= Budgets[budget.version].outstanding
         /\ budget.status = "ACTIVE" ]_vars

\* Accounting follows evidence: with an incident nothing is consumed, refused,
\* expired or contacted any more; what was consumed is the cost of accounting
\* evidence; no two final reports are accepted that differ, nor one that
\* differs from what was consumed before it.  What is consumed after a final
\* report was accepted agrees with it too, unless it is what the exposure
\* observer answered: economic_ingest_observation and settleExposure never
\* compare a report with an answer that is stored and not applied yet.
FromSettlement(e) == \E s \in Settlements : e.reference = s.reference

FollowsEvidence(f) ==
  LET before == final[f]
      after == final'[f]
      Final(r) == reported'[f][r] = "FINALIZED"
      paid == {e \in effects[f] : e.kind = "FINALIZED_ACCOUNTING"
                                  /\ e.cost = after.consumed}
  IN  /\ Exists(f) /\ f \in frozen =>
           /\ before.exposure = after.exposure
           /\ after.signer \in {before.signer, "RESULT_UNKNOWN", "RESULT_AVAILABLE"}
      /\ \A q, r \in Reports : Final(q) /\ Final(r) => q.cost = r.cost
      /\ Exists(f) /\ after.exposure = "CONSUMED" =>
           /\ paid /= {}
           /\ \A r \in Reports :
                Final(r) => \/ r.cost = after.consumed
                            \/ /\ \E e \in paid : FromSettlement(e)
                               /\ reported[f][r] = "FINALIZED"

AccountingIsEvidence == [][\A f \in Ids : FollowsEvidence(f)]_vars

\* The expiry worker selects outside the transaction that expires.  Left
\* alone, what it selects can be expired, and what can be expired is selected.
CandidatesExpire == \A f \in Ids : Candidate(f) <=> Expirable(f)
=============================================================================
