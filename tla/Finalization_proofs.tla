------------------------- MODULE Finalization_proofs -------------------------
(***************************************************************************)
(* One signature per intent, and what may be released or expired, for      *)
(* every number of intents, generations, finalizations and recoverers.     *)
(* The inductive invariant says that an attempt that is open or committed  *)
(* is its intent's current generation, so an intent has one finalization   *)
(* at most, and that a finalization's row tells how far its one contact    *)
(* may have come.  Accounting and the budget follow, with what is said of  *)
(* evidence and costs there.                                               *)
(***************************************************************************)
EXTENDS Finalization, FiniteSetTheorems, TLAPS

(* Of an intent each generation is registered once, and an attempt that is *)
(* neither cancelled nor replaced is the current one.                      *)
HeadsFollow ==
  /\ \A e \in Envelopes : attempt[e] /= "none" => GenerationOf[e] <= head[IntentOf[e]]
  /\ \A e \in Envelopes :
       attempt[e] \in {"OPEN", "FINALIZATION_COMMITTED"} => Current(e)
  /\ \A d, e \in Envelopes :
       /\ attempt[d] /= "none" /\ attempt[e] /= "none"
       /\ IntentOf[d] = IntentOf[e] /\ GenerationOf[d] = GenerationOf[e]
       => d = e

(* A finalization has its envelope's committed attempt for itself.         *)
EnvelopeOwned ==
  /\ \A f \in Ids :
       Exists(f) => attempt[final[f].tuple.envelope] = "FINALIZATION_COMMITTED"
  /\ \A f, g \in Ids :
       /\ Exists(f) /\ Exists(g)
       /\ final[f].tuple.envelope = final[g].tuple.envelope
       => f = g

(* A call is about a finalization, and brings the signer's own decision.   *)
CallsKnow ==
  \A r \in Recoverers :
    call[r] /= Idle =>
      /\ Exists(call[r].id)
      /\ call[r].response \in {"SIGNED", "REFUSED"} => signer[call[r].id] = call[r].response

Untouched == {"NOT_CONTACTED", "EXPIRED_NEVER_CONTACTED"}

(* One call at most may still ask, only about a row whose contact is       *)
(* committed, and only if nobody has asked.                                *)
ContactsCounted ==
  /\ \A f \in Ids : contacts[f] \in {0, 1}
  /\ \A f \in Ids :
       contacts[f] = 1 => Exists(f) /\ final[f].signer \notin Untouched
  /\ \A r \in Recoverers :
       call[r].at = "finalize" =>
         contacts[call[r].id] = 0 /\ final[call[r].id].signer \notin Untouched
  /\ \A r, s \in Recoverers :
       /\ call[r].at = "finalize" /\ call[s].at = "finalize" /\ call[r].id = call[s].id
       => r = s

(* The exposure follows the signer's state, and a result the signer's own  *)
(* decision; before a contact there is no effect.                          *)
StateAgrees(f) ==
  /\ final[f].exposure = "RESERVED" <=> final[f].signer = "NOT_CONTACTED"
  /\ final[f].exposure = "RELEASED" <=> final[f].signer \in {"REFUSED", "EXPIRED_NEVER_CONTACTED"}
  /\ final[f].exposure = "CONSUMED" => final[f].signer = "RESULT_AVAILABLE"
  /\ final[f].signer = "RESULT_AVAILABLE" => signer[f] = "SIGNED"
  /\ final[f].signer = "REFUSED" => signer[f] = "REFUSED"
  /\ final[f].signer = "NOT_CONTACTED" => effects[f] = {}

StatesAgree ==
  /\ \A f \in Ids : Exists(f) => StateAgrees(f)
  /\ \A f \in Ids : ~Exists(f) => effects[f] = {}

IInv ==
  /\ FinalizationTypeOK
  /\ HeadsFollow
  /\ EnvelopeOwned
  /\ CallsKnow
  /\ ContactsCounted
  /\ StatesAgree

-----------------------------------------------------------------------------
(* An absent finalization is none of the rows, and a call in progress is   *)
(* not idle.                                                               *)
LEMMA Distinct ==
  /\ NoFinalization \notin Finalizations
  /\ \A c \in Calls : c /= Idle
  /\ Idle.at = "idle"
  <1>1. NoFinalization.signer = "none" /\ Idle.at = "idle"
    BY DEF NoFinalization, Idle
  <1>2. \A x \in Finalizations : x.signer /= "none"
    BY DEF Finalizations, SignerStates, Terminal
  <1>3. \A c \in Calls : c.at /= "idle"
    BY DEF Calls
  <1> QED BY <1>1, <1>2, <1>3

LEMMA ExistingIsRow ==
  ASSUME FinalizationTypeOK, NEW f \in Ids, Exists(f)
  PROVE  /\ final[f] \in Finalizations
         /\ final[f].tuple \in Tuples
         /\ final[f].tuple.envelope \in Envelopes
         /\ final[f].tuple.consent \in Consents
         /\ final[f].signer \in SignerStates
  <1>1. final[f] \in Finalizations
    BY DEF FinalizationTypeOK, Exists
  <1>2. final[f].tuple \in Tuples /\ final[f].signer \in SignerStates
    BY <1>1 DEF Finalizations
  <1> QED BY <1>1, <1>2 DEF Tuples

LEMMA CallInProgress ==
  ASSUME FinalizationTypeOK, NEW r \in Recoverers, call[r].at /= "idle"
  PROVE  call[r] \in Calls /\ call[r] /= Idle /\ call[r].id \in Ids
         /\ call[r].response \in Responses \cup {"none"}
  <1>1. call[r] \in Calls
    BY Distinct DEF FinalizationTypeOK
  <1> QED BY <1>1, Distinct DEF Calls

(* What a change of a row's state leaves: its tuple and every other row.   *)
LEMMA EnterChanges ==
  ASSUME FinalizationTypeOK, NEW f \in Ids, Exists(f), NEW state \in SignerStates,
         NEW exposure \in {"RESERVED", "UNCERTAIN", "RELEASED", "CONSUMED"},
         Enter(f, state, exposure)
  PROVE  /\ final' \in [Ids -> Finalizations \cup {NoFinalization}]
         /\ Exists(f)'
         /\ final'[f].tuple = final[f].tuple
         /\ final'[f].signer = state /\ final'[f].exposure = exposure
         /\ \A g \in Ids \ {f} : final'[g] = final[g]
  <1>1. final[f] \in Finalizations
    BY ExistingIsRow
  <1> DEFINE row == [final[f] EXCEPT !.signer = state, !.exposure = exposure]
  <1>2. /\ row \in Finalizations
        /\ row.tuple = final[f].tuple /\ row.signer = state /\ row.exposure = exposure
    BY <1>1 DEF Finalizations
  <1>3. final' = [final EXCEPT ![f] = row]
    BY DEF Enter
  <1> HIDE DEF row
  <1>4. final \in [Ids -> Finalizations \cup {NoFinalization}]
    BY DEF FinalizationTypeOK
  <1> QED BY <1>2, <1>3, <1>4, Distinct DEF Exists

-----------------------------------------------------------------------------
(* Where heads, attempts and the tuples of the rows stay, so do the        *)
(* generations and who owns an envelope.                                   *)
LEMMA TuplesStay ==
  ASSUME IInv, UNCHANGED <<head, attempt>>,
         \A f \in Ids : Exists(f)' <=> Exists(f),
         \A f \in Ids : Exists(f) => final'[f].tuple = final[f].tuple
  PROVE  HeadsFollow' /\ EnvelopeOwned'
  <1>1. HeadsFollow'
    BY DEF IInv, HeadsFollow, Current
  <1>2. EnvelopeOwned'
    BY DEF IInv, EnvelopeOwned
  <1> QED BY <1>1, <1>2

LEMMA StateStays ==
  ASSUME IInv, NEW f \in Ids, final'[f] = final[f], signer'[f] = signer[f],
         effects'[f] = effects[f]
  PROVE  (Exists(f) => StateAgrees(f))' /\ (~Exists(f) => effects[f] = {})'
  <1>1. (Exists(f) => StateAgrees(f)) /\ (~Exists(f) => effects[f] = {})
    BY DEF IInv, StatesAgree
  <1> QED BY <1>1 DEF StateAgrees, Exists

(* Changes of the authority and the budget leave all but the types alone.  *)
LEMMA CoreStays ==
  ASSUME IInv, UNCHANGED <<head, attempt, final, effects, call, contacts, signer>>
  PROVE  HeadsFollow' /\ EnvelopeOwned' /\ CallsKnow' /\ ContactsCounted' /\ StatesAgree'
  <1>1. HeadsFollow' /\ EnvelopeOwned'
    BY TuplesStay DEF Exists
  <1>2. CallsKnow' /\ ContactsCounted' /\ StatesAgree'
    BY DEF IInv, CallsKnow, ContactsCounted, StatesAgree, StateAgrees, Exists
  <1> QED BY <1>1, <1>2

LEMMA AuthorityInductive ==
  ASSUME IInv,
         \/ \E e \in Envelopes :
              RejectCallback(e) \/ IssueRuntimeDecision(e) \/ RevokeRuntime(e)
              \/ EnvelopeExpires(e)
         \/ \E c \in Consents : AcceptConsent(c) \/ RevokeConsent(c)
         \/ AccountStatusChanges \/ RevokeRegistry
  PROVE  IInv'
  <1> USE DEF RejectCallback, IssueRuntimeDecision, RevokeRuntime, EnvelopeExpires,
              AcceptConsent, RevokeConsent, AccountStatusChanges, RevokeRegistry,
              authorityVars, evidenceVars, signerVars
  <1>1. UNCHANGED <<head, attempt, final, effects, call, contacts, signer, budget,
                    reported>>
    OBVIOUS
  <1>2. /\ consent' \in [Consents -> {"none", "valid", "ended"}]
        /\ runtime' \in [Envelopes -> {"none", "valid", "ended"}]
        /\ expired' \subseteq Envelopes
        /\ frozen' \subseteq Ids /\ tainted' \subseteq Envelopes
    BY DEF IInv, FinalizationTypeOK
  <1>3. active' \in BOOLEAN /\ qualified' \in BOOLEAN
    <2>1. active \in BOOLEAN /\ qualified \in BOOLEAN
      BY DEF IInv, FinalizationTypeOK
    <2>2. active' \in {active, ~active} /\ qualified' \in {qualified, FALSE}
      BY Zenon
    <2> QED BY <2>1, <2>2
  <1>4. FinalizationTypeOK'
    BY <1>1, <1>2, <1>3 DEF IInv, FinalizationTypeOK
  <1> QED BY <1>1, <1>4, CoreStays DEF IInv

LEMMA BudgetInductive ==
  ASSUME IInv, NEW n,
         ReviseBudget(n) \/ \E s \in {"ACTIVE", "DISABLED"} : SetBudgetStatus(n, s)
  PROVE  IInv'
  <1> USE DEF ReviseBudget, SetBudgetStatus, authorityVars, evidenceVars, signerVars
  <1>1. UNCHANGED <<head, attempt, authorityVars, final, evidenceVars, signerVars>>
    OBVIOUS
  <1> DEFINE Heads == [status : {"ACTIVE", "DISABLED"}, version : DOMAIN Budgets,
                       revision : Nat]
  <1>2. budget' \in Heads
    <2>1. budget \in Heads
      BY DEF IInv, FinalizationTypeOK
    <2>2. CASE ReviseBudget(n)
      BY <2>1, <2>2
    <2>3. ASSUME NEW s \in {"ACTIVE", "DISABLED"}, SetBudgetStatus(n, s)
          PROVE  budget' \in Heads
      BY <2>1, <2>3
    <2> QED BY <2>2, <2>3
  <1>3. FinalizationTypeOK'
    BY <1>1, <1>2 DEF IInv, FinalizationTypeOK
  <1> QED BY <1>1, <1>3, CoreStays DEF IInv

-----------------------------------------------------------------------------
(* Generations: a new one replaces a cancelled one only, so no attempt     *)
(* that is open or committed loses its head.                               *)
LEMMA RegisterInductive ==
  ASSUME IInv, NEW e \in Envelopes, RegisterAttempt(e)
  PROVE  IInv'
  <1> USE DEF RegisterAttempt, authorityVars, evidenceVars, signerVars
  <1>1. /\ head \in [Intents -> Nat] /\ IntentOf[e] \in Intents
        /\ IntentOf \in [Envelopes -> Intents] /\ GenerationOf \in [Envelopes -> Nat]
        /\ attempt \in [Envelopes -> {"none", "OPEN", "CANCELLED", "FINALIZATION_COMMITTED"}]
    BY FinalizationAssumption DEF IInv, FinalizationTypeOK
  <1>2. /\ attempt[e] = "none"
        /\ head' = [head EXCEPT ![IntentOf[e]] = GenerationOf[e]]
        /\ attempt' = [attempt EXCEPT ![e] = "OPEN"]
    OBVIOUS
  <1>3. GenerationOf[e] = head[IntentOf[e]] + 1
    BY <1>1 DEF Replaces
  <1>4. FinalizationTypeOK'
    BY <1>1, <1>2 DEF IInv, FinalizationTypeOK
  <1>5. \A d \in Envelopes \ {e} :
          attempt[d] \in {"OPEN", "FINALIZATION_COMMITTED"} => IntentOf[d] /= IntentOf[e]
    <2> SUFFICES ASSUME NEW d \in Envelopes \ {e}, IntentOf[d] = IntentOf[e],
                        attempt[d] \in {"OPEN", "FINALIZATION_COMMITTED"}
                 PROVE  FALSE
      OBVIOUS
    <2>1. Current(d)
      BY DEF IInv, HeadsFollow
    <2>2. head[IntentOf[e]] /= 0
      BY <2>1, FinalizationAssumption DEF Current
    <2>3. PICK p \in Envelopes : /\ IntentOf[p] = IntentOf[e] /\ Current(p)
                                 /\ attempt[p] = "CANCELLED"
      BY <2>2 DEF Replaces
    <2>4. p = d
      BY <2>1, <2>3 DEF Current, IInv, HeadsFollow
    <2> QED BY <2>3, <2>4
  <1>6. HeadsFollow'
    <2>1. \A d \in Envelopes : attempt'[d] /= "none" =>
            GenerationOf[d] <= head'[IntentOf[d]]
      BY <1>1, <1>2, <1>3 DEF IInv, HeadsFollow
    <2>2. \A d \in Envelopes : attempt'[d] \in {"OPEN", "FINALIZATION_COMMITTED"} =>
            head'[IntentOf[d]] = GenerationOf[d]
      BY <1>1, <1>2, <1>5 DEF IInv, HeadsFollow, Current
    <2>3. \A d \in Envelopes : attempt[d] /= "none" /\ IntentOf[d] = IntentOf[e] =>
            GenerationOf[d] /= GenerationOf[e]
      BY <1>1, <1>3 DEF IInv, HeadsFollow
    <2>4. \A c, d \in Envelopes :
            /\ attempt'[c] /= "none" /\ attempt'[d] /= "none"
            /\ IntentOf[c] = IntentOf[d] /\ GenerationOf[c] = GenerationOf[d]
            => c = d
      BY <1>1, <1>2, <2>3 DEF IInv, HeadsFollow
    <2> QED BY <2>1, <2>2, <2>4 DEF HeadsFollow, Current
  <1>7. EnvelopeOwned'
    <2>1. \A f \in Ids : Exists(f) => final[f].tuple.envelope \in Envelopes
      BY ExistingIsRow DEF IInv
    <2> QED BY <1>1, <1>2, <2>1 DEF IInv, EnvelopeOwned, Exists
  <1>8. CallsKnow' /\ ContactsCounted' /\ StatesAgree'
    BY DEF IInv, CallsKnow, ContactsCounted, StatesAgree, StateAgrees, Exists
  <1> QED BY <1>4, <1>6, <1>7, <1>8 DEF IInv

LEMMA CancelInductive ==
  ASSUME IInv, NEW e \in Envelopes, Cancel(e)
  PROVE  IInv'
  <1> USE DEF Cancel, Cancellable, authorityVars, evidenceVars, signerVars
  <1>1. /\ attempt \in [Envelopes -> {"none", "OPEN", "CANCELLED", "FINALIZATION_COMMITTED"}]
        /\ attempt[e] = "OPEN" /\ attempt' = [attempt EXCEPT ![e] = "CANCELLED"]
    BY DEF IInv, FinalizationTypeOK
  <1>2. FinalizationTypeOK'
    BY <1>1 DEF IInv, FinalizationTypeOK
  <1>3. HeadsFollow'
    BY <1>1 DEF IInv, HeadsFollow, Current
  <1>4. EnvelopeOwned'
    <2>1. \A f \in Ids : Exists(f) => final[f].tuple.envelope \in Envelopes
      BY ExistingIsRow DEF IInv
    <2> QED BY <1>1, <2>1 DEF IInv, EnvelopeOwned, Exists
  <1>5. CallsKnow' /\ ContactsCounted' /\ StatesAgree'
    BY DEF IInv, CallsKnow, ContactsCounted, StatesAgree, StateAgrees, Exists
  <1> QED BY <1>2, <1>3, <1>4, <1>5 DEF IInv

LEMMA ClaimInductive ==
  ASSUME IInv, NEW f \in Ids, NEW t \in Tuples, Claim(f, t)
  PROVE  IInv'
  <1> DEFINE row == [tuple |-> t, signer |-> "NOT_CONTACTED", budget |-> budget.version,
                     exposure |-> "RESERVED", consumed |-> 0]
             e == t.envelope
  <1>1. e \in Envelopes
    BY DEF Tuples
  <1>2. /\ ~Exists(f) /\ attempt[e] = "OPEN"
        /\ final' = [final EXCEPT ![f] = row]
        /\ attempt' = [attempt EXCEPT ![e] = "FINALIZATION_COMMITTED"]
        /\ UNCHANGED <<head, authorityVars, budget, evidenceVars, signerVars>>
    BY DEF Claim
  <1>3. row \in Finalizations
    BY DEF IInv, FinalizationTypeOK, Finalizations, SignerStates
  <1>4. /\ row.tuple.envelope = e /\ row.signer = "NOT_CONTACTED"
        /\ row.exposure = "RESERVED" /\ row /= NoFinalization
    BY <1>3, Distinct
  <1> HIDE DEF row, e
  <1> USE DEF authorityVars, evidenceVars, signerVars
  <1>5. /\ final \in [Ids -> Finalizations \cup {NoFinalization}]
        /\ attempt \in [Envelopes -> {"none", "OPEN", "CANCELLED", "FINALIZATION_COMMITTED"}]
    BY DEF IInv, FinalizationTypeOK
  <1>6. FinalizationTypeOK'
    BY <1>1, <1>2, <1>3 DEF IInv, FinalizationTypeOK
  <1>7. /\ final'[f] = row /\ \A g \in Ids \ {f} : final'[g] = final[g]
        /\ attempt'[e] = "FINALIZATION_COMMITTED"
        /\ \A d \in Envelopes \ {e} : attempt'[d] = attempt[d]
    BY <1>1, <1>2, <1>5
  <1>8. HeadsFollow'
    BY <1>1, <1>2, <1>7 DEF IInv, HeadsFollow, Current
  <1>9. EnvelopeOwned'
    <2>1. \A g \in Ids : Exists(g) =>
            final[g].tuple.envelope \in Envelopes /\ final[g].tuple.envelope /= e
      BY <1>1, <1>2, ExistingIsRow DEF IInv, EnvelopeOwned
    <2> QED BY <1>4, <1>7, <2>1 DEF IInv, EnvelopeOwned, Exists
  <1>10. \A r \in Recoverers : call[r] /= Idle => call[r].id \in Ids
    BY DEF IInv, FinalizationTypeOK, Calls
  <1>11. \A r \in Recoverers : call[r] /= Idle => call[r].id /= f
    BY <1>2, <1>10 DEF IInv, CallsKnow
  <1>12. CallsKnow'
    BY <1>2, <1>7, <1>10, <1>11 DEF IInv, CallsKnow, Exists
  <1>13. ContactsCounted'
    <2>1. \A r \in Recoverers : call[r].at = "finalize" =>
            call[r] /= Idle /\ call[r].id \in Ids /\ call[r].id /= f
      BY <1>10, <1>11, Distinct
    <2>2. contacts[f] /= 1
      BY <1>2 DEF IInv, ContactsCounted
    <2> QED BY <1>2, <1>7, <2>1, <2>2 DEF IInv, ContactsCounted, Exists
  <1>14. StatesAgree'
    <2>1. effects[f] = {}
      BY <1>2 DEF IInv, StatesAgree
    <2>2. StateAgrees(f)' /\ Exists(f)'
      BY <1>2, <1>4, <1>7, <2>1 DEF StateAgrees, Exists
    <2>3. ASSUME NEW g \in Ids
          PROVE  (Exists(g) => StateAgrees(g))' /\ (~Exists(g) => effects[g] = {})'
      BY <1>2, <1>7, <2>2, StateStays DEF StateAgrees, Exists
    <2> QED BY <2>3 DEF StatesAgree
  <1> QED BY <1>6, <1>8, <1>9, <1>12, <1>13, <1>14 DEF IInv

-----------------------------------------------------------------------------
(* A row whose state changes keeps its tuple, so generations and owners    *)
(* stay, and all states agree where its own does.                          *)
LEMMA RowProceeds ==
  ASSUME IInv, NEW f \in Ids, Exists(f), Exists(f)', final'[f].tuple = final[f].tuple,
         \A g \in Ids \ {f} : final'[g] = final[g],
         UNCHANGED <<head, attempt, signer, effects>>,
         StateAgrees(f)'
  PROVE  /\ HeadsFollow' /\ EnvelopeOwned' /\ StatesAgree'
         /\ \A g \in Ids : Exists(g)' <=> Exists(g)
  <1>1. \A g \in Ids : Exists(g)' <=> Exists(g)
    BY DEF Exists
  <1>2. \A g \in Ids : Exists(g) => final'[g].tuple = final[g].tuple
    OBVIOUS
  <1>3. HeadsFollow' /\ EnvelopeOwned'
    BY <1>1, <1>2, TuplesStay
  <1>4. ASSUME NEW g \in Ids
        PROVE  (Exists(g) => StateAgrees(g))' /\ (~Exists(g) => effects[g] = {})'
    BY StateStays DEF StateAgrees, Exists
  <1>5. StatesAgree'
    BY <1>4 DEF StatesAgree
  <1> QED BY <1>1, <1>3, <1>5

(* A call that ends, or goes on about its finalization without asking.     *)
LEMMA CallProceeds ==
  ASSUME IInv, NEW r \in Recoverers, UNCHANGED <<contacts, signer>>,
         \A s \in Recoverers \ {r} : call'[s] = call[s],
         \/ call'[r] \in {Idle, call[r]}
         \/ /\ call[r] /= Idle /\ call'[r].id = call[r].id /\ call'[r].at /= "finalize"
            /\ call'[r].response \in {"SIGNED", "REFUSED"} =>
                 signer[call[r].id] = call'[r].response,
         \A f \in Ids : Exists(f) => Exists(f)',
         \A f \in Ids : Exists(f) /\ final[f].signer \notin Untouched =>
                       final'[f].signer \notin Untouched
  PROVE  CallsKnow' /\ ContactsCounted'
  <1>1. \A s \in Recoverers : call[s] /= Idle => call[s].id \in Ids
    BY DEF IInv, FinalizationTypeOK, Calls
  <1>2. CallsKnow'
    BY <1>1 DEF IInv, CallsKnow
  <1>3. \A s \in Recoverers : call'[s].at = "finalize" => call'[s] = call[s]
    BY Distinct
  <1>4. \A s \in Recoverers : call[s].at = "finalize" =>
          call[s] /= Idle /\ call[s].id \in Ids /\ Exists(call[s].id)
    BY <1>1, Distinct DEF IInv, CallsKnow
  <1>5. ContactsCounted'
    <2>1. \A f \in Ids : contacts'[f] \in {0, 1}
      BY DEF IInv, ContactsCounted
    <2>2. \A f \in Ids : contacts'[f] = 1 => Exists(f)' /\ final'[f].signer \notin Untouched
      BY DEF IInv, ContactsCounted
    <2>3. \A s \in Recoverers : call'[s].at = "finalize" =>
            contacts'[call'[s].id] = 0 /\ final'[call'[s].id].signer \notin Untouched
      BY <1>3, <1>4 DEF IInv, ContactsCounted
    <2>4. \A s, u \in Recoverers :
            /\ call'[s].at = "finalize" /\ call'[u].at = "finalize" /\ call'[s].id = call'[u].id
            => s = u
      BY <1>3 DEF IInv, ContactsCounted
    <2> QED BY <2>1, <2>2, <2>3, <2>4 DEF ContactsCounted
  <1> QED BY <1>2, <1>5

LEMMA CallChanges ==
  ASSUME FinalizationTypeOK, NEW r \in Recoverers, call[r].at /= "idle",
         NEW at \in {"waiting", "answered", "unknown", "conflict", "report"},
         GoTo(r, at)
  PROVE  /\ call' \in [Recoverers -> Calls \cup {Idle}]
         /\ call'[r].id = call[r].id /\ call'[r].response = call[r].response
         /\ call'[r].at = at
         /\ \A s \in Recoverers \ {r} : call'[s] = call[s]
  <1>1. call[r] \in Calls
    BY CallInProgress
  <1>2. call' = [call EXCEPT ![r] = [call[r] EXCEPT !.at = at]]
    BY DEF GoTo
  <1>3. /\ [call[r] EXCEPT !.at = at] \in Calls
        /\ [call[r] EXCEPT !.at = at].id = call[r].id
        /\ [call[r] EXCEPT !.at = at].response = call[r].response
        /\ [call[r] EXCEPT !.at = at].at = at
    BY <1>1 DEF Calls
  <1> QED BY <1>2, <1>3 DEF FinalizationTypeOK

LEMMA CallReturns ==
  ASSUME FinalizationTypeOK, NEW r \in Recoverers, Return(r)
  PROVE  /\ call' \in [Recoverers -> Calls \cup {Idle}] /\ call'[r] = Idle
         /\ \A s \in Recoverers \ {r} : call'[s] = call[s]
  BY DEF Return, FinalizationTypeOK

-----------------------------------------------------------------------------
(* The one contact is committed before the request goes out.               *)
LEMMA CommitContactInductive ==
  ASSUME IInv, NEW r \in Recoverers, NEW f \in Ids, CommitContact(r, f)
  PROVE  IInv'
  <1> USE DEF authorityVars, evidenceVars
  <1> DEFINE new == [at |-> "finalize", id |-> f, response |-> "none"]
  <1>1. /\ Exists(f) /\ final[f].signer = "NOT_CONTACTED" /\ call[r] = Idle
        /\ Enter(f, "CONTACT_COMMITTED", "UNCERTAIN")
        /\ call' = [call EXCEPT ![r] = new]
        /\ UNCHANGED <<head, attempt, authorityVars, budget, evidenceVars, contacts, signer>>
    BY DEF CommitContact, GrantsContact
  <1>2. /\ final' \in [Ids -> Finalizations \cup {NoFinalization}]
        /\ Exists(f)' /\ final'[f].tuple = final[f].tuple
        /\ final'[f].signer = "CONTACT_COMMITTED" /\ final'[f].exposure = "UNCERTAIN"
        /\ \A g \in Ids \ {f} : final'[g] = final[g]
    BY <1>1, EnterChanges DEF IInv, SignerStates
  <1>3. new \in Calls
    BY DEF Calls
  <1>4. new /= Idle /\ new.at = "finalize" /\ new.id = f /\ new.response = "none"
    BY <1>3, Distinct
  <1> HIDE DEF new
  <1>5. /\ call' \in [Recoverers -> Calls \cup {Idle}]
        /\ call'[r] = new /\ \A s \in Recoverers \ {r} : call'[s] = call[s]
    BY <1>1, <1>3 DEF IInv, FinalizationTypeOK
  <1>6. FinalizationTypeOK'
    BY <1>1, <1>2, <1>5 DEF IInv, FinalizationTypeOK
  <1>7. StateAgrees(f)'
    BY <1>2 DEF StateAgrees
  <1>8. /\ HeadsFollow' /\ EnvelopeOwned' /\ StatesAgree'
        /\ \A g \in Ids : Exists(g)' <=> Exists(g)
    BY <1>1, <1>2, <1>7, RowProceeds
  <1>9. \A s \in Recoverers : call[s] /= Idle => call[s].id \in Ids
    BY DEF IInv, FinalizationTypeOK, Calls
  <1>10. CallsKnow'
    BY <1>1, <1>4, <1>5, <1>8, <1>9 DEF IInv, CallsKnow
  <1>11. contacts[f] = 0
    BY <1>1 DEF IInv, ContactsCounted, Untouched
  <1>12. \A s \in Recoverers : call[s].at = "finalize" => call[s].id /= f
    BY <1>1 DEF IInv, ContactsCounted, Untouched
  <1>13. ContactsCounted'
    <2>1. \A g \in Ids : contacts'[g] = 1 => Exists(g)' /\ final'[g].signer \notin Untouched
      BY <1>1, <1>2, <1>8 DEF IInv, ContactsCounted, Untouched
    <2>2. \A s \in Recoverers : call'[s].at = "finalize" =>
            contacts'[call'[s].id] = 0 /\ final'[call'[s].id].signer \notin Untouched
      <3>1. \A s \in Recoverers : call[s].at = "finalize" => call[s].id \in Ids
        BY <1>9, Distinct
      <3> QED BY <1>1, <1>2, <1>4, <1>5, <1>11, <1>12, <3>1
              DEF IInv, ContactsCounted, Untouched
    <2>3. \A s, u \in Recoverers :
            /\ call'[s].at = "finalize" /\ call'[u].at = "finalize" /\ call'[s].id = call'[u].id
            => s = u
      BY <1>4, <1>5, <1>12 DEF IInv, ContactsCounted
    <2> QED BY <1>1, <2>1, <2>2, <2>3 DEF IInv, ContactsCounted
  <1> QED BY <1>6, <1>8, <1>10, <1>13 DEF IInv

LEMMA RecoverContactedInductive ==
  ASSUME IInv, NEW r \in Recoverers, NEW f \in Ids, RecoverContacted(r, f)
  PROVE  IInv'
  <1> USE DEF authorityVars, evidenceVars
  <1> DEFINE new == [at |-> "waiting", id |-> f, response |-> "none"]
  <1>1. /\ Exists(f) /\ call' = [call EXCEPT ![r] = new]
        /\ UNCHANGED <<head, attempt, authorityVars, budget, final, evidenceVars,
                       contacts, signer>>
    BY DEF RecoverContacted
  <1>2. new \in Calls
    BY DEF Calls
  <1>3. new.at = "waiting" /\ new.id = f /\ new.response = "none"
    OBVIOUS
  <1> HIDE DEF new
  <1>4. /\ call' \in [Recoverers -> Calls \cup {Idle}]
        /\ call'[r] = new /\ \A s \in Recoverers \ {r} : call'[s] = call[s]
    BY <1>1, <1>2 DEF IInv, FinalizationTypeOK
  <1>5. FinalizationTypeOK'
    BY <1>1, <1>4 DEF IInv, FinalizationTypeOK
  <1>6. HeadsFollow' /\ EnvelopeOwned'
    BY <1>1, TuplesStay DEF Exists
  <1>7. CallsKnow' /\ StatesAgree'
    BY <1>1, <1>3, <1>4 DEF IInv, CallsKnow, StatesAgree, StateAgrees, Exists
  <1>8. \A s \in Recoverers : call'[s].at = "finalize" => call'[s] = call[s]
    BY <1>3, <1>4
  <1>9. ContactsCounted'
    BY <1>1, <1>8 DEF IInv, ContactsCounted, Exists
  <1> QED BY <1>5, <1>6, <1>7, <1>9 DEF IInv

LEMMA ContactSignerInductive ==
  ASSUME IInv, NEW r \in Recoverers, ContactSigner(r)
  PROVE  IInv'
  <1> USE DEF authorityVars, evidenceVars
  <1> DEFINE f == call[r].id
  <1>1. call[r].at = "finalize" /\ f \in Ids /\ call[r] /= Idle
    BY CallInProgress DEF ContactSigner, IInv
  <1>2. /\ GoTo(r, "waiting")
        /\ contacts' = [contacts EXCEPT ![f] = contacts[f] + 1]
        /\ UNCHANGED <<head, attempt, authorityVars, budget, final, evidenceVars, signer>>
    BY DEF ContactSigner, GoTo
  <1>3. /\ call' \in [Recoverers -> Calls \cup {Idle}]
        /\ call'[r].id = f /\ call'[r].response = call[r].response
        /\ call'[r].at = "waiting"
        /\ \A s \in Recoverers \ {r} : call'[s] = call[s]
    BY <1>1, <1>2, CallChanges DEF IInv
  <1> HIDE DEF f
  <1>4. /\ contacts[f] = 0 /\ Exists(f) /\ final[f].signer \notin Untouched
        /\ \A s \in Recoverers \ {r} : call[s].at = "finalize" => call[s].id /= f
    BY <1>1 DEF IInv, ContactsCounted, CallsKnow, f
  <1>5. /\ contacts' \in [Ids -> Nat] /\ contacts'[f] = 1
        /\ \A g \in Ids \ {f} : contacts'[g] = contacts[g]
    BY <1>1, <1>2, <1>4 DEF IInv, FinalizationTypeOK
  <1>6. FinalizationTypeOK'
    BY <1>2, <1>3, <1>5 DEF IInv, FinalizationTypeOK
  <1>7. HeadsFollow' /\ EnvelopeOwned'
    BY <1>2, TuplesStay DEF Exists
  <1>8. CallsKnow' /\ StatesAgree'
    BY <1>1, <1>2, <1>3 DEF IInv, CallsKnow, StatesAgree, StateAgrees, Exists, f
  <1>9. \A s \in Recoverers : call'[s].at = "finalize" => s /= r /\ call'[s] = call[s]
    BY <1>3
  <1>10. \A s \in Recoverers : call[s].at = "finalize" => call[s].id \in Ids
    BY CallInProgress DEF IInv
  <1>11. ContactsCounted'
    BY <1>2, <1>4, <1>5, <1>9, <1>10 DEF IInv, ContactsCounted, Exists
  <1> QED BY <1>6, <1>7, <1>8, <1>11 DEF IInv

LEMMA SignerDecidesInductive ==
  ASSUME IInv, NEW f \in Ids, SignerDecides(f)
  PROVE  IInv'
  <1> USE DEF authorityVars, evidenceVars
  <1>1. PICK decision \in {"SIGNED", "REFUSED"} :
          signer' = [signer EXCEPT ![f] = decision]
    BY DEF SignerDecides
  <1>2. /\ signer[f] = "none"
        /\ UNCHANGED <<head, attempt, authorityVars, budget, final, evidenceVars,
                       call, contacts>>
    BY DEF SignerDecides
  <1>3. /\ signer' \in [Ids -> {"none", "SIGNED", "REFUSED"}]
        /\ \A g \in Ids \ {f} : signer'[g] = signer[g]
    BY <1>1 DEF IInv, FinalizationTypeOK
  <1>4. FinalizationTypeOK'
    BY <1>2, <1>3 DEF IInv, FinalizationTypeOK
  <1>5. HeadsFollow' /\ EnvelopeOwned' /\ ContactsCounted'
    BY <1>2, TuplesStay DEF IInv, ContactsCounted, Exists
  <1>6. CallsKnow'
    <2>1. \A r \in Recoverers : call[r] /= Idle => call[r].id \in Ids
      BY DEF IInv, FinalizationTypeOK, Calls
    <2> QED BY <1>2, <1>3, <2>1 DEF IInv, CallsKnow, Exists
  <1>7. StatesAgree'
    BY <1>2, <1>3 DEF IInv, StatesAgree, StateAgrees, Exists
  <1> QED BY <1>4, <1>5, <1>6, <1>7 DEF IInv

(* What leaves the rows alone and only moves a call keeps the rest.        *)
LEMMA CallStepInductive ==
  ASSUME IInv, NEW r \in Recoverers,
         UNCHANGED <<head, attempt, authorityVars, budget, final, tainted, reported,
                     effects, contacts, signer>>,
         frozen' \subseteq Ids,
         call' \in [Recoverers -> Calls \cup {Idle}],
         \A s \in Recoverers \ {r} : call'[s] = call[s],
         \/ call'[r] = Idle
         \/ /\ call[r] /= Idle /\ call'[r].id = call[r].id /\ call'[r].at /= "finalize"
            /\ call'[r].response \in {"SIGNED", "REFUSED"} =>
                 signer[call[r].id] = call'[r].response
  PROVE  IInv'
  <1>1. FinalizationTypeOK'
    BY DEF IInv, FinalizationTypeOK, authorityVars
  <1>2. HeadsFollow' /\ EnvelopeOwned' /\ StatesAgree'
    BY TuplesStay DEF IInv, StatesAgree, StateAgrees, Exists
  <1>3. CallsKnow' /\ ContactsCounted'
    BY CallProceeds DEF Exists
  <1> QED BY <1>1, <1>2, <1>3 DEF IInv

LEMMA SignerAnswersInductive ==
  ASSUME IInv, NEW r \in Recoverers, SignerAnswers(r)
  PROVE  IInv'
  <1>1. /\ call[r] \in Calls /\ call[r] /= Idle /\ call[r].id \in Ids
    BY CallInProgress DEF IInv, SignerAnswers
  <1>2. PICK response \in {"LOST", "UNKNOWN", "MISBOUND", signer[call[r].id]} \ {"none"} :
          call' = [call EXCEPT ![r].response = response,
                               ![r].at = IF response = "LOST" THEN "unknown"
                                         ELSE "answered"]
    BY DEF SignerAnswers
  <1>3. response \in Responses
    BY <1>1 DEF IInv, FinalizationTypeOK, Responses
  <1> DEFINE at == IF response = "LOST" THEN "unknown" ELSE "answered"
             new == [call[r] EXCEPT !.response = response, !.at = at]
  <1>4. at \in {"unknown", "answered"}
    OBVIOUS
  <1> HIDE DEF at
  <1>5. new \in Calls /\ new.id = call[r].id /\ new.at /= "finalize" /\ new.response = response
    BY <1>1, <1>3, <1>4 DEF Calls
  <1>6. call' = [call EXCEPT ![r] = new]
    BY <1>2 DEF at
  <1> HIDE DEF new
  <1>7. /\ call' \in [Recoverers -> Calls \cup {Idle}] /\ call'[r] = new
        /\ \A s \in Recoverers \ {r} : call'[s] = call[s]
    BY <1>5, <1>6 DEF IInv, FinalizationTypeOK
  <1>8. response \in {"SIGNED", "REFUSED"} => signer[call[r].id] = response
    BY <1>2
  <1>9. /\ UNCHANGED <<head, attempt, authorityVars, budget, final, tainted, reported,
                       effects, contacts, signer>>
        /\ frozen' \subseteq Ids
    BY DEF SignerAnswers, evidenceVars, IInv, FinalizationTypeOK
  <1> QED BY <1>1, <1>5, <1>7, <1>8, <1>9, CallStepInductive

(* A contacted row that enters a state the signer's decision agrees with.  *)
LEMMA EnterInductive ==
  ASSUME IInv, NEW r \in Recoverers, call[r] /= Idle,
         NEW f \in Ids, f = call[r].id,
         final[f].signer \in {"CONTACT_COMMITTED", "RESULT_UNKNOWN"},
         NEW state \in {"RESULT_UNKNOWN", "RESULT_AVAILABLE", "REFUSED"},
         NEW exposure \in {"UNCERTAIN", "RELEASED"},
         exposure = "RELEASED" <=> state = "REFUSED",
         state = "RESULT_AVAILABLE" => signer[f] = "SIGNED",
         state = "REFUSED" => signer[f] = "REFUSED",
         Enter(f, state, exposure),
         UNCHANGED <<head, attempt, authorityVars, budget, evidenceVars, contacts, signer>>,
         call' \in [Recoverers -> Calls \cup {Idle}],
         \A s \in Recoverers \ {r} : call'[s] = call[s],
         \/ call'[r] = Idle
         \/ /\ call'[r].id = call[r].id /\ call'[r].at /= "finalize"
            /\ call'[r].response = call[r].response
  PROVE  IInv'
  <1>1. Exists(f)
    BY DEF IInv, CallsKnow
  <1>2. /\ final' \in [Ids -> Finalizations \cup {NoFinalization}]
        /\ Exists(f)' /\ final'[f].tuple = final[f].tuple
        /\ final'[f].signer = state /\ final'[f].exposure = exposure
        /\ \A g \in Ids \ {f} : final'[g] = final[g]
    BY <1>1, EnterChanges DEF IInv, SignerStates, Terminal
  <1>3. FinalizationTypeOK'
    BY <1>2 DEF IInv, FinalizationTypeOK, authorityVars, evidenceVars
  <1>4. StateAgrees(f)'
    BY <1>2 DEF StateAgrees
  <1>5. /\ HeadsFollow' /\ EnvelopeOwned' /\ StatesAgree'
        /\ \A g \in Ids : Exists(g)' <=> Exists(g)
    BY <1>1, <1>2, <1>4, RowProceeds DEF evidenceVars
  <1>6. \A g \in Ids : Exists(g) /\ final[g].signer \notin Untouched =>
                      final'[g].signer \notin Untouched
    BY <1>2 DEF Untouched
  <1>7. call[r].response \in {"SIGNED", "REFUSED"} => signer[call[r].id] = call[r].response
    BY DEF IInv, CallsKnow
  <1>8. CallsKnow' /\ ContactsCounted'
    BY <1>5, <1>6, <1>7, CallProceeds
  <1> QED BY <1>3, <1>5, <1>8 DEF IInv

LEMMA AcceptInductive ==
  ASSUME IInv, NEW r \in Recoverers, AcceptSignerResponse(r)
  PROVE  IInv'
  <1> DEFINE f == call[r].id
             state == final[f].signer
             response == call[r].response
  <1>1. /\ call[r].at = "answered" /\ call[r] /= Idle /\ f \in Ids
        /\ UNCHANGED <<head, attempt, authorityVars, budget, evidenceVars, contacts, signer>>
    BY CallInProgress DEF AcceptSignerResponse, IInv
  <1>2. /\ Exists(f) /\ state \in SignerStates /\ StateAgrees(f)
        /\ response \in {"SIGNED", "REFUSED"} => signer[f] = response
    BY <1>1, ExistingIsRow DEF IInv, CallsKnow, StatesAgree
  <1>3. final[f].exposure \in {"RESERVED", "UNCERTAIN", "RELEASED", "CONSUMED"}
    BY <1>1, <1>2, ExistingIsRow DEF IInv, Finalizations
  <1>4. ASSUME NEW at \in {"conflict", "unknown"}, GoTo(r, at), UNCHANGED final
        PROVE  IInv'
    <2>1. /\ call' \in [Recoverers -> Calls \cup {Idle}]
          /\ call'[r].id = f /\ call'[r].response = response /\ call'[r].at = at
          /\ \A s \in Recoverers \ {r} : call'[s] = call[s]
      BY <1>1, <1>4, CallChanges DEF IInv
    <2>2. frozen' \subseteq Ids
      BY <1>1 DEF IInv, FinalizationTypeOK, evidenceVars
    <2> QED BY <1>1, <1>2, <1>4, <2>1, <2>2, CallStepInductive DEF evidenceVars
  <1>5. ASSUME Return(r), UNCHANGED final
        PROVE  IInv'
    <2>1. /\ call' \in [Recoverers -> Calls \cup {Idle}] /\ call'[r] = Idle
          /\ \A s \in Recoverers \ {r} : call'[s] = call[s]
      BY <1>5, CallReturns DEF IInv
    <2>2. frozen' \subseteq Ids
      BY <1>1 DEF IInv, FinalizationTypeOK, evidenceVars
    <2> QED BY <1>1, <1>5, <2>1, <2>2, CallStepInductive DEF evidenceVars
  <1>6. ASSUME ~Conflicts(state, response), ~Keeps(state, response),
               response \in {"UNKNOWN", "SIGNED", "REFUSED"}
        PROVE  state \in {"CONTACT_COMMITTED", "RESULT_UNKNOWN"}
               /\ final[f].exposure = "UNCERTAIN"
    <2>1. state \in {"CONTACT_COMMITTED", "RESULT_UNKNOWN"}
      BY <1>2, <1>6 DEF Conflicts, Keeps, SignerStates, Terminal
    <2> QED BY <1>2, <1>3, <2>1 DEF StateAgrees
  <1>7. ASSUME ~Conflicts(state, response), ~Keeps(state, response), Return(r),
               NEW result, NEW exposure, Enter(f, result, exposure),
               \/ /\ response = "UNKNOWN" /\ result = "RESULT_UNKNOWN"
                  /\ exposure = final[f].exposure
               \/ /\ response = "SIGNED" /\ result = "RESULT_AVAILABLE"
                  /\ exposure = final[f].exposure
               \/ response = "REFUSED" /\ result = "REFUSED" /\ exposure = "RELEASED"
        PROVE  IInv'
    <2>1. state \in {"CONTACT_COMMITTED", "RESULT_UNKNOWN"}
          /\ (exposure = "UNCERTAIN" \/ response = "REFUSED")
      BY <1>6, <1>7
    <2>2. /\ call' \in [Recoverers -> Calls \cup {Idle}] /\ call'[r] = Idle
          /\ \A s \in Recoverers \ {r} : call'[s] = call[s]
      BY <1>7, CallReturns DEF IInv
    <2>3. /\ result \in {"RESULT_UNKNOWN", "RESULT_AVAILABLE", "REFUSED"}
          /\ exposure \in {"UNCERTAIN", "RELEASED"}
          /\ exposure = "RELEASED" <=> result = "REFUSED"
          /\ result = "RESULT_AVAILABLE" => signer[f] = "SIGNED"
          /\ result = "REFUSED" => signer[f] = "REFUSED"
      BY <1>2, <1>7, <2>1
    <2> QED BY <1>1, <1>7, <2>1, <2>2, <2>3, EnterInductive
  <1>8. \/ Conflicts(state, response) /\ GoTo(r, "conflict") /\ UNCHANGED final
        \/ Keeps(state, response) /\ Return(r) /\ UNCHANGED final
        \/ /\ ~Conflicts(state, response) /\ ~Keeps(state, response)
           /\ \/ /\ response = "UNKNOWN" /\ Return(r)
                 /\ Enter(f, "RESULT_UNKNOWN", final[f].exposure)
              \/ /\ response = "SIGNED" /\ Return(r)
                 /\ Enter(f, "RESULT_AVAILABLE", final[f].exposure)
              \/ /\ response = "REFUSED" /\ Return(r)
                 /\ Enter(f, "REFUSED", "RELEASED")
              \/ GoTo(r, "unknown") /\ UNCHANGED final
    BY DEF AcceptSignerResponse
  <1> HIDE DEF f, state, response
  <1> QED BY <1>4, <1>5, <1>7, <1>8

LEMMA RecordUnknownInductive ==
  ASSUME IInv, NEW r \in Recoverers, RecordUnknown(r)
  PROVE  IInv'
  <1> DEFINE f == call[r].id
  <1>1. /\ call[r].at \in {"unknown", "conflict"} /\ call[r] /= Idle /\ f \in Ids
        /\ UNCHANGED <<head, attempt, authorityVars, budget, evidenceVars, contacts, signer>>
        /\ frozen' \subseteq Ids
    BY CallInProgress DEF RecordUnknown, IInv, FinalizationTypeOK, evidenceVars
  <1>2. /\ call' \in [Recoverers -> Calls \cup {Idle}]
        /\ \A s \in Recoverers \ {r} : call'[s] = call[s]
        /\ \/ call'[r] = Idle
           \/ /\ call'[r].id = f /\ call'[r].at /= "finalize"
              /\ call'[r].response = call[r].response
    <2>1. CASE GoTo(r, "report")
      BY <1>1, <2>1, CallChanges DEF IInv
    <2>2. CASE Return(r)
      BY <2>2, CallReturns DEF IInv
    <2> QED BY <2>1, <2>2 DEF RecordUnknown
  <1>3. call[r].response \in {"SIGNED", "REFUSED"} => signer[f] = call[r].response
    BY <1>1 DEF IInv, CallsKnow
  <1>4. CASE UNCHANGED final
    BY <1>1, <1>2, <1>3, <1>4, CallStepInductive DEF evidenceVars
  <1>5. CASE /\ final[f].signer \in {"CONTACT_COMMITTED", "RESULT_UNKNOWN"}
             /\ Enter(f, "RESULT_UNKNOWN", "UNCERTAIN")
    BY <1>1, <1>2, <1>5, EnterInductive
  <1> QED BY <1>4, <1>5 DEF RecordUnknown

LEMMA CallEndsInductive ==
  ASSUME IInv, NEW r \in Recoverers, RecordSignerConflict(r) \/ Crash(r)
  PROVE  IInv'
  <1>1. /\ Return(r)
        /\ UNCHANGED <<head, attempt, authorityVars, budget, final, tainted, reported,
                       effects, contacts, signer>>
    BY DEF RecordSignerConflict, Crash, evidenceVars
  <1>2. frozen' \subseteq Ids
    <2>1. CASE RecordSignerConflict(r)
      BY <2>1, CallInProgress DEF RecordSignerConflict, IInv, FinalizationTypeOK
    <2>2. CASE Crash(r)
      BY <2>2 DEF Crash, evidenceVars, IInv, FinalizationTypeOK
    <2> QED BY <2>1, <2>2
  <1>3. /\ call' \in [Recoverers -> Calls \cup {Idle}] /\ call'[r] = Idle
        /\ \A s \in Recoverers \ {r} : call'[s] = call[s]
    BY <1>1, CallReturns DEF IInv
  <1> QED BY <1>1, <1>2, <1>3, CallStepInductive

-----------------------------------------------------------------------------
(* What happens to rows and evidence while no call moves.                  *)
LEMMA CallsStay ==
  ASSUME IInv, UNCHANGED <<call, contacts, signer>>,
         \A f \in Ids : Exists(f)' <=> Exists(f),
         \A f \in Ids : Exists(f) /\ final[f].signer \notin Untouched =>
                       final'[f].signer \notin Untouched
  PROVE  CallsKnow' /\ ContactsCounted'
  <1>1. \A r \in Recoverers : call[r] /= Idle => call[r].id \in Ids /\ Exists(call[r].id)
    BY DEF IInv, FinalizationTypeOK, Calls, CallsKnow
  <1>2. CallsKnow'
    BY <1>1 DEF IInv, CallsKnow
  <1>3. \A r \in Recoverers : call[r].at = "finalize" => call[r] /= Idle
    BY Distinct
  <1>4. ContactsCounted'
    BY <1>1, <1>3 DEF IInv, ContactsCounted
  <1> QED BY <1>2, <1>4

LEMMA ExpireInductive ==
  ASSUME IInv, NEW f \in Ids, ExpireNeverContacted(f)
  PROVE  IInv'
  <1> USE DEF authorityVars, evidenceVars, signerVars
  <1>1. /\ Exists(f) /\ final[f].signer = "NOT_CONTACTED"
        /\ Enter(f, "EXPIRED_NEVER_CONTACTED", "RELEASED")
        /\ UNCHANGED <<head, attempt, authorityVars, budget, evidenceVars, signerVars>>
    BY DEF ExpireNeverContacted, Expirable
  <1>2. /\ final' \in [Ids -> Finalizations \cup {NoFinalization}]
        /\ Exists(f)' /\ final'[f].tuple = final[f].tuple
        /\ final'[f].signer = "EXPIRED_NEVER_CONTACTED" /\ final'[f].exposure = "RELEASED"
        /\ \A g \in Ids \ {f} : final'[g] = final[g]
    BY <1>1, EnterChanges DEF IInv, SignerStates, Terminal
  <1>3. FinalizationTypeOK'
    BY <1>1, <1>2 DEF IInv, FinalizationTypeOK
  <1>4. StateAgrees(f)'
    BY <1>2 DEF StateAgrees
  <1>5. /\ HeadsFollow' /\ EnvelopeOwned' /\ StatesAgree'
        /\ \A g \in Ids : Exists(g)' <=> Exists(g)
    BY <1>1, <1>2, <1>4, RowProceeds
  <1>6. \A g \in Ids : Exists(g) /\ final[g].signer \notin Untouched =>
                      final'[g].signer \notin Untouched
    BY <1>1, <1>2 DEF Untouched
  <1>7. CallsKnow' /\ ContactsCounted'
    BY <1>1, <1>5, <1>6, CallsStay
  <1> QED BY <1>3, <1>5, <1>7 DEF IInv

(* Evidence changes effects only, and none of a row that may be expired.   *)
LEMMA EffectsInductive ==
  ASSUME IInv, NEW f \in Ids, Exists(f),
         UNCHANGED <<head, attempt, authorityVars, budget, final, tainted, signerVars>>,
         effects' \in [Ids -> SUBSET Evidence],
         \A g \in Ids \ {f} : effects'[g] = effects[g],
         final[f].signer = "NOT_CONTACTED" => effects'[f] = effects[f],
         frozen' \subseteq Ids,
         reported' \in [Ids -> [Reports ->
           {"none", "PENDING", "POSSIBLE_EFFECT", "FINALIZED", "INCIDENT"}]]
  PROVE  IInv'
  <1> USE DEF authorityVars, signerVars
  <1>1. FinalizationTypeOK'
    BY DEF IInv, FinalizationTypeOK
  <1>2. HeadsFollow' /\ EnvelopeOwned'
    BY TuplesStay DEF Exists
  <1>3. CallsKnow' /\ ContactsCounted'
    BY CallsStay DEF Exists
  <1>4. StatesAgree'
    BY DEF IInv, StatesAgree, StateAgrees, Exists
  <1> QED BY <1>1, <1>2, <1>3, <1>4 DEF IInv

LEMMA IngestInductive ==
  ASSUME IInv, NEW f \in Ids, NEW r \in Reports, IngestObservation(f, r)
  PROVE  IInv'
  <1> DEFINE Dispositions == {"none", "PENDING", "POSSIBLE_EFFECT", "FINALIZED", "INCIDENT"}
  <1>1. /\ Exists(f)
        /\ UNCHANGED <<head, attempt, authorityVars, budget, final, tainted, signerVars>>
    BY DEF IngestObservation
  <1>2. /\ effects \in [Ids -> SUBSET Evidence] /\ frozen \subseteq Ids
        /\ reported \in [Ids -> [Reports -> Dispositions]]
    BY DEF IInv, FinalizationTypeOK
  <1>3. /\ r.state \in {"UNKNOWN", "POSSIBLE_EFFECT", "FINALIZED"}
        /\ Effect(r) \in Evidence
    <2>1. /\ r.state \in {"UNKNOWN", "POSSIBLE_EFFECT", "FINALIZED"} /\ r.tx \in {"own", "other"}
          /\ r.cost \in Nat /\ r.reference \in STRING
      BY FinalizationAssumption
    <2> QED BY <2>1 DEF Effect, Evidence
  <1>4. PICK disposition \in Dispositions :
          reported' = [reported EXCEPT ![f][r] = disposition]
    <2>1. CASE Problem(f, r)
      BY <2>1 DEF IngestObservation
    <2>2. CASE ~Problem(f, r)
      BY <1>3, <2>2 DEF IngestObservation
    <2> QED BY <2>1, <2>2
  <1>5. reported' \in [Ids -> [Reports -> Dispositions]]
    BY <1>2, <1>4
  <1>6. frozen' \subseteq Ids
    BY <1>2 DEF IngestObservation
  <1>7. \/ UNCHANGED effects
        \/ /\ ~Problem(f, r) /\ r.state /= "UNKNOWN"
           /\ effects' = [effects EXCEPT ![f] = effects[f] \cup {Effect(r)}]
    BY <1>2 DEF IngestObservation
  <1>8. /\ effects' \in [Ids -> SUBSET Evidence]
        /\ \A g \in Ids \ {f} : effects'[g] = effects[g]
    BY <1>2, <1>3, <1>7
  <1>9. final[f].signer = "NOT_CONTACTED" => effects'[f] = effects[f]
    BY <1>7 DEF Problem
  <1> QED BY <1>1, <1>5, <1>6, <1>8, <1>9, EffectsInductive

LEMMA SettleInductive ==
  ASSUME IInv, NEW f \in Ids, NEW s \in Settlements, SettleExposure(f, s)
  PROVE  IInv'
  <1> DEFINE e == [kind |-> "FINALIZED_ACCOUNTING", tx |-> "own", cost |-> s.cost,
                   reference |-> s.reference]
  <1>1. e \in Evidence
    <2>1. s.cost \in Nat /\ s.reference \in STRING
      BY FinalizationAssumption
    <2> QED BY <2>1 DEF Evidence
  <1>2. /\ Exists(f) /\ final[f].signer = "RESULT_AVAILABLE"
        /\ effects' = [effects EXCEPT ![f] = effects[f] \cup {e}]
        /\ UNCHANGED <<head, attempt, authorityVars, budget, final, frozen, tainted,
                       reported, signerVars>>
    BY DEF SettleExposure
  <1> HIDE DEF e
  <1>3. /\ effects' \in [Ids -> SUBSET Evidence]
        /\ \A g \in Ids \ {f} : effects'[g] = effects[g]
        /\ frozen' \subseteq Ids
        /\ reported' \in [Ids -> [Reports ->
             {"none", "PENDING", "POSSIBLE_EFFECT", "FINALIZED", "INCIDENT"}]]
    BY <1>1, <1>2 DEF IInv, FinalizationTypeOK
  <1> QED BY <1>2, <1>3, EffectsInductive

LEMMA ApplyInductive ==
  ASSUME IInv, NEW f \in Ids, NEW e \in effects[f], ApplyAccounting(f, e)
  PROVE  IInv'
  <1> USE DEF authorityVars, evidenceVars, signerVars
  <1> DEFINE row == [final[f] EXCEPT !.exposure = "CONSUMED", !.consumed = e.cost]
  <1>1. /\ Exists(f) /\ final[f].signer = "RESULT_AVAILABLE"
        /\ final' = [final EXCEPT ![f] = row]
        /\ UNCHANGED <<head, attempt, authorityVars, budget, evidenceVars, signerVars>>
    BY DEF ApplyAccounting
  <1>2. e.cost \in Nat /\ final[f] \in Finalizations
    BY <1>1, ExistingIsRow DEF IInv, FinalizationTypeOK, Evidence
  <1>3. /\ row \in Finalizations /\ row /= NoFinalization
        /\ row.tuple = final[f].tuple /\ row.signer = "RESULT_AVAILABLE"
        /\ row.exposure = "CONSUMED"
    <2>1. row \in Finalizations
      BY <1>2 DEF Finalizations
    <2> QED BY <1>1, <1>2, <2>1, Distinct DEF Finalizations
  <1> HIDE DEF row
  <1>4. /\ final' \in [Ids -> Finalizations \cup {NoFinalization}]
        /\ final'[f] = row /\ \A g \in Ids \ {f} : final'[g] = final[g]
    BY <1>1, <1>3 DEF IInv, FinalizationTypeOK
  <1>5. FinalizationTypeOK'
    BY <1>1, <1>4 DEF IInv, FinalizationTypeOK
  <1>6. Exists(f)'
    BY <1>3, <1>4 DEF Exists
  <1>7. StateAgrees(f)'
    BY <1>1, <1>3, <1>4 DEF IInv, StatesAgree, StateAgrees
  <1>8. /\ HeadsFollow' /\ EnvelopeOwned' /\ StatesAgree'
        /\ \A g \in Ids : Exists(g)' <=> Exists(g)
    BY <1>1, <1>3, <1>4, <1>6, <1>7, RowProceeds
  <1>9. \A g \in Ids : Exists(g) /\ final[g].signer \notin Untouched =>
                      final'[g].signer \notin Untouched
    BY <1>3, <1>4 DEF Untouched
  <1>10. CallsKnow' /\ ContactsCounted'
    BY <1>1, <1>8, <1>9, CallsStay
  <1> QED BY <1>5, <1>8, <1>10 DEF IInv

-----------------------------------------------------------------------------
LEMMA InitInductive == Init => IInv
  <1> SUFFICES ASSUME Init PROVE IInv
    OBVIOUS
  <1>1. FinalizationTypeOK
    BY BudgetAssumption DEF Init, FinalizationTypeOK
  <1>2. \A f \in Ids : ~Exists(f)
    BY DEF Init, Exists
  <1>3. HeadsFollow /\ EnvelopeOwned
    BY <1>2 DEF Init, HeadsFollow, EnvelopeOwned
  <1>4. CallsKnow /\ ContactsCounted /\ StatesAgree
    BY <1>2, Distinct DEF Init, CallsKnow, ContactsCounted, StatesAgree
  <1> QED BY <1>1, <1>3, <1>4 DEF IInv

LEMMA NextInductive == IInv /\ [Next]_vars => IInv'
  <1> SUFFICES ASSUME IInv, [Next]_vars PROVE IInv'
    OBVIOUS
  <1>1. CASE UNCHANGED vars
    <2>1. FinalizationTypeOK'
      BY <1>1 DEF vars, authorityVars, evidenceVars, signerVars, IInv, FinalizationTypeOK
    <2> QED BY <1>1, <2>1, CoreStays DEF vars, evidenceVars, signerVars, IInv
  <1>2. ASSUME NEW e \in Envelopes,
               \/ RegisterAttempt(e) \/ Cancel(e) \/ RejectCallback(e)
               \/ IssueRuntimeDecision(e) \/ RevokeRuntime(e) \/ EnvelopeExpires(e)
        PROVE  IInv'
    BY <1>2, RegisterInductive, CancelInductive, AuthorityInductive
  <1>3. ASSUME \/ \E c \in Consents : AcceptConsent(c) \/ RevokeConsent(c)
               \/ AccountStatusChanges \/ RevokeRegistry
        PROVE  IInv'
    BY <1>3, AuthorityInductive
  <1>4. ASSUME NEW n,
               ReviseBudget(n) \/ \E s \in {"ACTIVE", "DISABLED"} : SetBudgetStatus(n, s)
        PROVE  IInv'
    BY <1>4, BudgetInductive
  <1>5. ASSUME NEW f \in Ids,
               \/ \E t \in Tuples : Claim(f, t)
               \/ \E r \in Recoverers : CommitContact(r, f) \/ RecoverContacted(r, f)
               \/ SignerDecides(f) \/ ExpireNeverContacted(f)
               \/ \E r \in Reports : IngestObservation(f, r)
               \/ \E s \in Settlements : SettleExposure(f, s)
               \/ \E e \in effects[f] : ApplyAccounting(f, e)
        PROVE  IInv'
    BY <1>5, ClaimInductive, CommitContactInductive, RecoverContactedInductive,
       SignerDecidesInductive, ExpireInductive, IngestInductive, SettleInductive,
       ApplyInductive
  <1>6. ASSUME NEW r \in Recoverers,
               \/ ContactSigner(r) \/ SignerAnswers(r) \/ AcceptSignerResponse(r)
               \/ RecordUnknown(r) \/ RecordSignerConflict(r) \/ Crash(r)
        PROVE  IInv'
    BY <1>6, ContactSignerInductive, SignerAnswersInductive, AcceptInductive,
       RecordUnknownInductive, CallEndsInductive
  <1>7. CASE Next
    BY <1>2, <1>3, <1>4, <1>5, <1>6, <1>7 DEF Next
  <1> QED BY <1>1, <1>7

THEOREM FinalizationSafety == Spec => []IInv
  BY InitInductive, NextInductive, PTL DEF Spec

(* All tables and calls are always of their types.                         *)
THEOREM FinalizationTypes == Spec => []FinalizationTypeOK
  <1>1. IInv => FinalizationTypeOK
    BY DEF IInv
  <1> QED BY <1>1, FinalizationSafety, PTL

(* An intent has one finalization at most: what a claim commits can        *)
(* neither be cancelled nor replaced.                                      *)
LEMMA OneFinalization ==
  ASSUME IInv, NEW f \in Ids, NEW g \in Ids, Exists(f), Exists(g),
         IntentOf[final[f].tuple.envelope] = IntentOf[final[g].tuple.envelope]
  PROVE  f = g
  <1> DEFINE d == final[f].tuple.envelope
             e == final[g].tuple.envelope
  <1>1. /\ d \in Envelopes /\ e \in Envelopes
        /\ attempt[d] = "FINALIZATION_COMMITTED" /\ attempt[e] = "FINALIZATION_COMMITTED"
    BY ExistingIsRow DEF IInv, EnvelopeOwned
  <1>2. d = e
    BY <1>1 DEF IInv, HeadsFollow, Current
  <1> QED BY <1>2 DEF IInv, EnvelopeOwned

(* How many calls may still ask.                                           *)
LEMMA AskingBound ==
  ASSUME IInv, NEW f \in Ids
  PROVE  /\ Asking(f) \in {0, 1}
         /\ Asking(f) = 1 => contacts[f] = 0 /\ Exists(f) /\ final[f].signer \notin Untouched
  <1> DEFINE Askers == {r \in Recoverers : call[r].at = "finalize" /\ call[r].id = f}
  <1>1. CASE Askers = {}
    BY <1>1, FS_EmptySet DEF Asking
  <1>2. CASE Askers /= {}
    <2>1. PICK r \in Askers : TRUE
      BY <1>2
    <2>2. Askers = {r}
      BY <2>1 DEF IInv, ContactsCounted
    <2>3. Asking(f) = 1
      BY <2>2, FS_Singleton DEF Asking
    <2>4. call[r] /= Idle
      BY <2>1, Distinct
    <2> QED BY <2>1, <2>3, <2>4 DEF IInv, ContactsCounted, CallsKnow
  <1> QED BY <1>1, <1>2

(* The sponsor's signer is asked for one signature of an intent at most    *)
(* (claim, cancel, recover and economic_commit_signer_contact).            *)
THEOREM SignsOnce == Spec => []OneSignaturePerIntent
  <1>1. ASSUME IInv PROVE OneSignaturePerIntent
    <2>1. \A f \in Ids : contacts[f] \in {0, 1} /\ (contacts[f] = 1 => Exists(f))
      BY <1>1 DEF IInv, ContactsCounted
    <2>2. \A f \in Ids : contacts[f] + Asking(f) <= 1
      BY <1>1, <2>1, AskingBound
    <2> QED BY <1>1, <2>2, OneFinalization DEF OneSignaturePerIntent
  <1> QED BY <1>1, FinalizationSafety, PTL

(* Nothing reserved is given back while a signature exists or can come     *)
(* (expireNeverContacted, acceptSignerResponse).                           *)
THEOREM ReleasesUnsigned == Spec => []ReleasedIsUnsigned
  <1>1. ASSUME IInv PROVE ReleasedIsUnsigned
    <2> SUFFICES ASSUME NEW f \in Ids, Exists(f)
                 PROVE  /\ final[f].exposure = "RELEASED" =>
                             signer[f] = "REFUSED" \/ (contacts[f] = 0 /\ Asking(f) = 0)
                        /\ final[f].exposure = "RESERVED" => contacts[f] = 0 /\ Asking(f) = 0
                        /\ final[f].signer = "RESULT_AVAILABLE" => signer[f] = "SIGNED"
      BY DEF ReleasedIsUnsigned
    <2>1. StateAgrees(f)
      BY <1>1 DEF IInv, StatesAgree
    <2>2. final[f].signer \in Untouched => contacts[f] = 0 /\ Asking(f) = 0
      BY <1>1, AskingBound DEF IInv, ContactsCounted
    <2> QED BY <2>1, <2>2 DEF StateAgrees, Untouched
  <1> QED BY <1>1, FinalizationSafety, PTL

(* What the expiry worker selects is what can be expired (expiryWorker     *)
(* against economic_expire_never_contacted).                               *)
THEOREM SelectsExpirable == Spec => []CandidatesExpire
  <1>1. ASSUME IInv PROVE CandidatesExpire
    <2> SUFFICES ASSUME NEW f \in Ids PROVE Candidate(f) <=> Expirable(f)
      BY DEF CandidatesExpire
    <2>1. ASSUME Candidate(f) PROVE Expirable(f)
      <3>1. Exists(f) /\ final[f].signer = "NOT_CONTACTED"
        BY <2>1 DEF Candidate
      <3>2. effects[f] = {}
        BY <1>1, <3>1 DEF IInv, StatesAgree, StateAgrees
      <3>3. attempt[final[f].tuple.envelope] = "FINALIZATION_COMMITTED"
            /\ Current(final[f].tuple.envelope)
        BY <1>1, <3>1, ExistingIsRow DEF IInv, EnvelopeOwned, HeadsFollow
      <3> QED BY <2>1, <3>2, <3>3 DEF Candidate, Expirable, Contradicted
    <2> QED BY <2>1 DEF Candidate, Expirable, Contradicted
  <1> QED BY <1>1, FinalizationSafety, PTL

-----------------------------------------------------------------------------
(* Accounting.  The final reports that were accepted state one cost; each  *)
(* piece of accounting evidence is an answer of the exposure observer or   *)
(* states that cost; and what was consumed is the cost of some evidence.   *)
Accounted(f) ==
  /\ \A q, r \in Reports :
       reported[f][q] = "FINALIZED" /\ reported[f][r] = "FINALIZED" => q.cost = r.cost
  /\ \A e \in effects[f] :
       e.kind = "FINALIZED_ACCOUNTING" =>
         \/ FromSettlement(e)
         \/ /\ \E r \in Reports : reported[f][r] = "FINALIZED"
            /\ \A r \in Reports : reported[f][r] = "FINALIZED" => r.cost = e.cost
  /\ Exists(f) /\ final[f].exposure = "CONSUMED" =>
       \E e \in effects[f] : e.kind = "FINALIZED_ACCOUNTING" /\ e.cost = final[f].consumed

AccountingInv == \A f \in Ids : Accounted(f)

(* What every step but the one that applies the accounting does to a row.  *)
RowKept(f) ==
  /\ Exists(f)' /\ final'[f].exposure = "CONSUMED" =>
       /\ Exists(f) /\ final[f].exposure = "CONSUMED"
       /\ final'[f].consumed = final[f].consumed
  /\ Exists(f) =>
       /\ Exists(f)'
       /\ f \in frozen =>
            /\ final[f].exposure = final'[f].exposure
            /\ final'[f].signer \in {final[f].signer, "RESULT_UNKNOWN", "RESULT_AVAILABLE"}

LEMMA SameRowKept ==
  ASSUME NEW f, final'[f] = final[f]
  PROVE  RowKept(f)
  BY DEF RowKept, Exists

(* A row that enters a state keeps what was consumed.                      *)
LEMMA EnteredRowKept ==
  ASSUME IInv, NEW f \in Ids, Exists(f), NEW state \in SignerStates,
         NEW exposure \in {"RESERVED", "UNCERTAIN", "RELEASED", "CONSUMED"},
         Enter(f, state, exposure),
         exposure = "CONSUMED" => final[f].exposure = "CONSUMED",
         f \in frozen =>
           /\ final[f].exposure = exposure
           /\ state \in {"RESULT_UNKNOWN", "RESULT_AVAILABLE"}
  PROVE  \A g \in Ids : RowKept(g)
  <1>1. /\ Exists(f)' /\ final'[f].signer = state /\ final'[f].exposure = exposure
        /\ \A g \in Ids \ {f} : final'[g] = final[g]
    BY EnterChanges DEF IInv
  <1>2. final'[f].consumed = final[f].consumed
    <2>1. final \in [Ids -> Finalizations \cup {NoFinalization}] /\ final[f] \in Finalizations
      BY ExistingIsRow DEF IInv, FinalizationTypeOK
    <2>2. final'[f] = [final[f] EXCEPT !.signer = state, !.exposure = exposure]
      BY <2>1 DEF Enter
    <2> QED BY <2>1, <2>2 DEF Finalizations
  <1>3. RowKept(f)
    BY <1>1, <1>2 DEF RowKept
  <1> QED BY <1>1, <1>3, SameRowKept

(* Between commit and result the exposure is uncertain.                    *)
LEMMA PendingIsUncertain ==
  ASSUME IInv, NEW f \in Ids, Exists(f),
         final[f].signer \in {"CONTACT_COMMITTED", "RESULT_UNKNOWN"}
  PROVE  final[f].exposure = "UNCERTAIN"
  <1>1. final[f].exposure \in {"RESERVED", "UNCERTAIN", "RELEASED", "CONSUMED"}
    BY ExistingIsRow DEF IInv, Finalizations
  <1> QED BY <1>1 DEF IInv, StatesAgree, StateAgrees

LEMMA ClaimKeepsRows ==
  ASSUME IInv, NEW g \in Ids, NEW t \in Tuples, Claim(g, t)
  PROVE  \A f \in Ids : RowKept(f)
  <1> DEFINE row == [tuple |-> t, signer |-> "NOT_CONTACTED", budget |-> budget.version,
                     exposure |-> "RESERVED", consumed |-> 0]
  <1>1. /\ final \in [Ids -> Finalizations \cup {NoFinalization}]
        /\ ~Exists(g) /\ final' = [final EXCEPT ![g] = row]
    BY DEF Claim, IInv, FinalizationTypeOK
  <1>2. row.exposure = "RESERVED"
    OBVIOUS
  <1> HIDE DEF row
  <1>3. RowKept(g)
    BY <1>1, <1>2 DEF RowKept
  <1>4. \A f \in Ids \ {g} : final'[f] = final[f]
    BY <1>1
  <1> QED BY <1>3, <1>4, SameRowKept

LEMMA AcceptKeepsRows ==
  ASSUME IInv, NEW r \in Recoverers, AcceptSignerResponse(r)
  PROVE  \A f \in Ids : RowKept(f)
  <1> DEFINE f == call[r].id
             state == final[f].signer
             response == call[r].response
  <1>1. /\ call[r].at = "answered" /\ call[r] /= Idle /\ f \in Ids
    BY CallInProgress DEF AcceptSignerResponse, IInv
  <1>2. Exists(f) /\ state \in SignerStates
    BY <1>1, ExistingIsRow DEF IInv, CallsKnow
  <1>3. ASSUME ~Conflicts(state, response), ~Keeps(state, response),
               response \in {"UNKNOWN", "SIGNED", "REFUSED"}
        PROVE  final[f].exposure = "UNCERTAIN"
    <2>1. state \in {"CONTACT_COMMITTED", "RESULT_UNKNOWN"}
      BY <1>2, <1>3 DEF Conflicts, Keeps, SignerStates, Terminal
    <2> QED BY <1>1, <1>2, <2>1, PendingIsUncertain
  <1>4. \/ UNCHANGED final
        \/ /\ ~Conflicts(state, response) /\ ~Keeps(state, response)
           /\ \/ response = "UNKNOWN" /\ Enter(f, "RESULT_UNKNOWN", final[f].exposure)
              \/ response = "SIGNED" /\ Enter(f, "RESULT_AVAILABLE", final[f].exposure)
              \/ response = "REFUSED" /\ f \notin frozen /\ Enter(f, "REFUSED", "RELEASED")
    BY DEF AcceptSignerResponse
  <1>5. {"RESULT_UNKNOWN", "RESULT_AVAILABLE", "REFUSED"} \subseteq SignerStates
    BY DEF SignerStates, Terminal
  <1> HIDE DEF f, state, response
  <1>6. CASE UNCHANGED final
    BY <1>6, SameRowKept
  <1>7. ASSUME NEW result \in {"RESULT_UNKNOWN", "RESULT_AVAILABLE"},
               final[f].exposure = "UNCERTAIN", Enter(f, result, final[f].exposure)
        PROVE  \A g \in Ids : RowKept(g)
    BY <1>1, <1>2, <1>5, <1>7, EnteredRowKept
  <1>8. ASSUME f \notin frozen, Enter(f, "REFUSED", "RELEASED")
        PROVE  \A g \in Ids : RowKept(g)
    BY <1>1, <1>2, <1>5, <1>8, EnteredRowKept
  <1> QED BY <1>3, <1>4, <1>6, <1>7, <1>8

LEMMA ContactsKeepRows ==
  ASSUME IInv,
         \/ \E r \in Recoverers : RecordUnknown(r)
         \/ \E g \in Ids, r \in Recoverers : CommitContact(r, g)
         \/ \E g \in Ids : ExpireNeverContacted(g)
  PROVE  \A f \in Ids : RowKept(f)
  <1>1. {"CONTACT_COMMITTED", "RESULT_UNKNOWN", "EXPIRED_NEVER_CONTACTED"}
          \subseteq SignerStates
    BY DEF SignerStates, Terminal
  <1>2. ASSUME NEW r \in Recoverers, RecordUnknown(r)
        PROVE  \A f \in Ids : RowKept(f)
    <2> DEFINE f == call[r].id
    <2>1. f \in Ids /\ Exists(f)
      BY <1>2, CallInProgress DEF RecordUnknown, IInv, CallsKnow
    <2>2. \/ UNCHANGED final
          \/ /\ final[f].signer \in {"CONTACT_COMMITTED", "RESULT_UNKNOWN"}
             /\ Enter(f, "RESULT_UNKNOWN", "UNCERTAIN")
      BY <1>2 DEF RecordUnknown
    <2> HIDE DEF f
    <2>3. CASE UNCHANGED final
      BY <2>3, SameRowKept
    <2>4. CASE /\ final[f].signer \in {"CONTACT_COMMITTED", "RESULT_UNKNOWN"}
               /\ Enter(f, "RESULT_UNKNOWN", "UNCERTAIN")
      <3>1. final[f].exposure = "UNCERTAIN"
        BY <2>1, <2>4, PendingIsUncertain
      <3> QED BY <1>1, <2>1, <2>4, <3>1, EnteredRowKept
    <2> QED BY <2>2, <2>3, <2>4
  <1>3. ASSUME NEW g \in Ids, NEW r \in Recoverers, CommitContact(r, g)
        PROVE  \A f \in Ids : RowKept(f)
    <2>1. Exists(g) /\ g \notin frozen /\ Enter(g, "CONTACT_COMMITTED", "UNCERTAIN")
      BY <1>3 DEF CommitContact, GrantsContact
    <2> QED BY <1>1, <2>1, EnteredRowKept
  <1>4. ASSUME NEW g \in Ids, ExpireNeverContacted(g)
        PROVE  \A f \in Ids : RowKept(f)
    <2>1. Exists(g) /\ g \notin frozen /\ Enter(g, "EXPIRED_NEVER_CONTACTED", "RELEASED")
      BY <1>4 DEF ExpireNeverContacted, Expirable
    <2> QED BY <1>1, <2>1, EnteredRowKept
  <1> QED BY <1>2, <1>3, <1>4

(* Where the evidence of a row stays, so does its accounting.              *)
LEMMA AccountStays ==
  ASSUME NEW f, Accounted(f), RowKept(f), reported'[f] = reported[f],
         effects'[f] = effects[f]
  PROVE  Accounted(f)'
  BY DEF Accounted, RowKept, FromSettlement

(* Ingestion accepts a final report only if it agrees with those before.   *)
LEMMA IngestAccounts ==
  ASSUME IInv, AccountingInv, NEW f \in Ids, NEW r \in Reports,
         IngestObservation(f, r)
  PROVE  AccountingInv'
  <1>1. /\ Exists(f) /\ reported[f][r] = "none" /\ final' = final
        /\ effects \in [Ids -> SUBSET Evidence]
        /\ reported \in [Ids -> [Reports ->
             {"none", "PENDING", "POSSIBLE_EFFECT", "FINALIZED", "INCIDENT"}]]
    BY DEF IngestObservation, IInv, FinalizationTypeOK
  <1>2. \A g \in Ids : RowKept(g)
    BY <1>1, SameRowKept
  <1>3. r.state \in {"UNKNOWN", "POSSIBLE_EFFECT", "FINALIZED"}
    BY FinalizationAssumption
  <1>4. \/ \E d \in {"INCIDENT", "PENDING", "POSSIBLE_EFFECT"} :
             reported' = [reported EXCEPT ![f][r] = d]
        \/ reported' = [reported EXCEPT ![f][r] = "FINALIZED"]
    BY <1>3 DEF IngestObservation
  <1>5. \A g \in Ids \ {f} : reported'[g] = reported[g]
    BY <1>1, <1>4
  <1>6. \A g \in Ids \ {f} : effects'[g] = effects[g]
    BY <1>1 DEF IngestObservation
  <1>7. \A g \in Ids \ {f} : Accounted(g)'
    BY <1>2, <1>5, <1>6, AccountStays DEF AccountingInv
  <1>8. Accounted(f)
    BY DEF AccountingInv
  <1>9. CASE Problem(f, r) \/ r.state /= "FINALIZED"
    <2>1. \A q \in Reports : reported'[f][q] = "FINALIZED" <=> reported[f][q] = "FINALIZED"
      <3>1. PICK d \in {"INCIDENT", "PENDING", "POSSIBLE_EFFECT"} :
              reported' = [reported EXCEPT ![f][r] = d]
        BY <1>3, <1>9 DEF IngestObservation
      <3> QED BY <1>1, <3>1
    <2>2. effects[f] \subseteq effects'[f]
          /\ \A e \in effects'[f] : e.kind = "FINALIZED_ACCOUNTING" => e \in effects[f]
      <3>1. \/ effects'[f] = effects[f]
            \/ r.state /= "FINALIZED" /\ effects'[f] = effects[f] \cup {Effect(r)}
        BY <1>1, <1>9 DEF IngestObservation
      <3>2. r.state /= "FINALIZED" => Effect(r).kind /= "FINALIZED_ACCOUNTING"
        BY DEF Effect
      <3> QED BY <3>1, <3>2
    <2>3. Exists(f)' /\ final'[f].exposure = "CONSUMED" =>
            \E e \in effects'[f] : e.kind = "FINALIZED_ACCOUNTING"
                                   /\ e.cost = final'[f].consumed
      BY <1>1, <1>8, <2>2 DEF Accounted, Exists
    <2>4. \A e \in effects'[f] :
            e.kind = "FINALIZED_ACCOUNTING" =>
              \/ FromSettlement(e)
              \/ /\ \E q \in Reports : reported'[f][q] = "FINALIZED"
                 /\ \A q \in Reports : reported'[f][q] = "FINALIZED" => q.cost = e.cost
      BY <1>8, <2>1, <2>2 DEF Accounted
    <2>5. Accounted(f)'
      BY <1>8, <2>1, <2>3, <2>4 DEF Accounted, FromSettlement
    <2> QED BY <1>7, <2>5 DEF AccountingInv
  <1>10. CASE ~Problem(f, r) /\ r.state = "FINALIZED"
    <2>1. /\ reported' = [reported EXCEPT ![f][r] = "FINALIZED"]
          /\ HasAccounting(f) => effects'[f] = effects[f]
          /\ ~HasAccounting(f) => effects'[f] = effects[f] \cup {Effect(r)}
      BY <1>1, <1>10 DEF IngestObservation
    <2>2. \A q \in Reports : reported[f][q] = "FINALIZED" => q.cost = r.cost
      BY <1>10 DEF Problem, FinalityProblem
    <2>3. /\ reported'[f][r] = "FINALIZED"
          /\ \A q \in Reports \ {r} : reported'[f][q] = reported[f][q]
      BY <1>1, <2>1
    <2>4. \A q \in Reports : reported'[f][q] = "FINALIZED" => q.cost = r.cost
      BY <2>2, <2>3
    <2>5. \A e \in effects[f] :
            e.kind = "FINALIZED_ACCOUNTING" => FromSettlement(e) \/ e.cost = r.cost
      <3> SUFFICES ASSUME NEW e \in effects[f], e.kind = "FINALIZED_ACCOUNTING",
                          ~FromSettlement(e)
                   PROVE  e.cost = r.cost
        OBVIOUS
      <3>1. PICK q \in Reports : reported[f][q] = "FINALIZED" /\ q.cost = e.cost
        BY <1>8 DEF Accounted
      <3> QED BY <2>2, <3>1
    <2>6. Effect(r).cost = r.cost
      BY DEF Effect
    <2>7. \A e \in effects'[f] :
            e.kind = "FINALIZED_ACCOUNTING" => FromSettlement(e) \/ e.cost = r.cost
      BY <2>1, <2>5, <2>6
    <2>8. Exists(f)' /\ final'[f].exposure = "CONSUMED" =>
            \E e \in effects'[f] : e.kind = "FINALIZED_ACCOUNTING"
                                   /\ e.cost = final'[f].consumed
      BY <1>1, <1>8, <2>1 DEF Accounted, Exists
    <2>9. Accounted(f)'
      BY <2>3, <2>4, <2>7, <2>8 DEF Accounted, FromSettlement
    <2> QED BY <1>7, <2>9 DEF AccountingInv
  <1> QED BY <1>9, <1>10

(* An answer of the exposure observer is compared with nothing.            *)
LEMMA SettleAccounts ==
  ASSUME IInv, AccountingInv, NEW f \in Ids, NEW s \in Settlements,
         SettleExposure(f, s)
  PROVE  AccountingInv'
  <1> DEFINE e == [kind |-> "FINALIZED_ACCOUNTING", tx |-> "own", cost |-> s.cost,
                   reference |-> s.reference]
  <1>1. /\ effects \in [Ids -> SUBSET Evidence]
        /\ effects' = [effects EXCEPT ![f] = effects[f] \cup {e}]
        /\ final' = final /\ reported' = reported
    BY DEF SettleExposure, IInv, FinalizationTypeOK
  <1>2. FromSettlement(e)
    BY DEF FromSettlement
  <1> HIDE DEF e
  <1>3. \A g \in Ids : RowKept(g)
    BY <1>1, SameRowKept
  <1>4. \A g \in Ids \ {f} : effects'[g] = effects[g]
    BY <1>1
  <1>5. \A g \in Ids \ {f} : Accounted(g)'
    BY <1>1, <1>3, <1>4, AccountStays DEF AccountingInv
  <1>6. effects'[f] = effects[f] \cup {e}
    BY <1>1
  <1>7. Accounted(f)
    BY DEF AccountingInv
  <1>8. Accounted(f)'
    BY <1>1, <1>2, <1>6, <1>7 DEF Accounted, Exists, FromSettlement
  <1> QED BY <1>5, <1>8 DEF AccountingInv

LEMMA ApplyChanges ==
  ASSUME IInv, NEW f \in Ids, NEW e \in effects[f], ApplyAccounting(f, e)
  PROVE  /\ f \notin frozen /\ e.kind = "FINALIZED_ACCOUNTING"
         /\ final'[f].exposure = "CONSUMED" /\ final'[f].consumed = e.cost
         /\ \A g \in Ids \ {f} : final'[g] = final[g]
         /\ reported' = reported /\ effects' = effects
  <1> DEFINE row == [final[f] EXCEPT !.exposure = "CONSUMED", !.consumed = e.cost]
  <1>1. /\ f \notin frozen /\ e.kind = "FINALIZED_ACCOUNTING"
        /\ final' = [final EXCEPT ![f] = row]
        /\ reported' = reported /\ effects' = effects
        /\ final[f] \in Finalizations
    BY ExistingIsRow DEF ApplyAccounting, evidenceVars, IInv
  <1>2. row.exposure = "CONSUMED" /\ row.consumed = e.cost
    BY <1>1 DEF Finalizations
  <1> HIDE DEF row
  <1> QED BY <1>1, <1>2 DEF IInv, FinalizationTypeOK

LEMMA ApplyAccounts ==
  ASSUME IInv, AccountingInv, NEW f \in Ids, NEW e \in effects[f],
         ApplyAccounting(f, e)
  PROVE  AccountingInv'
  <1>1. \A g \in Ids \ {f} : Accounted(g)'
    BY ApplyChanges, SameRowKept, AccountStays DEF AccountingInv
  <1>2. Accounted(f)
    BY DEF AccountingInv
  <1>3. Accounted(f)'
    BY <1>2, ApplyChanges DEF Accounted
  <1> QED BY <1>1, <1>3 DEF AccountingInv

(* Every other step leaves the evidence and keeps the rows.                *)
LEMMA AccountingSteps ==
  ASSUME IInv, [Next]_vars
  PROVE  \/ \E f \in Ids, r \in Reports : IngestObservation(f, r)
         \/ \E f \in Ids, s \in Settlements : SettleExposure(f, s)
         \/ \E f \in Ids : \E e \in effects[f] : ApplyAccounting(f, e)
         \/ (\A f \in Ids : RowKept(f)) /\ UNCHANGED <<reported, effects>>
  <1> USE DEF authorityVars, evidenceVars, signerVars
  <1>1. CASE UNCHANGED <<final, reported, effects>>
    BY <1>1, SameRowKept
  <1>2. ASSUME NEW e \in Envelopes,
               \/ RegisterAttempt(e) \/ Cancel(e) \/ RejectCallback(e)
               \/ IssueRuntimeDecision(e) \/ RevokeRuntime(e) \/ EnvelopeExpires(e)
        PROVE  UNCHANGED <<final, reported, effects>>
    BY <1>2 DEF RegisterAttempt, Cancel, RejectCallback, IssueRuntimeDecision,
       RevokeRuntime, EnvelopeExpires
  <1>3. ASSUME \/ \E c \in Consents : AcceptConsent(c) \/ RevokeConsent(c)
               \/ AccountStatusChanges \/ RevokeRegistry
               \/ \E n \in 1 .. budget.revision :
                    ReviseBudget(n) \/ \E s \in {"ACTIVE", "DISABLED"} : SetBudgetStatus(n, s)
        PROVE  UNCHANGED <<final, reported, effects>>
    BY <1>3 DEF AcceptConsent, RevokeConsent, AccountStatusChanges, RevokeRegistry,
       ReviseBudget, SetBudgetStatus
  <1>4. ASSUME NEW r \in Recoverers,
               \/ ContactSigner(r) \/ SignerAnswers(r) \/ RecordSignerConflict(r)
               \/ Crash(r) \/ \E f \in Ids : RecoverContacted(r, f) \/ SignerDecides(f)
        PROVE  UNCHANGED <<final, reported, effects>>
    BY <1>4 DEF ContactSigner, SignerAnswers, RecordSignerConflict, Crash,
       RecoverContacted, SignerDecides
  <1>5. ASSUME NEW f \in Ids, SignerDecides(f)
        PROVE  UNCHANGED <<final, reported, effects>>
    BY <1>5 DEF SignerDecides
  <1>6. ASSUME NEW f \in Ids,
               \/ \E t \in Tuples : Claim(f, t)
               \/ \E r \in Recoverers : CommitContact(r, f)
               \/ ExpireNeverContacted(f)
        PROVE  (\A g \in Ids : RowKept(g)) /\ UNCHANGED <<reported, effects>>
    <2>1. UNCHANGED <<reported, effects>>
      BY <1>6 DEF Claim, CommitContact, ExpireNeverContacted
    <2> QED BY <1>6, <2>1, ClaimKeepsRows, ContactsKeepRows
  <1>7. ASSUME NEW r \in Recoverers, AcceptSignerResponse(r) \/ RecordUnknown(r)
        PROVE  (\A g \in Ids : RowKept(g)) /\ UNCHANGED <<reported, effects>>
    <2>1. UNCHANGED <<reported, effects>>
      BY <1>7 DEF AcceptSignerResponse, RecordUnknown
    <2> QED BY <1>7, <2>1, AcceptKeepsRows, ContactsKeepRows
  <1>8. CASE UNCHANGED vars
    BY <1>1, <1>8 DEF vars
  <1>9. CASE Next
    BY <1>1, <1>2, <1>3, <1>4, <1>5, <1>6, <1>7, <1>9 DEF Next
  <1> QED BY <1>8, <1>9

(* A final report is accepted by the ingestion that found it in order.     *)
LEMMA AcceptedIsSound ==
  ASSUME IInv, NEW f \in Ids, NEW r \in Reports, IngestObservation(f, r),
         reported'[f][r] = "FINALIZED"
  PROVE  final' = final /\ ~Problem(f, r) /\ r.state = "FINALIZED"
  <1>1. /\ final' = final
        /\ reported \in [Ids -> [Reports ->
             {"none", "PENDING", "POSSIBLE_EFFECT", "FINALIZED", "INCIDENT"}]]
    BY DEF IngestObservation, IInv, FinalizationTypeOK
  <1>2. CASE Problem(f, r)
    <2>1. reported'[f][r] = "INCIDENT"
      BY <1>1, <1>2 DEF IngestObservation
    <2> QED BY <2>1
  <1>3. CASE ~Problem(f, r)
    <2>1. reported'[f][r] = IF r.state = "UNKNOWN" THEN "PENDING" ELSE r.state
      BY <1>1, <1>3 DEF IngestObservation
    <2> QED BY <1>1, <1>3, <2>1
  <1> QED BY <1>2, <1>3

LEMMA AcceptedByIngest ==
  ASSUME IInv, [Next]_vars, NEW f \in Ids, NEW r \in Reports,
         reported'[f][r] = "FINALIZED", reported[f][r] /= "FINALIZED"
  PROVE  IngestObservation(f, r)
  <1>1. reported' /= reported
    OBVIOUS
  <1>2. ASSUME NEW g \in Ids, NEW s \in Settlements, SettleExposure(g, s)
        PROVE  reported' = reported
    BY <1>2 DEF SettleExposure
  <1>3. ASSUME NEW g \in Ids, NEW e \in effects[g], ApplyAccounting(g, e)
        PROVE  reported' = reported
    BY <1>3, ApplyChanges
  <1>4. PICK g \in Ids, q \in Reports : IngestObservation(g, q)
    BY <1>1, <1>2, <1>3, AccountingSteps
  <1>5. \E d \in {"PENDING", "POSSIBLE_EFFECT", "FINALIZED", "INCIDENT", q.state} :
          reported' = [reported EXCEPT ![g][q] = d]
    BY <1>4 DEF IngestObservation
  <1>6. reported \in [Ids -> [Reports ->
             {"none", "PENDING", "POSSIBLE_EFFECT", "FINALIZED", "INCIDENT"}]]
    BY DEF IInv, FinalizationTypeOK
  <1>7. g = f /\ q = r
    BY <1>5, <1>6
  <1> QED BY <1>4, <1>7

LEMMA AccountingInductive ==
  IInv /\ AccountingInv /\ [Next]_vars => AccountingInv'
  <1> SUFFICES ASSUME IInv, AccountingInv, [Next]_vars
               PROVE  AccountingInv'
    OBVIOUS
  <1>1. CASE (\A f \in Ids : RowKept(f)) /\ UNCHANGED <<reported, effects>>
    BY <1>1, AccountStays DEF AccountingInv
  <1> QED BY <1>1, AccountingSteps, IngestAccounts, SettleAccounts, ApplyAccounts

(* Accounting follows evidence in every step (economic_ingest_observation, *)
(* economic_apply_finalized_accounting, settleExposure, and the freeze of  *)
(* incidents in all transactions of recover and expiry).                   *)
THEOREM AccountsEvidence == Spec => AccountingIsEvidence
  <1> DEFINE Frozen(f) ==
        Exists(f) /\ f \in frozen =>
          /\ final[f].exposure = final'[f].exposure
          /\ final'[f].signer \in {final[f].signer, "RESULT_UNKNOWN", "RESULT_AVAILABLE"}
      Final(f, r) == reported'[f][r] = "FINALIZED"
      Agree(f) == \A q, r \in Reports : Final(f, q) /\ Final(f, r) => q.cost = r.cost
      paid(f) == {e \in effects[f] : e.kind = "FINALIZED_ACCOUNTING"
                                     /\ e.cost = final'[f].consumed}
      Paid(f) ==
        Exists(f) /\ final'[f].exposure = "CONSUMED" =>
          /\ paid(f) /= {}
          /\ \A r \in Reports :
               Final(f, r) => \/ r.cost = final'[f].consumed
                              \/ /\ \E e \in paid(f) : FromSettlement(e)
                                 /\ reported[f][r] = "FINALIZED"
      Step == \A f \in Ids : FollowsEvidence(f)
  <1>1. Init => AccountingInv
    <2> SUFFICES ASSUME Init PROVE AccountingInv
      OBVIOUS
    <2>1. \A f \in Ids : ~Exists(f) /\ effects[f] = {}
                         /\ \A r \in Reports : reported[f][r] = "none"
      BY DEF Init, Exists
    <2> QED BY <2>1 DEF AccountingInv, Accounted
  <1>2. ASSUME IInv, AccountingInv, AccountingInv', [Next]_vars
        PROVE  Step
    <2> SUFFICES ASSUME NEW f \in Ids PROVE Frozen(f) /\ Agree(f) /\ Paid(f)
      BY DEF FollowsEvidence
    <2>1. Accounted(f) /\ Accounted(f)'
      BY <1>2 DEF AccountingInv
    <2>2. RowKept(f) \/ \E e \in effects[f] : ApplyAccounting(f, e)
      <3>1. ASSUME NEW g \in Ids, NEW e \in effects[g], ApplyAccounting(g, e), g /= f
            PROVE  RowKept(f)
        BY <1>2, <3>1, ApplyChanges, SameRowKept
      <3>2. ASSUME NEW g \in Ids, \/ \E r \in Reports : IngestObservation(g, r)
                                  \/ \E s \in Settlements : SettleExposure(g, s)
            PROVE  RowKept(f)
        BY <3>2, SameRowKept DEF IngestObservation, SettleExposure
      <3> QED BY <1>2, <3>1, <3>2, AccountingSteps
    <2>3. Frozen(f)
      <3>1. CASE RowKept(f)
        BY <3>1 DEF RowKept
      <3>2. CASE \E e \in effects[f] : ApplyAccounting(f, e)
        BY <1>2, <3>2, ApplyChanges
      <3> QED BY <2>2, <3>1, <3>2
    <2>4. Agree(f)
      BY <2>1 DEF Accounted
    <2>5. ASSUME Exists(f), final'[f].exposure = "CONSUMED"
          PROVE  paid(f) /= {}
      <3>1. CASE RowKept(f)
        BY <2>1, <2>5, <3>1 DEF RowKept, Accounted
      <3>2. CASE \E e \in effects[f] : ApplyAccounting(f, e)
        BY <1>2, <3>2, ApplyChanges
      <3> QED BY <2>2, <3>1, <3>2
    <2>6. ASSUME Exists(f), final'[f].exposure = "CONSUMED", NEW r \in Reports,
                 reported[f][r] = "FINALIZED"
          PROVE  r.cost = final'[f].consumed \/ \E e \in paid(f) : FromSettlement(e)
      <3>1. PICK e \in effects[f] : /\ e.kind = "FINALIZED_ACCOUNTING"
                                    /\ e.cost = final'[f].consumed
        BY <2>5, <2>6
      <3> QED BY <2>1, <2>6, <3>1 DEF Accounted
    <2>7. ASSUME Exists(f), final'[f].exposure = "CONSUMED", NEW r \in Reports,
                 Final(f, r), reported[f][r] /= "FINALIZED"
          PROVE  r.cost = final'[f].consumed
      <3>1. IngestObservation(f, r)
        BY <1>2, <2>7, AcceptedByIngest
      <3>2. final' = final /\ ~Problem(f, r) /\ r.state = "FINALIZED"
        BY <1>2, <2>7, <3>1, AcceptedIsSound
      <3> QED BY <2>7, <3>2 DEF Problem, FinalityProblem
    <2> QED BY <2>3, <2>4, <2>5, <2>6, <2>7
  <1>3. UNCHANGED vars => [Step]_vars
    OBVIOUS
  <1>4. IInv /\ AccountingInv /\ AccountingInv' /\ [Next]_vars => [Step]_vars
    BY <1>2
  <1>5. Spec => []AccountingInv
    BY <1>1, AccountingInductive, FinalizationSafety, PTL DEF Spec
  <1>6. Spec => [][Step]_vars
    BY <1>4, <1>5, FinalizationSafety, PTL DEF Spec
  <1> QED BY <1>6 DEF AccountingIsEvidence

(* With an incident nothing is consumed, refused, expired or contacted any *)
(* more, from whatever sources a finalization is accounted for (the freeze *)
(* of economic_authority_incidents).                                       *)
THEOREM IncidentsFreeze ==
  Spec => [][ \A f \in Ids :
                Exists(f) /\ f \in frozen =>
                  /\ final[f].exposure = final'[f].exposure
                  /\ final'[f].signer \in
                       {final[f].signer, "RESULT_UNKNOWN", "RESULT_AVAILABLE"} ]_vars
  <1> DEFINE Step ==
        \A f \in Ids :
          Exists(f) /\ f \in frozen =>
            /\ final[f].exposure = final'[f].exposure
            /\ final'[f].signer \in {final[f].signer, "RESULT_UNKNOWN", "RESULT_AVAILABLE"}
  <1>1. ASSUME IInv, [Next]_vars PROVE Step
    <2> SUFFICES ASSUME NEW f \in Ids, Exists(f), f \in frozen
                 PROVE  RowKept(f)
      BY DEF RowKept
    <2>1. ASSUME NEW g \in Ids, NEW e \in effects[g], ApplyAccounting(g, e)
          PROVE  RowKept(f)
      BY <1>1, <2>1, ApplyChanges, SameRowKept
    <2>2. ASSUME NEW g \in Ids, \/ \E r \in Reports : IngestObservation(g, r)
                                \/ \E s \in Settlements : SettleExposure(g, s)
          PROVE  RowKept(f)
      BY <2>2, SameRowKept DEF IngestObservation, SettleExposure
    <2> QED BY <1>1, <2>1, <2>2, AccountingSteps
  <1>2. IInv /\ [Next]_vars => [Step]_vars
    BY <1>1
  <1> QED BY <1>2, FinalizationSafety, PTL DEF Spec

-----------------------------------------------------------------------------
(* The budget.  No evidence accounts for more than the fee the claim       *)
(* charged.                                                                *)
CostsWithinFees ==
  \A f \in Ids :
    \A e \in effects[f] :
      e.kind = "FINALIZED_ACCOUNTING" =>
        Exists(f) /\ e.cost <= Fee[final[f].tuple.envelope]

(* What a step that is no claim does to a charge: the row stays, or its    *)
(* exposure becomes uncertain, is released or consumed.                    *)
ChargeKept(f) ==
  /\ Charge(f)' <= Charge(f)
  /\ Exists(f) <=> Exists(f)'
  /\ Exists(f) => final'[f].tuple = final[f].tuple
  /\ Exists(f)' /\ final'[f].exposure \in {"RESERVED", "UNCERTAIN"} =>
       final[f].exposure \in {"RESERVED", "UNCERTAIN"}

LEMMA ChargeIsNat ==
  ASSUME FinalizationTypeOK, NEW f \in Ids
  PROVE  /\ Charge(f) \in Nat
         /\ ~Exists(f) => Charge(f) = 0
         /\ Exists(f) =>
              /\ final[f].exposure = "RELEASED" => Charge(f) = 0
              /\ final[f].exposure = "CONSUMED" => Charge(f) = final[f].consumed
              /\ final[f].exposure \in {"RESERVED", "UNCERTAIN"} =>
                   Charge(f) = Fee[final[f].tuple.envelope]
  <1>1. CASE ~Exists(f)
    BY <1>1 DEF Charge
  <1>2. CASE Exists(f)
    <2>1. /\ final[f] \in Finalizations /\ final[f].consumed \in Nat
          /\ final[f].exposure \in {"RESERVED", "UNCERTAIN", "RELEASED", "CONSUMED"}
          /\ Fee[final[f].tuple.envelope] \in Nat
      BY <1>2, ExistingIsRow, FinalizationAssumption DEF Finalizations
    <2> QED BY <1>2, <2>1 DEF Charge
  <1> QED BY <1>1, <1>2

LEMMA ChargeIsNatThen ==
  ASSUME FinalizationTypeOK', NEW f \in Ids
  PROVE  Charge(f)' \in Nat
  <1>1. CASE ~Exists(f)'
    BY <1>1 DEF Charge
  <1>2. CASE Exists(f)'
    <2>1. final'[f] \in Finalizations
      BY <1>2 DEF FinalizationTypeOK, Exists
    <2>2. /\ final'[f].consumed \in Nat
          /\ final'[f].exposure \in {"RESERVED", "UNCERTAIN", "RELEASED", "CONSUMED"}
          /\ Fee[final'[f].tuple.envelope] \in Nat
      BY <2>1, FinalizationAssumption DEF Finalizations, Tuples
    <2> QED BY <1>2, <2>2 DEF Charge
  <1> QED BY <1>1, <1>2

LEMMA SameChargeKept ==
  ASSUME FinalizationTypeOK, NEW f \in Ids, final'[f] = final[f]
  PROVE  ChargeKept(f)
  <1>1. Charge(f)' = Charge(f) /\ (Exists(f) <=> Exists(f)')
    BY DEF Charge, Exists
  <1> QED BY <1>1, ChargeIsNat DEF ChargeKept

(* The next two lemmas are about the same rows as RowKept's: one in which  *)
(* nothing is consumed, and the one whose accounting is applied.           *)
LEMMA EnteredChargeKept ==
  ASSUME IInv, IInv', NEW f \in Ids, Exists(f), NEW state \in SignerStates,
         NEW exposure \in {"UNCERTAIN", "RELEASED"},
         Enter(f, state, exposure),
         final[f].exposure \in {"RESERVED", "UNCERTAIN"}
  PROVE  \A g \in Ids : ChargeKept(g)
  <1>1. /\ Exists(f)' /\ final'[f].tuple = final[f].tuple /\ final'[f].exposure = exposure
        /\ \A g \in Ids \ {f} : final'[g] = final[g]
    BY EnterChanges DEF IInv
  <1>2. Charge(f)' \in {0, Fee[final[f].tuple.envelope]}
    <2>1. FinalizationTypeOK'
      BY DEF IInv
    <2>2. /\ Exists(f)' =>
               /\ (final[f].exposure = "RELEASED")' => Charge(f)' = 0
               /\ (final[f].exposure \in {"RESERVED", "UNCERTAIN"})' =>
                    Charge(f)' = Fee[final'[f].tuple.envelope]
      BY <1>1 DEF Charge, Exists
    <2> QED BY <1>1, <2>2
  <1>3. /\ Charge(f) = Fee[final[f].tuple.envelope] /\ Charge(f) \in Nat
    BY ChargeIsNat DEF IInv
  <1>4. ChargeKept(f)
    BY <1>1, <1>2, <1>3 DEF ChargeKept
  <1> QED BY <1>1, <1>4, SameChargeKept DEF IInv

LEMMA AppliedChargeKept ==
  ASSUME IInv, IInv', CostsWithinFees, NEW f \in Ids, NEW e \in effects[f],
         ApplyAccounting(f, e)
  PROVE  \A g \in Ids : ChargeKept(g)
  <1> DEFINE row == [final[f] EXCEPT !.exposure = "CONSUMED", !.consumed = e.cost]
  <1>1. /\ Exists(f) /\ final[f].signer = "RESULT_AVAILABLE"
        /\ final[f].exposure /= "CONSUMED"
        /\ final' = [final EXCEPT ![f] = row]
        /\ final[f] \in Finalizations
        /\ e.cost <= Fee[final[f].tuple.envelope]
    BY ExistingIsRow DEF ApplyAccounting, IInv, CostsWithinFees
  <1>2. row.tuple = final[f].tuple
    BY <1>1 DEF Finalizations
  <1> HIDE DEF row
  <1>3. final'[f].tuple = final[f].tuple /\ Exists(f)'
    <2>1. final'[f] = row
      BY <1>1 DEF IInv, FinalizationTypeOK
    <2>2. row.signer = "RESULT_AVAILABLE"
      BY <1>1 DEF row, Finalizations
    <2> QED BY <1>2, <2>1, <2>2 DEF Exists, NoFinalization
  <1>4. final[f].exposure = "UNCERTAIN"
    BY <1>1 DEF IInv, StatesAgree, StateAgrees, Finalizations
  <1>5. Charge(f) = Fee[final[f].tuple.envelope]
    BY <1>1, <1>4, ChargeIsNat DEF IInv
  <1>6. Charge(f)' = e.cost
    BY <1>3, ApplyChanges DEF Charge, Exists
  <1>7. ChargeKept(f)
    BY <1>1, <1>3, <1>4, <1>5, <1>6, ApplyChanges DEF ChargeKept
  <1> QED BY <1>7, ApplyChanges, SameChargeKept DEF IInv

(* Only a claim can add to what is charged.                                *)
LEMMA ChargesKept ==
  ASSUME IInv, IInv', CostsWithinFees, [Next]_vars
  PROVE  \/ \E f \in Ids, t \in Tuples : Claim(f, t)
         \/ \A f \in Ids : ChargeKept(f)
  <1>1. {"CONTACT_COMMITTED", "RESULT_UNKNOWN", "RESULT_AVAILABLE", "REFUSED",
         "EXPIRED_NEVER_CONTACTED"} \subseteq SignerStates
    BY DEF SignerStates, Terminal
  <1>2. ASSUME UNCHANGED final
        PROVE  \A f \in Ids : ChargeKept(f)
    BY <1>2, SameChargeKept DEF IInv
  <1>3. ASSUME NEW e \in Envelopes,
               \/ RegisterAttempt(e) \/ Cancel(e) \/ RejectCallback(e)
               \/ IssueRuntimeDecision(e) \/ RevokeRuntime(e) \/ EnvelopeExpires(e)
        PROVE  UNCHANGED final
    BY <1>3 DEF RegisterAttempt, Cancel, RejectCallback, IssueRuntimeDecision,
       RevokeRuntime, EnvelopeExpires
  <1>4. ASSUME \/ \E c \in Consents : AcceptConsent(c) \/ RevokeConsent(c)
               \/ AccountStatusChanges \/ RevokeRegistry
               \/ \E n \in 1 .. budget.revision :
                    ReviseBudget(n) \/ \E s \in {"ACTIVE", "DISABLED"} : SetBudgetStatus(n, s)
        PROVE  UNCHANGED final
    BY <1>4 DEF AcceptConsent, RevokeConsent, AccountStatusChanges, RevokeRegistry,
       ReviseBudget, SetBudgetStatus
  <1>5. ASSUME NEW r \in Recoverers,
               ContactSigner(r) \/ SignerAnswers(r) \/ RecordSignerConflict(r) \/ Crash(r)
        PROVE  UNCHANGED final
    BY <1>5 DEF ContactSigner, SignerAnswers, RecordSignerConflict, Crash
  <1>6. ASSUME NEW f \in Ids,
               \/ \E r \in Recoverers : RecoverContacted(r, f)
               \/ SignerDecides(f)
               \/ \E r \in Reports : IngestObservation(f, r)
               \/ \E s \in Settlements : SettleExposure(f, s)
        PROVE  UNCHANGED final
    BY <1>6 DEF RecoverContacted, SignerDecides, IngestObservation, SettleExposure
  <1>7. ASSUME NEW f \in Ids, NEW r \in Recoverers, CommitContact(r, f)
        PROVE  \A g \in Ids : ChargeKept(g)
    <2>1. /\ Exists(f) /\ final[f].signer = "NOT_CONTACTED"
          /\ Enter(f, "CONTACT_COMMITTED", "UNCERTAIN")
      BY <1>7 DEF CommitContact, GrantsContact
    <2>2. final[f].exposure = "RESERVED"
      BY <2>1 DEF IInv, StatesAgree, StateAgrees
    <2> QED BY <1>1, <2>1, <2>2, EnteredChargeKept
  <1>8. ASSUME NEW f \in Ids, ExpireNeverContacted(f)
        PROVE  \A g \in Ids : ChargeKept(g)
    <2>1. /\ Exists(f) /\ final[f].exposure = "RESERVED"
          /\ Enter(f, "EXPIRED_NEVER_CONTACTED", "RELEASED")
      BY <1>8 DEF ExpireNeverContacted, Expirable
    <2> QED BY <1>1, <2>1, EnteredChargeKept
  <1>9. ASSUME NEW r \in Recoverers, RecordUnknown(r)
        PROVE  \A g \in Ids : ChargeKept(g)
    <2> DEFINE f == call[r].id
    <2>1. f \in Ids /\ Exists(f)
      BY <1>9, CallInProgress DEF RecordUnknown, IInv, CallsKnow
    <2>2. \/ UNCHANGED final
          \/ /\ final[f].signer \in {"CONTACT_COMMITTED", "RESULT_UNKNOWN"}
             /\ Enter(f, "RESULT_UNKNOWN", "UNCERTAIN")
      BY <1>9 DEF RecordUnknown
    <2> HIDE DEF f
    <2>3. ASSUME final[f].signer \in {"CONTACT_COMMITTED", "RESULT_UNKNOWN"},
                 Enter(f, "RESULT_UNKNOWN", "UNCERTAIN")
          PROVE  \A g \in Ids : ChargeKept(g)
      <3>1. final[f].exposure = "UNCERTAIN"
        BY <2>1, <2>3, PendingIsUncertain
      <3> QED BY <1>1, <2>1, <2>3, <3>1, EnteredChargeKept
    <2> QED BY <1>2, <2>2, <2>3
  <1>10. ASSUME NEW r \in Recoverers, AcceptSignerResponse(r)
         PROVE  \A g \in Ids : ChargeKept(g)
    <2> DEFINE f == call[r].id
               state == final[f].signer
               response == call[r].response
    <2>1. /\ f \in Ids /\ Exists(f) /\ state \in SignerStates
      BY <1>10, CallInProgress, ExistingIsRow DEF AcceptSignerResponse, IInv, CallsKnow
    <2>2. ASSUME ~Conflicts(state, response), ~Keeps(state, response),
                 response \in {"UNKNOWN", "SIGNED", "REFUSED"}
          PROVE  final[f].exposure = "UNCERTAIN"
      <3>1. state \in {"CONTACT_COMMITTED", "RESULT_UNKNOWN"}
        BY <2>1, <2>2 DEF Conflicts, Keeps, SignerStates, Terminal
      <3> QED BY <2>1, <3>1, PendingIsUncertain
    <2>3. \/ UNCHANGED final
          \/ /\ ~Conflicts(state, response) /\ ~Keeps(state, response)
             /\ \/ response = "UNKNOWN" /\ Enter(f, "RESULT_UNKNOWN", final[f].exposure)
                \/ response = "SIGNED" /\ Enter(f, "RESULT_AVAILABLE", final[f].exposure)
                \/ response = "REFUSED" /\ Enter(f, "REFUSED", "RELEASED")
      BY <1>10 DEF AcceptSignerResponse
    <2> HIDE DEF f, state, response
    <2>4. ASSUME NEW result \in {"RESULT_UNKNOWN", "RESULT_AVAILABLE", "REFUSED"},
                 final[f].exposure = "UNCERTAIN",
                 NEW exposure \in {"UNCERTAIN", "RELEASED"}, Enter(f, result, exposure)
          PROVE  \A g \in Ids : ChargeKept(g)
      BY <1>1, <2>1, <2>4, EnteredChargeKept
    <2> QED BY <1>2, <2>2, <2>3, <2>4
  <1>11. ASSUME NEW f \in Ids, NEW e \in effects[f], ApplyAccounting(f, e)
         PROVE  \A g \in Ids : ChargeKept(g)
    BY <1>11, AppliedChargeKept
  <1>12. CASE UNCHANGED vars
    BY <1>2, <1>12 DEF vars
  <1>13. CASE Next
    BY <1>2, <1>3, <1>4, <1>5, <1>6, <1>7, <1>8, <1>9, <1>10, <1>11, <1>13 DEF Next
  <1> QED BY <1>12, <1>13

LEMMA CostsInductive ==
  ASSUME IInv, IInv', CostsWithinFees, [Next]_vars
  PROVE  CostsWithinFees'
  <1>1. \A f \in Ids : Exists(f) => Exists(f)' /\ final'[f].tuple = final[f].tuple
    <2>1. ASSUME NEW g \in Ids, NEW t \in Tuples, Claim(g, t)
          PROVE  \A f \in Ids : Exists(f) => final'[f] = final[f]
      BY <2>1 DEF Claim, IInv, FinalizationTypeOK
    <2> QED BY <2>1, ChargesKept DEF ChargeKept, Exists
  <1>2. effects \in [Ids -> SUBSET Evidence]
    BY DEF IInv, FinalizationTypeOK
  <1>3. ASSUME NEW f \in Ids, NEW r \in Reports, IngestObservation(f, r)
        PROVE  CostsWithinFees'
    <2>1. /\ Exists(f)
          /\ effects' = [effects EXCEPT ![f] =
               IF Problem(f, r) \/ r.state = "UNKNOWN"
                  \/ (r.state = "FINALIZED" /\ HasAccounting(f))
               THEN effects[f] ELSE effects[f] \cup {Effect(r)}]
      BY <1>2, <1>3 DEF IngestObservation
    <2>2. ~Problem(f, r) /\ Effect(r).kind = "FINALIZED_ACCOUNTING" =>
            r.cost <= Fee[final[f].tuple.envelope]
      <3>1. r.cost \in Nat /\ Fee[final[f].tuple.envelope] \in Nat
        BY <2>1, ExistingIsRow, FinalizationAssumption DEF IInv
      <3> QED BY <3>1 DEF Problem, FinalityProblem, Effect
    <2>3. Effect(r).cost = r.cost
      BY DEF Effect
    <2> QED BY <1>1, <1>2, <2>1, <2>2, <2>3 DEF CostsWithinFees
  <1>4. ASSUME NEW f \in Ids, NEW s \in Settlements, SettleExposure(f, s)
        PROVE  CostsWithinFees'
    <2> DEFINE e == [kind |-> "FINALIZED_ACCOUNTING", tx |-> "own", cost |-> s.cost,
                     reference |-> s.reference]
    <2>1. /\ Exists(f) /\ e.cost <= Fee[final[f].tuple.envelope]
          /\ effects' = [effects EXCEPT ![f] = effects[f] \cup {e}]
      BY <1>4 DEF SettleExposure
    <2> HIDE DEF e
    <2> QED BY <1>1, <1>2, <2>1 DEF CostsWithinFees
  <1>5. CASE UNCHANGED effects
    BY <1>1, <1>5 DEF CostsWithinFees
  <1> QED BY <1>3, <1>4, <1>5, AccountingSteps DEF ApplyAccounting, evidenceVars

LEMMA CostsAlwaysWithin == Spec => []CostsWithinFees
  <1>1. Init => CostsWithinFees
    BY DEF Init, CostsWithinFees
  <1> QED BY <1>1, CostsInductive, FinalizationSafety, PTL DEF Spec

LEMMA ClaimCharges ==
  ASSUME IInv, IInv', NEW f \in Ids, NEW t \in Tuples, Claim(f, t)
  PROVE  /\ Charge(f) = 0 /\ Charge(f)' = Fee[t.envelope]
         /\ ~Exists(f) /\ final'[f].exposure = "RESERVED" /\ Exists(f)'
         /\ \A g \in Ids \ {f} :
              Charge(g)' = Charge(g) /\ final'[g] = final[g] /\ (Exists(g)' <=> Exists(g))
  <1> DEFINE row == [tuple |-> t, signer |-> "NOT_CONTACTED", budget |-> budget.version,
                     exposure |-> "RESERVED", consumed |-> 0]
  <1>1. /\ ~Exists(f) /\ final' = [final EXCEPT ![f] = row]
        /\ final \in [Ids -> Finalizations \cup {NoFinalization}]
    BY DEF Claim, IInv, FinalizationTypeOK
  <1>2. final'[f] = row /\ \A g \in Ids \ {f} : final'[g] = final[g]
    BY <1>1
  <1>3. /\ row.tuple = t /\ row.exposure = "RESERVED" /\ row.signer = "NOT_CONTACTED"
        /\ row /= NoFinalization
    <2>1. row.signer /= NoFinalization.signer
      BY DEF NoFinalization
    <2> QED BY <2>1
  <1> HIDE DEF row
  <1>4. Exists(f)'
    BY <1>2, <1>3 DEF Exists
  <1>5. Charge(f)' = Fee[t.envelope]
    BY <1>2, <1>3, <1>4 DEF Charge, Exists
  <1>6. \A g \in Ids \ {f} : Charge(g)' = Charge(g) /\ (Exists(g)' <=> Exists(g))
    BY <1>2 DEF Charge, Exists
  <1> QED BY <1>1, <1>2, <1>3, <1>4, <1>5, <1>6, ChargeIsNat DEF IInv

(* What the sponsor may have to pay for a finalization grows by a claim    *)
(* only: from nothing, under an active budget whose current version covers *)
(* it together with all other charges, which stay (assertBudget).          *)
THEOREM ChargesGrowByClaims ==
  Spec => [][ \A f \in Ids :
                Charge(f)' > Charge(f) =>
                  /\ Charge(f) = 0 /\ budget.status = "ACTIVE"
                  /\ Total + Charge(f)' <= Budgets[budget.version].limit
                  /\ \A g \in Ids \ {f} : Charge(g)' = Charge(g) ]_vars
  <1> DEFINE Step ==
        \A f \in Ids :
          Charge(f)' > Charge(f) =>
            /\ Charge(f) = 0 /\ budget.status = "ACTIVE"
            /\ Total + Charge(f)' <= Budgets[budget.version].limit
            /\ \A g \in Ids \ {f} : Charge(g)' = Charge(g)
  <1>1. ASSUME IInv, IInv', CostsWithinFees, [Next]_vars PROVE Step
    <2> SUFFICES ASSUME NEW f \in Ids, Charge(f)' > Charge(f)
                 PROVE  /\ Charge(f) = 0 /\ budget.status = "ACTIVE"
                        /\ Total + Charge(f)' <= Budgets[budget.version].limit
                        /\ \A g \in Ids \ {f} : Charge(g)' = Charge(g)
      OBVIOUS
    <2>1. Charge(f) \in Nat /\ Charge(f)' \in Nat
      BY <1>1, ChargeIsNat, ChargeIsNatThen DEF IInv
    <2>2. ~ChargeKept(f)
      BY <2>1 DEF ChargeKept
    <2>3. PICK h \in Ids, t \in Tuples : Claim(h, t)
      BY <1>1, <2>2, ChargesKept
    <2>4. h = f
      BY <1>1, <2>1, <2>3, ClaimCharges
    <2>5. budget.status = "ACTIVE" /\ WithinBudget(t.envelope)
      BY <2>3 DEF Claim
    <2>6. Total + Fee[t.envelope] <= Budgets[budget.version].limit
      BY <2>5 DEF WithinBudget, Total
    <2> QED BY <1>1, <2>3, <2>4, <2>5, <2>6, ClaimCharges
  <1>2. IInv /\ IInv' /\ CostsWithinFees /\ [Next]_vars => [Step]_vars
    BY <1>1
  <1> QED BY <1>2, FinalizationSafety, CostsAlwaysWithin, PTL DEF Spec

(* The number of operations outstanding grows by a claim only, one at a    *)
(* time, and only to what the current version of the budget allows while   *)
(* it is active (assertBudget).                                            *)
THEOREM OutstandingGrowsWithinBudget ==
  ASSUME IsFiniteSet(Ids)
  PROVE  Spec => [][ Outstanding(Ids)' > Outstanding(Ids) =>
                       /\ Outstanding(Ids)' = Outstanding(Ids) + 1
                       /\ Outstanding(Ids)' <= Budgets[budget.version].outstanding
                       /\ budget.status = "ACTIVE" ]_vars
  <1> DEFINE Step ==
        Outstanding(Ids)' > Outstanding(Ids) =>
          /\ Outstanding(Ids)' = Outstanding(Ids) + 1
          /\ Outstanding(Ids)' <= Budgets[budget.version].outstanding
          /\ budget.status = "ACTIVE"
  <1>1. ASSUME IInv, IInv', CostsWithinFees, [Next]_vars PROVE Step
    <2>1. PICK O : O = {f \in Ids : Exists(f) /\ final[f].exposure \in {"RESERVED", "UNCERTAIN"}}
      OBVIOUS
    <2>2. PICK P : P = {f \in Ids : Exists(f)' /\ final'[f].exposure \in {"RESERVED", "UNCERTAIN"}}
      OBVIOUS
    <2>3. Outstanding(Ids) = Cardinality(O) /\ Outstanding(Ids)' = Cardinality(P)
      BY <2>1, <2>2 DEF Outstanding
    <2>4. IsFiniteSet(O) /\ Cardinality(O) \in Nat
      BY <2>1, FS_Subset, FS_CardinalityType
    <2>5. CASE \A f \in Ids : ChargeKept(f)
      <3>1. P \subseteq O
        BY <2>1, <2>2, <2>5 DEF ChargeKept
      <3>2. Cardinality(P) <= Cardinality(O) /\ Cardinality(P) \in Nat
        BY <2>4, <3>1, FS_Subset, FS_CardinalityType
      <3> QED BY <2>3, <2>4, <3>2
    <2>6. ASSUME NEW f \in Ids, NEW t \in Tuples, Claim(f, t)
          PROVE  Step
      <3>1. f \notin O /\ P = O \cup {f}
        BY <1>1, <2>1, <2>2, <2>6, ClaimCharges
      <3>2. Cardinality(P) = Cardinality(O) + 1
        BY <2>4, <3>1, FS_AddElement
      <3>3. /\ budget.status = "ACTIVE"
            /\ Outstanding(Ids) < Budgets[budget.version].outstanding
        BY <2>6 DEF Claim, WithinBudget
      <3>4. Budgets[budget.version].outstanding \in Nat
        BY <1>1, BudgetAssumption DEF IInv, FinalizationTypeOK
      <3> QED BY <2>3, <2>4, <3>2, <3>3, <3>4
    <2> QED BY <1>1, <2>5, <2>6, ChargesKept
  <1>2. IInv /\ IInv' /\ CostsWithinFees /\ [Next]_vars => [Step]_vars
    BY <1>1
  <1> QED BY <1>2, FinalizationSafety, CostsAlwaysWithin, PTL DEF Spec
=============================================================================
