----------------------- MODULE RecipientDirectory_proofs -----------------------
(***************************************************************************)
(* The safety of IdentityStore and of RecipientDirectory over it, for      *)
(* every number of accounts, logins, destinations, writers and mutations,  *)
(* and the refinement of the in-memory adapters of both.                   *)
(*                                                                         *)
(* The accounts come first.  Their inductive invariant ties a login's      *)
(* answer to the identity's owner, which never changes, and the row of an  *)
(* account to the last event of its stream, which is what a caller read.   *)
(* A second invariant, about the audit, says of every event also when it   *)
(* is absent.                                                              *)
(***************************************************************************)
EXTENDS RecipientDirectory, TLAPS

(* A login was answered with the account that owns the identity.           *)
AnsweredByOwner == \A pair \in resolved : owner[pair[1]] = pair[2]

(* The stream of an account has one event per version, and the last one    *)
(* has the account's status.                                               *)
StreamTellsRow ==
  \A a \in Accounts :
    /\ account[a] = NoAccount => security[a] = <<>>
    /\ account[a] /= NoAccount =>
         /\ Len(security[a]) = account[a].version + 1
         /\ security[a][account[a].version + 1].status = account[a].status

IInv ==
  /\ IdentityTypeOK
  /\ AnsweredByOwner
  /\ ProvisionedIsLinked
  /\ StreamTellsRow

-----------------------------------------------------------------------------
(* An absent account is none of the rows.                                  *)
LEMMA NoAccountIsNoRow == NoAccount \notin AccountRows
  BY DEF NoAccount, AccountRows, Statuses

(* What an insert or an update of an account leaves: rows and streams of   *)
(* all accounts have their types, and the changed account's last event has *)
(* the status of its row.                                                  *)
LEMMA ChangeKeepsStream ==
  ASSUME IInv,
         NEW a \in Accounts, NEW row \in AccountRows, NEW type \in EventTypes,
         NEW subject \in Principals \cup Sessions \cup {None},
         row.version = Len(security[a]),
         Change(a, row, type, subject)
  PROVE  /\ account' \in [Accounts -> AccountRows \cup {NoAccount}]
         /\ security' \in [Accounts -> Seq(SecurityEvents)]
         /\ StreamTellsRow'
         /\ \A b \in Accounts \ {a} : account'[b] = account[b]
         /\ account'[a] = row
  <1> DEFINE e == SecurityEvent(type, row, subject)
  <1>1. /\ account \in [Accounts -> AccountRows \cup {NoAccount}]
        /\ security \in [Accounts -> Seq(SecurityEvents)]
        /\ StreamTellsRow
    BY DEF IInv, IdentityTypeOK
  <1>2. e \in SecurityEvents /\ e.status = row.status
    BY DEF SecurityEvent, SecurityEvents, AccountRows
  <1> HIDE DEF e
  <1>3. /\ account' = [account EXCEPT ![a] = row]
        /\ security' = [security EXCEPT ![a] = Append(security[a], e)]
    BY DEF Change, e
  <1>4. /\ account' \in [Accounts -> AccountRows \cup {NoAccount}]
        /\ security' \in [Accounts -> Seq(SecurityEvents)]
    BY <1>1, <1>2, <1>3
  <1>5. /\ account'[a] = row /\ security'[a] = Append(security[a], e)
        /\ \A b \in Accounts \ {a} :
             account'[b] = account[b] /\ security'[b] = security[b]
    BY <1>1, <1>3
  <1>6. row /= NoAccount
    BY NoAccountIsNoRow
  <1>7. /\ Len(security'[a]) = row.version + 1
        /\ security'[a][row.version + 1] = e
    BY <1>1, <1>2, <1>5
  <1>8. StreamTellsRow'
    BY <1>1, <1>2, <1>5, <1>6, <1>7 DEF StreamTellsRow
  <1> QED BY <1>4, <1>5, <1>8

(* Where the owner of an identity is only ever set, the answers stay true  *)
(* and a provisioned account stays linked.                                 *)
LEMMA OwnersStay ==
  ASSUME IInv,
         \A x \in Principals : owner[x] /= None => owner'[x] = owner[x],
         resolved' = resolved,
         \A l \in Logins :
           account'[FreshOf[l]] /= NoAccount => account[FreshOf[l]] /= NoAccount
  PROVE  AnsweredByOwner' /\ ProvisionedIsLinked'
  <1>1. \A pair \in resolved : pair[1] \in Principals /\ owner[pair[1]] /= None
    BY RecordAssumption DEF IInv, IdentityTypeOK, AnsweredByOwner
  <1>2. AnsweredByOwner'
    BY <1>1 DEF IInv, AnsweredByOwner
  <1>3. ProvisionedIsLinked'
    BY RecordAssumption, IdentityAssumption DEF IInv, ProvisionedIsLinked
  <1> QED BY <1>2, <1>3

-----------------------------------------------------------------------------
(* The mutations of an account keep the invariant.                         *)
LEMMA CreateAccountInductive ==
  ASSUME IInv, NEW a \in Accounts, CreateAccount(a)
  PROVE  IInv'
  <1> USE DEF CreateAccount
  <1>1. Created \in AccountRows /\ Created.version = Len(security[a])
    BY DEF Created, AccountRows, Statuses, IInv, StreamTellsRow
  <1>2. /\ account' \in [Accounts -> AccountRows \cup {NoAccount}]
        /\ security' \in [Accounts -> Seq(SecurityEvents)]
        /\ StreamTellsRow'
        /\ \A b \in Accounts \ {a} : account'[b] = account[b]
    BY <1>1, ChangeKeepsStream DEF EventTypes
  <1>3. AnsweredByOwner' /\ ProvisionedIsLinked'
    BY <1>2, OwnersStay, IdentityAssumption
  <1>4. IdentityTypeOK'
    BY <1>2 DEF IInv, IdentityTypeOK
  <1> QED BY <1>2, <1>3, <1>4 DEF IInv

(* A mutation under the version check changes an account that exists.      *)
LEMMA MutationsChange ==
  ASSUME IInv, NEW a \in Accounts, NEW read \in ReadVersions(a), VersionHolds(a, read)
  PROVE  /\ account[a] \in AccountRows /\ account[a] /= NoAccount
         /\ read = account[a].version
         /\ account[a].version + 1 = Len(security[a])
         /\ Incremented(account[a]) \in AccountRows
         /\ Incremented(account[a]).version = Len(security[a])
  BY DEF IInv, IdentityTypeOK, StreamTellsRow, ReadVersions, VersionHolds,
         Incremented, AccountRows

LEMMA MutateInductive ==
  ASSUME IInv, NEW a \in Accounts, NEW read \in ReadVersions(a), Mutate(a, read)
  PROVE  IInv'
  <1>1. ASSUME NEW status \in Statuses, UpdateAccountStatus(a, read, status)
        PROVE  IInv'
    <2> DEFINE row == [status |-> status, version |-> account[a].version + 1]
    <2>1. /\ account[a] \in AccountRows /\ account[a] /= NoAccount
          /\ account[a].version + 1 = Len(security[a])
      BY <1>1, MutationsChange DEF UpdateAccountStatus
    <2>2. row \in AccountRows /\ row.version = Len(security[a])
      BY <2>1 DEF AccountRows
    <2>3. /\ Change(a, row, "ACCOUNT_STATUS_CHANGED", None)
          /\ UNCHANGED <<owner, session, login, resolved>>
      BY <1>1 DEF UpdateAccountStatus
    <2> HIDE DEF row
    <2>4. /\ account' \in [Accounts -> AccountRows \cup {NoAccount}]
          /\ security' \in [Accounts -> Seq(SecurityEvents)]
          /\ StreamTellsRow'
          /\ \A b \in Accounts \ {a} : account'[b] = account[b]
      BY <2>2, <2>3, ChangeKeepsStream DEF EventTypes
    <2>5. AnsweredByOwner' /\ ProvisionedIsLinked'
      BY <2>1, <2>3, <2>4, OwnersStay, IdentityAssumption
    <2> QED BY <2>3, <2>4, <2>5 DEF IInv, IdentityTypeOK
  <1>2. ASSUME NEW x \in Principals, LinkExternalIdentity(a, read, x)
        PROVE  IInv'
    <2>1. /\ account[a] /= NoAccount
          /\ Incremented(account[a]) \in AccountRows
          /\ Incremented(account[a]).version = Len(security[a])
      BY <1>2, MutationsChange DEF LinkExternalIdentity
    <2>2. /\ Change(a, Incremented(account[a]), "EXTERNAL_IDENTITY_LINKED", x)
          /\ owner[x] = None /\ owner' = [owner EXCEPT ![x] = a]
          /\ UNCHANGED <<session, login, resolved>>
      BY <1>2 DEF LinkExternalIdentity
    <2>3. /\ account' \in [Accounts -> AccountRows \cup {NoAccount}]
          /\ security' \in [Accounts -> Seq(SecurityEvents)]
          /\ StreamTellsRow'
          /\ \A b \in Accounts \ {a} : account'[b] = account[b]
      BY <2>1, <2>2, ChangeKeepsStream DEF EventTypes
    <2>4. owner' \in [Principals -> Accounts \cup {None}]
          /\ \A y \in Principals : owner[y] /= None => owner'[y] = owner[y]
      BY <2>2 DEF IInv, IdentityTypeOK
    <2>5. AnsweredByOwner' /\ ProvisionedIsLinked'
      BY <2>1, <2>2, <2>3, <2>4, OwnersStay, IdentityAssumption
    <2> QED BY <2>2, <2>3, <2>4, <2>5 DEF IInv, IdentityTypeOK
  <1>3. ASSUME NEW s \in Sessions,
               CreateAccountSession(a, read, s) \/ RevokeAccountSession(a, read, s)
        PROVE  IInv'
    <2> USE DEF CreateAccountSession, RevokeAccountSession
    <2>1. /\ account[a] /= NoAccount
          /\ Incremented(account[a]) \in AccountRows
          /\ Incremented(account[a]).version = Len(security[a])
      BY <1>3, MutationsChange
    <2>2. /\ \E type \in {"SESSION_CREATED", "SESSION_REVOKED"} :
               Change(a, Incremented(account[a]), type, s)
          /\ UNCHANGED <<owner, login, resolved>>
      BY <1>3
    <2>3. session' \in [Sessions -> SessionRows \cup {NoSession}]
      <3>1. \E revoked \in BOOLEAN :
              session' = [session EXCEPT ![s] = [account |-> a, revoked |-> revoked]]
        BY <1>3
      <3> QED BY <3>1 DEF IInv, IdentityTypeOK, SessionRows
    <2>4. /\ account' \in [Accounts -> AccountRows \cup {NoAccount}]
          /\ security' \in [Accounts -> Seq(SecurityEvents)]
          /\ StreamTellsRow'
          /\ \A b \in Accounts \ {a} : account'[b] = account[b]
      BY <2>1, <2>2, ChangeKeepsStream DEF EventTypes
    <2>5. AnsweredByOwner' /\ ProvisionedIsLinked'
      BY <2>1, <2>2, <2>4, OwnersStay, IdentityAssumption
    <2> QED BY <2>2, <2>3, <2>4, <2>5 DEF IInv, IdentityTypeOK
  <1> QED BY <1>1, <1>2, <1>3 DEF Mutate

-----------------------------------------------------------------------------
(* An answer is true where the account's owner entry is.                   *)
LEMMA AnsweredKeeps ==
  ASSUME IInv, NEW l \in Logins, NEW x \in Principals, NEW a \in Accounts,
         Answered(l, x, a), owner'[x] = a,
         \A y \in Principals : owner[y] /= None => owner'[y] = owner[y]
  PROVE  /\ login' \in [Logins -> LoginSteps \cup {NoLogin}]
         /\ resolved' \subseteq Principals \X Accounts
         /\ AnsweredByOwner'
  <1>1. /\ login' = [login EXCEPT ![l] = NoLogin]
        /\ resolved' \subseteq resolved \cup {<<x, a>>}
    BY DEF Answered
  <1>2. \A pair \in resolved : pair[1] \in Principals /\ owner[pair[1]] /= None
    BY RecordAssumption DEF IInv, IdentityTypeOK, AnsweredByOwner
  <1>3. AnsweredByOwner'
    BY <1>1, <1>2 DEF IInv, AnsweredByOwner
  <1> QED BY <1>1, <1>3 DEF IInv, IdentityTypeOK

LEMMA AnswerOwnerInductive ==
  ASSUME IInv, NEW l \in Logins, NEW x \in Principals,
         NEW step \in {"unknown", "locked"}, AnswerOwner(l, x, step)
  PROVE  IInv'
  <1>1. UNCHANGED <<account, owner, session, security>>
    BY DEF AnswerOwner
  <1>2. ProvisionedIsLinked' /\ StreamTellsRow'
    BY <1>1 DEF IInv, ProvisionedIsLinked, StreamTellsRow
  <1>3. CASE owner[x] /= None
    <2>1. owner[x] \in Accounts
      BY <1>3 DEF IInv, IdentityTypeOK
    <2>2. Answered(l, x, owner[x])
      BY <1>3 DEF AnswerOwner
    <2>3. /\ login' \in [Logins -> LoginSteps \cup {NoLogin}]
          /\ resolved' \subseteq Principals \X Accounts
          /\ AnsweredByOwner'
      BY <1>1, <2>1, <2>2, AnsweredKeeps
    <2> QED BY <1>1, <1>2, <2>3 DEF IInv, IdentityTypeOK
  <1>4. CASE owner[x] = None
    <2>1. login' = [login EXCEPT ![l] = [step |-> step, principal |-> x]]
          /\ resolved' = resolved
      BY <1>4 DEF AnswerOwner
    <2>2. AnsweredByOwner'
      BY <1>1, <2>1 DEF IInv, AnsweredByOwner
    <2>3. [step |-> step, principal |-> x] \in LoginSteps
      BY DEF LoginSteps
    <2>4. login' \in [Logins -> LoginSteps \cup {NoLogin}]
      BY <2>1, <2>3 DEF IInv, IdentityTypeOK
    <2> QED BY <1>1, <1>2, <2>1, <2>2, <2>4 DEF IInv, IdentityTypeOK
  <1> QED BY <1>3, <1>4

(* A login in progress has the principal it asks about.                    *)
LEMMA LoginsAsk ==
  ASSUME IInv, NEW l \in Logins, login[l].step \in {"unknown", "locked"}
  PROVE  login[l].principal \in Principals
  BY DEF IInv, IdentityTypeOK, LoginSteps, NoLogin

LEMMA ProvisionInductive ==
  ASSUME IInv, NEW l \in Logins, Provision(l)
  PROVE  IInv'
  <1> DEFINE a == FreshOf[l]
             x == login[l].principal
             linked == Incremented(Created)
             first == SecurityEvent("ACCOUNT_CREATED", Created, None)
             second == SecurityEvent("EXTERNAL_IDENTITY_LINKED", linked, x)
  <1>1. a \in Accounts /\ x \in Principals
    BY LoginsAsk, IdentityAssumption DEF Provision
  <1>2. linked \in AccountRows /\ linked /= NoAccount /\ linked.version = 1
    BY NoAccountIsNoRow DEF Incremented, Created, AccountRows, Statuses
  <1>3. /\ first \in SecurityEvents /\ second \in SecurityEvents
        /\ second.status = linked.status
    BY <1>1 DEF SecurityEvent, SecurityEvents, EventTypes, Incremented, Created,
                Statuses
  <1>4. /\ account[a] = NoAccount /\ owner[x] = None
        /\ account' = [account EXCEPT ![a] = linked]
        /\ owner' = [owner EXCEPT ![x] = a]
        /\ security' = [security EXCEPT ![a] = <<first, second>>]
        /\ Answered(l, x, a)
        /\ UNCHANGED session
    BY DEF Provision
  <1> HIDE DEF a, x, linked, first, second
  <1>5. /\ account \in [Accounts -> AccountRows \cup {NoAccount}]
        /\ security \in [Accounts -> Seq(SecurityEvents)]
        /\ owner \in [Principals -> Accounts \cup {None}]
    BY DEF IInv, IdentityTypeOK
  <1>6. /\ account' \in [Accounts -> AccountRows \cup {NoAccount}]
        /\ security' \in [Accounts -> Seq(SecurityEvents)]
        /\ owner' \in [Principals -> Accounts \cup {None}]
        /\ owner'[x] = a
        /\ \A y \in Principals : owner[y] /= None => owner'[y] = owner[y]
    BY <1>1, <1>2, <1>3, <1>4, <1>5
  <1>7. /\ login' \in [Logins -> LoginSteps \cup {NoLogin}]
        /\ resolved' \subseteq Principals \X Accounts
        /\ AnsweredByOwner'
    BY <1>1, <1>4, <1>6, AnsweredKeeps
  <1>8. ProvisionedIsLinked'
    <2> SUFFICES ASSUME NEW k \in Logins, account'[FreshOf[k]] /= NoAccount
                 PROVE  \E y \in Principals : owner'[y] = FreshOf[k]
      BY DEF ProvisionedIsLinked
    <2>1. CASE FreshOf[k] = a
      BY <1>1, <1>6, <2>1
    <2>2. CASE FreshOf[k] /= a
      <3>1. account[FreshOf[k]] /= NoAccount
        BY <1>1, <1>4, <1>5, <2>2, IdentityAssumption
      <3>2. PICK y \in Principals : owner[y] = FreshOf[k]
        BY <3>1 DEF IInv, ProvisionedIsLinked
      <3> QED BY <1>6, <3>2, RecordAssumption, IdentityAssumption
    <2> QED BY <2>1, <2>2
  <1>9. StreamTellsRow'
    <2>1. /\ account'[a] = linked /\ security'[a] = <<first, second>>
          /\ \A b \in Accounts \ {a} :
               account'[b] = account[b] /\ security'[b] = security[b]
      BY <1>1, <1>4, <1>5
    <2>2. Len(<<first, second>>) = 2 /\ <<first, second>>[2] = second
      OBVIOUS
    <2>3. /\ account'[a] /= NoAccount
          /\ Len(security'[a]) = account'[a].version + 1
          /\ security'[a][account'[a].version + 1].status = account'[a].status
      BY <1>2, <1>3, <2>1, <2>2
    <2> QED BY <2>1, <2>3 DEF IInv, StreamTellsRow
  <1> QED BY <1>4, <1>6, <1>7, <1>8, <1>9 DEF IInv, IdentityTypeOK

LEMMA ResolveInductive ==
  ASSUME IInv, NEW l \in Logins, Resolve(l)
  PROVE  IInv'
  <1>1. ASSUME NEW x \in Principals, Find(l, x) PROVE IInv'
    BY <1>1, AnswerOwnerInductive DEF Find
  <1>2. CASE Look(l)
    <2>1. login[l].principal \in Principals
      BY <1>2, LoginsAsk DEF Look
    <2> QED BY <1>2, <2>1, AnswerOwnerInductive DEF Look
  <1>3. CASE Provision(l)
    BY <1>3, ProvisionInductive
  <1>4. CASE ProvisionFails(l)
    <2>1. /\ UNCHANGED <<account, owner, session, security, resolved>>
          /\ login' = [login EXCEPT ![l] = NoLogin]
      BY <1>4 DEF ProvisionFails
    <2>2. AnsweredByOwner' /\ ProvisionedIsLinked' /\ StreamTellsRow'
      BY <2>1 DEF IInv, AnsweredByOwner, ProvisionedIsLinked, StreamTellsRow
    <2> QED BY <2>1, <2>2 DEF IInv, IdentityTypeOK
  <1> QED BY <1>1, <1>2, <1>3, <1>4 DEF Resolve

-----------------------------------------------------------------------------
LEMMA InitInductive == IdentityInit => IInv
  <1> SUFFICES ASSUME IdentityInit PROVE IInv
    OBVIOUS
  <1>1. IdentityTypeOK
    BY DEF IdentityInit, IdentityTypeOK
  <1>2. AnsweredByOwner /\ ProvisionedIsLinked /\ StreamTellsRow
    BY IdentityAssumption DEF IdentityInit, AnsweredByOwner, ProvisionedIsLinked,
                              StreamTellsRow
  <1> QED BY <1>1, <1>2 DEF IInv

LEMMA NextInductive == IInv /\ [IdentityNext]_identityVars => IInv'
  <1> SUFFICES ASSUME IInv, [IdentityNext]_identityVars PROVE IInv'
    OBVIOUS
  <1>1. CASE UNCHANGED identityVars
    BY <1>1 DEF identityVars, IInv, IdentityTypeOK, AnsweredByOwner,
                ProvisionedIsLinked, StreamTellsRow
  <1>2. CASE IdentityNext
    BY <1>2, CreateAccountInductive, MutateInductive, ResolveInductive
       DEF IdentityNext
  <1> QED BY <1>1, <1>2

THEOREM IdentitySafety == IdentitySpec => []IInv
  BY InitInductive, NextInductive, PTL DEF IdentitySpec

(* Rows, identities, sessions and events are always of their types, also   *)
(* while logins and mutations of one account interleave.                   *)
THEOREM IdentityTypes == IdentitySpec => []IdentityTypeOK
  <1>1. IInv => IdentityTypeOK
    BY DEF IInv
  <1> QED BY <1>1, IdentitySafety, PTL

(* Whoever logs in with an identity always gets the same account, and no   *)
(* provisioned account is left without one (AccountProvisioningService,    *)
(* provisionExternalIdentity against linkExternalIdentity).                *)
THEOREM LoginIsStable == IdentitySpec => []LoginsFindTheirAccount
  <1>1. IInv => LoginsFindTheirAccount
    BY DEF IInv, AnsweredByOwner, LoginsFindTheirAccount, OneAccountPerPrincipal
  <1> QED BY <1>1, IdentitySafety, PTL

(* A session begins in an account that is ACTIVE at that moment: its       *)
(* version check makes the status its caller read the current one.         *)
THEOREM SessionsBegin == IdentitySpec => SessionsBeginActive
  <1> DEFINE Begins ==
        \A s \in Sessions :
          session[s] = NoSession /\ session'[s] /= NoSession =>
            account[session'[s].account].status = "ACTIVE"
  <1>1. IInv /\ [IdentityNext]_identityVars => [Begins]_identityVars
    <2> SUFFICES ASSUME IInv, IdentityNext PROVE Begins
      OBVIOUS
    <2> SUFFICES ASSUME NEW s \in Sessions, session[s] = NoSession,
                        session'[s] /= NoSession
                 PROVE  account[session'[s].account].status = "ACTIVE"
      OBVIOUS
    <2>0. PICK a \in Accounts, t \in Sessions : \E read \in ReadVersions(a) :
            CreateAccountSession(a, read, t) \/ RevokeAccountSession(a, read, t)
      <3>1. session' /= session
        OBVIOUS
      <3>2. ~\E l \in Logins : Resolve(l)
        BY <3>1 DEF Resolve, Find, Look, AnswerOwner, Provision, ProvisionFails
      <3>3. PICK a \in Accounts, read \in Nat :
              read \in ReadVersions(a) /\ Mutate(a, read)
        BY <3>1, <3>2 DEF IdentityNext, CreateAccount, ReadVersions
      <3> QED BY <3>1, <3>3 DEF Mutate, UpdateAccountStatus, LinkExternalIdentity
    <2>1. PICK read \in ReadVersions(a) :
            CreateAccountSession(a, read, t) \/ RevokeAccountSession(a, read, t)
      BY <2>0
    <2>2. PICK revoked \in BOOLEAN :
            session' = [session EXCEPT ![t] = [account |-> a, revoked |-> revoked]]
      BY <2>1 DEF CreateAccountSession, RevokeAccountSession
    <2>3. s = t /\ session'[s].account = a
      BY <2>2 DEF IInv, IdentityTypeOK
    <2>4. CreateAccountSession(a, read, t)
      <3>1. session[s] /= [account |-> a, revoked |-> FALSE]
        BY RecordAssumption DEF NoSession
      <3> QED BY <2>1, <2>3, <3>1 DEF RevokeAccountSession
    <2>5. read = account[a].version /\ account[a] /= NoAccount
      BY <2>1, <2>4, MutationsChange DEF CreateAccountSession
    <2>6. security[a][read + 1].status = account[a].status
      BY <2>5 DEF IInv, StreamTellsRow
    <2> QED BY <2>3, <2>4, <2>6 DEF CreateAccountSession
  <1> QED BY <1>1, IdentitySafety, PTL DEF IdentitySpec, SessionsBeginActive

-----------------------------------------------------------------------------
(* The audit stream.  An event says that something is so; the invariant    *)
(* adds that of what is not so there is no event, or the one that comes    *)
(* would not be the only one.                                              *)
Tells(fact, events) ==
  /\ fact => \E n \in Nat : events = {n}
  /\ ~fact => events = {}

Audited(a) ==
  /\ \A n \in DOMAIN security[a] : security[a][n].version = n - 1
  /\ \A x \in Principals :
       Tells(owner[x] = a, Events(a, "EXTERNAL_IDENTITY_LINKED", x))
  /\ \A s \in Sessions :
       /\ Tells(session[s].account = a, Events(a, "SESSION_CREATED", s))
       /\ Tells(session[s] = [account |-> a, revoked |-> TRUE],
                Events(a, "SESSION_REVOKED", s))

AuditInv == \A a \in Accounts : Audited(a)

LEMMA AuditedTellsState == IInv /\ AuditInv => AuditTellsState
  <1> SUFFICES ASSUME IInv, AuditInv, NEW a \in Accounts
               PROVE  /\ account[a] /= NoAccount =>
                           /\ Len(security[a]) = account[a].version + 1
                           /\ security[a][Len(security[a])].status = account[a].status
                      /\ \A n \in DOMAIN security[a] : security[a][n].version = n - 1
                      /\ \A x \in Principals :
                           owner[x] = a <=>
                             \E n \in DOMAIN security[a] :
                               Events(a, "EXTERNAL_IDENTITY_LINKED", x) = {n}
                      /\ \A s \in Sessions :
                           /\ session[s].account = a <=>
                                \E n \in DOMAIN security[a] :
                                  Events(a, "SESSION_CREATED", s) = {n}
                           /\ session[s] = [account |-> a, revoked |-> TRUE] <=>
                                \E n \in DOMAIN security[a] :
                                  Events(a, "SESSION_REVOKED", s) = {n}
    BY DEF AuditTellsState
  <1>1. ASSUME NEW fact, NEW type, NEW subject, Tells(fact, Events(a, type, subject))
        PROVE  fact <=> \E n \in DOMAIN security[a] : Events(a, type, subject) = {n}
    <2>1. Events(a, type, subject) \subseteq DOMAIN security[a]
      BY DEF Events
    <2> QED BY <1>1, <2>1 DEF Tells
  <1>2. Audited(a)
    BY DEF AuditInv
  <1>3. \A x \in Principals :
          owner[x] = a <=> \E n \in DOMAIN security[a] :
                             Events(a, "EXTERNAL_IDENTITY_LINKED", x) = {n}
    BY <1>1, <1>2 DEF Audited
  <1>4. ASSUME NEW s \in Sessions
        PROVE  /\ session[s].account = a <=>
                    \E n \in DOMAIN security[a] : Events(a, "SESSION_CREATED", s) = {n}
               /\ session[s] = [account |-> a, revoked |-> TRUE] <=>
                    \E n \in DOMAIN security[a] : Events(a, "SESSION_REVOKED", s) = {n}
    <2>1. /\ Tells(session[s].account = a, Events(a, "SESSION_CREATED", s))
          /\ Tells(session[s] = [account |-> a, revoked |-> TRUE],
                   Events(a, "SESSION_REVOKED", s))
      BY <1>2 DEF Audited
    <2>2. /\ Events(a, "SESSION_CREATED", s) \subseteq DOMAIN security[a]
          /\ Events(a, "SESSION_REVOKED", s) \subseteq DOMAIN security[a]
      BY DEF Events
    <2> QED BY <2>1, <2>2 DEF Tells
  <1>5. ASSUME account[a] /= NoAccount
        PROVE  /\ Len(security[a]) = account[a].version + 1
               /\ security[a][Len(security[a])].status = account[a].status
    BY <1>5 DEF IInv, StreamTellsRow
  <1>6. \A n \in DOMAIN security[a] : security[a][n].version = n - 1
    BY <1>2 DEF Audited
  <1> QED BY <1>3, <1>4, <1>5, <1>6

(* Owners and sessions change as an event of the account says.             *)
OwnersFollow(a, type, subject) ==
  \A x \in Principals :
    /\ \A b \in Accounts :
         owner'[x] = b <=> \/ owner[x] = b
                           \/ b = a /\ type = "EXTERNAL_IDENTITY_LINKED" /\ subject = x
    /\ type = "EXTERNAL_IDENTITY_LINKED" /\ subject = x => owner[x] /= a

SessionsFollow(a, type, subject) ==
  \A s \in Sessions :
    /\ \A b \in Accounts :
         /\ session'[s].account = b <=>
              \/ session[s].account = b
              \/ b = a /\ type = "SESSION_CREATED" /\ subject = s
         /\ session'[s] = [account |-> b, revoked |-> TRUE] <=>
              \/ session[s] = [account |-> b, revoked |-> TRUE]
              \/ b = a /\ type = "SESSION_REVOKED" /\ subject = s
    /\ type = "SESSION_CREATED" /\ subject = s => session[s].account /= a
    /\ type = "SESSION_REVOKED" /\ subject = s =>
         session[s] /= [account |-> a, revoked |-> TRUE]

(* A change of an account keeps its audit where exactly what its event     *)
(* says becomes so.                                                        *)
LEMMA ChangeIsAudited ==
  ASSUME IInv, AuditInv,
         NEW a \in Accounts, NEW row \in AccountRows, NEW type \in EventTypes,
         NEW subject \in Principals \cup Sessions \cup {None},
         row.version = Len(security[a]),
         Change(a, row, type, subject),
         OwnersFollow(a, type, subject), SessionsFollow(a, type, subject)
  PROVE  AuditInv'
  <1> DEFINE e == SecurityEvent(type, row, subject)
  <1>1. /\ e \in SecurityEvents /\ e.version = Len(security[a])
        /\ e.type = type /\ e.subject = subject
    BY DEF SecurityEvent, SecurityEvents, AccountRows
  <1>2. security' = [security EXCEPT ![a] = Append(security[a], e)]
    BY DEF Change
  <1> HIDE DEF e
  <1> SUFFICES ASSUME NEW b \in Accounts PROVE Audited(b)'
    BY DEF AuditInv
  <1>3. Audited(b) /\ security \in [Accounts -> Seq(SecurityEvents)]
    BY DEF AuditInv, IInv, IdentityTypeOK
  <1>4. /\ b /= a => security'[b] = security[b]
        /\ b = a => /\ DOMAIN security'[b] = DOMAIN security[b] \cup {Len(security[a]) + 1}
                    /\ Len(security[a]) + 1 \notin DOMAIN security[b]
                    /\ security'[b][Len(security[a]) + 1] = e
                    /\ \A n \in DOMAIN security[b] : security'[b][n] = security[b][n]
    BY <1>1, <1>2, <1>3
  <1>5. Len(security[a]) \in Nat
    BY <1>3
  <1>6. \A n \in DOMAIN security'[b] : security'[b][n].version = n - 1
    BY <1>1, <1>3, <1>4, <1>5 DEF Audited
  <1>7. ASSUME NEW of, NEW sub
        PROVE  /\ b = a /\ type = of /\ subject = sub =>
                    Events(b, of, sub)' = Events(b, of, sub) \cup {Len(security[a]) + 1}
               /\ ~(b = a /\ type = of /\ subject = sub) =>
                    Events(b, of, sub)' = Events(b, of, sub)
    BY <1>1, <1>4 DEF Events
  <1>8. ASSUME NEW x \in Principals
        PROVE  Tells(owner[x] = b, Events(b, "EXTERNAL_IDENTITY_LINKED", x))'
    <2> DEFINE events == Events(b, "EXTERNAL_IDENTITY_LINKED", x)
    <2>1. Tells(owner[x] = b, events)
      BY <1>3 DEF Audited
    <2>2. CASE b = a /\ type = "EXTERNAL_IDENTITY_LINKED" /\ subject = x
      <3>1. events' = events \cup {Len(security[a]) + 1}
        BY <1>7, <2>2
      <3>2. owner[x] /= b /\ owner'[x] = b
        BY <2>2 DEF OwnersFollow
      <3>3. Len(security[a]) + 1 \in Nat
        BY <1>3
      <3> QED BY <2>1, <3>1, <3>2, <3>3 DEF Tells
    <2>3. CASE ~(b = a /\ type = "EXTERNAL_IDENTITY_LINKED" /\ subject = x)
      <3>1. events' = events
        BY <1>7, <2>3
      <3>2. owner'[x] = b <=> owner[x] = b
        BY <2>3 DEF OwnersFollow
      <3> QED BY <2>1, <3>1, <3>2 DEF Tells
    <2> QED BY <2>2, <2>3
  <1>9. ASSUME NEW s \in Sessions
        PROVE  Tells(session[s].account = b, Events(b, "SESSION_CREATED", s))'
    <2> DEFINE events == Events(b, "SESSION_CREATED", s)
    <2>1. Tells(session[s].account = b, events)
      BY <1>3 DEF Audited
    <2>2. CASE b = a /\ type = "SESSION_CREATED" /\ subject = s
      <3>1. events' = events \cup {Len(security[a]) + 1}
        BY <1>7, <2>2
      <3>2. session[s].account /= b /\ session'[s].account = b
        BY <2>2 DEF SessionsFollow
      <3>3. Len(security[a]) + 1 \in Nat
        BY <1>3
      <3> QED BY <2>1, <3>1, <3>2, <3>3 DEF Tells
    <2>3. CASE ~(b = a /\ type = "SESSION_CREATED" /\ subject = s)
      <3>1. events' = events
        BY <1>7, <2>3
      <3>2. session'[s].account = b <=> session[s].account = b
        BY <2>3 DEF SessionsFollow
      <3> QED BY <2>1, <3>1, <3>2 DEF Tells
    <2> QED BY <2>2, <2>3
  <1>10. ASSUME NEW s \in Sessions
        PROVE  Tells(session[s] = [account |-> b, revoked |-> TRUE],
                     Events(b, "SESSION_REVOKED", s))'
    <2> DEFINE events == Events(b, "SESSION_REVOKED", s)
    <2>1. Tells(session[s] = [account |-> b, revoked |-> TRUE], events)
      BY <1>3 DEF Audited
    <2>2. CASE b = a /\ type = "SESSION_REVOKED" /\ subject = s
      <3>1. events' = events \cup {Len(security[a]) + 1}
        BY <1>7, <2>2
      <3>2. /\ session[s] /= [account |-> b, revoked |-> TRUE]
            /\ session'[s] = [account |-> b, revoked |-> TRUE]
        BY <2>2 DEF SessionsFollow
      <3>3. Len(security[a]) + 1 \in Nat
        BY <1>3
      <3> QED BY <2>1, <3>1, <3>2, <3>3 DEF Tells
    <2>3. CASE ~(b = a /\ type = "SESSION_REVOKED" /\ subject = s)
      <3>1. events' = events
        BY <1>7, <2>3
      <3>2. session'[s] = [account |-> b, revoked |-> TRUE] <=>
              session[s] = [account |-> b, revoked |-> TRUE]
        BY <2>3 DEF SessionsFollow
      <3> QED BY <2>1, <3>1, <3>2 DEF Tells
    <2> QED BY <2>2, <2>3
  <1> QED BY <1>6, <1>8, <1>9, <1>10 DEF Audited

LEMMA CreateAccountAudited ==
  ASSUME IInv, AuditInv, NEW a \in Accounts, CreateAccount(a)
  PROVE  AuditInv'
  <1>1. Created \in AccountRows /\ Created.version = Len(security[a])
    BY DEF CreateAccount, Created, AccountRows, Statuses, IInv, StreamTellsRow
  <1>2. /\ Change(a, Created, "ACCOUNT_CREATED", None)
        /\ UNCHANGED <<owner, session>>
    BY DEF CreateAccount
  <1>3. /\ OwnersFollow(a, "ACCOUNT_CREATED", None)
        /\ SessionsFollow(a, "ACCOUNT_CREATED", None)
    BY <1>2 DEF OwnersFollow, SessionsFollow
  <1> QED BY <1>1, <1>2, <1>3, ChangeIsAudited DEF EventTypes

LEMMA MutateAudited ==
  ASSUME IInv, AuditInv, NEW a \in Accounts, NEW read \in ReadVersions(a), Mutate(a, read)
  PROVE  AuditInv'
  <1>1. ASSUME NEW status \in Statuses, UpdateAccountStatus(a, read, status)
        PROVE  AuditInv'
    <2> DEFINE row == [status |-> status, version |-> account[a].version + 1]
    <2>1. row \in AccountRows /\ row.version = Len(security[a])
      BY <1>1, MutationsChange DEF UpdateAccountStatus, AccountRows
    <2>2. /\ Change(a, row, "ACCOUNT_STATUS_CHANGED", None)
          /\ UNCHANGED <<owner, session>>
      BY <1>1 DEF UpdateAccountStatus
    <2>3. /\ OwnersFollow(a, "ACCOUNT_STATUS_CHANGED", None)
          /\ SessionsFollow(a, "ACCOUNT_STATUS_CHANGED", None)
      BY <2>2 DEF OwnersFollow, SessionsFollow
    <2> QED BY <2>1, <2>2, <2>3, ChangeIsAudited DEF EventTypes
  <1>2. ASSUME NEW x \in Principals, LinkExternalIdentity(a, read, x)
        PROVE  AuditInv'
    <2>1. /\ Incremented(account[a]) \in AccountRows
          /\ Incremented(account[a]).version = Len(security[a])
      BY <1>2, MutationsChange DEF LinkExternalIdentity
    <2>2. /\ Change(a, Incremented(account[a]), "EXTERNAL_IDENTITY_LINKED", x)
          /\ owner[x] = None /\ owner' = [owner EXCEPT ![x] = a]
          /\ UNCHANGED session
      BY <1>2 DEF LinkExternalIdentity
    <2>3. /\ owner \in [Principals -> Accounts \cup {None}]
          /\ None \notin Accounts
      BY RecordAssumption DEF IInv, IdentityTypeOK
    <2>4. /\ OwnersFollow(a, "EXTERNAL_IDENTITY_LINKED", x)
          /\ SessionsFollow(a, "EXTERNAL_IDENTITY_LINKED", x)
      BY <2>2, <2>3 DEF OwnersFollow, SessionsFollow
    <2> QED BY <2>1, <2>2, <2>4, ChangeIsAudited DEF EventTypes
  <1>3. ASSUME NEW s \in Sessions, CreateAccountSession(a, read, s)
        PROVE  AuditInv'
    <2>1. /\ Incremented(account[a]) \in AccountRows
          /\ Incremented(account[a]).version = Len(security[a])
      BY <1>3, MutationsChange DEF CreateAccountSession
    <2>2. /\ Change(a, Incremented(account[a]), "SESSION_CREATED", s)
          /\ session[s] = NoSession
          /\ session' = [session EXCEPT ![s] = [account |-> a, revoked |-> FALSE]]
          /\ UNCHANGED owner
      BY <1>3 DEF CreateAccountSession
    <2>3. /\ session \in [Sessions -> SessionRows \cup {NoSession}]
          /\ None \notin Accounts
      BY RecordAssumption DEF IInv, IdentityTypeOK
    <2>4. \A b \in Accounts : /\ NoSession.account /= b
                              /\ NoSession /= [account |-> b, revoked |-> TRUE]
      BY <2>3 DEF NoSession
    <2>5. /\ session'[s] = [account |-> a, revoked |-> FALSE]
          /\ \A t \in Sessions \ {s} : session'[t] = session[t]
      BY <2>2, <2>3
    <2>6. SessionsFollow(a, "SESSION_CREATED", s)
      BY <2>2, <2>4, <2>5 DEF SessionsFollow
    <2>7. OwnersFollow(a, "SESSION_CREATED", s)
      BY <2>2 DEF OwnersFollow
    <2> QED BY <2>1, <2>2, <2>6, <2>7, ChangeIsAudited DEF EventTypes
  <1>4. ASSUME NEW s \in Sessions, RevokeAccountSession(a, read, s)
        PROVE  AuditInv'
    <2>1. /\ Incremented(account[a]) \in AccountRows
          /\ Incremented(account[a]).version = Len(security[a])
      BY <1>4, MutationsChange DEF RevokeAccountSession
    <2>2. /\ Change(a, Incremented(account[a]), "SESSION_REVOKED", s)
          /\ session[s] = [account |-> a, revoked |-> FALSE]
          /\ session' = [session EXCEPT ![s] = [account |-> a, revoked |-> TRUE]]
          /\ UNCHANGED owner
      BY <1>4 DEF RevokeAccountSession
    <2>3. session \in [Sessions -> SessionRows \cup {NoSession}]
      BY DEF IInv, IdentityTypeOK
    <2>4. /\ session'[s] = [account |-> a, revoked |-> TRUE]
          /\ \A t \in Sessions \ {s} : session'[t] = session[t]
      BY <2>2, <2>3
    <2>5. SessionsFollow(a, "SESSION_REVOKED", s)
      <3> SUFFICES ASSUME NEW t \in Sessions
                   PROVE  /\ \A b \in Accounts :
                               /\ session'[t].account = b <=> session[t].account = b
                               /\ session'[t] = [account |-> b, revoked |-> TRUE] <=>
                                    \/ session[t] = [account |-> b, revoked |-> TRUE]
                                    \/ b = a /\ s = t
                          /\ s = t => session[t] /= [account |-> a, revoked |-> TRUE]
        BY DEF SessionsFollow
      <3>1. CASE t = s
        <4>1. /\ session[t].account = a /\ session'[t].account = a
              /\ session[t].revoked = FALSE
          BY <2>2, <2>4, <3>1
        <4>2. \A b \in Accounts : session[t] /= [account |-> b, revoked |-> TRUE]
          BY <4>1
        <4>3. \A b \in Accounts :
                session'[t] = [account |-> b, revoked |-> TRUE] <=> b = a
          <5>1. session'[t] = [account |-> a, revoked |-> TRUE]
            BY <2>4, <3>1
          <5>2. \A b \in Accounts :
                  session'[t] = [account |-> b, revoked |-> TRUE] => b = a
            BY <4>1
          <5> QED BY <5>1, <5>2
        <4> QED BY <3>1, <4>1, <4>2, <4>3
      <3>2. CASE t /= s
        BY <2>4, <3>2
      <3> QED BY <3>1, <3>2
    <2>6. OwnersFollow(a, "SESSION_REVOKED", s)
      BY <2>2 DEF OwnersFollow
    <2> QED BY <2>1, <2>2, <2>5, <2>6, ChangeIsAudited DEF EventTypes
  <1> QED BY <1>1, <1>2, <1>3, <1>4 DEF Mutate

(* A provisioned account had no events and begins with two.                *)
LEMMA ProvisionAudited ==
  ASSUME IInv, AuditInv, NEW l \in Logins, Provision(l)
  PROVE  AuditInv'
  <1> DEFINE a == FreshOf[l]
             x == login[l].principal
             linked == Incremented(Created)
             first == SecurityEvent("ACCOUNT_CREATED", Created, None)
             second == SecurityEvent("EXTERNAL_IDENTITY_LINKED", linked, x)
             L == "EXTERNAL_IDENTITY_LINKED"
  <1>1. a \in Accounts /\ x \in Principals
    BY LoginsAsk, IdentityAssumption DEF Provision
  <1>2. /\ first.type = "ACCOUNT_CREATED" /\ first.version = 0
        /\ second.type = L /\ second.version = 1 /\ second.subject = x
    BY DEF SecurityEvent, Incremented, Created
  <1>3. /\ account[a] = NoAccount /\ owner[x] = None
        /\ owner' = [owner EXCEPT ![x] = a]
        /\ security' = [security EXCEPT ![a] = <<first, second>>]
        /\ session' = session
    BY DEF Provision
  <1> HIDE DEF a, x, linked, first, second
  <1>4. /\ owner \in [Principals -> Accounts \cup {None}]
        /\ security \in [Accounts -> Seq(SecurityEvents)]
    BY DEF IInv, IdentityTypeOK
  <1>5. /\ security'[a] = <<first, second>>
        /\ \A b \in Accounts \ {a} : security'[b] = security[b]
        /\ owner'[x] = a
        /\ \A y \in Principals \ {x} : owner'[y] = owner[y]
    BY <1>1, <1>3, <1>4
  <1> SUFFICES ASSUME NEW b \in Accounts PROVE Audited(b)'
    BY DEF AuditInv
  <1>6. Audited(b)
    BY DEF AuditInv
  <1>7. CASE b /= a
    <2>1. \A type, subject : Events(b, type, subject)' = Events(b, type, subject)
      BY <1>5, <1>7 DEF Events
    <2>2. \A y \in Principals : owner'[y] = b <=> owner[y] = b
      BY <1>3, <1>5, <1>7, RecordAssumption
    <2>3. \A n \in DOMAIN security'[b] : security'[b][n].version = n - 1
      BY <1>5, <1>6, <1>7 DEF Audited
    <2>4. ASSUME NEW y \in Principals
          PROVE  Tells(owner[y] = b, Events(b, L, y))'
      <3>1. Tells(owner[y] = b, Events(b, L, y))
        BY <1>6 DEF Audited
      <3>2. /\ owner'[y] = b <=> owner[y] = b
            /\ Events(b, L, y)' = Events(b, L, y)
        BY <2>1, <2>2
      <3> QED BY <3>1, <3>2 DEF Tells
    <2>5. ASSUME NEW s \in Sessions
          PROVE  /\ Tells(session[s].account = b, Events(b, "SESSION_CREATED", s))'
                 /\ Tells(session[s] = [account |-> b, revoked |-> TRUE],
                          Events(b, "SESSION_REVOKED", s))'
      <3>1. /\ Tells(session[s].account = b, Events(b, "SESSION_CREATED", s))
            /\ Tells(session[s] = [account |-> b, revoked |-> TRUE],
                     Events(b, "SESSION_REVOKED", s))
        BY <1>6 DEF Audited
      <3>2. /\ Events(b, "SESSION_CREATED", s)' = Events(b, "SESSION_CREATED", s)
            /\ Events(b, "SESSION_REVOKED", s)' = Events(b, "SESSION_REVOKED", s)
        BY <2>1
      <3> QED BY <1>3, <3>1, <3>2 DEF Tells
    <2> QED BY <2>3, <2>4, <2>5 DEF Audited
  <1>8. CASE b = a
    <2>1. security[b] = <<>>
      BY <1>1, <1>3, <1>8 DEF IInv, StreamTellsRow
    <2>2. \A type, subject : Events(b, type, subject) = {}
      BY <2>1 DEF Events
    <2>3. \A y \in Principals : owner[y] /= b
      BY <1>6, <2>2 DEF Audited, Tells
    <2>4. \A s \in Sessions : /\ session[s].account /= b
                             /\ session[s] /= [account |-> b, revoked |-> TRUE]
      BY <1>6, <2>2 DEF Audited, Tells
    <2>5. /\ DOMAIN security'[b] = {1, 2}
          /\ security'[b][1] = first /\ security'[b][2] = second
      BY <1>5, <1>8
    <2>6. \A n \in DOMAIN security'[b] : security'[b][n].version = n - 1
      BY <1>2, <2>5
    <2>7. ASSUME NEW y \in Principals
          PROVE  Tells(owner[y] = b, Events(b, L, y))'
      <3>1. CASE y = x
        <4>1. Events(b, L, y)' = {2}
          BY <1>2, <2>5, <3>1 DEF Events
        <4> QED BY <1>5, <1>8, <3>1, <4>1 DEF Tells
      <3>2. CASE y /= x
        <4>1. Events(b, L, y)' = {}
          BY <1>2, <2>5, <3>2 DEF Events
        <4> QED BY <1>5, <2>3, <3>2, <4>1 DEF Tells
      <3> QED BY <3>1, <3>2
    <2>8. ASSUME NEW s \in Sessions
          PROVE  /\ Tells(session[s].account = b, Events(b, "SESSION_CREATED", s))'
                 /\ Tells(session[s] = [account |-> b, revoked |-> TRUE],
                          Events(b, "SESSION_REVOKED", s))'
      <3>1. /\ Events(b, "SESSION_CREATED", s)' = {}
            /\ Events(b, "SESSION_REVOKED", s)' = {}
        BY <1>2, <2>5 DEF Events
      <3> QED BY <1>3, <2>4, <3>1 DEF Tells
    <2> QED BY <2>6, <2>7, <2>8 DEF Audited
  <1> QED BY <1>7, <1>8

(* Where the tables of accounts are not written the audit stays.           *)
LEMMA AuditStays ==
  ASSUME AuditInv, UNCHANGED <<owner, session, security>>
  PROVE  AuditInv'
  BY DEF AuditInv, Audited, Tells, Events

LEMMA AuditInit == IdentityInit => AuditInv
  <1> SUFFICES ASSUME IdentityInit, NEW a \in Accounts PROVE Audited(a)
    BY DEF AuditInv
  <1>1. /\ security[a] = <<>>
        /\ \A x \in Principals : owner[x] /= a
        /\ \A s \in Sessions : session[s] = NoSession
    BY RecordAssumption DEF IdentityInit
  <1>2. \A type, subject : Events(a, type, subject) = {}
    BY <1>1 DEF Events
  <1>3. /\ NoSession.account /= a
        /\ NoSession /= [account |-> a, revoked |-> TRUE]
    BY RecordAssumption DEF NoSession
  <1> QED BY <1>1, <1>2, <1>3 DEF Audited, Tells

LEMMA AuditNext == IInv /\ AuditInv /\ [IdentityNext]_identityVars => AuditInv'
  <1> SUFFICES ASSUME IInv, AuditInv, [IdentityNext]_identityVars PROVE AuditInv'
    OBVIOUS
  <1>1. CASE UNCHANGED identityVars
    BY <1>1, AuditStays DEF identityVars
  <1>2. CASE \E a \in Accounts :
               CreateAccount(a) \/ \E read \in ReadVersions(a) : Mutate(a, read)
    BY <1>2, CreateAccountAudited, MutateAudited
  <1>3. CASE \E l \in Logins : Resolve(l)
    <2> PICK l \in Logins : Resolve(l)
      BY <1>3
    <2>1. CASE Provision(l)
      BY <2>1, ProvisionAudited
    <2>2. CASE ~Provision(l)
      <3>1. UNCHANGED <<owner, session, security>>
        BY <2>2 DEF Resolve, Find, Look, AnswerOwner, ProvisionFails
      <3> QED BY <3>1, AuditStays
    <2> QED BY <2>1, <2>2
  <1> QED BY <1>1, <1>2, <1>3 DEF IdentityNext

(* The security events of an account are one for each version, in order,   *)
(* and a status, a link, a session or a revocation is there exactly when   *)
(* its event is, once: lockAccount, requireVersion and appendSecurityEvent *)
(* keep the tables and the stream together.                                *)
THEOREM AuditTells == IdentitySpec => []AuditTellsState
  BY AuditInit, AuditNext, AuditedTellsState, IdentitySafety, PTL DEF IdentitySpec

-----------------------------------------------------------------------------
(***************************************************************************)
(* The directory over the accounts.  Its invariant adds to what a payer    *)
(* relies on that an open promotion demotes only other destinations of its *)
(* own account: what its first statement saw stays that account's.         *)
(***************************************************************************)
PromotionsOwn ==
  \A w \in Writers : promotion[w] /= NoPromotion =>
    /\ promotion[w].destination \notin promotion[w].demoted
    /\ \A e \in promotion[w].demoted :
         destination[e].account = promotion[w].account

DirectoryInv ==
  /\ DirectoryTypeOK
  /\ PromotionsOwn
  /\ OnePrimary /\ OneOwner /\ PayeesKeepTheirAddress

(* The composed specification keeps every promise of the accounts.         *)
LEMMA AccountsKept == Spec => IdentitySpec
  <1>1. Init => IdentityInit
    BY DEF Init
  <1>2. [Next]_allVars => [IdentityNext]_identityVars
    BY DEF Next, allVars
  <1> QED BY <1>1, <1>2, PTL DEF Spec, IdentitySpec

LEMMA DestinationRow ==
  ASSUME DirectoryTypeOK, NEW d \in Destinations
  PROVE  /\ destination[d] \in DestinationRows \/ destination[d] = NoDestination
         /\ destination[d] /= NoDestination => destination[d] \in DestinationRows
         /\ NoDestination.account = None /\ NoDestination.address = None
         /\ NoDestination.primary = FALSE
         /\ NoDestination \notin DestinationRows
         /\ destination[d].primary \in BOOLEAN
         /\ destination[d].primary => destination[d] /= NoDestination
  <1>1. destination[d] \in DestinationRows \/ destination[d] = NoDestination
    BY DEF DirectoryTypeOK
  <1>2. NoDestination.account = None /\ NoDestination.address = None /\ NoDestination.primary = FALSE
    BY DEF NoDestination
  <1>3. NoDestination \notin DestinationRows
    BY <1>2, RecordAssumption DEF DestinationRows
  <1>4. destination[d] \in DestinationRows => destination[d].primary \in BOOLEAN
    BY DEF DestinationRows
  <1> QED BY <1>1, <1>2, <1>3, <1>4

(* A row keeps its account and its address.                                *)
KeepsPlace(rows, next) ==
  \A e \in Destinations :
    rows[e] /= NoDestination =>
      /\ next[e] /= NoDestination
      /\ next[e].account = rows[e].account /\ next[e].address = rows[e].address

(* Rows named apart: an address is one destination's.                      *)
ApartRows(rows) ==
  \A d, e \in Destinations :
    rows[d] /= NoDestination /\ rows[d].address = rows[e].address => d = e

LEMMA RepointedRow ==
  ASSUME NEW r \in DestinationRows, NEW primary \in BOOLEAN
  PROVE  /\ Repointed(r, primary) \in DestinationRows
         /\ Repointed(r, primary).account = r.account
         /\ Repointed(r, primary).address = r.address
         /\ Repointed(r, primary).primary = primary
  <1> DEFINE flagged == [r EXCEPT !.primary = primary]
  <1>1. /\ flagged \in DestinationRows /\ flagged.primary = primary
        /\ flagged.account = r.account /\ flagged.address = r.address
        /\ flagged.version = r.version
    BY DEF DestinationRows
  <1>2. Repointed(r, primary) = [flagged EXCEPT !.version = r.version + 1]
    BY DEF Repointed
  <1>3. r.version + 1 \in Nat
    BY DEF DestinationRows
  <1>4. \A v \in Nat : [flagged EXCEPT !.version = v] \in DestinationRows
    <2> HIDE DEF flagged
    <2> QED BY <1>1 DEF DestinationRows
  <1>5. \A v \in Nat :
          /\ [flagged EXCEPT !.version = v].account = flagged.account
          /\ [flagged EXCEPT !.version = v].address = flagged.address
          /\ [flagged EXCEPT !.version = v].primary = flagged.primary
    <2> HIDE DEF flagged
    <2> QED BY <1>1 DEF DestinationRows
  <1> HIDE DEF flagged
  <1> QED BY <1>1, <1>2, <1>3, <1>4, <1>5

(* What an insert or an update of a destination leaves.                    *)
LEMMA PutMoves ==
  ASSUME NEW rows \in [Destinations -> DestinationRows \cup {NoDestination}],
         NEW a \in Accounts, NEW d \in Destinations, NEW x \in Addresses,
         NEW primary \in BOOLEAN, ApartRows(rows), AddressFree(rows, a, d, x),
         NEW next, next = Put(rows, a, d, x, primary)
  PROVE  /\ next \in [Destinations -> DestinationRows \cup {NoDestination}]
         /\ KeepsPlace(rows, next) /\ ApartRows(next)
         /\ \A e \in Destinations \ {d} : next[e] = rows[e]
         /\ next[d].account = a /\ next[d].address = x /\ next[d].primary = primary
         /\ next[d] /= NoDestination
  <1>1. /\ next = [rows EXCEPT ![d] = next[d]]
        /\ next[d] = IF rows[d] = NoDestination THEN NewDestination(a, x, primary)
                     ELSE Repointed(rows[d], primary)
    BY DEF Put
  <1>2. /\ next[d] \in DestinationRows
        /\ next[d].account = a /\ next[d].address = x /\ next[d].primary = primary
        /\ rows[d] /= NoDestination => rows[d].account = a /\ rows[d].address = x
    <2>1. CASE rows[d] = NoDestination
      BY <1>1, <2>1 DEF NewDestination, DestinationRows
    <2>2. CASE rows[d] /= NoDestination
      <3>1. rows[d] \in DestinationRows /\ rows[d].account = a /\ rows[d].address = x
        BY <2>2 DEF AddressFree
      <3>2. next[d] = Repointed(rows[d], primary)
        BY <1>1, <2>2
      <3> QED BY <3>1, <3>2, RepointedRow
    <2> QED BY <2>1, <2>2
  <1>3. next[d] /= NoDestination
    BY <1>2, RecordAssumption DEF NoDestination
  <1>4. /\ next \in [Destinations -> DestinationRows \cup {NoDestination}]
        /\ \A e \in Destinations \ {d} : next[e] = rows[e]
    BY <1>1, <1>2
  <1>5. KeepsPlace(rows, next)
    BY <1>2, <1>3, <1>4 DEF KeepsPlace
  <1>6. \A e \in Destinations \ {d} : rows[e].address /= x
    BY <1>2 DEF AddressFree, ApartRows
  <1>7. ApartRows(next)
    BY <1>2, <1>4, <1>6 DEF ApartRows
  <1> QED BY <1>2, <1>3, <1>4, <1>5, <1>7

(* What a demotion leaves.                                                 *)
LEMMA DemoteMoves ==
  ASSUME NEW rows \in [Destinations -> DestinationRows \cup {NoDestination}],
         NEW demoted \in SUBSET Destinations, NEW next, next = Demote(rows, demoted)
  PROVE  /\ next \in [Destinations -> DestinationRows \cup {NoDestination}]
         /\ \A e \in Destinations :
              /\ next[e].account = rows[e].account /\ next[e].address = rows[e].address
              /\ next[e] = NoDestination <=> rows[e] = NoDestination
              /\ next[e].primary => rows[e].primary /\ e \notin demoted
              /\ e \notin demoted => next[e] = rows[e]
  <1>1. \A e \in Destinations :
          /\ e \in demoted /\ rows[e].primary => next[e] = Repointed(rows[e], FALSE)
          /\ ~(e \in demoted /\ rows[e].primary) => next[e] = rows[e]
    BY DEF Demote
  <1>2. next = [e \in Destinations |-> next[e]]
    BY DEF Demote
  <1>3. ASSUME NEW e \in Destinations, e \in demoted, rows[e].primary
        PROVE  /\ next[e] \in DestinationRows /\ rows[e] \in DestinationRows
               /\ next[e].account = rows[e].account /\ next[e].address = rows[e].address
               /\ next[e].primary = FALSE
    <2>1. rows[e] \in DestinationRows
      BY <1>3 DEF NoDestination
    <2>2. next[e] = Repointed(rows[e], FALSE)
      BY <1>1, <1>3
    <2> QED BY <2>1, <2>2, RepointedRow
  <1>4. NoDestination \notin DestinationRows
    BY RecordAssumption DEF NoDestination, DestinationRows
  <1>5. \A e \in Destinations : next[e] \in DestinationRows \cup {NoDestination}
    BY <1>1, <1>3
  <1>6. next \in [Destinations -> DestinationRows \cup {NoDestination}]
    BY <1>2, <1>5
  <1> QED BY <1>1, <1>3, <1>4, <1>6

LEMMA ApartIsOneOwner ==
  DirectoryInv => ApartRows(destination)
  BY DEF DirectoryInv, OneOwner, ApartRows

(* What payers were told and open promotions rely on is where rows stay.   *)
LEMMA PlacesKept ==
  ASSUME DirectoryInv, KeepsPlace(destination, destination'), UNCHANGED payees,
         \A w \in Writers : promotion'[w] = promotion[w] \/ promotion'[w] = NoPromotion
  PROVE  PromotionsOwn' /\ PayeesKeepTheirAddress'
  <1> USE DEF DirectoryInv
  <1>1. \A e \in Destinations :
          destination[e].account \in Accounts => destination[e] /= NoDestination
    BY DestinationRow, RecordAssumption
  <1>2. PromotionsOwn'
    <2> SUFFICES ASSUME NEW w \in Writers, promotion'[w] /= NoPromotion,
                        NEW e \in promotion'[w].demoted
                 PROVE  /\ promotion'[w].destination \notin promotion'[w].demoted
                        /\ destination'[e].account = promotion'[w].account
      BY DEF PromotionsOwn
    <2>1. promotion'[w] = promotion[w] /\ promotion[w] \in Promotions
      BY DEF DirectoryTypeOK
    <2>2. /\ e \in Destinations /\ promotion[w].account \in Accounts
          /\ destination[e].account = promotion[w].account
          /\ promotion[w].destination \notin promotion[w].demoted
      BY <2>1 DEF PromotionsOwn, Promotions
    <2> QED BY <1>1, <2>1, <2>2 DEF KeepsPlace
  <1>3. PayeesKeepTheirAddress'
    <2> SUFFICES ASSUME NEW pair \in payees
                 PROVE  \E d \in Destinations : /\ destination'[d].account = pair[1]
                                                /\ destination'[d].address = pair[2]
      BY DEF PayeesKeepTheirAddress
    <2>1. PICK d \in Destinations :
            destination[d].account = pair[1] /\ destination[d].address = pair[2]
      BY DEF PayeesKeepTheirAddress
    <2>2. destination[d] /= NoDestination
      BY <1>1, <2>1 DEF DirectoryTypeOK
    <2> QED BY <2>1, <2>2 DEF KeepsPlace
  <1> QED BY <1>2, <1>3

(* What an edit of a profile leaves.                                       *)
LEMMA UpsertedProfile ==
  ASSUME NEW r \in Profiles, NEW username \in Usernames, NEW listed \in BOOLEAN
  PROVE  Upserted(r, username, listed) \in Profiles
         /\ Upserted(r, username, listed).username = username
  <1> DEFINE named == [r EXCEPT !.username = username]
             seen == [named EXCEPT !.listed = listed]
  <1>1. named \in Profiles /\ named.username = username /\ named.version = r.version
    BY DEF Profiles
  <1>2. seen \in Profiles /\ seen.username = username /\ seen.version = r.version
    <2> HIDE DEF named
    <2> QED BY <1>1 DEF Profiles
  <1>3. Upserted(r, username, listed) = [seen EXCEPT !.version = r.version + 1]
    BY DEF Upserted
  <1>4. r.version + 1 \in Nat
    BY DEF Profiles
  <1>5. \A v \in Nat :
          /\ [seen EXCEPT !.version = v] \in Profiles
          /\ [seen EXCEPT !.version = v].username = seen.username
    <2> HIDE DEF seen
    <2> QED BY <1>2 DEF Profiles
  <1> HIDE DEF named, seen
  <1> QED BY <1>2, <1>3, <1>4, <1>5

(* A username is one account's: the index lets only a free one in.         *)
OneName ==
  \A a, b \in Accounts :
    profile[a] /= NoProfile /\ profile[a].username = profile[b].username => a = b

LEMMA NamesMove ==
  ASSUME DirectoryInv, NEW a \in Accounts, NEW row \in Profiles,
         profile' = [profile EXCEPT ![a] = row], UsernameFree(a, row.username),
         UNCHANGED <<destination, promotion, resolution, payees>>
  PROVE  DirectoryInv'
  <1> USE DEF DirectoryInv
  <1>1. DirectoryTypeOK'
    BY DEF DirectoryTypeOK
  <1>2. PromotionsOwn' /\ OnePrimary' /\ PayeesKeepTheirAddress'
    BY DEF PromotionsOwn, OnePrimary, PayeesKeepTheirAddress
  <1>3. /\ profile'[a] = row
        /\ \A b \in Accounts \ {a} : profile'[b] = profile[b]
    BY DEF DirectoryTypeOK
  <1>4. OneName'
    <2> SUFFICES ASSUME NEW b \in Accounts, NEW c \in Accounts,
                        profile'[b] /= NoProfile, profile'[b].username = profile'[c].username
                 PROVE  b = c
      BY DEF OneName
    <2>1. CASE b = a
      BY <1>3, <2>1 DEF UsernameFree
    <2>2. CASE b /= a /\ c = a
      BY <1>3, <2>2 DEF UsernameFree
    <2>3. CASE b /= a /\ c /= a
      BY <1>3, <2>3 DEF OneOwner
    <2> QED BY <2>1, <2>2, <2>3
  <1>5. OneOwner'
    BY <1>4 DEF OneOwner, OneName
  <1> QED BY <1>1, <1>2, <1>5

LEMMA UpsertEconomicIdentityInductive ==
  ASSUME DirectoryInv, NEW a \in Accounts, NEW username \in Usernames,
         NEW listed \in BOOLEAN, UpsertEconomicIdentity(a, username, listed)
  PROVE  DirectoryInv'
  <1> DEFINE row == IF profile[a] = NoProfile THEN NewProfile(username, listed)
                    ELSE Upserted(profile[a], username, listed)
  <1>1. profile[a] \in Profiles \/ profile[a] = NoProfile
    BY DEF DirectoryInv, DirectoryTypeOK
  <1>2. row \in Profiles /\ row.username = username
    <2>1. CASE profile[a] = NoProfile
      BY <2>1 DEF NewProfile, Profiles
    <2>2. CASE profile[a] /= NoProfile
      BY <1>1, <2>2, UpsertedProfile
    <2> QED BY <2>1, <2>2
  <1>3. profile' = [profile EXCEPT ![a] = row]
    BY DEF UpsertEconomicIdentity
  <1> HIDE DEF row
  <1> QED BY <1>2, <1>3, NamesMove DEF UpsertEconomicIdentity

LEMMA UpdateEconomicIdentityStateInductive ==
  ASSUME DirectoryInv, NEW a \in Accounts, NEW payable \in BOOLEAN,
         UpdateEconomicIdentityState(a, payable)
  PROVE  DirectoryInv'
  <1> USE DEF UpdateEconomicIdentityState
  <1> DEFINE paid == [profile[a] EXCEPT !.payable = payable]
             row == [paid EXCEPT !.version = profile[a].version + 1]
  <1>1. profile[a] \in Profiles
    BY DEF DirectoryInv, DirectoryTypeOK
  <1>2. /\ paid \in Profiles /\ paid.username = profile[a].username
        /\ profile[a].version + 1 \in Nat
    BY <1>1 DEF Profiles
  <1>3. row \in Profiles /\ row.username = profile[a].username
    <2> HIDE DEF paid
    <2> QED BY <1>2 DEF Profiles
  <1>4. profile' = [profile EXCEPT ![a] = row]
    BY DEF DirectoryInv, DirectoryTypeOK
  <1>5. UsernameFree(a, profile[a].username)
    BY DEF UsernameFree, DirectoryInv, OneOwner
  <1> HIDE DEF paid, row
  <1> QED BY <1>3, <1>4, <1>5, NamesMove

LEMMA UpsertSolanaDestinationInductive ==
  ASSUME DirectoryInv, NEW a \in Accounts, NEW d \in Destinations, NEW x \in Addresses,
         UpsertSolanaDestination(a, d, x)
  PROVE  DirectoryInv'
  <1> USE DEF UpsertSolanaDestination
  <1>1. /\ destination \in [Destinations -> DestinationRows \cup {NoDestination}]
        /\ ApartRows(destination)
    BY ApartIsOneOwner DEF DirectoryInv, DirectoryTypeOK
  <1>2. /\ destination' \in [Destinations -> DestinationRows \cup {NoDestination}]
        /\ KeepsPlace(destination, destination') /\ ApartRows(destination')
        /\ \A e \in Destinations \ {d} : destination'[e] = destination[e]
        /\ destination'[d].primary = FALSE
    <2>1. PICK no \in BOOLEAN : no = FALSE
      OBVIOUS
    <2>2. /\ AddressFree(destination, a, d, x)
          /\ destination' = Put(destination, a, d, x, no)
      BY <2>1 DEF Put, NewDestination, Repointed
    <2> HIDE DEF UpsertSolanaDestination
    <2> QED BY <1>1, <2>1, <2>2, PutMoves
  <1>3. PromotionsOwn' /\ PayeesKeepTheirAddress'
    BY <1>2, PlacesKept
  <1>4. OneOwner'
    BY <1>2 DEF OneOwner, ApartRows, DirectoryInv
  <1>5. OnePrimary'
    BY <1>2 DEF OnePrimary, DirectoryInv
  <1>6. DirectoryTypeOK'
    BY <1>2 DEF DirectoryTypeOK, DirectoryInv
  <1> QED BY <1>3, <1>4, <1>5, <1>6 DEF DirectoryInv

LEMMA UpdatePaymentDestinationStateInductive ==
  ASSUME DirectoryInv, NEW d \in Destinations, NEW usable \in BOOLEAN,
         UpdatePaymentDestinationState(d, usable)
  PROVE  DirectoryInv'
  <1> USE DEF UpdatePaymentDestinationState
  <1> DEFINE used == [destination[d] EXCEPT !.usable = usable]
             row == [used EXCEPT !.version = destination[d].version + 1]
  <1>1. destination[d] \in DestinationRows
    BY DEF DirectoryInv, DirectoryTypeOK
  <1>2. /\ used \in DestinationRows /\ used.account = destination[d].account
        /\ used.address = destination[d].address /\ used.primary = destination[d].primary
        /\ destination[d].version + 1 \in Nat
    BY <1>1 DEF DestinationRows
  <1>3. /\ row \in DestinationRows /\ row.account = destination[d].account
        /\ row.address = destination[d].address /\ row.primary = destination[d].primary
    <2> HIDE DEF used
    <2> QED BY <1>2 DEF DestinationRows
  <1>4. destination' = [destination EXCEPT ![d] = row]
    BY DEF DirectoryInv, DirectoryTypeOK
  <1>5. row /= NoDestination
    BY <1>1, <1>3, RecordAssumption DEF NoDestination, DestinationRows
  <1> HIDE DEF used, row
  <1>6. /\ destination' \in [Destinations -> DestinationRows \cup {NoDestination}]
        /\ destination'[d] = row
        /\ \A e \in Destinations \ {d} : destination'[e] = destination[e]
    BY <1>3, <1>4 DEF DirectoryInv, DirectoryTypeOK
  <1>7. KeepsPlace(destination, destination')
    BY <1>3, <1>5, <1>6 DEF KeepsPlace
  <1>8. PromotionsOwn' /\ PayeesKeepTheirAddress'
    BY <1>7, PlacesKept
  <1>9. \A e \in Destinations :
          /\ destination'[e].account = destination[e].account
          /\ destination'[e].address = destination[e].address
          /\ destination'[e].primary = destination[e].primary
          /\ destination'[e] /= NoDestination => destination[e] /= NoDestination
    BY <1>3, <1>6
  <1>10. OneOwner' /\ OnePrimary'
    <2>1. profile' = profile
      OBVIOUS
    <2> HIDE DEF UpdatePaymentDestinationState
    <2>2. OneOwner'
      BY <1>9, <2>1 DEF OneOwner, DirectoryInv
    <2>3. OnePrimary'
      BY <1>9 DEF OnePrimary, DirectoryInv
    <2> QED BY <2>2, <2>3
  <1>11. DirectoryTypeOK'
    BY <1>6 DEF DirectoryTypeOK, DirectoryInv
  <1> QED BY <1>8, <1>10, <1>11 DEF DirectoryInv

LEMMA BeginPromotionInductive ==
  ASSUME DirectoryInv, NEW w \in Writers, NEW a \in Accounts, NEW d \in Destinations,
         NEW x \in Addresses, BeginPromotion(w, a, d, x)
  PROVE  DirectoryInv'
  <1> USE DEF BeginPromotion
  <1> DEFINE t == [account |-> a, destination |-> d, address |-> x,
                   new |-> destination[d] = NoDestination,
                   version |-> destination[d].version,
                   demoted |-> {e \in Destinations \ {d} :
                     destination[e].account = a /\ destination[e].primary}]
  <1>1. /\ promotion' = [promotion EXCEPT ![w] = t]
        /\ UNCHANGED <<profile, destination, resolution, payees>>
    OBVIOUS
  <1>2. /\ t.account = a /\ t.destination = d
        /\ t.demoted = {e \in Destinations \ {d} :
                          destination[e].account = a /\ destination[e].primary}
    OBVIOUS
  <1>3. t \in Promotions
    <2>1. destination[d].version \in Nat
      <3>1. CASE destination[d] = NoDestination
        BY <3>1 DEF NoDestination
      <3>2. CASE destination[d] \in DestinationRows
        BY <3>2 DEF DestinationRows
      <3> QED BY <3>1, <3>2 DEF DirectoryInv, DirectoryTypeOK
    <2>2. (destination[d] = NoDestination) \in BOOLEAN
      OBVIOUS
    <2>3. t.demoted \in SUBSET Destinations
      OBVIOUS
    <2> QED BY <2>1, <2>2, <2>3 DEF Promotions
  <1> HIDE DEF t
  <1>4. DirectoryTypeOK'
    BY <1>1, <1>3 DEF DirectoryInv, DirectoryTypeOK
  <1>5. PromotionsOwn'
    <2> SUFFICES ASSUME NEW v \in Writers, promotion'[v] /= NoPromotion
                 PROVE  /\ promotion'[v].destination \notin promotion'[v].demoted
                        /\ \A e \in promotion'[v].demoted :
                             destination'[e].account = promotion'[v].account
      BY DEF PromotionsOwn
    <2>1. CASE v = w
      BY <1>1, <1>2, <2>1 DEF DirectoryInv, DirectoryTypeOK
    <2>2. CASE v /= w
      BY <1>1, <2>2 DEF DirectoryInv, DirectoryTypeOK, PromotionsOwn
    <2> QED BY <2>1, <2>2
  <1>6. OnePrimary' /\ OneOwner' /\ PayeesKeepTheirAddress'
    BY <1>1 DEF DirectoryInv, OnePrimary, OneOwner, PayeesKeepTheirAddress
  <1> QED BY <1>4, <1>5, <1>6 DEF DirectoryInv

(* What a promotion commits: its destination, at its account and address,  *)
(* becomes primary; every row but those of its account stays as it was, and *)
(* of those no other is primary.                                           *)
LEMMA CommitMoves ==
  ASSUME DirectoryInv, NEW w \in Writers, CommitPromotion(w)
  PROVE  LET t == promotion[w]
         IN  /\ t \in Promotions
             /\ destination' \in [Destinations -> DestinationRows \cup {NoDestination}]
             /\ KeepsPlace(destination, destination') /\ ApartRows(destination')
             /\ destination'[t.destination].account = t.account
             /\ destination'[t.destination].primary
             /\ \A e \in Destinations \ {t.destination} :
                  /\ destination'[e].account = destination[e].account
                  /\ destination'[e].primary => destination[e].primary
                  /\ destination'[e].account = t.account => ~destination'[e].primary
                  /\ destination[e].account /= t.account =>
                       destination'[e] = destination[e]
  <1> DEFINE t == promotion[w]
             rows == Demote(destination, t.demoted)
  <1>1. t \in Promotions
    BY DEF CommitPromotion, DirectoryInv, DirectoryTypeOK
  <1>2. /\ t.account \in Accounts /\ t.destination \in Destinations
        /\ t.address \in Addresses /\ t.demoted \in SUBSET Destinations
    BY <1>1 DEF Promotions
  <1>3. /\ AddressFree(rows, t.account, t.destination, t.address)
        /\ OnlyPrimary(rows, t.account, t.destination)
    BY DEF CommitPromotion
  <1>4. /\ destination \in [Destinations -> DestinationRows \cup {NoDestination}]
        /\ ApartRows(destination)
    BY ApartIsOneOwner DEF DirectoryInv, DirectoryTypeOK
  <1>5. \A e \in t.demoted : destination[e].account = t.account
    BY DEF CommitPromotion, DirectoryInv, PromotionsOwn
  <1>6. PICK yes \in BOOLEAN : yes = TRUE
    OBVIOUS
  <1>7. destination' = Put(rows, t.account, t.destination, t.address, yes)
    BY <1>6 DEF CommitPromotion, Put, NewDestination, Repointed
  <1> HIDE DEF t
  <1>8. /\ rows \in [Destinations -> DestinationRows \cup {NoDestination}]
        /\ \A e \in Destinations :
             /\ rows[e].account = destination[e].account
             /\ rows[e].address = destination[e].address
             /\ rows[e] = NoDestination <=> destination[e] = NoDestination
             /\ rows[e].primary => destination[e].primary
             /\ e \notin t.demoted => rows[e] = destination[e]
    BY <1>2, <1>4, DemoteMoves
  <1> HIDE DEF rows
  <1>9. ApartRows(rows) /\ KeepsPlace(destination, rows)
    BY <1>4, <1>8 DEF ApartRows, KeepsPlace
  <1>10. /\ destination' \in [Destinations -> DestinationRows \cup {NoDestination}]
         /\ KeepsPlace(rows, destination') /\ ApartRows(destination')
         /\ \A e \in Destinations \ {t.destination} : destination'[e] = rows[e]
         /\ destination'[t.destination].account = t.account
         /\ destination'[t.destination].primary = yes
    BY <1>2, <1>3, <1>7, <1>8, <1>9, PutMoves
  <1>11. KeepsPlace(destination, destination')
    BY <1>9, <1>10 DEF KeepsPlace
  <1>12. \A e \in Destinations \ {t.destination} :
           /\ destination'[e].account = destination[e].account
           /\ destination'[e].primary => destination[e].primary
           /\ destination'[e].account = t.account => ~destination'[e].primary
           /\ destination[e].account /= t.account => destination'[e] = destination[e]
    BY <1>3, <1>5, <1>8, <1>10 DEF OnlyPrimary
  <1>13. destination'[t.destination].primary
    BY <1>6, <1>10
  <1> QED BY <1>1, <1>10, <1>11, <1>12, <1>13 DEF t

LEMMA CommitPromotionInductive ==
  ASSUME DirectoryInv, NEW w \in Writers, CommitPromotion(w)
  PROVE  DirectoryInv'
  <1> DEFINE t == promotion[w]
  <1>1. /\ t \in Promotions
        /\ destination' \in [Destinations -> DestinationRows \cup {NoDestination}]
        /\ KeepsPlace(destination, destination') /\ ApartRows(destination')
        /\ destination'[t.destination].account = t.account
        /\ \A e \in Destinations \ {t.destination} :
             /\ destination'[e].account = destination[e].account
             /\ destination'[e].primary => destination[e].primary
             /\ destination'[e].account = t.account => ~destination'[e].primary
    BY CommitMoves
  <1>2. /\ promotion' = [promotion EXCEPT ![w] = NoPromotion]
        /\ UNCHANGED <<profile, resolution, payees>>
    BY DEF CommitPromotion
  <1>3. \A v \in Writers : promotion'[v] = promotion[v] \/ promotion'[v] = NoPromotion
    BY <1>2 DEF DirectoryInv, DirectoryTypeOK
  <1> HIDE DEF t
  <1>4. PromotionsOwn' /\ PayeesKeepTheirAddress'
    BY <1>1, <1>2, <1>3, PlacesKept
  <1>5. OneOwner'
    BY <1>1, <1>2 DEF DirectoryInv, OneOwner, ApartRows
  <1>6. OnePrimary'
    <2> SUFFICES ASSUME NEW d \in Destinations, NEW e \in Destinations,
                        destination'[d].primary, destination'[e].primary,
                        destination'[d].account = destination'[e].account
                 PROVE  d = e
      BY DEF OnePrimary
    <2>1. CASE d = t.destination
      BY <1>1, <2>1
    <2>2. CASE e = t.destination
      BY <1>1, <2>2
    <2>3. CASE d /= t.destination /\ e /= t.destination
      BY <1>1, <2>3 DEF DirectoryInv, OnePrimary
    <2> QED BY <2>1, <2>2, <2>3
  <1>7. DirectoryTypeOK'
    BY <1>1, <1>2 DEF DirectoryInv, DirectoryTypeOK
  <1> QED BY <1>4, <1>5, <1>6, <1>7 DEF DirectoryInv

LEMMA RollBackInductive ==
  ASSUME DirectoryInv, NEW w \in Writers, RollBack(w)
  PROVE  DirectoryInv'
  <1>1. /\ promotion' = [promotion EXCEPT ![w] = NoPromotion]
        /\ UNCHANGED <<profile, destination, resolution, payees>>
    BY DEF RollBack
  <1>2. \A v \in Writers : promotion'[v] = promotion[v] \/ promotion'[v] = NoPromotion
    BY <1>1 DEF DirectoryInv, DirectoryTypeOK
  <1>3. PromotionsOwn'
    BY <1>1, <1>2 DEF DirectoryInv, PromotionsOwn
  <1>4. OnePrimary' /\ OneOwner' /\ PayeesKeepTheirAddress'
    BY <1>1 DEF DirectoryInv, OnePrimary, OneOwner, PayeesKeepTheirAddress
  <1>5. DirectoryTypeOK'
    BY <1>1 DEF DirectoryInv, DirectoryTypeOK
  <1> QED BY <1>3, <1>4, <1>5 DEF DirectoryInv

LEMMA ResolveRecipientInductive ==
  ASSUME DirectoryInv, NEW q \in Payers, ResolveRecipient(q)
  PROVE  DirectoryInv'
  <1> USE DEF DirectoryInv
  <1>1. UNCHANGED <<profile, destination, promotion>>
    BY DEF ResolveRecipient, FindProfile, FindAccount, FindDestination
  <1>2. PromotionsOwn' /\ OnePrimary' /\ OneOwner'
    BY <1>1 DEF PromotionsOwn, OnePrimary, OneOwner
  <1>3. resolution[q] = NoResolution \/ resolution[q].account \in Accounts
    BY DEF DirectoryTypeOK, Resolutions
  <1>4. /\ resolution' \in [Payers -> Resolutions \cup {NoResolution}]
        /\ payees' \subseteq Accounts \X Addresses
        /\ PayeesKeepTheirAddress'
    <2>1. CASE \E a \in Accounts : FindProfile(q, a)
      BY <2>1, <1>1 DEF FindProfile, Resolutions, DirectoryTypeOK, PayeesKeepTheirAddress
    <2>2. CASE FindAccount(q)
      <3>1. resolution[q].account \in Accounts
        BY <1>3, <2>2 DEF FindAccount, At
      <3>2. [step |-> "account", account |-> resolution[q].account] \in Resolutions
        BY <3>1 DEF Resolutions
      <3>3. /\ resolution' \in [Payers -> Resolutions \cup {NoResolution}]
            /\ payees' = payees
        BY <2>2, <3>2 DEF FindAccount, DirectoryTypeOK
      <3> QED BY <1>1, <3>3 DEF DirectoryTypeOK, PayeesKeepTheirAddress
    <2>3. CASE FindDestination(q)
      <3> DEFINE a == resolution[q].account
      <3>1. a \in Accounts
        BY <1>3, <2>3 DEF FindDestination, At
      <3>2. /\ resolution' = [resolution EXCEPT ![q] = NoResolution]
            /\ \A p \in payees' :
                 \/ p \in payees
                 \/ \E d \in Destinations :
                      destination[d].account = a /\ p = <<a, destination[d].address>>
        BY <2>3 DEF FindDestination
      <3>3. \A d \in Destinations :
              destination[d].account = a => destination[d].address \in Addresses
        BY <3>1, DestinationRow, RecordAssumption DEF DestinationRows
      <3> HIDE DEF a
      <3>4. payees' \subseteq Accounts \X Addresses
        BY <3>1, <3>2, <3>3 DEF DirectoryTypeOK
      <3>5. ASSUME NEW p \in payees'
            PROVE  \E d \in Destinations :
                     destination[d].account = p[1] /\ destination[d].address = p[2]
        <4>1. CASE p \in payees
          BY <4>1 DEF PayeesKeepTheirAddress
        <4>2. CASE p \notin payees
          <5>1. PICK d \in Destinations :
                  destination[d].account = a /\ p = <<a, destination[d].address>>
            BY <3>2, <4>2
          <5> QED BY <5>1
        <4> QED BY <4>1, <4>2
      <3>6. PayeesKeepTheirAddress'
        BY <1>1, <3>5 DEF PayeesKeepTheirAddress
      <3> QED BY <3>2, <3>4, <3>6 DEF DirectoryTypeOK
    <2> QED BY <2>1, <2>2, <2>3 DEF ResolveRecipient
  <1>5. DirectoryTypeOK'
    BY <1>1, <1>4 DEF DirectoryTypeOK
  <1> QED BY <1>2, <1>4, <1>5

LEMMA DirectoryInit1 == Init => DirectoryInv
  <1> SUFFICES ASSUME Init PROVE DirectoryInv
    OBVIOUS
  <1>1. DirectoryTypeOK
    BY DEF Init, DirectoryInit, DirectoryTypeOK
  <1>2. PromotionsOwn /\ OnePrimary /\ OneOwner /\ PayeesKeepTheirAddress
    BY DEF Init, DirectoryInit, PromotionsOwn, OnePrimary, OneOwner,
           PayeesKeepTheirAddress, NoDestination
  <1> QED BY <1>1, <1>2 DEF DirectoryInv

LEMMA DirectoryStays ==
  ASSUME DirectoryInv, UNCHANGED directoryVars
  PROVE  DirectoryInv'
  BY DEF directoryVars, DirectoryInv, DirectoryTypeOK, PromotionsOwn, OnePrimary,
         OneOwner, PayeesKeepTheirAddress

LEMMA DirectoryInductive == DirectoryInv /\ [Next]_allVars => DirectoryInv'
  <1> SUFFICES ASSUME DirectoryInv, [Next]_allVars PROVE DirectoryInv'
    OBVIOUS
  <1>1. CASE UNCHANGED allVars
    BY <1>1, DirectoryStays DEF allVars
  <1>2. CASE IdentityNext /\ UNCHANGED directoryVars
    BY <1>2, DirectoryStays
  <1>3. CASE DirectoryNext
    <2>1. CASE \E a \in Accounts, username \in Usernames, listed \in BOOLEAN :
                 UpsertEconomicIdentity(a, username, listed)
      BY <2>1, UpsertEconomicIdentityInductive
    <2>2. CASE \E a \in Accounts, payable \in BOOLEAN :
                 UpdateEconomicIdentityState(a, payable)
      BY <2>2, UpdateEconomicIdentityStateInductive
    <2>3. CASE \E a \in Accounts, d \in Destinations, x \in Addresses :
                 UpsertSolanaDestination(a, d, x)
      BY <2>3, UpsertSolanaDestinationInductive
    <2>4. CASE \E d \in Destinations, usable \in BOOLEAN :
                 UpdatePaymentDestinationState(d, usable)
      BY <2>4, UpdatePaymentDestinationStateInductive
    <2>5. CASE \E w \in Writers : Write(w)
      BY <2>5, BeginPromotionInductive, CommitPromotionInductive, RollBackInductive
         DEF Write
    <2>6. CASE \E q \in Payers : ResolveRecipient(q)
      BY <2>6, ResolveRecipientInductive
    <2> QED BY <1>3, <2>1, <2>2, <2>3, <2>4, <2>5, <2>6 DEF DirectoryNext
  <1> QED BY <1>1, <1>2, <1>3 DEF Next

(* Whatever writers' statements interleave, the directory's invariant      *)
(* holds: an open promotion demotes only its own account's destinations.   *)
THEOREM DirectorySafety == Spec => []DirectoryInv
  BY DirectoryInit1, DirectoryInductive, PTL DEF Spec

(* Profiles, destinations and open promotions are always of their types.   *)
THEOREM DirectoryTypes == Spec => []DirectoryTypeOK
  <1>1. DirectoryInv => DirectoryTypeOK
    BY DEF DirectoryInv
  <1> QED BY <1>1, DirectorySafety, PTL

(* Logins and the audit keep their promises with the directory beside them: *)
(* no edit of it touches an account (EconomicIdentityService).              *)
THEOREM AccountsBesideDirectory == Spec => [](LoginsFindTheirAccount /\ AuditTellsState)
  BY AccountsKept, LoginIsStable, AuditTells, PTL

(* A username, a primary destination and an address a payer was told to    *)
(* pay each mean one account for good, though two writers may each miss    *)
(* the other's promotion (upsertSolanaDestination's unique indexes).       *)
THEOREM DirectoryUnambiguous == Spec => []DirectoryIsUnambiguous
  <1>1. DirectoryInv => DirectoryIsUnambiguous
    BY DEF DirectoryInv, DirectoryIsUnambiguous
  <1> QED BY <1>1, DirectorySafety, PTL

(* Whoever has a primary destination has one when a promotion ends: its    *)
(* two statements commit together or are rolled back (upsertSolana-        *)
(* Destination in one transaction).                                        *)
THEOREM PromotionKeeps == Spec => PromotionKeepsAPrimary
  <1> DEFINE Keeps ==
        \A w \in Writers, d \in Destinations :
          /\ promotion[w] /= NoPromotion /\ promotion'[w] = NoPromotion
          /\ destination[d].primary
          => \E e \in Destinations :
               /\ destination'[e].primary
               /\ destination'[e].account = destination[d].account
  <1>1. DirectoryInv /\ [Next]_allVars => [Keeps]_allVars
    <2> SUFFICES ASSUME DirectoryInv, Next,
                        NEW w \in Writers, NEW d \in Destinations,
                        promotion[w] /= NoPromotion, promotion'[w] = NoPromotion,
                        destination[d].primary
                 PROVE  \E e \in Destinations :
                          /\ destination'[e].primary
                          /\ destination'[e].account = destination[d].account
      OBVIOUS
    <2>1. \/ UNCHANGED promotion
          \/ UNCHANGED destination
          \/ \E v \in Writers : CommitPromotion(v)
      BY DEF Next, directoryVars, DirectoryNext, UpsertEconomicIdentity,
             UpdateEconomicIdentityState, UpsertSolanaDestination,
             UpdatePaymentDestinationState, Write, BeginPromotion, RollBack,
             ResolveRecipient, FindProfile, FindAccount, FindDestination
    <2>2. CASE UNCHANGED destination
      BY <2>2
    <2>3. CASE \E v \in Writers : CommitPromotion(v)
      <3>1. PICK v \in Writers : CommitPromotion(v)
        BY <2>3
      <3> DEFINE t == promotion[v]
      <3>2. /\ t.destination \in Destinations
            /\ destination'[t.destination].account = t.account
            /\ destination'[t.destination].primary
            /\ destination[t.destination] /= NoDestination =>
                 destination'[t.destination].account = destination[t.destination].account
            /\ \A e \in Destinations \ {t.destination} :
                 destination[e].account /= t.account => destination'[e] = destination[e]
        BY <3>1, CommitMoves DEF Promotions, KeepsPlace
      <3>3. destination[d] /= NoDestination
        BY DestinationRow DEF DirectoryInv
      <3> HIDE DEF t
      <3>4. CASE destination[d].account = t.account
        BY <3>2, <3>4
      <3>5. CASE destination[d].account /= t.account
        BY <3>2, <3>3, <3>5
      <3> QED BY <3>4, <3>5
    <2> QED BY <2>1, <2>2, <2>3
  <1> QED BY <1>1, DirectorySafety, PTL DEF Spec, PromotionKeepsAPrimary

-----------------------------------------------------------------------------
(***************************************************************************)
(* The in-memory adapters.  The accounts first: a mutation of the detailed *)
(* store is one of the adapter, a login that provisions an account is its  *)
(* provisionExternalIdentity, and the other steps of a login are none.     *)
(***************************************************************************)
LEMMA SameAccountRecords ==
  /\ Memory!NoAccount = NoAccount /\ Memory!NoSession = NoSession
  /\ Memory!Created = Created /\ Memory!Statuses = Statuses
  /\ \A row : Memory!Incremented(row) = Incremented(row)
  /\ \A type, row, subject :
       Memory!SecurityEvent(type, row, subject) = SecurityEvent(type, row, subject)
  BY DEF NoAccount, Memory!NoAccount, NoSession, Memory!NoSession, Created, Memory!Created,
         Statuses, Memory!Statuses, Incremented, Memory!Incremented, SecurityEvent,
         Memory!SecurityEvent

LEMMA MemoryChanges ==
  ASSUME NEW a \in Accounts, NEW row, NEW type, NEW subject, Change(a, row, type, subject)
  PROVE  Memory!Change(a, row, type, subject)
  BY SameAccountRecords DEF Change, Memory!Change

LEMMA MemoryMutates ==
  ASSUME IInv, NEW a \in Accounts, NEW read \in ReadVersions(a), Mutate(a, read)
  PROVE  Memory!Next
  <1>1. account[a] /= NoAccount
    BY DEF ReadVersions
  <1>2. ASSUME NEW status \in Statuses, UpdateAccountStatus(a, read, status)
        PROVE  Memory!UpdateAccountStatus(a, status)
    BY <1>1, <1>2, MemoryChanges, SameAccountRecords
       DEF UpdateAccountStatus, Memory!UpdateAccountStatus
  <1>3. ASSUME NEW x \in Principals, LinkExternalIdentity(a, read, x)
        PROVE  Memory!LinkExternalIdentity(a, x)
    BY <1>1, <1>3, MemoryChanges, SameAccountRecords
       DEF LinkExternalIdentity, Memory!LinkExternalIdentity
  <1>4. ASSUME NEW s \in Sessions, CreateAccountSession(a, read, s)
        PROVE  Memory!CreateAccountSession(a, s)
    BY <1>1, <1>4, MemoryChanges, SameAccountRecords
       DEF CreateAccountSession, Memory!CreateAccountSession
  <1>5. ASSUME NEW s \in Sessions, RevokeAccountSession(a, read, s)
        PROVE  Memory!RevokeAccountSession(a, s)
    BY <1>1, <1>5, MemoryChanges, SameAccountRecords
       DEF RevokeAccountSession, Memory!RevokeAccountSession
  <1> QED BY <1>2, <1>3, <1>4, <1>5, SameAccountRecords DEF Mutate, Memory!Next

(* Two events appended to an empty stream are the stream of the two.       *)
LEMMA TwoEvents ==
  ASSUME NEW S, NEW first \in S, NEW second \in S
  PROVE  Append(Append(<<>>, first), second) = <<first, second>>
  <1> DEFINE s == Append(Append(<<>>, first), second)
             t == <<first, second>>
  <1>1. s \in Seq(S) /\ Len(s) = 2 /\ s[1] = first /\ s[2] = second
    OBVIOUS
  <1>2. t \in Seq(S) /\ Len(t) = 2 /\ t[1] = first /\ t[2] = second
    OBVIOUS
  <1> HIDE DEF s, t
  <1>3. \A u \in Seq(S) : u = [n \in 1 .. Len(u) |-> u[n]]
    OBVIOUS
  <1>4. \A n \in 1 .. 2 : n = 1 \/ n = 2
    OBVIOUS
  <1>5. \A n \in 1 .. 2 : s[n] = t[n]
    BY <1>1, <1>2, <1>4
  <1>6. s = [n \in 1 .. 2 |-> s[n]] /\ t = [n \in 1 .. 2 |-> t[n]]
    BY <1>1, <1>2, <1>3
  <1>7. [n \in 1 .. 2 |-> s[n]] = [n \in 1 .. 2 |-> t[n]]
    BY <1>5
  <1>8. s = t
    BY <1>6, <1>7, Zenon
  <1> QED BY <1>8 DEF s, t

LEMMA MemoryProvisions ==
  ASSUME IInv, NEW l \in Logins, Provision(l)
  PROVE  Memory!Next
  <1> DEFINE a == FreshOf[l]
             x == login[l].principal
             first == SecurityEvent("ACCOUNT_CREATED", Created, None)
             second == SecurityEvent("EXTERNAL_IDENTITY_LINKED", Incremented(Created), x)
  <1>1. a \in Accounts /\ x \in Principals
    BY LoginsAsk, IdentityAssumption DEF Provision
  <1>2. /\ account[a] = NoAccount /\ owner[x] = None
        /\ account' = [account EXCEPT ![a] = Incremented(Created)]
        /\ owner' = [owner EXCEPT ![x] = a]
        /\ security' = [security EXCEPT ![a] = <<first, second>>]
        /\ UNCHANGED session
    BY DEF Provision
  <1>0. first \in SecurityEvents /\ second \in SecurityEvents
    BY <1>1 DEF SecurityEvent, SecurityEvents, EventTypes, Incremented, Created, Statuses
  <1> HIDE DEF a, x, first, second
  <1>3. security[a] = <<>>
    BY <1>1, <1>2 DEF IInv, StreamTellsRow
  <1>4. Append(Append(<<>>, first), second) = <<first, second>>
    BY <1>0, TwoEvents
  <1>5. security' = [security EXCEPT ![a] = Append(Append(security[a], first), second)]
    BY <1>2, <1>3, <1>4
  <1>6. Memory!ProvisionExternalIdentity(a, x)
    BY <1>2, <1>5, SameAccountRecords DEF Memory!ProvisionExternalIdentity, first, second
  <1> QED BY <1>1, <1>6 DEF Memory!Next

LEMMA MemoryAccountsInit == Init => Memory!Init
  BY SameAccountRecords DEF Init, IdentityInit, Memory!Init

LEMMA MemoryAccountsNext ==
  IInv /\ [IdentityNext]_identityVars => [Memory!Next]_(Memory!memoryVars)
  <1> SUFFICES ASSUME IInv, [IdentityNext]_identityVars
               PROVE  [Memory!Next]_(Memory!memoryVars)
    OBVIOUS
  <1>1. CASE UNCHANGED identityVars
    BY <1>1 DEF identityVars, Memory!memoryVars
  <1>2. ASSUME NEW a \in Accounts, CreateAccount(a) PROVE Memory!Next
    <2>1. Memory!CreateAccount(a)
      BY <1>2, MemoryChanges, SameAccountRecords DEF CreateAccount, Memory!CreateAccount
    <2> QED BY <2>1 DEF Memory!Next
  <1>3. ASSUME NEW l \in Logins, Resolve(l) PROVE [Memory!Next]_(Memory!memoryVars)
    BY <1>3, MemoryProvisions
       DEF Resolve, Find, Look, AnswerOwner, ProvisionFails, Memory!memoryVars
  <1> QED BY <1>1, <1>2, <1>3, MemoryMutates DEF IdentityNext

(* The directory.  A promotion commits in one step what the adapter does   *)
(* in one call: the rows its first statement saw are, when it commits, all *)
(* the primary ones of the account.                                        *)
LEMMA SameDirectoryRecords ==
  /\ Directory!NoProfile = NoProfile /\ Directory!NoDestination = NoDestination
  /\ \A username, listed :
       Directory!NewProfile(username, listed) = NewProfile(username, listed)
  /\ \A row, username, listed :
       Directory!Upserted(row, username, listed) = Upserted(row, username, listed)
  /\ \A a, x, primary :
       Directory!NewDestination(a, x, primary) = NewDestination(a, x, primary)
  /\ \A row, primary : Directory!Repointed(row, primary) = Repointed(row, primary)
  BY DEF NoProfile, Directory!NoProfile, NoDestination, Directory!NoDestination,
         NewProfile, Directory!NewProfile, Upserted, Directory!Upserted, NewDestination,
         Directory!NewDestination, Repointed, Directory!Repointed

LEMMA SameDemote ==
  ASSUME NEW rows, NEW demoted
  PROVE  Directory!Demote(rows, demoted) = Demote(rows, demoted)
  BY SameDirectoryRecords DEF Demote, Directory!Demote

(* Among the rows of an account, only the primary ones are demoted.        *)
LEMMA DemotesThePrimary ==
  ASSUME NEW rows, NEW few, NEW many, few \subseteq many,
         \A e \in many \ few : ~Demote(rows, few)[e].primary \/ e \notin DOMAIN rows
  PROVE  Demote(rows, many) = Demote(rows, few)
  <1>1. \A e \in (DOMAIN rows) \ few : Demote(rows, few)[e] = rows[e]
    BY DEF Demote
  <1>2. \A e \in DOMAIN rows :
          (e \in many /\ rows[e].primary) <=> (e \in few /\ rows[e].primary)
    BY <1>1
  <1> QED BY <1>2 DEF Demote

(* A destination put in is the adapter's, for whoever may put it in.       *)
LEMMA DirectoryPuts ==
  ASSUME DirectoryInv, NEW a \in Accounts, NEW d \in Destinations, NEW x \in Addresses,
         AddressFree(destination, a, d, x)
  PROVE  /\ \A e \in Destinations \ {d} : destination[e].address /= x
         /\ destination[d] /= NoDestination =>
              destination[d].account = a /\ destination[d].address = x
  BY DEF AddressFree, DirectoryInv, OneOwner

LEMMA DirectoryPromotes ==
  ASSUME DirectoryInv, NEW w \in Writers, CommitPromotion(w)
  PROVE  Directory!Next
  <1> DEFINE t == promotion[w]
             a == t.account
             d == t.destination
             x == t.address
             rows == Demote(destination, t.demoted)
             others == {e \in Destinations \ {d} : destination[e].account = a}
  <1>1. /\ a \in Accounts /\ d \in Destinations /\ x \in Addresses
        /\ t.demoted \in SUBSET Destinations
    BY DEF CommitPromotion, DirectoryInv, DirectoryTypeOK, Promotions
  <1>2. /\ AddressFree(rows, a, d, x) /\ OnlyPrimary(rows, a, d)
        /\ destination' = Put(rows, a, d, x, TRUE) /\ UNCHANGED profile
    BY DEF CommitPromotion
  <1>3. d \notin t.demoted /\ \A e \in t.demoted : destination[e].account = a
    BY DEF CommitPromotion, DirectoryInv, PromotionsOwn
  <1>4. /\ destination \in [Destinations -> DestinationRows \cup {NoDestination}]
        /\ DOMAIN destination = Destinations
    BY DEF DirectoryInv, DirectoryTypeOK
  <1> HIDE DEF t, a, d, x
  <1>5. \A e \in Destinations :
          /\ rows[e].account = destination[e].account
          /\ rows[e].address = destination[e].address
          /\ rows[e] = NoDestination <=> destination[e] = NoDestination
    BY <1>1, <1>4, DemoteMoves
  <1>6. AddressFree(destination, a, d, x)
    <2> HIDE DEF rows
    <2> QED BY <1>1, <1>2, <1>5 DEF AddressFree
  <1>7. Demote(destination, others) = rows
    <2>1. t.demoted \subseteq others
      BY <1>1, <1>3
    <2>2. \A e \in others : ~rows[e].primary
      <3> HIDE DEF rows
      <3> QED BY <1>2, <1>5 DEF OnlyPrimary
    <2> HIDE DEF others
    <2> QED BY <2>1, <2>2, DemotesThePrimary
  <1>8. /\ \A e \in Destinations \ {d} : destination[e].address /= x
        /\ destination[d] /= NoDestination =>
             destination[d].account = a /\ destination[d].address = x
    BY <1>1, <1>6, DirectoryPuts
  <1>9. Directory!Demote(destination, others) = rows
    BY <1>7, SameDemote
  <1> HIDE DEF rows
  <1>10. destination' = [rows EXCEPT ![d] =
           IF @ = NoDestination THEN NewDestination(a, x, TRUE) ELSE Repointed(@, TRUE)]
    BY <1>2 DEF Put
  <1>11. Directory!UpsertSolanaDestination(a, d, x, TRUE)
    BY <1>2, <1>8, <1>9, <1>10, SameDirectoryRecords
       DEF Directory!UpsertSolanaDestination
  <1> QED BY <1>1, <1>11 DEF Directory!Next

LEMMA DirectoryInitImplements == Init => Directory!Init
  BY SameDirectoryRecords DEF Init, DirectoryInit, Directory!Init

LEMMA DirectoryNextImplements ==
  DirectoryInv /\ [Next]_allVars => [Directory!Next]_(Directory!memoryVars)
  <1> SUFFICES ASSUME DirectoryInv, [Next]_allVars
               PROVE  [Directory!Next]_(Directory!memoryVars)
    OBVIOUS
  <1>1. CASE UNCHANGED allVars \/ UNCHANGED directoryVars
    BY <1>1 DEF allVars, directoryVars, Directory!memoryVars
  <1>2. ASSUME NEW a \in Accounts, NEW username \in Usernames, NEW listed \in BOOLEAN,
               UpsertEconomicIdentity(a, username, listed)
        PROVE  Directory!Next
    <2>1. Directory!UpsertEconomicIdentity(a, username, listed)
      BY <1>2, SameDirectoryRecords
         DEF UpsertEconomicIdentity, UsernameFree, Directory!UpsertEconomicIdentity
    <2> QED BY <2>1 DEF Directory!Next
  <1>3. ASSUME NEW a \in Accounts, NEW payable \in BOOLEAN,
               UpdateEconomicIdentityState(a, payable)
        PROVE  Directory!Next
    <2>1. Directory!UpdateEconomicIdentityState(a, payable)
      BY <1>3, SameDirectoryRecords
         DEF UpdateEconomicIdentityState, Directory!UpdateEconomicIdentityState
    <2> QED BY <2>1 DEF Directory!Next
  <1>4. ASSUME NEW a \in Accounts, NEW d \in Destinations, NEW x \in Addresses,
               UpsertSolanaDestination(a, d, x)
        PROVE  Directory!Next
    <2>1. /\ \A e \in Destinations \ {d} : destination[e].address /= x
          /\ destination[d] /= NoDestination =>
               destination[d].account = a /\ destination[d].address = x
      BY <1>4, DirectoryPuts DEF UpsertSolanaDestination
    <2>2. /\ UNCHANGED profile
          /\ destination' = [destination EXCEPT ![d] =
               IF @ = NoDestination THEN NewDestination(a, x, FALSE)
                                    ELSE Repointed(@, FALSE)]
      BY <1>4 DEF UpsertSolanaDestination, Put
    <2>3. Directory!UpsertSolanaDestination(a, d, x, FALSE)
      BY <2>1, <2>2, SameDirectoryRecords DEF Directory!UpsertSolanaDestination
    <2> QED BY <2>3 DEF Directory!Next
  <1>5. ASSUME NEW d \in Destinations, NEW usable \in BOOLEAN,
               UpdatePaymentDestinationState(d, usable)
        PROVE  Directory!Next
    <2>1. Directory!UpdatePaymentDestinationState(d, usable)
      BY <1>5, SameDirectoryRecords
         DEF UpdatePaymentDestinationState, Directory!UpdatePaymentDestinationState
    <2> QED BY <2>1 DEF Directory!Next
  <1>6. ASSUME NEW w \in Writers, Write(w) PROVE [Directory!Next]_(Directory!memoryVars)
    BY <1>6, DirectoryPromotes DEF Write, BeginPromotion, RollBack, Directory!memoryVars
  <1>7. ASSUME NEW q \in Payers, ResolveRecipient(q)
        PROVE  [Directory!Next]_(Directory!memoryVars)
    BY <1>7 DEF ResolveRecipient, FindProfile, FindAccount, FindDestination,
                Directory!memoryVars
  <1> QED BY <1>1, <1>2, <1>3, <1>4, <1>5, <1>6, <1>7 DEF Next, DirectoryNext

(* PostgreSQL's accounts and directory take only the in-memory adapters'   *)
(* steps: what the tests run against allows all the deployment does, a     *)
(* provisioning and a promotion each in one step.                          *)
THEOREM MemoryAllows == Spec => ImplementsMemory
  <1>1. Spec => Memory!Spec
    BY AccountsKept, IdentitySafety, MemoryAccountsInit, MemoryAccountsNext, PTL
       DEF Spec, IdentitySpec, Memory!Spec
  <1>2. Spec => Directory!Spec
    BY DirectorySafety, DirectoryInitImplements, DirectoryNextImplements, PTL
       DEF Spec, Directory!Spec
  <1> QED BY <1>1, <1>2
     DEF ImplementsMemory, ImplementsMemoryAccounts, ImplementsMemoryDirectory
=============================================================================
