---------------------------- MODULE IdentityStore ----------------------------
(***************************************************************************)
(* PostgresIdentityPersistence and AccountProvisioningService: accounts,   *)
(* the external identities that log into them, their sessions and their    *)
(* security events.  Every mutation of an account is one transaction that  *)
(* locks its row, requires the version its caller read, increments it and  *)
(* appends one event.  A first login is longer: it looks for the identity, *)
(* then provisions it in a transaction whose advisory lock serialises the  *)
(* logins of one identity but not the links to it.                         *)
(***************************************************************************)
EXTENDS AccountRecords

CONSTANTS
  Logins,      \* requests that resolve their principal
  FreshOf,     \* the random account id each would provision
  MaxVersion   \* bound: mutations of an account

ASSUME IdentityAssumption ==
  /\ FreshOf \in [Logins -> Accounts]
  /\ \A k, l \in Logins : FreshOf[k] = FreshOf[l] => k = l
  /\ MaxVersion \in Nat

VARIABLES
  account,   \* accounts
  owner,     \* external_identities: the account of each
  session,   \* account_sessions
  security,  \* account_security_events by account, by sequence number
  login,     \* where each login is
  resolved   \* history: <<principal, account>> a login was answered with

identityVars == <<account, owner, session, security, login, resolved>>

LoginSteps == [step : {"unknown", "locked"}, principal : Principals]
NoLogin == [step |-> "idle", principal |-> None]

IdentityTypeOK ==
  /\ account \in [Accounts -> AccountRows \cup {NoAccount}]
  /\ owner \in [Principals -> Accounts \cup {None}]
  /\ session \in [Sessions -> SessionRows \cup {NoSession}]
  /\ security \in [Accounts -> Seq(SecurityEvents)]
  /\ login \in [Logins -> LoginSteps \cup {NoLogin}]
  /\ resolved \subseteq Principals \X Accounts

IdentityInit ==
  /\ account = [a \in Accounts |-> NoAccount]
  /\ owner = [x \in Principals |-> None]
  /\ session = [s \in Sessions |-> NoSession]
  /\ security = [a \in Accounts |-> <<>>]
  /\ login = [l \in Logins |-> NoLogin]
  /\ resolved = {}

-----------------------------------------------------------------------------
\* Versions of the account a caller may have read.
ReadVersions(a) == {v \in 0 .. account[a].version : account[a] /= NoAccount}

\* lockAccount and requireVersion
VersionHolds(a, read) == read = account[a].version

\* The account is inserted or updated with the event of its new version.
Change(a, row, type, subject) ==
  /\ row.version <= MaxVersion
  /\ account' = [account EXCEPT ![a] = row]
  /\ security' = [security EXCEPT ![a] =
       Append(@, SecurityEvent(type, row, subject))]

CreateAccount(a) ==
  /\ account[a] = NoAccount
  /\ \A l \in Logins : a /= FreshOf[l]
  /\ Change(a, Created, "ACCOUNT_CREATED", None)
  /\ UNCHANGED <<owner, session, login, resolved>>

UpdateAccountStatus(a, read, status) ==
  /\ VersionHolds(a, read)
  /\ account[a].status /= status
  /\ Change(a, [status |-> status, version |-> account[a].version + 1],
            "ACCOUNT_STATUS_CHANGED", None)
  /\ UNCHANGED <<owner, session, login, resolved>>

\* external_identities_issuer_subject_unique refuses an identity that is linked.
LinkExternalIdentity(a, read, x) ==
  /\ VersionHolds(a, read)
  /\ owner[x] = None
  /\ Change(a, Incremented(account[a]), "EXTERNAL_IDENTITY_LINKED", x)
  /\ owner' = [owner EXCEPT ![x] = a]
  /\ UNCHANGED <<session, login, resolved>>

\* The callers ask for a session of an account they read as ACTIVE.
CreateAccountSession(a, read, s) ==
  /\ security[a][read + 1].status = "ACTIVE"
  /\ VersionHolds(a, read)
  /\ session[s] = NoSession
  /\ Change(a, Incremented(account[a]), "SESSION_CREATED", s)
  /\ session' = [session EXCEPT ![s] = [account |-> a, revoked |-> FALSE]]
  /\ UNCHANGED <<owner, login, resolved>>

RevokeUnnoticed(a, read, s) ==  \* mutant
  /\ VersionHolds(a, read)
  /\ session[s].account = a
  /\ Change(a, Incremented(account[a]), "SESSION_REVOKED", s)
  /\ session' = [session EXCEPT ![s] = [account |-> a, revoked |-> TRUE]]
  /\ UNCHANGED <<owner, login, resolved>>

RevokeAccountSession(a, read, s) ==
  /\ VersionHolds(a, read)
  /\ session[s] = [account |-> a, revoked |-> FALSE]
  /\ Change(a, Incremented(account[a]), "SESSION_REVOKED", s)
  /\ session' = [session EXCEPT ![s] = [account |-> a, revoked |-> TRUE]]
  /\ UNCHANGED <<owner, login, resolved>>

-----------------------------------------------------------------------------
\* AccountProvisioningService.resolve

\* requireActive: a login is answered with an ACTIVE account or denied.
Answered(l, x, a) ==
  /\ login' = [login EXCEPT ![l] = NoLogin]
  /\ resolved' = IF account'[a].status = "ACTIVE"
                 THEN resolved \cup {<<x, a>>} ELSE resolved

\* The owner of the principal is answered; without one the login goes on.
AnswerOwner(l, x, step) ==
  /\ UNCHANGED <<account, owner, session, security>>
  /\ IF owner[x] /= None
     THEN Answered(l, x, owner[x])
     ELSE /\ login' = [login EXCEPT ![l] = [step |-> step, principal |-> x]]
          /\ UNCHANGED resolved

\* findAccountByExternalIdentity reads identity and account in one query.
Find(l, x) ==
  /\ login[l] = NoLogin
  /\ AnswerOwner(l, x, "unknown")

\* provisionExternalIdentity under its advisory lock: the identity may be there
\* by now.
Look(l) ==
  /\ login[l].step = "unknown"
  /\ [step |-> "locked", principal |-> login[l].principal] \notin
       {login[k] : k \in Logins}
  /\ AnswerOwner(l, login[l].principal, "locked")

ProvisionLinked(l) ==  \* mutant
  LET a == FreshOf[l]
  IN  /\ login[l].step = "locked"
      /\ account[a] = NoAccount
      /\ owner[login[l].principal] /= None
      /\ Change(a, Created, "ACCOUNT_CREATED", None)
      /\ login' = [login EXCEPT ![l] = NoLogin]
      /\ UNCHANGED <<owner, session, resolved>>

\* The account, its identity and both events are inserted at once.
Provision(l) ==
  LET a == FreshOf[l]
      x == login[l].principal
      linked == Incremented(Created)
  IN  /\ login[l].step = "locked"
      /\ account[a] = NoAccount
      /\ owner[x] = None
      /\ account' = [account EXCEPT ![a] = linked]
      /\ owner' = [owner EXCEPT ![x] = a]
      /\ security' = [security EXCEPT ![a] =
           <<SecurityEvent("ACCOUNT_CREATED", Created, None),
             SecurityEvent("EXTERNAL_IDENTITY_LINKED", linked, x)>>]
      /\ Answered(l, x, a)
      /\ UNCHANGED session

\* A link won since, or the connection is lost: the transaction rolls back.
ProvisionFails(l) ==
  /\ login[l].step = "locked"
  /\ login' = [login EXCEPT ![l] = NoLogin]
  /\ UNCHANGED <<account, owner, session, security, resolved>>

-----------------------------------------------------------------------------
Mutate(a, read) ==
  \/ \E status \in Statuses : UpdateAccountStatus(a, read, status)
  \/ \E x \in Principals : LinkExternalIdentity(a, read, x)
  \/ \E s \in Sessions :
       CreateAccountSession(a, read, s) \/ RevokeAccountSession(a, read, s)

Resolve(l) ==
  \/ \E x \in Principals : Find(l, x)
  \/ Look(l) \/ Provision(l) \/ ProvisionFails(l)

IdentityNext ==
  \/ \E a \in Accounts :
       CreateAccount(a) \/ \E read \in ReadVersions(a) : Mutate(a, read)
  \/ \E l \in Logins : Resolve(l)

IdentitySpec == IdentityInit /\ [][IdentityNext]_identityVars

-----------------------------------------------------------------------------
\* Properties.

OneAccountPerPrincipal ==
  \A p, q \in resolved : p[1] = q[1] => p[2] = q[2]

ProvisionedIsLinked ==
  \A l \in Logins :
    account[FreshOf[l]] /= NoAccount =>
      \E x \in Principals : owner[x] = FreshOf[l]

\* Whoever logs in, first or again, alone or beside another login or a link of
\* the same identity, is always answered with the same account; and a
\* provisioning that loses to a link leaves no account nobody can log into.
LoginsFindTheirAccount == OneAccountPerPrincipal /\ ProvisionedIsLinked

Events(a, type, subject) ==
  {n \in DOMAIN security[a] :
     security[a][n].type = type /\ security[a][n].subject = subject}

\* The append-only stream tells the state: one event per version, in order, the
\* last with the account's status, and a link, a session or a revocation is
\* there exactly when its event is, once.
AuditTellsState ==
  \A a \in Accounts :
    /\ account[a] /= NoAccount =>
         /\ Len(security[a]) = account[a].version + 1
         /\ security[a][Len(security[a])].status = account[a].status
    /\ \A n \in DOMAIN security[a] : security[a][n].version = n - 1
    /\ \A x \in Principals :
         owner[x] = a <=>
           \E n \in DOMAIN security[a] :
             Events(a, "EXTERNAL_IDENTITY_LINKED", x) = {n}
    /\ \A s \in Sessions :
         /\ session[s].account = a <=>
              \E n \in DOMAIN security[a] : Events(a, "SESSION_CREATED", s) = {n}
         /\ session[s] = [account |-> a, revoked |-> TRUE] <=>
              \E n \in DOMAIN security[a] : Events(a, "SESSION_REVOKED", s) = {n}

\* No session begins in an account that has been suspended or deleted since its
\* caller saw it ACTIVE.
SessionsBeginActive ==
  [][\A s \in Sessions :
       session[s] = NoSession /\ session'[s] /= NoSession =>
         account[session'[s].account].status = "ACTIVE"]_identityVars

Memory == INSTANCE MemoryAccounts WITH
  accounts <- account,
  identityOwners <- owner,
  sessions <- session,
  events <- security

\* RecipientDirectory checks it together with the directory's.
ImplementsMemoryAccounts == Memory!Spec
=============================================================================
