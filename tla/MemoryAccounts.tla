--------------------------- MODULE MemoryAccounts ---------------------------
(***************************************************************************)
(* InMemoryIdentityPersistence: one operation at a time on a few maps, the *)
(* reference the tests run against.  An operation that throws is no step,  *)
(* and so is a version conflict: which version a caller expects is its own *)
(* affair here.                                                            *)
(***************************************************************************)
EXTENDS AccountRecords

VARIABLES
  accounts,        \* accounts (and actorSubjects, derived from the id)
  identityOwners,  \* identities and identityOwners: the account of each
  sessions,        \* sessions
  events           \* events by account

memoryVars == <<accounts, identityOwners, sessions, events>>

Init ==
  /\ accounts = [a \in Accounts |-> NoAccount]
  /\ identityOwners = [x \in Principals |-> None]
  /\ sessions = [s \in Sessions |-> NoSession]
  /\ events = [a \in Accounts |-> <<>>]

\* accounts.set and appendEventUnsafe
Change(a, row, type, subject) ==
  /\ accounts' = [accounts EXCEPT ![a] = row]
  /\ events' = [events EXCEPT ![a] =
       Append(@, SecurityEvent(type, row, subject))]

CreateAccount(a) ==
  /\ accounts[a] = NoAccount
  /\ Change(a, Created, "ACCOUNT_CREATED", None)
  /\ UNCHANGED <<identityOwners, sessions>>

UpdateAccountStatus(a, status) ==
  /\ accounts[a] /= NoAccount
  /\ accounts[a].status /= status
  /\ Change(a, [status |-> status, version |-> accounts[a].version + 1],
            "ACCOUNT_STATUS_CHANGED", None)
  /\ UNCHANGED <<identityOwners, sessions>>

LinkExternalIdentity(a, x) ==
  /\ accounts[a] /= NoAccount
  /\ identityOwners[x] = None
  /\ Change(a, Incremented(accounts[a]), "EXTERNAL_IDENTITY_LINKED", x)
  /\ identityOwners' = [identityOwners EXCEPT ![x] = a]
  /\ UNCHANGED sessions

\* An identity found is answered and nothing changes.
ProvisionExternalIdentity(a, x) ==
  /\ accounts[a] = NoAccount
  /\ identityOwners[x] = None
  /\ accounts' = [accounts EXCEPT ![a] = Incremented(Created)]
  /\ events' = [events EXCEPT ![a] =
       Append(Append(@, SecurityEvent("ACCOUNT_CREATED", Created, None)),
              SecurityEvent("EXTERNAL_IDENTITY_LINKED",
                            Incremented(Created), x))]
  /\ identityOwners' = [identityOwners EXCEPT ![x] = a]
  /\ UNCHANGED sessions

CreateAccountSession(a, s) ==
  /\ accounts[a] /= NoAccount
  /\ sessions[s] = NoSession
  /\ Change(a, Incremented(accounts[a]), "SESSION_CREATED", s)
  /\ sessions' = [sessions EXCEPT ![s] = [account |-> a, revoked |-> FALSE]]
  /\ UNCHANGED identityOwners

RevokeAccountSession(a, s) ==
  /\ accounts[a] /= NoAccount
  /\ sessions[s] = [account |-> a, revoked |-> FALSE]
  /\ Change(a, Incremented(accounts[a]), "SESSION_REVOKED", s)
  /\ sessions' = [sessions EXCEPT ![s] = [account |-> a, revoked |-> TRUE]]
  /\ UNCHANGED identityOwners

Next ==
  \E a \in Accounts :
    \/ CreateAccount(a)
    \/ \E status \in Statuses : UpdateAccountStatus(a, status)
    \/ \E x \in Principals :
         LinkExternalIdentity(a, x) \/ ProvisionExternalIdentity(a, x)
    \/ \E s \in Sessions :
         CreateAccountSession(a, s) \/ RevokeAccountSession(a, s)

Spec == Init /\ [][Next]_memoryVars
=============================================================================
