------------------------- MODULE RecipientDirectory -------------------------
(***************************************************************************)
(* EconomicIdentityService and RecipientDirectoryService over              *)
(* PostgresEconomicIdentityPersistence, beside the accounts they belong to.*)
(* Owners of accounts a login was answered with edit their profile and     *)
(* their destinations, operators the states of both, and a payer resolves  *)
(* a recipient in three queries.  Making a destination the primary one is  *)
(* a transaction of two statements, each with a snapshot of its own; the   *)
(* second commits or everything is rolled back.                            *)
(***************************************************************************)
EXTENDS IdentityStore, DirectoryRecords, FiniteSets

CONSTANTS
  Writers,  \* transactions that make a destination primary
  Payers,   \* requests that resolve a recipient
  MaxEdits, \* bound: edits of the directory
  Bounds    \* bounds: pairs of mutations of accounts and edits of the directory

ASSUME DirectoryAssumption ==
  /\ MaxEdits \in Nat
  /\ Bounds \subseteq [mutations : Nat, edits : 0 .. MaxEdits]

VARIABLES
  profile,      \* economic_identities by account
  destination,  \* payment_destinations
  promotion,    \* the open transaction of each writer
  resolution,   \* where each payer's resolution is
  payees        \* history: <<account, address>> a payer was answered with

directoryVars == <<profile, destination, promotion, resolution, payees>>
allVars == <<identityVars, directoryVars>>

Promotions ==
  [account : Accounts, destination : Destinations, address : Addresses,
   new : BOOLEAN, version : Nat, demoted : SUBSET Destinations]
NoPromotion == [account |-> None]

Resolutions == [step : {"profile", "account"}, account : Accounts]
NoResolution == [step |-> "none"]

DirectoryTypeOK ==
  /\ profile \in [Accounts -> Profiles \cup {NoProfile}]
  /\ destination \in [Destinations -> DestinationRows \cup {NoDestination}]
  /\ promotion \in [Writers -> Promotions \cup {NoPromotion}]
  /\ resolution \in [Payers -> Resolutions \cup {NoResolution}]
  /\ payees \subseteq Accounts \X Addresses

DirectoryInit ==
  /\ profile = [a \in Accounts |-> NoProfile]
  /\ destination = [d \in Destinations |-> NoDestination]
  /\ promotion = [w \in Writers |-> NoPromotion]
  /\ resolution = [q \in Payers |-> NoResolution]
  /\ payees = {}

-----------------------------------------------------------------------------
\* resolveAccountId: the account was ACTIVE when its owner logged in.
Owned == {p[2] : p \in resolved}

\* economic_identities_normalized_username_unique
UsernameFree(a, username) ==
  \A b \in Accounts \ {a} : profile[b].username /= username

\* upsertCurrent: an insert without a version, an update with the one read.
\* A stale one changes nothing.
UpsertEconomicIdentity(a, username, listed) ==
  /\ a \in Owned
  /\ UsernameFree(a, username)
  /\ profile' = [profile EXCEPT ![a] =
       IF @ = NoProfile THEN NewProfile(username, listed)
                        ELSE Upserted(@, username, listed)]
  /\ UNCHANGED <<destination, promotion, resolution, payees>>

UpdateEconomicIdentityState(a, payable) ==
  /\ profile[a] /= NoProfile
  /\ profile' = [profile EXCEPT ![a].payable = payable, ![a].version = @ + 1]
  /\ UNCHANGED <<destination, promotion, resolution, payees>>

-----------------------------------------------------------------------------
\* payment_destinations_type_address_unique for a new row; an update finds the
\* row only under its own account and address.
AddressFree(rows, a, d, address) ==
  IF rows[d] = NoDestination
  THEN \A e \in Destinations : rows[e].address /= address
  ELSE rows[d].account = a /\ rows[d].address = address

Put(rows, a, d, address, primary) ==
  [rows EXCEPT ![d] =
     IF @ = NoDestination THEN NewDestination(a, address, primary)
                          ELSE Repointed(@, primary)]

\* upsertSolanaDestination, not primary: one statement.
UpsertSolanaDestination(a, d, address) ==
  /\ a \in Owned
  /\ AddressFree(destination, a, d, address)
  /\ destination' = Put(destination, a, d, address, FALSE)
  /\ UNCHANGED <<profile, promotion, resolution, payees>>

BeginForAnyone(w, a, d, address) ==  \* mutant
  /\ a \in Owned
  /\ promotion[w] = NoPromotion
  /\ promotion' = [promotion EXCEPT ![w] =
       [account |-> a, destination |-> d, address |-> address,
        new |-> destination[d] = NoDestination,
        version |-> destination[d].version,
        demoted |-> {e \in Destinations \ {d} : destination[e].primary}]]
  /\ UNCHANGED <<profile, destination, resolution, payees>>

\* upsertSolanaDestination, primary, first statement: the other primary rows
\* its snapshot shows.  The caller's version is the row it read by now.
BeginPromotion(w, a, d, address) ==
  /\ a \in Owned
  /\ promotion[w] = NoPromotion
  /\ promotion' = [promotion EXCEPT ![w] =
       [account |-> a, destination |-> d, address |-> address,
        new |-> destination[d] = NoDestination,
        version |-> destination[d].version,
        demoted |-> {e \in Destinations \ {d} :
                       destination[e].account = a /\ destination[e].primary}]]
  /\ UNCHANGED <<profile, destination, resolution, payees>>

SecondPrimary(rows, a, d) == TRUE  \* mutant

\* payment_destinations_primary_per_type_unique
OnlyPrimary(rows, a, d) ==
  \A e \in Destinations \ {d} : rows[e].account = a => ~rows[e].primary

\* ON CONFLICT DO NOTHING, or WHERE version = expectedVersion
ReadHolds(w) ==
  LET row == destination[promotion[w].destination]
  IN  /\ (row = NoDestination) <=> promotion[w].new
      /\ row.version = promotion[w].version

\* Second statement and COMMIT.  The rows of the first that are still primary
\* are demoted with it.
CommitPromotion(w) ==
  LET t == promotion[w]
      rows == Demote(destination, t.demoted)
  IN  /\ t /= NoPromotion
      /\ ReadHolds(w)
      /\ AddressFree(rows, t.account, t.destination, t.address)
      /\ OnlyPrimary(rows, t.account, t.destination)
      /\ destination' = Put(rows, t.account, t.destination, t.address, TRUE)
      /\ promotion' = [promotion EXCEPT ![w] = NoPromotion]
      /\ UNCHANGED <<profile, resolution, payees>>

RollBackSecond(w) ==  \* mutant
  /\ promotion[w] /= NoPromotion
  /\ destination' = Demote(destination, promotion[w].demoted)
  /\ promotion' = [promotion EXCEPT ![w] = NoPromotion]
  /\ UNCHANGED <<profile, resolution, payees>>

\* A conflict or a lost connection rolls both statements back.
RollBack(w) ==
  /\ promotion[w] /= NoPromotion
  /\ promotion' = [promotion EXCEPT ![w] = NoPromotion]
  /\ UNCHANGED <<profile, destination, resolution, payees>>

UpdatePaymentDestinationState(d, usable) ==
  /\ destination[d] /= NoDestination
  /\ destination' = [destination EXCEPT ![d].usable = usable,
                                        ![d].version = @ + 1]
  /\ UNCHANGED <<profile, promotion, resolution, payees>>

-----------------------------------------------------------------------------
\* resolvePaymentDestination

At(q, step) == resolution[q] /= NoResolution /\ resolution[q].step = step

\* isPubliclyResolvable, the identity
FindProfile(q, a) ==
  /\ resolution[q] = NoResolution
  /\ profile[a].listed /\ profile[a].payable
  /\ resolution' = [resolution EXCEPT ![q] =
                      [step |-> "profile", account |-> a]]
  /\ UNCHANGED <<profile, destination, promotion, payees>>

\* isPubliclyResolvable, the account
FindAccount(q) ==
  /\ At(q, "profile")
  /\ resolution' = [resolution EXCEPT ![q] =
       IF account[@.account].status = "ACTIVE"
       THEN [step |-> "account", account |-> @.account] ELSE NoResolution]
  /\ UNCHANGED <<profile, destination, promotion, payees>>

\* listPaymentDestinations, of which the primary usable one is the answer
FindDestination(q) ==
  LET a == resolution[q].account
      found == {d \in Destinations : /\ destination[d].account = a
                                     /\ destination[d].primary
                                     /\ destination[d].usable}
  IN  /\ At(q, "account")
      /\ payees' = payees \cup {<<a, destination[d].address>> : d \in found}
      /\ resolution' = [resolution EXCEPT ![q] = NoResolution]
      /\ UNCHANGED <<profile, destination, promotion>>

-----------------------------------------------------------------------------
Write(w) ==
  \/ \E a \in Accounts, d \in Destinations, x \in Addresses :
       BeginPromotion(w, a, d, x)
  \/ CommitPromotion(w) \/ RollBack(w)

ResolveRecipient(q) ==
  \/ \E a \in Accounts : FindProfile(q, a)
  \/ FindAccount(q) \/ FindDestination(q)

DirectoryNext ==
  \/ \E a \in Accounts, username \in Usernames, listed \in BOOLEAN :
       UpsertEconomicIdentity(a, username, listed)
  \/ \E a \in Accounts, payable \in BOOLEAN :
       UpdateEconomicIdentityState(a, payable)
  \/ \E a \in Accounts, d \in Destinations, x \in Addresses :
       UpsertSolanaDestination(a, d, x)
  \/ \E d \in Destinations, usable \in BOOLEAN :
       UpdatePaymentDestinationState(d, usable)
  \/ \E w \in Writers : Write(w)
  \/ \E q \in Payers : ResolveRecipient(q)

Init == IdentityInit /\ DirectoryInit

\* An open promotion counts as the edit it may become.
Mutations ==
  Cardinality({r \in Accounts \X (1 .. MaxVersion) :
                 r[2] <= account[r[1]].version})
Edits ==
  Cardinality({r \in Accounts \X (0 .. MaxEdits) :
                 profile[r[1]] /= NoProfile /\ r[2] <= profile[r[1]].version})
    + Cardinality({r \in Destinations \X (0 .. MaxEdits) :
                     destination[r[1]] /= NoDestination
                       /\ r[2] <= destination[r[1]].version})
    + Cardinality({w \in Writers : promotion[w] /= NoPromotion})

Next ==
  /\ \/ IdentityNext /\ UNCHANGED directoryVars
     \/ DirectoryNext /\ UNCHANGED identityVars
  /\ \E b \in Bounds : Mutations' <= b.mutations /\ Edits' <= b.edits

Spec == Init /\ [][Next]_allVars

-----------------------------------------------------------------------------
\* Properties.

OnePrimary ==
  \A d, e \in Destinations :
    /\ destination[d].primary
    /\ destination[e].primary
    /\ destination[d].account = destination[e].account
    => d = e

OneOwner ==
  /\ \A a, b \in Accounts :
       profile[a] /= NoProfile /\ profile[a].username = profile[b].username
         => a = b
  /\ \A d, e \in Destinations :
       destination[d] /= NoDestination
         /\ destination[d].address = destination[e].address => d = e

PayeesKeepTheirAddress ==
  \A p \in payees :
    \E d \in Destinations :
      destination[d].account = p[1] /\ destination[d].address = p[2]

\* A name means one payee: a username finds one account, an account has one
\* primary destination, though two writers may each not see the other's, and
\* an address a payer was told to pay stays the recipient's whatever is changed
\* afterwards.
DirectoryIsUnambiguous == OnePrimary /\ OneOwner /\ PayeesKeepTheirAddress

\* A promotion that conflicts leaves the primary destination in place: whoever
\* has one still has one when the transaction ends.
PromotionKeepsAPrimary ==
  [][\A w \in Writers, d \in Destinations :
       /\ promotion[w] /= NoPromotion /\ promotion'[w] = NoPromotion
       /\ destination[d].primary
       => \E e \in Destinations :
            /\ destination'[e].primary
            /\ destination'[e].account = destination[d].account]_allVars

Directory == INSTANCE MemoryDirectory WITH
  identities <- profile,
  destinations <- destination

ImplementsMemoryDirectory == Directory!Spec

\* PostgreSQL lets through only what the in-memory adapters of the tests do: a
\* whole provisioning, a whole promotion, in one step.
ImplementsMemory == ImplementsMemoryAccounts /\ ImplementsMemoryDirectory
=============================================================================
