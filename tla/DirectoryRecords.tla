-------------------------- MODULE DirectoryRecords --------------------------
(***************************************************************************)
(* The records of economicIdentityTypes.ts that the PostgreSQL adapter and *)
(* the in-memory adapter of economic identities share.  Names that nothing *)
(* reads (display name, avatar, account type) are left out; the three      *)
(* states an operator sets and the discoverability its owner sets are kept *)
(* as far as isPubliclyResolvable tells them apart.                        *)
(***************************************************************************)
EXTENDS AccountRecords

CONSTANTS
  Destinations, \* destination ids
  Usernames,    \* normalized usernames
  Addresses     \* Solana wallet addresses

ASSUME DirectoryRecordAssumption == None \notin Usernames \cup Addresses

\* `listed`: discoverability is not PRIVATE.  `payable`: the public status is
\* ACTIVE, payability AVAILABLE and verification not RESTRICTED.
Profiles ==
  [username : Usernames, listed : BOOLEAN, payable : BOOLEAN, version : Nat]
NoProfile ==
  [username |-> None, listed |-> FALSE, payable |-> FALSE, version |-> 0]

NewProfile(username, listed) ==
  [username |-> username, listed |-> listed, payable |-> FALSE, version |-> 0]

\* `usable`: status ACTIVE and ownership not REJECTED.
DestinationRows ==
  [account : Accounts, address : Addresses, usable : BOOLEAN,
   primary : BOOLEAN, version : Nat]
NoDestination ==
  [account |-> None, address |-> None, usable |-> FALSE, primary |-> FALSE,
   version |-> 0]

NewDestination(account, address, primary) ==
  [account |-> account, address |-> address, usable |-> TRUE,
   primary |-> primary, version |-> 0]

Upserted(profile, username, listed) ==
  [profile EXCEPT !.username = username, !.listed = listed, !.version = @ + 1]

Repointed(row, primary) ==
  [row EXCEPT !.primary = primary, !.version = @ + 1]

\* The table or map with the primary rows of `demoted` no longer primary.
Demote(rows, demoted) ==
  [d \in DOMAIN rows |->
     IF d \in demoted /\ rows[d].primary
     THEN Repointed(rows[d], FALSE) ELSE rows[d]]
=============================================================================
