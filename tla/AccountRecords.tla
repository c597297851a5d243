--------------------------- MODULE AccountRecords ---------------------------
(***************************************************************************)
(* The records of identityTypes.ts that the PostgreSQL adapter and the     *)
(* in-memory adapter of identities share.  An external identity is an      *)
(* issuer with a subject; its random identity_id says nothing more.        *)
(***************************************************************************)
EXTENDS Naturals, Sequences

CONSTANTS
  Accounts,    \* account ids
  Principals,  \* external identities: issuer and subject
  Sessions,    \* session ids
  None         \* no account, no reference

ASSUME RecordAssumption ==
  None \notin Accounts \cup Principals \cup Sessions

Statuses == {"ACTIVE", "SUSPENDED", "DELETION_PENDING", "DELETED"}

AccountRows == [status : Statuses, version : Nat]
NoAccount == [status |-> "NONE", version |-> 0]

SessionRows == [account : Accounts, revoked : BOOLEAN]
NoSession == [account |-> None, revoked |-> FALSE]

EventTypes ==
  {"ACCOUNT_CREATED", "ACCOUNT_STATUS_CHANGED", "EXTERNAL_IDENTITY_LINKED",
   "SESSION_CREATED", "SESSION_REVOKED"}

\* `subject` is the session or the identity the event is about, `status` the
\* account's when it was recorded.
SecurityEvents ==
  [type : EventTypes, version : Nat, status : Statuses,
   subject : Principals \cup Sessions \cup {None}]

SecurityEvent(type, row, subject) ==
  [type |-> type, version |-> row.version, status |-> row.status,
   subject |-> subject]

Created == [status |-> "ACTIVE", version |-> 0]
Incremented(row) == [status |-> row.status, version |-> row.version + 1]
=============================================================================
