-------------------------- MODULE MemoryDirectory --------------------------
(***************************************************************************)
(* InMemoryEconomicIdentityPersistence: one operation at a time on two     *)
(* maps.  An operation that throws is no step; which version its caller    *)
(* expects is the caller's affair here.                                    *)
(***************************************************************************)
EXTENDS DirectoryRecords

VARIABLES
  identities,   \* identities by account
  destinations  \* destinations by id

memoryVars == <<identities, destinations>>

Init ==
  /\ identities = [a \in Accounts |-> NoProfile]
  /\ destinations = [d \in Destinations |-> NoDestination]

UpsertEconomicIdentity(a, username, listed) ==
  /\ \A b \in Accounts \ {a} : identities[b].username /= username
  /\ identities' = [identities EXCEPT ![a] =
       IF @ = NoProfile THEN NewProfile(username, listed)
                        ELSE Upserted(@, username, listed)]
  /\ UNCHANGED destinations

UpdateEconomicIdentityState(a, payable) ==
  /\ identities[a] /= NoProfile
  /\ identities' = [identities EXCEPT ![a].payable = payable,
                                      ![a].version = @ + 1]
  /\ UNCHANGED destinations

\* demotePrimary, then the destination itself.
UpsertSolanaDestination(a, d, address, primary) ==
  LET others == {e \in Destinations \ {d} : destinations[e].account = a}
      rows == IF primary THEN Demote(destinations, others) ELSE destinations
  IN  /\ \A e \in Destinations \ {d} : destinations[e].address /= address
      /\ destinations[d] /= NoDestination =>
           destinations[d].account = a /\ destinations[d].address = address
      /\ destinations' = [rows EXCEPT ![d] =
           IF @ = NoDestination THEN NewDestination(a, address, primary)
                                ELSE Repointed(@, primary)]
      /\ UNCHANGED identities

UpdatePaymentDestinationState(d, usable) ==
  /\ destinations[d] /= NoDestination
  /\ destinations' = [destinations EXCEPT ![d].usable = usable,
                                          ![d].version = @ + 1]
  /\ UNCHANGED identities

Next ==
  \/ \E a \in Accounts, username \in Usernames, listed \in BOOLEAN :
       UpsertEconomicIdentity(a, username, listed)
  \/ \E a \in Accounts, payable \in BOOLEAN :
       UpdateEconomicIdentityState(a, payable)
  \/ \E a \in Accounts, d \in Destinations, address \in Addresses,
        primary \in BOOLEAN : UpsertSolanaDestination(a, d, address, primary)
  \/ \E d \in Destinations, usable \in BOOLEAN :
       UpdatePaymentDestinationState(d, usable)

Spec == Init /\ [][Next]_memoryVars
=============================================================================
