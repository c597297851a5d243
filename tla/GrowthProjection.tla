-------------------------- MODULE GrowthProjection --------------------------
(***************************************************************************)
(* Growth events and ZP state.  Every backend process runs one loop whose  *)
(* iteration projects the pending receipts, oldest first, into append-only *)
(* growth events (one for the sender and one for the recipient, each an    *)
(* INSERT of its own), and then adds every account's events beyond its     *)
(* cursor to its ZP state.                                                 *)
(*                                                                         *)
(* An INSERT draws its event_id before it commits, so it is two actions:   *)
(* between them other processes insert, commit and read.                   *)
(***************************************************************************)
EXTENDS Naturals, FiniteSets, FiniteSetsExt

CONSTANTS
  Receipts,      \* numbered in the order of settled_at and receipt_id
  Accounts,
  SenderOf,      \* account of a receipt's actor_subject
  RecipientOf,   \* payments.recipient_account_id, or NoAccount
  ToSynthetic,   \* receipts of payments with a recipient_synthetic_id
  Workers,       \* backend processes
  GrowthLimit,   \* GROWTH_PROJECTION_BATCH_LIMIT
  AccountLimit,  \* ZP_ACCOUNT_BATCH_LIMIT
  EventLimit,    \* ZP_EVENT_BATCH_LIMIT
  MaxFaults      \* bound on failed calls and crashes

NoAccount == "nobody"

ASSUME ReceiptAssumption ==
  /\ Receipts \subseteq Nat
  /\ NoAccount \notin Accounts
  /\ SenderOf \in [Receipts -> Accounts]
  /\ RecipientOf \in [Receipts -> Accounts \cup {NoAccount}]
ASSUME LimitAssumption ==
  {GrowthLimit, AccountLimit, EventLimit} \subseteq Nat \ {0} /\ MaxFaults \in Nat

VARIABLES
  settled,   \* receipts inserted so far, their executions SETTLED
  actors,    \* accounts in synthetic_test_actors
  event,     \* growth_events by receipt and side
  cursor,    \* account_zp_state.last_growth_event_id, 0 without a row
  counted,   \* how often an event was added to its account's totals
  worker,    \* what each process's iteration is doing
  faults

vars == <<settled, actors, event, cursor, counted, worker, faults>>

\* PAYMENT_SETTLED_SENT and PAYMENT_SETTLED_RECEIVED.
Sides == {"SENT", "RECEIVED"}
Facts == Receipts \X Sides
AccountOf(f) == IF f[2] = "SENT" THEN SenderOf[f[1]] ELSE RecipientOf[f[1]]

NoEvent == [id |-> 0, synthetic |-> FALSE]
Events == [id : Nat, synthetic : BOOLEAN]
Committed(f) == event[f].id > 0

Workings ==
  [at : {"growth", "append", "inserting", "zp", "project"},
   batch : SUBSET Receipts,      \* receipts still to be projected
   synthetic : SUBSET Receipts,  \* those of them found synthetic
   side : Sides,
   id : Nat,                     \* event_id drawn by the INSERT under way
   accounts : SUBSET Accounts]
Growing(place, batch, synthetic, side, id) ==
  [at |-> place, batch |-> batch, synthetic |-> synthetic, side |-> side,
   id |-> id, accounts |-> {}]
At(place) == Growing(place, {}, {}, "SENT", 0)
Projecting(accounts) ==
  [at |-> "project", batch |-> {}, synthetic |-> {}, side |-> "SENT", id |-> 0,
   accounts |-> accounts]

\* Every row and every process's memory has the shape the code gives it.
TypeOK ==
  /\ settled \subseteq Receipts
  /\ actors \subseteq Accounts
  /\ event \in [Facts -> Events]
  /\ cursor \in [Accounts -> Nat]
  /\ counted \in [Facts -> Nat]
  /\ worker \in [Workers -> Workings]
  /\ faults \in 0..MaxFaults

Init ==
  /\ settled = {}
  /\ actors = {}
  /\ event = [f \in Facts |-> NoEvent]
  /\ cursor = [a \in Accounts |-> 0]
  /\ counted = [f \in Facts |-> 0]
  /\ worker = [w \in Workers |-> At("growth")]
  /\ faults = 0

-----------------------------------------------------------------------------
\* Around the projection.

Settle(r) ==
  /\ r \notin settled
  /\ settled' = settled \cup {r}
  /\ UNCHANGED <<actors, event, cursor, counted, worker, faults>>

\* createActor: classifies an account for ever.
Classify(a) ==
  /\ a \notin actors
  /\ actors' = actors \cup {a}
  /\ UNCHANGED <<settled, event, cursor, counted, worker, faults>>

-----------------------------------------------------------------------------
\* projectPending and append.

SyntheticNow(r) ==
  SenderOf[r] \in actors \/ r \in ToSynthetic \/ RecipientOf[r] \in actors

PendingSender(r) == ~Committed(<<r, "SENT">>)  \* mutant: the recipient's event is not looked for
Pending(r) ==
  \/ ~Committed(<<r, "SENT">>)
  \/ RecipientOf[r] /= NoAccount /\ ~Committed(<<r, "RECEIVED">>)

Batch ==
  LET open == {r \in settled : Pending(r)}
  IN  {r \in open : Cardinality({q \in open : q < r}) < GrowthLimit}

SelectPending(w) ==
  /\ worker[w].at = "growth"
  /\ LET batch == Batch
     IN  worker' = [worker EXCEPT ![w] =
           IF batch = {} THEN At("zp")
           ELSE Growing("append", batch, {r \in batch : SyntheticNow(r)}, "SENT", 0)]
  /\ UNCHANGED <<settled, actors, event, cursor, counted, faults>>

\* The receipt projectRow is at: the oldest left in the batch.
Row(w, r) == r \in worker[w].batch /\ \A q \in worker[w].batch : r <= q
Fact(w, r) == <<r, worker[w].side>>
Flag(w, r) == r \in worker[w].synthetic

\* The identity column counts up from every id drawn before.  Ids are only
\* compared, so those nothing refers to any more may be used again.
UsedIds ==
  {0} \cup {event[f].id : f \in Facts} \cup {worker[w].id : w \in Workers}

\* After a fact, projectRow's other one; after a receipt, the next.
Advanced(w, r) ==
  LET m == worker[w] IN
  IF m.side = "SENT" /\ RecipientOf[r] /= NoAccount
  THEN Growing("append", m.batch, m.synthetic, "RECEIVED", 0)
  ELSE IF m.batch = {r} THEN At("zp")
  ELSE Growing("append", m.batch \ {r}, m.synthetic, "SENT", 0)

SameImmutableFactAlways(w, r) == TRUE  \* mutant: any earlier row will do
SameImmutableFact(w, r) == event[Fact(w, r)].synthetic = Flag(w, r)

\* ON CONFLICT DO NOTHING, and the row there is compared: one that says
\* something else throws, and ends the batch.
FindsExisting(w, r) ==
  /\ Committed(Fact(w, r))
  /\ worker' = [worker EXCEPT ![w] =
                  IF SameImmutableFact(w, r) THEN Advanced(w, r) ELSE At("zp")]
  /\ UNCHANGED <<settled, actors, event, cursor, counted, faults>>

DrawsId(w, r) ==
  /\ ~Committed(Fact(w, r))
  /\ \E last \in UsedIds :
       /\ \A id \in UsedIds : id <= last
       /\ worker' = [worker EXCEPT ![w] =
            Growing("inserting", @.batch, @.synthetic, @.side, last + 1)]
  /\ UNCHANGED <<settled, actors, event, cursor, counted, faults>>

Commits(w, r) ==
  /\ ~Committed(Fact(w, r))
  /\ event' = [event EXCEPT ![Fact(w, r)] =
                 [id |-> worker[w].id, synthetic |-> Flag(w, r)]]
  /\ worker' = [worker EXCEPT ![w] = Advanced(w, r)]
  /\ UNCHANGED <<settled, actors, cursor, counted, faults>>

\* The id drawn for a fact whose row exists already is never seen.
Append(w, r) ==
  /\ worker[w].at = "append" /\ Row(w, r)
  /\ FindsExisting(w, r) \/ DrawsId(w, r)

\* Of two INSERTs of one fact under way the first to end commits its row.
FinishInsert(w, r) ==
  /\ worker[w].at = "inserting" /\ Row(w, r)
  /\ FindsExisting(w, r) \/ Commits(w, r)

-----------------------------------------------------------------------------
\* listPendingAccounts and projectAccount.

BeyondInclusive(a) ==  \* mutant: the cursor's own event is read again
  {f \in Facts : Committed(f) /\ AccountOf(f) = a /\ event[f].id >= cursor[a]}
Beyond(a) == {f \in Facts : Committed(f) /\ AccountOf(f) = a /\ event[f].id > cursor[a]}

Listed ==
  LET open == {a \in Accounts : Beyond(a) /= {}}
      Oldest(a) == Min({event[f].id : f \in Beyond(a)})
  IN  {a \in open : Cardinality({b \in open : Oldest(b) < Oldest(a)}) < AccountLimit}

\* Processed in any order: the calls are independent of one another.
ListAccounts(w) ==
  /\ worker[w].at = "zp"
  /\ LET listed == Listed
     IN  worker' = [worker EXCEPT ![w] =
           IF listed = {} THEN At("growth") ELSE Projecting(listed)]
  /\ UNCHANGED <<settled, actors, event, cursor, counted, faults>>

Done(w, a) ==
  IF worker[w].accounts = {a} THEN At("growth")
  ELSE Projecting(worker[w].accounts \ {a})

\* evaluateZpEvent: synthetic events advance the cursor and award nothing.
Eligible(f) == ~event[f].synthetic

Read(a) ==
  {f \in Beyond(a) :
     Cardinality({g \in Beyond(a) : event[g].id < event[f].id}) < EventLimit}

\* One transaction under the row lock of account_zp_state.
ProjectAccount(w, a) ==
  /\ worker[w].at = "project" /\ a \in worker[w].accounts
  /\ LET read == Read(a)
     IN  \/ /\ read = {}
            /\ UNCHANGED <<cursor, counted>>
         \/ \E last \in read :
              /\ \A f \in read : event[f].id <= event[last].id
              /\ cursor' = [cursor EXCEPT ![a] = event[last].id]
              /\ counted' = [f \in Facts |->
                   IF f \in read /\ Eligible(f) THEN counted[f] + 1 ELSE counted[f]]
  /\ worker' = [worker EXCEPT ![w] = Done(w, a)]
  /\ UNCHANGED <<settled, actors, event, faults>>

-----------------------------------------------------------------------------
\* A call that throws ends its phase, or its account; a process may die and
\* start again.  A statement under way may have committed before: FinishInsert
\* or ProjectAccount, and then one of these.

Fault == faults < MaxFaults /\ faults' = faults + 1

GrowthFails(w) ==
  /\ Fault
  /\ worker[w].at \in {"growth", "append", "inserting"}
  /\ worker' = [worker EXCEPT ![w] = At("zp")]
  /\ UNCHANGED <<settled, actors, event, cursor, counted>>

AccountFails(w, a) ==
  /\ Fault
  /\ worker[w].at = "project" /\ a \in worker[w].accounts
  /\ worker' = [worker EXCEPT ![w] = Done(w, a)]
  /\ UNCHANGED <<settled, actors, event, cursor, counted>>

Crash(w) ==
  /\ Fault
  /\ worker' = [worker EXCEPT ![w] = At("growth")]
  /\ UNCHANGED <<settled, actors, event, cursor, counted>>

-----------------------------------------------------------------------------
\* runOnce, over and over.
Iteration(w) ==
  \/ SelectPending(w)
  \/ \E r \in Receipts : Append(w, r) \/ FinishInsert(w, r)
  \/ ListAccounts(w)
  \/ \E a \in Accounts : ProjectAccount(w, a)

Next ==
  \/ \E r \in Receipts : Settle(r)
  \/ \E a \in Accounts : Classify(a)
  \/ \E w \in Workers :
       \/ Iteration(w) \/ GrowthFails(w) \/ Crash(w)
       \/ \E a \in Accounts : AccountFails(w, a)

Spec == Init /\ [][Next]_vars

\* AdaptiveWorkerLoop schedules the next iteration after every outcome.
FairSpec == Spec /\ \A w \in Workers : WF_vars(Iteration(w))

-----------------------------------------------------------------------------
(* The two events of a receipt agree on whether the payment was synthetic, *)
(* although they are written one by one by processes that may have judged  *)
(* it at different times: whoever writes the recipient's event has seen    *)
(* the sender's say the same.                                              *)
EventsAgree ==
  \A r \in Receipts :
    Committed(<<r, "RECEIVED">>) =>
      /\ Committed(<<r, "SENT">>)
      /\ event[<<r, "SENT">>].synthetic = event[<<r, "RECEIVED">>].synthetic

(* No event is added to the totals twice, whoever projects the account how *)
(* often (tests/postgresZpState.integration.ts:262 "concurrent projection  *)
(* converges without double counting"), and no synthetic one at all.       *)
CountedOnce ==
  \A f \in Facts :
    /\ counted[f] <= 1
    /\ counted[f] > 0 =>
         Committed(f) /\ ~event[f].synthetic /\ event[f].id <= cursor[AccountOf(f)]

Projected(r) ==
  Committed(<<r, "SENT">>) /\ (RecipientOf[r] /= NoAccount => Committed(<<r, "RECEIVED">>))
Passed(r) ==
  /\ Projected(r)
  /\ \A f \in {r} \X Sides : Committed(f) => event[f].id <= cursor[AccountOf(f)]

\* A crash between the two events, and a new classification before the retry,
\* leave a receipt no retry can finish.
Conflicted(r) ==
  /\ ~Projected(r) /\ Committed(<<r, "SENT">>)
  /\ event[<<r, "SENT">>].synthetic /= SyntheticNow(r)

(* Every settled receipt gets both its events and their accounts' cursors  *)
(* pass them, whatever failed before, unless it or an older receipt has    *)
(* come into conflict with its own sender event: a batch is ordered and    *)
(* ends where it throws.                                                   *)
EventuallyPassed ==
  \A r \in Receipts :
    r \in settled ~> Passed(r) \/ \E q \in Receipts : q <= r /\ Conflicted(q)

(* Once every settled receipt is projected and no account is pending, the  *)
(* totals count every event that is not synthetic                          *)
(* (tests/postgresGrowthProjection.integration.ts:684-714: "bounded runs,  *)
(* restart, new activity, and synthetic backlog converge durably").        *)
DrainedMeansCounted ==
  /\ \A r \in settled : ~Pending(r)
  /\ \A a \in Accounts : Beyond(a) = {}
  => \A f \in Facts : Committed(f) /\ Eligible(f) => counted[f] = 1
=============================================================================
