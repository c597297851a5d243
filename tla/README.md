# Zephipay backend: TLA+ models, checks and proofs

Zephipay is an Express and PostgreSQL backend for payments in USDC on Solana
Devnet. A payer creates a *payment intent*, confirms it, and the backend signs
and hands over one transaction, follows it on chain and records a receipt.
Handlers of several processes, two recovery workers and a polling loop work on
the same rows; nothing but PostgreSQL transactions, unique keys, row locks,
leases, version columns and triggers keeps them apart. Beside the payment
itself stand the accounts and the directory that say who is paid, and the economic
path on which a customer consents in a web ceremony and a sponsor signs for the fee. This directory models that
coordination, checks it with TLC on small instances and proves the central
facts with TLAPS for every instance.

Contents

1. [The system](#1-the-system): the inventory of components
2. [Modules](#2-modules): how state and actions correspond to the code
3. [Runs](#3-runs): what each check asks, its bounds and its result
4. [Fairness](#4-fairness)
5. [Proofs](#5-proofs): what is proved and along which argument
6. [Where the code and its documents disagree](#6-where-the-code-and-its-documents-disagree)
7. [What is not modelled](#7-what-is-not-modelled)
8. [Plan](#8-plan)

Paths below are relative to the repository root.

## 1. The system

### 1.1 Devnet execution

`src/devnet/`, `src/storage/postgres/postgres{BrowserDevnetExecutionStore,DevnetExecutionStateRepository,DevnetRecoveryRepository}.ts`,
`migrations/012`–`018`, `022`.

*State.* The payment row; one `payment_executions` row per payment; the
preparations of that execution, one per *generation*, each holding signed bytes
bound to a blockhash; at most one submission commitment; append-only submission
and reconciliation observations; a receipt; one recovery lease per execution and
task kind. Outside the database: the provider, the bytes on the wire, the chain.

*Operations.* `POST execute` (create or get the execution, prepare, refresh an
expired blockhash into the next generation, commit, contact the provider, record
what it said, project); the recovery worker's `PREPARATION` and `RECONCILIATION`
phases (claim a lease, work, renew, release); the manual reconcile path, with and
without a lease.

*Interaction.* Every handler reads rows in one transaction and acts on them in a
later one, with RPC calls in between. Unique keys decide who inserts, the
lifecycle column who commits, the lease's `claimed_at` whose RPC answer may be
recorded, and `applyLifecycle` projects a preparation's state onto execution,
payment and receipt together.

*What makes it correct.* The provider is handed bytes at most once over all
generations, only after a durable commitment to them; recorded truth is the
chain's and never changes; a stale answer or a stale snapshot moves nothing
backwards; a payment completes exactly with its receipt and its settlement; a
finalized transfer is eventually projected.

### 1.2 Mock rail execution and the worker loop

`src/executions/`, `src/storage/postgres/postgresExecutionRepository.ts`,
`migrations/005`, `006`.

*State.* `payment_executions` with status, version, lease owner and expiry and
the number of rail observations; the receipt; the worker's memory.
*Operations.* `createOrGet`, `claim` (of `READY` rows, or of open ones),
`submit`, `reconcile`, `complete`, `completeSettlement`. Every process runs
`AdaptiveWorkerLoop`, whose tick is `processNext` and then `reconcileNext`.
*Hard.* A lease is not renewed, so a slow worker completes after another took the
row over; a process may die between claim, rail call and record.
*Correct* when the rail is called at most once, after `SUBMITTING` is durable; a
receipt exists exactly for settled executions; observations advance one at a
time; a terminal row never changes; what the rail decides is recorded in the end.

### 1.3 Payment intents

`src/services/paymentIntentService.ts`, `src/payments/`,
`src/storage/postgres/postgresPaymentPersistence.ts`, `migrations/001`–`003`,
`006`, `007`, `009`, `011`.

*State.* `payments` (key, canonical meaning and its hash, recipient snapshot,
trust outcome, status, version), payment events, the recipient directory.
*Operations.* `create` to a wallet, a payment identity (a replay check, then a
claim, in two transactions) or a synthetic identity; `confirm` (read, judge,
transition under the version read, read again after losing).
*Correct* when a key names one payment whose terms never change, success answers
what was asked, a replay answers the same payment after the directory changed,
an unverified recipient was acknowledged by the creating call, and a payment is
confirmed once, with exactly the meaning the payer saw.

### 1.4 Payment requests

`src/paymentRequests/`, `src/storage/postgres/postgresPaymentRequestRepository.ts`,
`migrations/008`.

*State.* `payment_requests` (key, requester, amount, status, version, linked
intent). *Operations.* `create`, `accept` (create the intent under
`payment-request:<id>`, then link it, in two transactions), `decline`, `cancel`,
and a trigger on receipts that marks the linked request paid.
*Correct* when one decision applies, the link is the payment made for the
request, and a request is paid exactly when its payment is received.

### 1.5 Growth events and ZP state

`src/growth/`, `src/storage/postgres/postgres{GrowthEvent,ZpState}Repository.ts`,
`migrations/019`–`021`.

*State.* Append-only `growth_events` with an identity column; per account a cursor
over event ids and totals (`account_zp_state`); accounts classified as synthetic
test actors; a process's batch in memory. *Operations.* Every process loops over
`runOnce`: `projectPending` reads the unprojected receipts, oldest first, and
appends a sender's and a recipient's event for each; then, for the accounts with
events beyond their cursor, `projectAccount` adds those to the totals.
*Hard.* The two events of a receipt are two statements; a batch ends at the first
error; an id is drawn before its row commits; the classification that goes into an
event is re-evaluated by whoever retries.
*Correct* when the two events of a receipt agree, no event is counted twice, every
receipt gets through, and a drained backlog has counted everything.

### 1.6 Payment persistence

`src/payments/paymentLifecycle.ts`, `src/storage/postgres/postgresPaymentPersistence.ts`,
`src/storage/memory/inMemoryPaymentPersistence.ts`, `migrations/001`.

*State.* The payment row with its evidence (signature, blockhash, confirmed slot,
receipt account, proof of failure), its receipt, its append-only events.
*Operations.* Creation, transitions, signature observations, settlement checks and
confirmations, failure with a terminal proof, verified receipts, informational
events. Beyond creation and confirmation none has a caller in the server yet:
`docs/payment-persistence.md` describes them as the foundation that execution is to
use, and both adapters and their tests exist.
*Hard.* A caller judges a row it read earlier; the adapter's checks and the
triggers overlap without being equal; the tests run on the in-memory adapter.
*Correct* when evidence is owned by one payment and never replaced, nobody fails a
payment behind whose back its transaction was recorded, the events tell the status,
and PostgreSQL does nothing that the in-memory adapter would not.

### 1.7 Accounts, external identities and the recipient directory

`src/identity/`, `src/economicIdentity/`, `src/recipients/`,
`src/storage/postgres/postgres{,Economic}IdentityPersistence.ts`, `migrations/002`, `003`, `010`.

*State.* Accounts with status and version, external identities, sessions, security
events; profiles (username, listed, payable) and payment destinations, one primary
per account. *Operations.* First login (look up, then provision under an advisory
lock), links, status changes, sessions; edits of profiles and destinations,
promotion of a destination (two statements), resolution (three queries).
*Hard.* The advisory lock serialises logins of an identity but not a link to it; a
promotion's statements have snapshots of their own; a resolution is no snapshot.
*Correct* when an identity logs into one account for ever, the events tell the
account's state, a name means one payee, and a promotion that fails loses nothing.

### 1.8 Trusted economic finalization

`src/economic/foundation/postgresFinalizationRepository.ts`,
`src/economic/composition/expiryWorker.ts`, `migrations/023`-`025`.

*State.* The head of each intent, attempts by generation, consents and runtime
decisions, finalizations with signer state and exposure, the sponsor's budget and
its versions, callback evidence, observer reports, effects, incidents.
*Operations.* Register, cancel, claim (and the evidence that a failed claim
leaves), recover (commit the one contact, ask the signer, accept its answer, or
query), expire, ingest an observation, settle exposure, apply accounting, change
the budget. *Hard.* Cancellation, the next generation and the claim race; the
contact is granted and then the process dies; answers are lost, late or bound to
something else; reports contradict each other.
*Correct* when one signature at most exists for an intent, exposure is released
only when none exists or can come, exposure grows only within the budget, accounting rests on
evidence, and the expiry worker selects what it can expire.

### 1.9 Confirmation bridge and web ceremony

`src/economic/confirmation/confirmationBridge.ts`,
`src/economic/web/controlledWebConfirmation.ts`, `migrations/028`-`032`.

*State.* Web sessions and their tombstones, preparations, challenges, ceremonies,
token bindings, SDK transactions and callbacks, proofs, admissions.
*Operations.* `handle` with its actions prepare, recover, start, callback, confirm
and revoke, each a sequence of transactions in three services.
*Hard.* Between two of those anything else may happen: a second session, another
token, a double confirm, a logout, a suspension, a change of policy.
*Correct* when a consent rests on one unbroken chain of evidence of one session,
an answered confirm has its consent, a logged out session stays out, and what a
customer saw of a challenge that is over stays true.

### 1.10 The rest

| Component | State and operations | Hard part |
|---|---|---|
| Graceful shutdown (`src/lifecycle/`) | stop of loops and server against a deadline | drain races the deadline |
| Runtime policy, provider readiness, receipts and activity views, allowlist, rate limits, telemetry, x402 demo, scripts, routes | one-call checks and reads | few interleavings, see section 7 |

`PROJECT.json` lists them with their files and, under `hazards`, each place where
something hard to test can go wrong.

## 2. Modules

| Module | Models |
|---|---|
| `DevnetExecution` | 1.1, one execution |
| `SingleSettlement` | what 1.1 promises, refined by `DevnetExecution` |
| `MockExecution` | 1.2, several executions |
| `PaymentIntents` | 1.3, one account |
| `PaymentLedger` | what 1.3 promises, refined by `PaymentIntents` |
| `PaymentRequests` | 1.4 composed with `PaymentIntents`, which it extends |
| `GrowthProjection` | 1.5, several processes |
| `PaymentLifecycle` | 1.6, what both stores share: records, transitions, proofs of failure |
| `PaymentStore` | 1.6 under PostgreSQL, with constraints and triggers |
| `MemoryPaymentStore` | 1.6 in memory, refined by `PaymentStore` |
| `AccountRecords`, `DirectoryRecords` | 1.7, the records that the adapters share |
| `IdentityStore` | 1.7, accounts, under PostgreSQL |
| `RecipientDirectory` | 1.7, the directory composed with `IdentityStore`, which it extends |
| `MemoryAccounts`, `MemoryDirectory` | 1.7 in memory, refined by the two |
| `Finalization` | 1.8 |
| `Confirmation` | 1.9 |
| `MC*` | model values, symmetry and small definitions for TLC |
| `*_proofs` of `DevnetExecution`, `MockExecution`, `PaymentRequests` (with `PaymentIntents`), `GrowthProjection`, `PaymentStore`, `RecipientDirectory` (with `IdentityStore`), `Finalization`, `Confirmation` | theorems and proofs |

In all of them a database transaction is one action, since row locks and unique
keys serialise it, and a remote call or the gap between two transactions of one
handler is a control point at which everybody else may move, the call may throw
and the process may die. Operators marked `\* mutant` are deliberately broken
variants of the operator that follows them; no specification uses them. They
show that the properties notice such a fault.

### 2.1 DevnetExecution

| State | Rows |
|---|---|
| `payment`, `exec`, `review`, `receipt` | `payments.status`, `payment_executions.status` and `review_reason`, the receipt |
| `prep`, `commitment` | `devnet_execution_preparations.lifecycle_state` by generation, `devnet_submission_commitments` |
| `submitted`; `finality`, `latest` | submission observations, as a set of outcomes; reconciliation observations, as the set of terminal outcomes and the last outcome |
| `lease` | `devnet_recovery_leases` by task kind: owner, `claimed_at`, whether the database's clock has passed its expiry |
| `expired`, `contacts`, `inflight`, `chain` | the network: block heights, calls to the provider, bytes on the wire, each signature's status |
| `pc`, `snap`, `claimedAt`, `reading` | a handler's place and what it remembers |
| `mismatch` | whether the durable rows disagree with the settlement's economics |

`overtaken` and `contacts` are history only.

Unique keys make generation, preparation id, signature and digest
interchangeable, so a row is named by its generation. The order of a request is
`ValidateRequest`, `CreateOrGet`, `FindPreparation`, `PrepareFirst`,
`RefreshCheck`, `ReplaceExpired`, `ApplyPrepared`, `SubmitFind`,
`CommitSubmission`, `ContactProvider` and the provider's answer,
`RecordSubmission`, `ApplySubmitted`; a failure's way out is
`FindAfterFailure`, `ReconstructFails`, `ContactRefused`, `AnswerUnavailable`,
`AcceptedRecordThrows`, `HandlerFails`. The worker's preparation phase shares the
middle part. A reconciler goes `ClaimReconciliation`, `ReadCommitted`,
`RenewBeforeRpc`, `ObserveSignature`, `RenewBeforePersist`, `Deduplicate`,
`PersistObservation`, `Project`, `Release`; the manual path adds `ReadUnleased`,
`ProjectUnleased`. `Crash` loses a handler's memory and leaves its lease.

Points where the model follows the code and might surprise:

- *Clocks.* `claim` compares `lease_expires_at` with the worker's clock, renew and
  fence with the database's. A worker in `AheadWorkers` may therefore take a
  lease the database still calls active. A claim carries a `claimed_at` no live
  handler of its worker id remembers: successive claims under one id lie a lease
  apart in time.
- `VALIDATION_FAILED` moves a preparation to `UNKNOWN`, as the code does.
- The shipped transport never answers `settled` or `rejected`, and no code path
  fails a payment; these outcomes are not offered.
- The refresh that meets an already replaced preparation throws out of `execute`,
  which the model keeps (`RefreshCheck`).
- Terminal truth already recorded stays: a later, different answer is discarded
  and the recorded state is projected.

Enable flags are taken as set. `next_attempt_at` and the choice among several
executions are left out.

### 2.2 MockExecution

`row[e]` is the execution's row with its lease, `mem[w]` the worker's place in its
tick and the row it read. `version` is compared for equality only, so values are
tokens: a write takes the least value nobody remembers (`NewVersion`), which keeps
the state space finite and never identifies two values somebody could compare.
The observation number is cut at 2, from which on the rail's answers are alike.
`claim` takes any claimable row, since `SKIP LOCKED` and the order of creation
allow every one in some schedule; `next_attempt_at` is always due. Worker ids are
not reused, so a lease of a dead process belongs to `Departed`. `CANCELLED` is
never written by the code. A settled Mock execution does not complete the
payment, so the payment row does not occur.

### 2.3 PaymentIntents

A create call also names the payment id it generates. `Replay` and `Claim` are
the two transactions, `Edit` changes the directory at any time; `ReadForConfirm`,
`TransitionForConfirm`, `RereadForConfirm` are the confirm request; `Receive` is
the settlement that the execution components make of a confirmed payment. The
request hash is taken to be injective in the fields it digests (`Meanings`), so a
hash is its meaning. It digests the snapshot's capture time too
(`src/payments/requestHash.ts:87`), which is left out: a row keeps the one snapshot
it was claimed with, and replays compare with that row.
Actor and allowlist are checked before the call begins. `FAILED` and `UNKNOWN`
payments do not come about in the server; the operations that make them are in
`PaymentStore`. Rows hashed before
`migrations/009` are not modelled.

### 2.4 PaymentRequests

Extends `PaymentIntents`: `AcceptBegin` starts a create call of the payer under
the request's key, which goes through the very actions of `PaymentIntents`, and
`AcceptLink` or `AcceptReread` follows once it is answered. `ReceiveAndMark` is
the settlement with the receipt trigger. `AskLookup` and `AskClaim` are the two
transactions of `create`; `CloseRead` and `CloseWrite` those of decline and
cancel. The payer is taken to be listed and payable. `refresh()` writes nothing
under PostgreSQL, so reads are left out. Clients' own keys are taken not to
collide with the `payment-request:` keys.

### 2.5 GrowthProjection

| State | Rows |
|---|---|
| `settled` | receipts whose execution is `SETTLED`, numbered in the order of `settled_at`, `receipt_id` |
| `actors` | `synthetic_test_actors.account_id` |
| `event` | `growth_events` by receipt and side: id (0 without a row) and `synthetic` |
| `cursor`, `counted` | `account_zp_state`: the last event id, and how often each event went into the totals |
| `worker` | the phase, what is left of the batch with the classification its query read, the side, the drawn id, the accounts listed |

The exception to "a transaction is one action" is the INSERT of an event: its id
is drawn when it starts (`DrawsId`, in `Append`) and others see the row when it
commits (`Commits`, in `FinishInsert`); which of the two a second INSERT of the
same fact meets decides whether it finds the row at once or after waiting.
`projectAccount` holds the row lock of its account and is one action, at its read
of the events. The identity column is strictly increasing over all time; since ids
are only compared with those still referred to (a row's, or an INSERT's under way;
a cursor is a row's id), the least greater one stands for the next. Points are a
function of the counts and left out. Listed accounts are projected in any order.
The enable flags are taken as set. `milestones` is a read.

A settled receipt stays settled and `recipient_account_id` does not change; actors
may be classified at any time, before or after their receipts.

### 2.6 PaymentStore

| State | Rows |
|---|---|
| `row`, `receipt`, `event` | `payments` with its evidence, `payment_receipts`, `payment_events` in sequence |
| `signedAt`, `failedOn` | history: the version at which a signature was first recorded, and the version read by the caller that failed the payment |

Each operation is one transaction under the row's lock, so what callers can do to
one another is in the version they expect: an action takes any version the caller
may have read (`ReadVersions`). The operations have no caller in the server beyond
creation and confirmation, so callers are any, and `transitionPayment` takes any
evidence (`Brought`) beside the new status or the proof of a failure, whose own
signature and blockhash come before it (`ProofEvidence`). `VersionHolds`, `Unique`
and `Protects` are the checks of the adapter, the unique keys and the triggers.

Nothing compares the proof `EXPIRED_UNSIGNED_TRANSACTION` with the row: a caller
that read a payment with its signature may fail it as never signed
(`src/payments/paymentLifecycle.ts:134-139`, triggers of `migrations/001`). What the
store does promise is `FailureKnowsSignature`: such a caller knew of the signature,
since one recorded after its read makes the failure lose on the version.

PostgreSQL and memory differ. The in-memory adapter lets a transition or a failure
replace an observed signature, allows a second confirmation with another slot and a
repeated observation, and enters a transition's signature into its index but not its
receipt account (`src/storage/memory/inMemoryPaymentPersistence.ts:284-299`), so two
payments may be brought one receipt account. PostgreSQL refuses all of these, by
`Protects` and `Unique`. `ImplementsMemoryStore` states the direction that holds:
whatever PostgreSQL does, memory may do, with `signatures` and `runtimeEventIds`
computed from the rows and `receiptPdas` from the receipts.

`HistoryTellsStatus` ties `COMPLETED` to a row of `payment_receipts`; this is so for
the operations of this adapter. The Devnet projection, in `DevnetExecution`,
completes a payment with an execution receipt instead (`migrations/018`).

### 2.7 IdentityStore and RecipientDirectory

A login is `Look` (the identity is unknown) and `Provision`, with the advisory lock
between (`locked`); the losing INSERT of a link race throws (`ProvisionFails`).
Mutations expect a version that was read at any time and append their event.
`BeginPromotion` and `CommitPromotion` are the two statements of
`upsertSolanaDestination`, `RollBack` the failure of the second. `FindProfile`,
`FindAccount`, `FindDestination` are the queries of `resolve`, with what was found
kept between them. History: `resolved`, the answers of logins, and `payees`, the
addresses that payers were told. `createAccount`, `linkExternalIdentity`,
`updateAccountStatus` and the two operators' state changes have no caller in the
server; they are taken as an operator's. A transaction whose `now()` is older than
the committed `updated_at` is refused by a trigger, which only removes behaviours.

### 2.8 Finalization

| State | Rows |
|---|---|
| `head`, `attempt` | `economic_attempt_heads`, `economic_attempts` by envelope |
| `consent`, `runtime`, `expired`, `active`, `qualified` | the evidence a claim loads, still valid or ended |
| `budget` | `economic_budget_heads` of the one sponsor; `Budgets` are its versions |
| `final` | `economic_finalizations`: tuple, signer state, budget version, exposure |
| `frozen`, `tainted`, `reported`, `effects` | incidents, contradicting callbacks, observer reports, effect evidence |
| `call`, `contacts`, `signer` | callers of `recover`, requests sent to the signer, and what it decided |

An envelope has one intent and one generation, its fee is one number (base,
priority and rent are bounded alike). The tuple is the envelope, its consent and
the customer's signature. `CommitContact` is `economic_commit_signer_contact`;
`ContactSigner`, `SignerDecides`, `SignerAnswers` are the call, with answers lost,
late or bound to another operation; `AcceptSignerResponse`, `RecordUnknown` and
`RecordSignerConflict` record them; `Crash` loses the caller anywhere.

By design uncertainty is kept. A failure before the artifact is verified records
`REJECTED` evidence (`RejectCallback`); a later successful claim of that envelope
can neither be contacted nor expire, and its reservation stays. So does the
exposure of a contact that was granted and lost. No property promises otherwise.

### 2.9 Confirmation

| State | Rows |
|---|---|
| `session`, `revoked` | `economic_web_sessions` with the account's session behind each, `economic_web_revocations` |
| `prepared`, `closed` | `economic_payment_preparations`, envelopes no longer open |
| `challenge`, `expired`, `outdated` | challenges, those past their expiry, those whose account version, policy or provider key is no longer current |
| `ceremony`, `bound`, `started`, `callback`, `proof`, `admitted` | the evidence by payment, and the session of each ID token |
| `call` | a call of `handle` and the transaction it is at |

There is one customer; sessions of the account are named by the web session that
created them, and those of other devices are `CreateSession`. Each call goes
`OpenSession`, `FindCeremony`, for a prepare `Prepare`, `BindExistingSession`,
`IssueChallenge`, `RecordCeremony`, then `ReadPrior` and what it lets go on.
`Shown` is the view `economic_confirmation_summary`, which says what a customer
sees, `Issued` the guard under which the database accepts evidence: two separate
conditions in SQL. Signatures and tokens are taken as verified, a replayed handoff
packet as not sent, bridge request ids as payment ids. The check that a token is
younger than the session it is bound to is left out, which only adds behaviours.

The model contains what `docs/controlled-web-confirmation-v1.md` calls failing
closed: a session of a second device changes the account's version and with it
invalidates the challenge, and as a payment has one ceremony it can then never be
confirmed. An access token that rotates between proof and admission does the same
while the state still shows `CONFIRMABLE`.

## 3. Runs

`tlc -config X.cfg M` in this directory. A run marked *violation* demonstrates a
disagreement of section 6.

| Run | Instance | Question |
|---|---|---|
| `contact` | scope *contact*: 2 requests retried without bound, the preparation phase, 2 generations; scope *fence*: 1 request, 2 reconcilers under one worker id with a clock ahead, 2 claim instants | Is the provider handed bytes twice, or bytes not committed to? Is recorded truth the chain's, and do stale RPC answers stay out? |
| `settle` | a retried request, a manual reconciler with or without a lease, 2 generations, economics that agree or not | Do payment, execution, receipt and review follow the evidence, does a finalized transfer end in a completed payment, is the whole a `SingleSettlement`? |
| `mock` | 2 executions, 2 workers, all 8 scenarios, 2 faults | Single submission, receipts, and an end for every decided execution |
| `mock_stuck` | 1 execution, the shipped scenario, 1 fault | *violation*: recovery of `SUBMITTING` |
| `requests` | scope *paying*: 2 creates under one key, every kind of recipient whose entry changes, 2 confirms; scope *asking*: 2 requests, 2 payer calls, a closing, a confirm | One payment per key whatever the directory does, consent as seen, `PaymentLedger`; one decision, the right link, paid only if received |
| `received` | 1 request, 2 payer calls, a confirm | *violation*: received before linked |
| `growth` | 2 processes, 2 receipts, 2 accounts (one pays the other, which pays a wallet), any classification at any time, 1 fault | Do a receipt's two events agree, is none counted twice, does every receipt get through? |
| `passed_over` | the same without faults | *violation*: an event that commits late is never counted |
| `store` | 2 payments, 2 signatures, slots, blockhashes and receipt accounts, 4 and 2 mutations; scope *bringing*: transitions and failures that bring a signature, a receipt account, both or neither; scope *noting*: informational events | Is evidence owned by one payment and kept, do events tell the status, does PostgreSQL do only what memory allows? |
| `identities` | 3 accounts, 2 principals, 2 logins, 2 promotions, 1 payer, mutations and edits in four mixes | One account per identity, one payee per name, whole promotions, audit as state |
| `finalization` | four scopes: two generations of an intent with failed claims and two callers; a budget shared by two intents and changed twice; four reports that contradict each other and two settlements between them; two settlements with a second intent | One signature per intent, nothing signed released, exposure in budget, accounting on evidence |
| `confirmation` | four scopes: two sessions with logout; two payments and a foreign token; two confirms with two tokens and access tokens; one call under every change of account, policy, envelope and session | One chain of evidence, honest answers, no way back for a session that is out |

*Why these bounds are enough to see the interesting cases.* Two handlers of each
kind make every race the code guards against; a third of one kind waits on the
same rows. Two generations show a refresh, and a third would repeat it:
`MaxGeneration` bounds only how many the run may make. Two reconcilers with two
claim instants show a takeover and the takeover's answer; the instants are reused
as soon as no handler remembers them, so any number of takeovers follow one
another. In `mock`, `MaxFaults = 2` gives a crash followed by a crash of the
recovering worker, or an outlived lease and a takeover. In `growth` a receipt with
two sides gives every way two processes share it, the second receipt gives an older
one that may hold back a younger, and batch limits of one event and one account
force several rounds. In `store` four mutations take a payment from its confirmation
through an observation and a settlement confirmation to its receipt, and two let the
other be confirmed and compete for each piece of evidence. In `identities` the mixes go deep in the
accounts, deep in the directory, and into both. The proofs of section 5 do not
depend on these bounds.

*Scopes.* `MCDevnetContact`, `MCPaymentRequests`, `MCPaymentStore`,
`MCFinalization` and `MCConfirmation` choose a scope in the initial state, which
restricts who takes part in a behaviour; the union of all interleavings of all actors
would be out of reach, and each scope keeps together the actors that share rows. A
scope never separates what a property relates: in `MCFinalization`, reports and
settlements of one finalization occur together.

*Deadlock* is not checked in `contact`, `settle`, `store`, `identities`,
`finalization` and `confirmation`, where the system rests when its one-shot
requests are done, its payments complete or its bounded versions used up.
In the other runs some action (a polling tick, a directory edit) always remains
possible, so there the check says little.

*Symmetry* is used in safety runs only, for values no action tells apart; the
temporal properties of those runs are action properties and refinements of
specifications without fairness.

Only model-checked, not proved: the liveness properties
(`FinalizedEventuallyCompleted`, `EventuallyTerminal`, `EventuallyPassed`), the
violations of section 6, and `GrowsWithinBudget` as a whole: it speaks of a sum
over a set, a fold, and facts about folds need induction. Its count of
outstanding operations is proved, and of its sum all but that it grows by what
one of its terms does. Every other property of the passing runs is the
conclusion of a theorem of section 5.

## 4. Fairness

- `DevnetExecution!FairSpec`. *Weak fairness of a reconciler's next step under
  its lease, of the projection of an unleased read, and of the release:* `AdaptiveWorkerLoop` schedules a next tick after work, idleness and
  failure alike, and a handler's promise goes on. *Weak fairness of lease expiry:*
  time passes. *Strong fairness of a truthful answer* (`TellsTruth`): a provider
  asked again and again about a transaction the chain has decided says so
  eventually; this is an assumption on the environment. Requests, the network,
  finalization and the manual path's first read are not assumed to do anything. `FinalizedEventuallyCompleted` has
  the premise `FailuresStop`: from some time on reconcilers neither throw nor die
  and a live handler's lease does not run out; without it nothing can be promised,
  since a handler that always dies never finishes.
- `MockExecution!FairSpec`. Weak fairness of each worker's tick, from the same
  loop, and of the expiry of abandoned leases. Faults are bounded by `MaxFaults`,
  the counterpart of `FailuresStop`.
- `GrowthProjection!FairSpec`. Weak fairness of each process's iteration, from the
  same loop, which reschedules after failures too. Faults are bounded by
  `MaxFaults`. `EventuallyPassed` excepts receipts behind one that is in conflict
  with its own sender event (`Conflicted`): a crash between the two events and a
  classification before the retry leave a pair no retry completes, and the batch
  ends there each time. It is an exception and not a finding, since
  classification of an actor with live traffic is not described anywhere.
- The other modules promise nothing that must happen.

## 5. Proofs

`tlapm M.tla` on the eight `_proofs` modules. Constants are assumed to be only
what the named assumptions say: sets of names, disjoint where two kinds of process
share an operator, and a bound on generations or faults that is any number. `None`,
which stands for NULL, is no signature, receipt account, username or address
(`NamesAssumption`, `DirectoryRecordAssumption`): no text is NULL. No set is assumed
finite, but `Ids` where outstanding finalizations are counted.

**`DevnetExecution_proofs`.** `TypeCorrect`, `OneContact`, `ContactIsCommitted`,
`GenerationsInOrder`, `RecordsTruthful`, `DurableTruth`, `AggregateFollows`,
`NoStale`, `SettlementKept`. `AtMostOneContact` is not inductive: it
does not say who may still contact. The inductive invariant is `TypeInv` (types,
and that a handler's snapshot names a row that exists) with `ContactInv`, which
adds: a commitment exists exactly for the generation in a committed state; a
handler between commit and contact is the only one, its generation is the
committed one and was never handed over; bytes on the wire and a signature known
to the chain were handed over; rows recorded as accepted or invalid agree with the
handler about to record them. The proof goes action by action; most actions leave
these variables alone, and the work is in `CommitSubmission` (which excludes all
other handlers because `MayCommit` requires no commitment), `ReplaceExpired`
(which may abandon only what is still `PREPARED`) and the recording steps.

`TruthInv` carries the truth from the network to the payment: a transaction the
chain knows was contacted, a reconciler's answer that is final is the chain's, a
snapshot of a committed row that was terminal when read is terminal still, and
payment, receipt, execution and review agree with the committed row. A stale answer
is therefore never false, only old. That it is not appended either is `NoStale`, by
`FenceInv`: a reconciler overtaken between its read and its write no longer has the
lease its fence asks for, also where the same worker id has claimed again, since two
claims of one worker differ in when they were made. `SettlementKept` refines
`SingleSettlement`: the commitment is the transaction chosen, the contact its
handing over, the chain's decision the ledger's, and terminal truth in a
preparation row the verdict; that verdict and ledger speak of the chosen transaction
alone is `PromiseInv`.

**`MockExecution_proofs`.** `MockTypes`, `MockSubmitsOnce`, `MockClaimsFirst`,
`MockReceipts`, `MockLeases`, `MockTerminalIsFinal`. The invariant adds to the
checked properties that a worker holding a row names an execution, that at most
one worker stands before the rail call of an execution and then nobody has called
it, and that a terminal row holds no lease; `Holds` then refuses every completion
against it, which makes terminal rows final.

**`PaymentRequests_proofs`.** For the intents alone: `IntentTypes`, `KeyNamesOnePayment`, `AnswersFit`,
`ReplaysReturn`, `ConfirmsOnce`, `InformedConsent`, `MatchingConfirms`, and `LedgerIsKept`: `Spec => Ledger!Spec`, for any number of
calls, keys, identities and confirms. The invariant relates calls to rows (a row
was claimed by the call of its id and with that call's key and trust), counts
confirmations by status, says what a waiting confirm knows (the hash matched a row
whose meaning never changes), that the one applied confirm is the one counted, and
that a confirm carrying the created version and meaning loses only to a
confirmation. `LedgerIsKept` maps each action: `Claim` opens an empty key,
`TransitionForConfirm` confirms, `Receive` receives, all else stutters.

For requests composed with them: `RequestTypes`, `LinksMeanRequests`, `DecidedOnce`,
`RequestsKeepIntents`, `RequestsKeepConsent`. A linked payment is the answer of an
accept's create, so it means the request by the intents' `AnsweredAsAsked` and by
what the create was started with (`AcceptFits`: key, requester and amount are the
request's, which never change). A decision leaves `PENDING` for good, so what an
applied accept or closing says of its request stays true (`AcceptFits`,
`ClosingFits`) and excludes a second one (`AppliedOnce`). `RequestsKeepIntents` is a
refinement with the identity mapping: a request's step is a step of the intents or
leaves their variables alone. By it every theorem about the intents holds of the
composition; `RequestsKeepConsent` collects those that the `requests` run checks.

**`GrowthProjection_proofs`.** `GrowthTypes`, `ClassifiedAlike`, `CountsOnce`.
`EventsAgree` alone does not say why the recipient's event will agree; the
invariant adds that a process at the recipient's side of a receipt has seen the
sender's event say what it is about to say (`SenderSeen`), which only
`FindsExisting` and `Commits` establish, and that an INSERT under way has drawn a
positive id. An event never changes once committed (`EventsStay`), so the fact
stays true however long the process waits. `CountedOnce` follows from the cursor:
only events beyond it are read, and it moves to the largest of them.

**`PaymentStore_proofs`.** `StoreTypes`, `SettlesOnce`, `FailsKnowing`,
`KeepsEvidence`, `HistoryTold`, `MemoryAllows`. Uniqueness is kept because every write
passes `Unique`. `FailureKnowsSignature` needs that a signature is in the row exactly
from version `signedAt` on (`SignatureDated`): the version that a failure expects is
the row's, so a signature recorded until then is no younger than what was read, and
one the failure brings is recorded with it. `EvidenceStays` is one lemma on `Update`,
which every operation goes through, and the trigger's `Protects`.
`HistoryTold` is inductive payment by payment (`Told`): the moves of a stream form a
chain that ends in the row's status, an absent payment has no events, each
settlement event is there at most once. `MemoryAllows` refines `MemoryPaymentStore`
for any evidence that callers bring. Its index of signatures is read off the rows and
that of receipt accounts off the receipts; a receipt's account is in the evidence of
its payment (`ReceiptShown`), so `Unique` makes each index name the one holder. Every
operation is compared with its in-memory counterpart by what the two refuse.

**`RecipientDirectory_proofs`.** For the accounts alone: `IdentityTypes`,
`LoginIsStable`, `SessionsBegin`, `AuditTells`. The
invariant says that every answer named the owner of its identity (an owner never
changes, since the INSERT of a second one conflicts), and that the stream of an
account has one event per version, the last with the account's status. The latter
gives `SessionsBegin`, an action property no run lists: a caller saw the account
ACTIVE at some version, every change of status takes a version, so a version that
still holds is a status that still holds. `AuditTells` adds a second invariant: a fact (an
identity is the account's, a session is, it is revoked) has exactly one event if it
holds and none if not. Without the second half the one event of a mutation could
be its fact's second; with it, each mutation is one lemma's instance
(`ChangeIsAudited`), in which the event and the fact appear together.

For accounts and directory together: `DirectoryTypes`, `AccountsBesideDirectory`,
`DirectoryUnambiguous`, `PromotionKeeps`, `MemoryAllows`. What a payer relies on is
inductive once an open promotion is known to demote only other destinations of its
own account (`PromotionsOwn`); no edit changes the account or the address of a
destination. `PromotionKeeps` follows from the same invariant: what a promotion
demotes is committed with its new primary or not at all. `MemoryAllows` refines the
in-memory adapters: a provisioning or a promotion of several statements is one step
there, taken where PostgreSQL commits.

**`Finalization_proofs`.** `FinalizationTypes`, `SignsOnce`, `ReleasesUnsigned`,
`SelectsExpirable`, `AccountsEvidence`, `IncidentsFreeze`, `ChargesGrowByClaims`,
`OutstandingGrowsWithinBudget`. `OneSignaturePerIntent` is about calls to the signer; the
invariant connects them with rows: a call that may still ask has committed the
contact and is the only one; a finalization belongs to a committed attempt, an
intent has one committed attempt, as the head's next generation needs a cancelled
one (`Replaces`) and a committed attempt cannot be cancelled; a released exposure
was refused or never contacted, and neither state is left.

`AccountsEvidence` needs no premise. `AccountingInv` says that the accepted final
reports of a finalization agree, that each piece of its accounting evidence states
their cost or is an answer of the exposure observer (`FromSettlement`), and that what
was consumed is the cost of some evidence. A report is accepted after consumption
only if it agrees with what was consumed; an answer is compared with nothing
(section 6), which is why `AccountingIsEvidence` excepts it and nothing else.
`IncidentsFreeze` states the half about incidents alone. `CostsWithinFees` (no evidence
accounts for more than the fee that was charged) makes a consumption lower a charge
or keep it, so only a claim raises one, and a claim has checked the budget.

**`Confirmation_proofs`.** `ConfirmationTypes`, `EvidenceIsOfOneSession`,
`AnswersConsent`, `LogoutIsFinal`, `OverIsOver`. `EvidenceChain` is inductive
payment by payment only together with what a call knows at each transaction
(`CallHolds`: a bind for a prepare follows the preparation of its session, from
`prior` on the ceremony is its session's). That knowledge cannot go stale, since
preparation, ceremony, binding and admission are each written once (`Written`). The
two action properties follow from `Forward`, which says what no step takes back:
ended sessions stay ended, a challenge is set once and only in an active session,
an admission needs `Issued`, and whatever makes an account or a session active
again makes every challenge out of date.

Liveness, `ENABLED` and facts by induction over data are left to TLC.

## 6. Where the code and its documents disagree

1. **A Mock execution can stay in `SUBMITTING` for ever** (`mock_stuck`).
   `docs/payment-execution.md:7` says a recovered `SUBMITTING` execution
   reconciles. If the process dies between claim and record, `reconcileNext`
   claims the row and asks the rail. With the shipped scenario
   `immediate_settled` the rail answers `settled`, but the trigger of
   `payment_executions` has no transition from `SUBMITTING` to `SETTLED`:
   `completeSettlement` throws (`src/executions/executionWorker.ts:12`), the lease
   runs out, and every later tick repeats it. The other scenarios recover, except
   `rejected_pre_submission` with its record lost, which stays `PROCESSING`.
2. **A request may never be marked paid** (`received`). `docs/payment-requests.md:14`
   says inserting the canonical receipt moves the linked request to paid. `accept`
   creates the intent and links it in separate transactions
   (`src/paymentRequests/paymentRequestService.ts:29`); a payer (or a second tab)
   that confirms and settles the intent in between produces the receipt while no
   request is linked, the trigger matches nothing, and the request stays accepted.

3. **An event may never be counted** (`passed_over`). `projectAccount` reads
   `event_id > last_growth_event_id` and moves the cursor to the largest id read
   (`src/storage/postgres/postgresZpStateRepository.ts:134`). Two processes append
   events of one account; the one that drew the smaller id commits second, after
   the larger was projected. The cursor is then past it, it is neither listed nor
   read, and the account's points and counts stay short. The test
   `tests/postgresGrowthProjection.integration.ts:684` takes "nothing pending" for
   "everything counted" (lines 708–710), which holds only for processes that
   append one after the other.

4. **A final report and a settlement may disagree without an incident** (no run; an
   exception named in `AccountingIsEvidence`). `docs/trusted-authority-composition-v1.md:53`
   says that conflicting amounts create incident history. `economic_ingest_observation`
   compares a report with earlier reports and with what was consumed, and
   `economic_apply_finalized_accounting` an answer with what was consumed
   (`migrations/024_pre_signer_operational_authority.sql:369-373`); but `settleExposure`
   stores its answer after a check against the bounds only (`024:347-359`). If a report
   is accepted and the process dies before applying it, an answer of another cost is
   stored and consumed, the accepted report contradicts the accounting, and nothing
   freezes. Without its last disjunct, `AccountingIsEvidence` is violated in the
   scope *Observing* of the run `finalization` in a behaviour of this kind.

## 7. What is not modelled

Not modelled because nothing in them interleaves: HTTP validation and
serialisation, rate limits, telemetry, readiness probes, the receipts and activity
views (joins over rows that are modelled), the parser of on-chain receipts, the
verification of signed provider documents, operator scripts. Runtime policy
decisions are written in one transaction under one lock and read back by their own
replay only. The allowlist and authentication are checks before the handlers begin;
that a revocation in between is not seen is not contradicted by any document. The
x402 demo does not touch the payment tables. Solana, the RPC provider, the sponsor's
signer, the identity provider and PostgreSQL appear only as the code relies on them.

Known behaviours without a property: a decline or cancel between intent creation
and link leaves a confirmable intent of a closed request; the receipt trigger of
`migrations/008` refuses a receipt whose `settled_at` predates the acceptance, when
clocks disagree; `execute` answers an error when its refresh meets a replaced
preparation; `reconcileNext` of the Mock rail takes the oldest open row at each
tick; a suspended account may edit its profile with a login from before. None is
promised otherwise, or it needs clocks, which no module has.

Not modelled yet: the components of the plan.

## 8. Plan

Done: `DevnetExecution` with `SingleSettlement`, `MockExecution`,
`PaymentIntents` with `PaymentLedger`, `PaymentRequests`, in this order, since
paying twice, or losing a payment, is the worst this system can do; then
`GrowthProjection`, `PaymentStore`, `IdentityStore` with `RecipientDirectory`,
`Finalization` and `Confirmation`.

| Next | Models | Properties and theorems intended |
|---|---|---|
| `RecoveryScheduling` | which of several Devnet executions a lease claim picks | none is passed over for ever |
| `WorkerShutdown` | `AdaptiveWorkerLoop`, `GracefulShutdown` | no tick after stop, the pool closed after the drain or at the deadline |
| `Consent` | `Confirmation` composed with `Finalization` through the admission that the claim loads | no claim without an admission of its envelope |

Proofs to come: what the compositions above add, by the refinement with the
identity mapping that carries the intents' theorems over to the requests; and the
sum in `GrowsWithinBudget`, should a prover for induction be at hand.
