# LedgerBridge: a verification of payments, their storage, quotes and back office

This directory holds TLA+ models of LedgerBridge, the TLC configurations that check
them on small instances, and TLAPS proofs of the properties that matter most, for
every value of the constants. Paths below are relative to the repository's root;
`P/` stands for `packages/`.

Contents: [the system](#the-system), [modules](#modules-and-how-they-correspond-to-the-code),
[runs](#runs), [fairness](#fairness), [proofs](#proofs),
[disagreements found](#where-the-code-and-its-documentation-disagree),
[what is left out](#what-is-not-modelled), [plan](#plan).

## The system

A NestJS API takes payments and hands each to `PaymentOrchestrator.executePayment`,
one long asynchronous function that takes an idempotency lock, looks the accounts
up, asks the validation gate, and then writes the payment, its ledger entry and its
audit records through repositories, calls a payment rail, and queues notifications.
Around it, a dashboard in the browser asks for quotes, lists and decides compliance cases, and
seeds a tenant with data. There is no transaction around the steps, no outbox and no recovery
job: what a payment has become when a call throws or the process dies is decided by the order of
the awaits. That order is the core of this verification.

| Component | State | Operations | Correct when |
|---|---|---|---|
| Orchestrator (`P/orchestration/src/workflows`) | none of its own; one execution per call | `executePayment`, `recordAudit` | one key is booked, paid and answered once; rows, entries and audit records stay in step whatever throws |
| Idempotency service (`P/orchestration/src/idempotency`) | a map from tenant and key to a record, in one process | `acquireLock`, `saveResponse`, `markFailed` | a record in PROCESSING is held by one execution, and left by it; a key is executed once until a request for it fails; a completed record leads to its answer |
| Queue service | arrays of jobs, in one process | `addJob` | a payment held for review is on the queue (nothing consumes it) |
| Payment, state machine (`P/domain/src/payments`), XState machine (`P/orchestration/src/state-machine`) | the state of one payment | `transitionTo`, links; events | stored states follow the transition table; the two lifecycles agree |
| Payment repositories | rows by id and by idempotency key; unique key and foreign keys in the database | `save`, `findById`, `findByIdempotencyKey`, `findByTenant`, `countByTenant`, `saveQuote` | a key leads to its payment; what was saved is read back; memory and database answer alike |
| Audit record, audit repositories | a chain of hashed records for each tenant | `append`, `getLatestRecord`, the queries | each record is chained to an earlier one; a reload hashes to the same |
| Double-entry ledger, ledger repositories | ledger accounts, entries, postings | `saveAccount`, `saveEntry`, reads, `getAccountBalance` | entries are whole and balanced; the balances of a currency add up, but for what was paid across currencies |
| Accounts (`apps/api/src/modules/accounts`) | accounts, and the ledger account of each | `createAccount`, `assertCanTransact` | an account that is half created loses no money |
| Rail (`P/adapters/src/rails`) | outside | `submitPayout` | an answer is heard, and heard once |
| Validation gate and five rules | none | `validate` | the strictest rule wins |
| Money, quotes | values | `allocate`, `createQuote` | shares add up; a fee is never more than its share |
| Quote service, FX adapter (`P/adapters/src/fx`) | quotes by id; attempts of one request | `createQuote`, `fetchWithRetry` | every quote ends; a fallback comes last |
| API (`apps/api`): guards, pipe, filter, payments, compliance, accounts, admin | cases, counters | the handlers | who may not does nothing; a refusal has no effect; counters count |
| Dashboard (`apps/web`) | tenant, tab, lists, forms, requests under way | effects and buttons | what is shown is what is, for the tenant that is selected |

Interactions. The orchestrator awaits everything it calls, one thing at a time; the
API runs any number of executions in one JavaScript event loop. So a step of the
system is the code from one `await` to the next, and between two steps anything may
happen: other executions, the other process on the same database, a late answer of
the rail, a crash. Two wirings matter. The API uses the in-memory repositories
(`apps/api/src/modules/payments/payments.service.ts:20-40`): they belong to the
process, never throw, and vanish with it. The Prisma repositories are shared,
survive, may throw before or after their effect, and enforce what
`P/infra-postgres/prisma/schema.prisma` declares: unique idempotency keys and
foreign keys. `Durable` (in two modules the variable `durable`) chooses between the two. In
memory an `await` yields only to what is already queued, so overlapping executions
come about through the rail, the one port that really waits; the models let any two
executions overlap at every await, which includes that.

What is hard: retries of an execution that failed half way; two executions of one
key, in one process or two; effects whose answers are lost; a crash between two
saves; the audit chain's read followed by an append; a rail that answers late, badly
or never; two stores that must answer alike; answers that reach the browser in another order
than they were asked for, or after the tab or the tenant has changed. PROJECT.json lists each
such hazard at its line with the properties that watch over it.

## Modules and how they correspond to the code

| Module | Models | Composed with |
|---|---|---|
| `PaymentLifecycle` | the transition table and what one save may do to a stored state | implemented by `PaymentOrchestrator` |
| `PayOnce` | abstract: what a caller is promised about a key | implemented by `PaymentOrchestrator` |
| `PaymentOrchestrator` | `executePayment`, the idempotency service, repositories, rail, queue, crashes | instantiates the two above |
| `AuditTrail` | `recordAudit` over both audit repositories, the hash chain | opens up the step `Record` of `PaymentOrchestrator` (no formal refinement) |
| `Ledger` | accounts, transfer entries, postings, balances | opens up `CheckAccounts` and `SaveEntry` (no formal refinement) |
| `ValidationGate` | the five rules and `PaymentValidationGate.validate` | gives `PaymentOrchestrator` its decisions, through `MCPaymentOrchestrator` |
| `Money` | `Money.allocate` | |
| `PaymentStateMachine` | the transition table, and the XState machine event by event | extended by `PaymentLifecycle` and `Domain` |
| `Domain` | one call of a pure function and its answer, with what the answers owe each other | extends the three above |
| `Storage` | both payment and both audit repositories, side by side under the same saves | opens up the saves of `PaymentOrchestrator` (no formal refinement) |
| `Quotes` | the payment form, the quote service, the rate adapter and the network | what a quote comes to is in `Money` |
| `BackOffice` | the API's handlers as one-step operations, a dashboard, other clients | gives `executePayment` as its outcome, which `PaymentOrchestrator` opens up |
| `MC...` | values of the constants for TLC | |
| `..._proofs` | theorems | extend the module they are about |

**PaymentOrchestrator.** Each element of `Requests` is one call of `executePayment`;
its command never changes and may be another request's, which is what a retry is.
`pc` names the await an execution stands at. Each action is one such stretch of code
with the effect of the call it ends in: `Begin` is `acquireLock` (which reads and
writes its map without an await, hence atomically), `SaveValidated` is the transition
and the save, `SaveSettled` the two transitions and the save after the rail's answer,
`Catch` the catch block. Errors follow the code: whatever throws inside the `try`
goes to `catch` and ends as `error`, and what throws before it (`acquireLock`, the look-up of
the cached answer) ends as `refused`, without touching the record. A call of a port in
`Unreliable` is `ok`, `refused` (no effect) or `lost` (effect, then a throw). Whether or not a
port throws, `executePayment` refuses by itself a request whose accounts are not there, whose
source is in another currency or whose amount is not positive (`payment-orchestrator.ts:98-107`,
`payment.ts:51`), with its lock held: `CheckAccounts` goes on only with a payload that is in
`opened`. `OpenAccounts` is the account a payload lacked being created, which may happen at any
time or never.

A request makes at most one payment and one entry, so `row`, `entries`, `rail` and
`audit` are indexed by request. `row` is what is stored; the object in hand differs
from it only inside a step. `byKey` is the answer of `findByIdempotencyKey`, which
looks at the key alone. The payload hash is the payload; the gate's decision is a
function of the payload. `Crash` ends the executions of a process and empties its
maps and queues, and the repositories as well when they are in memory. The rail
decides in an action of its own and remembers what it was told whatever happens to
the caller.

**AuditTrail** opens the step `Record`: read the latest record, build, append. SHA-256
over all fields is taken to identify a record, so a hash is the pair of payment and
number. In memory the latest record is the last of the tenant; in the database it is
any with the greatest timestamp in milliseconds, taken when the record was built and
not when it was inserted. `serial` is the set of tenants whose payments never overlap, chosen
at the start: the environment's part, under which the chain is checked to be linear. In this module
and in `Ledger` the wiring is a variable, `durable`, that is chosen at the start too, so that one
run looks at both.

**ValidationGate** translates each rule into what makes it deny and what makes it ask for
a review, in the order the code asks, and the loop of `validate` into `Combine`, applied
five times to the literal array of the code. The orchestrator's runs take their decisions
from it: a payload stands for a context, built in `MCPaymentOrchestrator` with the fields
`executePayment` passes. **Money** keeps the truncating division and the rounded ratios of
`allocate`; its two loops that hand out one unit at a time are the closed form `Handed`.
`Quote` keeps the truncations of a quote's fee and amounts. **PaymentStateMachine** has the
table as the code writes it, and the XState machine as its edges: an event that a state does not
list is ignored, and one action is attached to `FAIL` and `REVERSE`. In **Domain** a call is
chosen at the start and answered in one step, for the code has no await there.

**Storage** puts every save of an execution to both repositories and every question to both.
`payment` is the object in the program, which the in-memory map holds by reference, in the
order of first saves; `rows` are the columns, written by an upsert under the constraints of the
schema. An update leaves undefined columns alone, hence `Update` adds to `has`. A row knows its
parties by name and account only: read back, they are in made-up countries and without a KYC
status (`parties = "stored"`). `afterState` keeps the order in which the literal in `recordAudit`
writes its keys, `Jsonb` the order in which PostgreSQL returns them, since a record made of a
row is hashed anew. Answers that may come in any order (records of one millisecond, pages of
payments of one millisecond) are predicates on answers, `Oldest` and `Pages`.

**Quotes.** A call is one `createQuote`, from the form's fetch to its answer: `stage` is where it
is in the API, `attempt` and `failures` count the adapter's tries. The form's effect runs whenever
the pair or the amount changes, without cancelling what is under way, so several calls overlap
and are heard of in any order. A rate is the pair it is for and where it came from. `inOrder` and
`latest` are the history that the property about the screen needs.

**BackOffice.** The API's process never waits on its in-memory repositories, nor on the mock rail
it is wired to, which never throws either; so it handles a request in one step, from the guard to
the filter, meets no lock in PROCESSING, and refuses only before the first save. With a rail that
waits or throws this would not be so: that is what `PaymentOrchestrator` is for. The browser's requests are `flights`: sent,
handled, heard or lost, each at its own time; `mounted` says whether the panel that asked is still
there, `late` whether a later answer for the same list has come. `log` is what other clients were
answered; `disturbed` remembers that an answer was lost or overtaken or that another client
changed what is shown. Clicks end in a fetch, answers in what the handler does next: the second
call of the idempotency tester, the refetch after a seed or a decision, the button enabled again.

**Ledger** opens `CheckAccounts` and `SaveEntry`: two look-ups, the check of the source,
one entry of two postings, while accounts are being created by two saves of which the
second may never come. Nobody compares the payee's currency with the payment's, so a command may
name an account in any. `TrialBalance` therefore says that a currency is off by exactly what
was paid into it from another less what was paid out of it into another (`Strayed`), and by
nothing else. `calculateAccountBalance` is defined over the stored postings
as in the code. The constructor's refusals (a posting must be positive, an entry
balanced) are the guard `Constructible`; the database's foreign key from posting to
ledger account is `Accepted`. The balance trigger
(`infra/postgres/triggers/01_ledger_balance_trigger.sql`) is not a guard of the model:
its condition is the one the constructor has already enforced, so no entry of this
program can fire it, and nothing here rests on it being installed.

Operators marked *Mutant* in the modules are variants of a step with a plausible
mistake in it: a dropped guard, an ignored error, a swapped order. They are used by no
action; PROJECT.json pairs each with the property that fails when it replaces the step
it stands before, which shows that the property depends on that step.

## Runs

| Run | Instance | What it shows |
|---|---|---|
| `postgres` | 3 requests, 2 processes, 2 tenants, 1 key, 3 payloads (allowed, reviewed, denied), every port unreliable, 1 crash; Prisma | types; at most one entry and one payout for a key of a tenant; replays return the operation's own answer; the rail hears only of covered payments; the audit log tells the truth and the whole of it; unlinked entries are reported; held and denied payments move no money; stored states follow the table; the whole implements `PayOnce`. Also checks `Stages`, the inductive strengthening most of the proofs rest on |
| `memory` | 3 requests, with and without key, 1 process, 1 crash, accounts that come late or never, a rail that throws; in memory | a record in PROCESSING is one execution's, and without a record there is none; an operation is executed and stored once until a request for it has failed; a completed record leads to a payment |
| `liveness` | 2 requests, all commands, repositories unreliable, 1 crash, `FairSpec` | every started call ends; every lock leaves PROCESSING |
| `audit` | 3 recorders of 2 tenants, 2 records each, any set of tenants serial, 2 clock values; in memory, and over Prisma with calls that throw | records are chained to earlier ones of their tenant and each payment's are in order; in memory a record never skips its payment's own previous one, and a serial tenant's chain is linear |
| `ledger` | 3 transfers, 4 accounts of 3 types in 2 currencies, amounts from -1 to 3, sources and payees of the payment's currency and of another; in memory and over Prisma | entries are whole; the readable balances of each currency are off by what was paid across currencies and no more: over Prisma whichever accounts are left without a ledger account, in memory whenever none is, for then postings made before it was there are found |
| `domain` | 1,301 contexts on both sides of every limit, 1,372 allocations of -100 to 100 by up to three whole, fractional, negative or vanishing ratios, 44 exchanges around the steps of the fee, every state and event | the gate is as strict as its strictest rule and no laxer for more risk; allocations are exact, fair to the unit, and cancelled by the same allocation of the opposite amount; fees and conversions keep their bounds; the XState machine follows the table |
| `storage` | 3 payments of 2 tenants, two under one key, one with a quote, pages of 2, 2 clock values | a saved payment is read back; keys, lists and counts are the same in both stores; so are the audit records and their hashes |
| `quotes` | 3 calls, 4 pairs of which one has no rate in the table, 1 retry, `FairSpec` | every quote ends; a fallback comes only after the last attempt; the form shows its pair's rate if answers came in order |
| `backoffice` | 3 clicks or requests of others, 2 tenants, 1 key, 4 bodies (settles, denied, unknown accounts, unreadable), every token | the dashboard shows what is; a refusal has done nothing and a key is done exactly when its payment is there; counters count |
| `double_debit`, `other_tenants_answer`, `reopened_key` | the smallest instance that shows it | a violation each, see [below](#where-the-code-and-its-documentation-disagree) |

Bounds, and why they are enough to be interesting. Three requests on one key are a
first call, a concurrent duplicate and a later retry, or two tenants and a retry; two
processes are what it takes to hold a key's lock twice. One crash (`MaxCrashes`) is
enough to lose locks and jobs at any point of any execution: the crash may come
anywhere, and the theorems below hold for any number. One key is enough
because nothing relates two keys but the rows they lead to. `PerPayment` is two
records, the fewest in which a payment chains to itself past another's;
`MaxTime` is one tick, so that records share a millisecond and do not.
Symmetry of requests, processes, tenants and transfers is used in the safety runs
and not in `liveness`. In `storage` three payments are what a page of two, a key shared by two
tenants and a constraint that refuses take. In `quotes` three calls are two that overtake each
other and one after them; one retry is a first, a middle and a last attempt in one. In
`backoffice` three clicks are what it takes to decide or seed, change the tenant and come back
while the answers are under way; a fourth exceeds the time of a run. `CHECK_DEADLOCK FALSE` is
in `backoffice`, where the bound on clicks ends the run, and in `domain`, where one answer does.

In `memory` the repositories do not throw, for those in memory cannot. A failure is then the
rail's or a refusal of `executePayment` itself, and from the first one on a key's executions
exclude each other no longer: `acquireLock` lets a FAILED record through and leaves it FAILED
(`idempotency.service.ts:53`), and of two such retries the one that fails last reopens what the
other completed (`:90`). The run `reopened_key` shows both, and
`SingleFlight` and `OneUntilFailure` say what holds in spite of it. With Prisma the unique key
still keeps a second debit out, which is what `postgres` shows.

## Fairness

`Fairness` is weak fairness of `Step(r)` for each request: a call that was started
goes on. The event loop runs every continuation whose promise has settled, and a
repository call settles, with a result or an error. A request need not start, and a
process need not crash. After a crash the execution is gone and counts as ended.
`RailIsFair` adds that the rail makes up its mind about every instruction. The code
has no timeout around `submitPayout`, so this is an assumption about the rail; without it a
silent rail holds a key in PROCESSING for good.

`Quotes!FairSpec` is weak fairness, for each call, of what a timer or the event loop does: the
abort timer ends a request that has no headers (`FetchFails \/ Headers`), the back-off ends,
the API takes up a request the browser still waits for, and an answer is heard or the
connection is lost. One conjunct is not the program's: `ReadRate \/ ReadFails`. The abort timer
is cleared before the body is read (`frankfurter.adapter.ts:109`), so that a body comes to an
end is up to the network, and so is `EveryQuoteEnds`.

## Proofs

`tlapm` checks every leaf. The theorems are stated for any sets of requests,
processes, tenants, keys and payloads, any gate, any ports that throw, any number of
crashes, under the ASSUMEs on the constants and what each theorem names.

`PaymentOrchestrator_proofs`. The safety properties are not inductive: that the rail
was told of a payment says nothing by itself about its entry after the next step. What
is inductive is that the place of an execution and the stored row determine what has
been done.

- `TypeCorrect`: `TypeOK`, with the fact that only a request with a key looks an answer up.
- `StagesCorrect`: `Stages`, the conjunction over all requests of `StageOf`, which lists for
  each place and each stored state what must have happened. A step of `r` can only disturb
  `StageOf(r)`; every action gets a case. From it `PayoutCovered` and `OnlyAllowed`.
- `AuditTrue`, `UnlinkedReported`: from `Order`, which adds `KeysLeadToRows` and the trail of
  audit records each execution has left.
- `LifecycleFollowed`: the refinement of `PaymentLifecycle` under the mapping `state <- row`.

These assume `StoreSurvives`, i.e. `Durable \/ MaxCrashes = 0`: with in-memory
repositories a crash forgets the rows while the rail remembers, and the properties fail.

With the database, assuming `Durable`, the invariant `Once` adds `RowsOwnTheirKeys`, the
unique index: a stored payment with a key is the one the key leads to. Two payments of
one operation would both own its key, hence `OneEntryPerKey` and `OnePayoutPerKey`.
`Replays` adds that completed records lead to answered payments of their tenant, from
which `ReplayMatches` and `AnswersAudited`. `PaysOnceHolds` proves the refinement: saving
an entry is a `Debit`, telling the rail an `Instruct`, responding an `Answer`, replaying an
`Answer` repeated; every other step, a crash included, is a stutter.

Of the lock three theorems hold whatever throws or crashes. `FlightsAreSingle` and
`ReplaysAnswered` need no assumption about the repositories. That a record in PROCESSING has one
holder is not inductive; `Flights` adds that whoever is past `acquireLock` has a record, and that
a look-up is of a record that has been completed, which a failure may have reopened. `Answerable`
adds that an execution from its first save on has a stored payment, found by its key.
`OneUntilFailureInMemory` assumes `~Durable`: with the database a restart keeps the rows and loses
the locks. Its invariant `Alone` says that whoever owns an operation has a record, and that a
record is FAILED, or two requests own one operation, only once one of them has ended in the catch
block.

`AuditTrail_proofs`, for either repository, with or without calls that throw: what a
recorder holds between read and append is the hash of a record of its tenant that is in
the log for good, and no record is numbered beyond its payment's count; hence
`ParentsAreEarlier` and `OwnRecordsOrdered`. In memory (`~durable`) what a recorder holds is not
older than its payment's own previous record, and while a serial tenant's recorder holds
something, that is the tenant's last record: hence `OwnRecordsAreSeen` and `SerialChains`.

`Ledger_proofs`, for any accounts, commands, currencies and amounts, over either repository:
entries are whole, and the entries of two transfers are disjoint, which lets each step be looked
at alone. `LedgerBalances` needs no assumption either. What is inductive is `TrialInv`, which looks
at all stored accounts of a currency, readable or not: what their postings come to is what has
been paid across currencies. An entry adds its two postings, which cancel if both accounts are in
one currency, and stray by its amount if not (`EntryNets`, `EntryStrays`). From all accounts to
the readable ones (`NothingUnread`): in the database an account without its ledger account has no
postings, by the foreign key, and in memory the property speaks only of when there is none.

`FoldTheorems` has what that takes: the balances are folds, that is recursive functions over
finite sets. Induction over them is done without an operator for a parameter: a set of natural
numbers with a member that is not in it has a least one (`LeastNatural`, from the
well-foundedness of `<`), so what holds of 0 and is kept by + 1 is all of `Nat` (`Induction`). Sums
do not depend on the order of the fold (`SumsAgree`), and are linear (`SumsAreLinear`).

`Domain_proofs`, for any context at all, and for monotonicity any whose scores, counts and
amounts are integers: one turn of the loop keeps the stricter of two decisions and respects the
order of strictness, each rule respects the order of risk, and the gate is five turns.
`MachineAndTableAgree` goes through the edges of the XState machine one by one. `allocate` and
the quoting of a payment are proved about for every amount, rate and list of ratios that
`CallsAreNumeric` allows, whole or fractional: `Handed` hands out all of what truncation leaves
over, however much that is (`AllocationExact`); with whole ratios, none of them negative, that
is less than a unit a share (`SharesFair`); truncation toward zero is odd, so that the shares of
the opposite amount are the opposite shares (`RefundsMirror`); `QuotesFair` rests on the
monotonicity of `\div`. `SharesAreFair` speaks of ratios that are not negative. The code accepts
negative ones, and then a share may be off by more than a unit: 10 owed, split as -1, 2 and 2,
comes to 2, -6 and -6.

`Storage_proofs`, for any payments, keys, quotes and clock, has three invariants. `Inv`: between a
change and its save a row is older than its payment; what is inductive is that it is then of the
same creation and has nothing the payment lacks, so that an update which leaves undefined columns
alone comes to the payment again (`UpdateIsPayment`); hence `SavedIsReadBack`. `SavedInv` relates
the map in memory to the rows: each payment is in it once, and one that the unique key refused
comes after the one whose key it is, so that the first of a key in memory is the one in the
database; hence `RepositoriesAgree`. `TrailInv` relates the two audit trails: all but the records
being inserted have their rows, no two records tell the same of a payment, and a row's `afterState`
orders its keys as `recordAudit` writes them; hence `TrailsAlike`. The queries of the
model filter by `filter`, which puts each element where the number of those kept before it says,
rather than by `SelectSeq`, whose definition the provers do not see.

`Quotes_proofs`, for any currencies, table, number of retries and calls. `CallIsSound` says what
the stage of a call tells of its attempts: fetching, as many failures as retries; backing off, one
more and a retry left. `Heard` says that every call is waited for or no later than the latest
heard of, so that when none is waited for the latest is the last: hence `FallbackComesLast`
and `PanelIsRight`.

`BackOffice_proofs`, for any tenants, keys, bodies, outcomes and number of requests.
`RefusalsDoNothing` is inductive once no payment or decision is by a request still to come;
`ExecuteStep` is the case that matters, where the record of a key becomes COMPLETED together
with the one payment under it, or FAILED with none. `CountersAreCounts` adds that what was told
again is one of the payments there are, which a later payment does not change, and that a key
some payment is under has a first. `PanelsStayCurrent` says nothing of a dashboard with requests
under way; what is inductive is `DashboardInv`: every button that waits waits for a request that
will enable it, a mounted panel is the tab's, and each list, undisturbed, is either current and
no request for it is under way, or *awaited*: one of its requests is late (and will disturb it),
or a seed or decision has been answered after which it is fetched again, or the last request for
it is of the selected tenant and, if answered, was answered with what is there. The lemmas about
what requests a step adds (`GrowthKeeps`, `GrowthAwaits`), removes (`ShrinkingKeeps`,
`ShrinkingAnswers`) or answers (`AnsweringAwaits`) do for every action.

Every safety invariant and action property of the runs that pass is so proved, and both
refinements. Only model-checked are the three liveness properties, `EveryCallEnds`,
`LocksAreReleased` and `EveryQuoteEnds`: they rest on fairness, hence on ENABLED, which the
prover does not reach.

## Where the code and its documentation disagree

| Run | The code | The documentation |
|---|---|---|
| `double_debit` | In memory, as the API is wired, a retry after a rail call that threw books the key again: the FAILED record lets it through (`idempotency.service.ts:53`) and the entry of the first attempt stays. | `docs/ADR.md:33`: "Safe client retries, zero double debits" |
| `other_tenants_answer` | The lock is kept by tenant and key, the cached answer is looked up by key alone (`payment-orchestrator.ts:85`), so a replay may return the payment another tenant made. | `docs/ADR.md:31`: a lock for "`(tenantId, idempotencyKey)`" |
| `reopened_key` | `markFailed` overwrites whatever the status was (`idempotency.service.ts:90`): of two retries the one that fails reopens the key the other completed and answered, and the next request is executed. | `docs/ADR.md:32`: "Subsequent identical requests return the cached response." |

Read in the code without a run. Where a FAILED key lets two retries in at once, neither receives the
409 of `docs/ADR.md:31`: the first half of what `reopened_key` shows, and no port need throw for it,
since a 404 for an account that is created later leaves the key FAILED too. `expiresAt` is written and never read and the rail call has no
timeout, so a silent rail leaves the key in PROCESSING, where `README.md:176` speaks of "automatic
expiration". Two recorders of a tenant may read the same latest record, and over Prisma two records
of one millisecond suffice (`prisma-audit.repository.ts:91`), so the chain may fork: what is shown of
such chains is only that parents are earlier records of the tenant, and of linear ones only where
payments do not overlap. The payee's currency is never compared with the payment's
(`payment-orchestrator.ts:107`), so a payment of five dollars may be credited and debited to
accounts in dollars and in euros; `TrialBalance` says by how much the two are then off. The
status of the rail's answer is not looked at, so a
rejected payout is stored as settled (`payment-orchestrator.ts:219`); settled in these
models means that the rail answered. The gate is never given the USD equivalent, so the
threshold of `README.md:70` holds payments in USD only. `allocate` with no ratios returns
nothing and loses the amount, and with ratios so small that their sum rounds to zero it
divides by zero. A quote's converted amount is not used by the payment, whose target
amount is the source's minor units in another currency (`payment-orchestrator.ts:110`).
`README.md:79` has a transfer debit the sender and credit the payee, `createTransferEntry`
credits the source and debits the destination (`ledger.ts:57-69`), right for asset accounts
and backwards for the liability accounts the seed data gives to customers. `RETURNS CONSTRAINT
TRIGGER` in trigger 01 is not a return type PostgreSQL knows. The fee is computed and never posted. The velocity counts,
the sanctions flag and the PEP flag the rules can take are never given to the gate.

Of storage: the in-memory list of payments shows the oldest fifty and Prisma's the newest.
`saveQuote` is never called by the API, so a payment that names a quote would break the foreign key
over Prisma. A row brings parties back as of 'US' and 'GB', without their KYC status.

Of quotes: an answer that comes out of order is shown under the pair the form has by then
(`PaymentWizard.tsx:202`), and any answer clears `isQuoting`. When the connection breaks the form
shows 0.92 for any pair. `quote.ts:61` keeps two decimals in any currency, so that an amount in JPY
comes out a hundred times too large. Nobody asks for a quote's expiry.

Of the API: account ids must be UUIDs (`schemas.ts:19-20`), and the accounts of the seed and the
dashboard are not, so every payment of the dashboard is answered 400; what its wizard does after a
success is never reached, and the tester's second call is no replay, as `IdempotencyTester.tsx:125`
says it is. (Its two calls also differ in `reference`, and would be answered 422.) Without
a correlation header the clock makes up the key, and two requests of a millisecond share it.
The tenant of a payment is in its body; `x-tenant-id` is not asked. The throttler is imported and
no guard of it is bound. Each Nest module has a telemetry service of its own, so the admin
module's metrics never show the payments' counters. A case may be decided again, and no
decision moves a payment. Seeding another tenant takes the seeded data from the first, names
ledger entries that do not exist, and appends the same audit records once more.

Of the dashboard: after a change of tenant to one without cases the selected case stays selected
and can be decided; the cases are fetched for the tenant of the click; between the answer to a
decision and the refetch the opposite decision can be made; the audit and ledger tabs are not
fetched again after a seed. `PanelsAreCurrent` holds in spite of these because it speaks only of
panels that nothing of the kind has disturbed: it does not catch them.

## What is not modelled

- Decimal parsing and formatting of money; floating-point error: ratios are exact fractions.
- The expiry of quotes and reading one back, on which no step depends.
- The consumers of the queues, which do not exist, and compliance cases other than the one
  there is: none is made of a payment held for review.
- Changes of account status: `freeze`, `suspend` and `close` are called by tests only, so
  accounts are always active. `markReversed` and `createFeeTransferEntry` likewise.
- Verification of a stored audit chain, which no code does (`verifyIntegrity` compares a record
  with a hash recomputed from the record itself), and the immutability and retention triggers,
  which refuse updates and deletes the program never makes.
- Stateless parts nothing outside the tests calls: KYC, AML, registry and regulatory mocks, HMAC
  validation.
- In the dashboard, what is drawn, and the telemetry tab, which polls metrics nothing else shows;
  the double effects of React's StrictMode, which are for development only. In the API, health
  and metrics, and the other counters.
- The compiled JavaScript that is checked in next to the TypeScript sources of the packages:
  generated code, which the models of the sources stand for.

## Plan

Built in this order: `PaymentLifecycle`, `PaymentOrchestrator` with its safety runs and `Stages`;
`PayOnce` and the refinement; liveness; `AuditTrail`; `Ledger`; `ValidationGate`, `Money`, `Domain`;
their proofs; `Storage`; `PaymentStateMachine`; `Quotes`; `BackOffice`; their proofs.

Proved in this order: the orchestrator's `Order` and `Once` and both refinements; the audit trail, the
ledger's entries, the gate, storage's rows, quotes, refusals; then the lock, the chains,
the sums (`FoldTheorems`) with the trial balance, allocations and quotes, the queries of both
stores, the counters, the dashboard.

What would come next: a formal refinement from `AuditTrail`, `Storage` and `Ledger` to the steps of
`PaymentOrchestrator` they open up; and, when the code has them, the consumers of the review queue
and the expiry of locks and quotes.
