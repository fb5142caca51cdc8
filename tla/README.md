# TLA+ models of Data-Pulse-2

Data-Pulse-2 is the server side of a multi-tenant point-of-sale platform: a
NestJS API (`apps/api`), a background worker (`apps/worker`), PostgreSQL with
row-level security, Redis with BullMQ, and an external connector that carries
postings to ERPNext.  This directory models the parts in which several
processes, transactions or requests meet on shared state, checks them with TLC
on small instances, and proves the main results with TLAPS for every size.

## 1. The system

| part | state | operations | met by |
|---|---|---|---|
| outbox (`packages/db/src/outbox`, `apps/worker/src/outbox`) | `outbox_events` rows: state, attempts, next attempt | emit, claim, mark delivered / failed / dead-lettered, purge | business transactions, audit interceptor, drainer replicas, retention |
| worker pool (`worker.module.ts`, `tenant-context.ts`) | checked-out connections, waiting `connect()` calls | connect, release | every row of a batch, every job |
| idempotency (`apps/api/src/idempotency`, `packages/shared/src/idempotency`) | in-progress marker, replay record (Redis) | set, look up, replay, conflict, save, delete, expire | concurrent and repeated HTTP requests |
| sales (`apps/api/src/catalog/sales`) | `sales`, `sale_lines`, voids, refunds | capture, void, refund | POS terminals, outbox |
| sale processing (`apps/worker/src/sales`) | `sales.processed_at`, `sync_status` | process, quarantine | BullMQ jobs, delivered at least once |
| sale-sync operations (`catalog/sale-sync-ops`) | `sale_sync_deadletters`, `sync_status` | repair, list | console operators |
| ERPNext posting (`catalog/erpnext-posting`, `worker/.../erpnext-posting`) | `erpnext_posting_status`, identity sequence | create, pull, acknowledge, repair | outbox consumer, connector, operators |
| ERPNext maps, reconciliation, bin view | mappings with versions, runs, results | suggest, confirm, retire, run, repair | operators, worker |
| catalogue, unknown items, read-down | products, aliases, unknown items, change cursor | capture, link, dismiss, page | terminals, operators |
| inventory, settlement | movement ledger; receivables, claims | move, count, transfer; apply, claim | API, backfill |
| identity (auth, memberships, operators, pairing) | sessions, tokens, invitations, codes | sign in, revoke, accept, redeem | users, terminals |
| audit, e-mail, clean-up | queues, audit rows | enqueue, fan out, sweep | worker |

The parts call each other through three mechanisms.  A business transaction
emits an outbox row, which a drainer hands to a consumer: at least once, in no
order.  Consumers either add a BullMQ job under a deterministic id or write to
PostgreSQL in their own READ COMMITTED transaction.  And the API, the worker
and the connector meet on table rows, through row locks, guarded UPDATEs and
`ON CONFLICT` clauses.  What is hard is therefore always the same kind of
question: a status read before an await and used after it, two transactions
whose statements interleave, a redelivery after the work is done, a crash
between effect and bookkeeping, a budget at its last unit.  `hazards` in
`PROJECT.json` lists these places line by line.

## 2. The modules

| module | models |
|---|---|
| `EventDelivery` | what the outbox promises: an abstract specification without drainers, locks or time |
| `Outbox` | producers, drainer replicas, backoff, dead-lettering, retention; refines `EventDelivery` |
| `DrainerPool` | one tick's rows against the connection pool |
| `MCOutbox`, `MCDrainerPool`, `MCDrainer` | constants of both, and their run |
| `OutboxProofs` | theorems about `Outbox` |
| `SaleSync` | the three writers of a sale's sync status |
| `SaleCapture`, `MCSaleCapture`, `SaleProofs` | extends `SaleSync`: the tills that capture, void and refund, composed with the sync of what they captured; theorems about both |
| `Idempotency` | the HTTP idempotency layer |
| `PostingFeed`, `MCPostingFeed`, `PostingFeedProofs` | the ERPNext posting feed, and its theorems |
| `Settlement`, `MCSettlement` | receivables, cash application, claims and remittances |
| `Inventory`, `MCInventory` | the stock ledger: movements, transfers, counts and the backfill worker |
| `MCLedger`, `LedgerProofs` | the run of `Settlement` and `Inventory`, and the theorems about both |
| `Sums` | lemmas about sums over finite sets |
| `UnknownItems`, `MCUnknownItems` | unknown items from the till that submits them to the reviewer who settles them |
| `ReadDown`, `MCReadDown` | the catalogue a till reads down, page by page, while writers change it |
| `MCCatalogue`, `CatalogueProofs` | the run of `UnknownItems` and `ReadDown`, and the theorems about both |
| `Accounts` | users, dashboard sessions, tenants, stores, memberships, invitations, the guards |
| `PosIdentity`, `MCPosIdentity`, `PosIdentityProofs` | extends `Accounts`: pairing, operator sessions, takeovers, uploads, the sale guard; theorems about both |
| `ErpOps` | item and warehouse maps, stock and product runs, repairs, bin view, connector credentials |
| `MCApi`, `ApiProofs` | the run of `Idempotency` and `ErpOps`, which share no state, and the theorems about both |

`map` in `PROJECT.json` gives the source lines of every definition.
Definitions introduced by "Variant of" are plausible bugs: each is substituted
for the definition it varies to see that a property notices.

All models of database code share one reading of PostgreSQL at READ COMMITTED:
a step is one statement (or a transaction too short for anybody to fall
between), a statement sees what is committed and what its own transaction
wrote, a statement that meets a locked row or the uncommitted row of a unique
index waits and then looks again, and writes appear at the commit.  Where a
request may die, it dies between two steps.

### Outbox

A row is `deliveryState`, `attempts`, `lastError`, `processedAt` and two
relative clocks: `wait` (until `next_attempt_at`) and `age` (since
`updated_at`).  Every transition to a processed state sets `processed_at` and
`updated_at` in one UPDATE, so one `age` serves both retention cut-offs.  The
claim is two steps, the statement that locks with `FOR UPDATE SKIP LOCKED`
(`TickClaim`) and its commit (`ClaimCommit`), because another replica may claim
in between.  `task` and `seen` are what a replica carries in memory from the
claim across the consumer's await to the mark: `InvokeConsumer` may throw before
or after its effect; `ConsumerThrew`, `NoConsumer` and `MarkDelivered` make the
strict UPDATEs that need `claimed`; `MarkFails` is the mark whose error the
`safeMark*` wrappers swallow.  `Crash` loses the memory and rolls open
transactions back.  `Emit` commits with its business write; the audit
interceptor commits first and emits afterwards, and may lose the event.
`PurgeBatch` is the retention DELETE with its three branches.

### DrainerPool

`tick()` starts all rows of a batch at once.  `invokeConsumer` keeps a
connection while the consumer runs, the consumers of the `erpnext.*` events
take a second connection of the same pool inside it, and the reconciliation
consumer a third inside that, when its bin view reads the report
(`report-backed-bin-view.ts:49`).  `Depth` says how many a row's consumer
takes, `level` how many it has asked for; it may throw out of any.  The pool
(external) serves waiters in order and never times out.

### SaleSync

Each transaction is split at its statements.  A statement locks the rows it
writes, waits for a locked row and then re-evaluates its WHERE clause on the
committed version; writes become visible at the commit.  There are two locks
per sale, the `sales` row and the open entry of `sale_sync_deadletters` (the row
or the slot of its partial-unique index).  BullMQ delivers a job a bounded
number of times, and a stalled job may run while its first run is still alive.
The repair's first read takes no lock, as in the code.

### SaleCapture

A till makes a request under a provenance key and repeats it when it has no
answer; the keys of different tills may coincide.  A capture inserts the sale,
its lines and its `sale.captured` event in one transaction; an INSERT that
meets the key waits or resolves to the row that is there, and the projection
the till is answered with is read back in a second transaction.  A void or
refund is the same with its reversal request.  Once the sale is committed,
`SaleSync`'s job, quarantine and repair may work on it: a captured sale is what
makes their events exist.

### Idempotency

Every await of `IdempotencyInterceptor.handle` separates two steps.  The marker
in Redis holds "1"; the model keeps who wrote it, which the code cannot see, to
say when an unconditional DEL or an expiry hits somebody else's marker.
`degraded` collects the tuples that met one of the faults which lift the
protection by design.  The Postgres mirror of the store is wired to a stub and
left out.

### PostingFeed

The consumer's transaction reads the warehouse map, reads the item map, inserts
and commits: four steps, between which maps change and other transactions
commit.  A sequence number is drawn by the statement and appears at the commit;
an aborted or conflicting INSERT wastes one.  `PullPostings` is the read-only
page after the cursor, and moves the connector's cursor to the page's last row
whether or not each row could be assembled.  An acknowledgement locks, decides
and commits in two steps; a repair locks, asks both eligibility questions again
and re-heads the row.  The connector gives its own reason when it rejects a
posting, and `unmapped_item` is one of those it may give
(`outcome-ack.dto.ts:29-35`); the acknowledgement stores it as it is.
`dismissed` notes the rows rejected so, because such a row was offered, unlike
one the consumer refused.  Connector and map writers are the environment.

### Settlement

A transaction of the console is its start (what its parameters carry, among
them the version and the balance the console had on its screen), one `LockRow`
per receivable it names, and one last step that decides on the locked rows,
writes and commits.  Splitting the locks matters: `submitClaim` locks its rows
in no stated order, so two operations can each hold what the other needs, and
`Rollback` is the victim of the database's deadlock detection as well as a lost
connection.  `ReconcileStart` holds the claim's row from the start on.
`ApplyWrite` inserts the ledger entry and then updates the receivable under a
version guard, as the code does; that the guard never misses is part of what
`AppliedAsSeen` shows.  `Remit` clears all lines or takes the remittance from
them first in, first out: `left` is the running remainder of the code's loop.
Money is a natural number of ten-thousandths; the decimal strings of the API
become such numbers in `toScaledInt`, and the schemas admit no sign.
`owed` and `paid` are the intent's amount and the sum of the ledger, which the
code stores and never compares.

### Inventory

A request is a list of legs with the statements they need: the unit lookup of
`assertUnitMatchesEstablished`, the INSERT, the negative-on-hand probe, the
event.  `movements` holds committed rows, `wrote` those of each open
transaction, and `OnHand` is the sum the code computes on each read.  Two
database constraints do work the code relies on: the exclusion constraint on
(store, product, unit) and the partial unique index on the provenance pair.  A
conflicting INSERT waits, fails or, in a backfill, is skipped; two transfers in
opposite directions can deadlock and one is the victim.  A failed statement
dooms the transaction, also when the service swallows the error.
A count computes its correction in JavaScript: `Number()` of the sum,
`Math.round(x * 1e4) / 1e4` of the difference, `toFixed(4)`
(`inventory.service.ts:776-814`).  `numeric(19,4)` holds more digits than a
double does, so `AsNumber` and `Variance` are exact up to `ExactMax` and
arbitrary beyond it.  The quantities of manual movements, transfers and
counts (`Quantities`) are taken as these conversions leave them.
A backfilled row is identified by its line; the code's provenance pair is
(`sourceSystem`, `externalId`), one per line.

### UnknownItems

A till's submission looks an alias up, looks for a pending row and inserts one,
in that order and without a constraint that holds two submissions apart.  A
reviewer reads the queue (`shown`) and acts on what it read: `dismiss` is one
conditional UPDATE, `link`, `createProduct` and `reopen` take the row's lock
and look at its status under it, `bulkDismiss` reports for each row it did not
win the state it reads afterwards.  Roles and scopes are parameters; a request
outside its scope is answered as if the row did not exist.  Audit records are
enqueued after the commit and may be lost.

### ReadDown

A writer draws a sequence number of `catalog_change_log` in its statement and
commits later.  The service answers a page with several statements: head and
horizon of the log, the rows of the page, the resolution of each.  The till is
the environment: it stages the pages of a snapshot, applies deltas, starts over
when it is told its cursor is beyond the horizon.  The pages of a snapshot give
different cursors and the contract does not say which to keep, so the till
keeps the first or the last.  Writers run at the same time and commit in any
order.  A page of a snapshot fetches one product more than its limit and then
drops those the store does not sell; when they fill the query there is no next
page token and the snapshot ends.  Two history variables say what a till may
not see any more: `unread` the products after such an end, `missed` those whose
change committed at a sequence the till was already past.  Nothing in the
repository removes rows from the log; `Prune` stands for whoever does, between
the till's requests and never past an open change.

### Accounts and PosIdentity

`Accounts` has the state of the dashboard: sessions with an active tenant and
store, memberships with their role and store access, invitations, tenants and
stores, reset and verification tokens.  A dashboard write is the guards' reads,
one step each, and the write; the model notes in the request whether its user
had lost the right before the first read and never regained it (`barred`).
`PosIdentity` adds the till: a redemption counts its attempt, burns the code
and provisions the device; a sign-in, a sign-out and a takeover are the code's
separate transactions, the takeover's idempotency row included, and each
session notes in `floor` the last one its request could have seen when it
looked at the terminal; a batch of audit events is one transaction per event,
in which a `shift.open` inserts its shift under the payload's `shift_id` with
`ON CONFLICT DO NOTHING`, so that two events of one shift make one row; a sale
is the envelope's chain of checks.  Expiry is an action and not a clock,
because only the order of an expiry and the other steps matters.

### ErpOps

Runs of both kinds, results, repair attempts, maps with versions and
credentials are rows in order of creation.  A run is triggered in one
transaction with its event, except the stock run of a mapped store, which waits
in the bin-view feed until the connector's first recorded report emits the
event.  `Process` is the worker's transaction statement by statement: the run's
row, the two sides, the results, the completion.  The worker is a drainer's
consumer: when it throws, the event is claimed again, `MaxAttempts` times in
all, and then dead-lettered; when the drainer dies, or its mark fails, the
event stays claimed and nobody claims it again, as in `Outbox`.  `Lost` names
both ends.  Operators' requests overlap with the workers and with each other.

### Mixes

`Accounts`, `PosIdentity` and `ErpOps` have more operations than TLC can let
loose on one state.  Their constant `Mixes` is a set of records; the initial
state picks one (`mix`), which says what activities take part (`does`), what
rows exist at the start, and how many rows each table may grow to.  An action
carries its activity as a guard.  A run thus covers every pair of activities
that share state in some mix, and no state in which all of them run at once;
the proofs cover those, as they hold for any mix.  In `MCApi` one mix lets only
the idempotency layer run, and it stands still in the others.

`MCDrainer`, `MCLedger` and `MCCatalogue` each check two models that share no
state in one run: `part` says which of them moves, the other stays where it
starts, and fairness is the moving one's.

## 3. The runs

| run | instance | distinct states | shows |
|---|---|---|---|
| `drainer` | 2 fair replicas, a movement event without consumer and an audit event, 3 attempts, 2 distinct delays, batches of 2, 1 fault; or 3 connections, rows whose consumers take 1, 2 and 3, 2 jobs | 228,842 | `SingleHolder`, `HeldRowIsCurrent`, `DeliveredHadEffect`, `StrandedOnlyByFaultOrNoConsumer`, refinement of `EventDelivery` (`ImplementsDelivery`), `EventuallySettled`; `TickEndsOrStarves` |
| `pool_tick` | the same pool and batch | | violated: `TickCompletes` |
| `sales` | tills of 2 stores, 2 keys, 3 requests, 2 sales, 2 transactions, 1 failing run of the job, 1 dead letter per sale | 1,211,790 | `CapturedOnce`, `ReversedOnce`, `PostedOnce`, `EveryRowAccounted`, `QuarantineNeverClobbers` |
| `api` | 1 mix of the idempotency layer: 4 requests, 2 tenants, 1 tuple, 2 bodies; 7 of the ERPNext operations: 2 operators, 2 workers, 2 products, 2 stores, 2 runs, 2 attempts | 484,883 | `AtMostOnce`, `ReplayIsOriginal`, `RunReportedOnce`, `RepairsStand`, `RotationSupersedes`, `AnsweredRunsComplete` |
| `feed_safety` | 2 postings of one product, 2 documents, 2 transactions, 1 repair, 1 incident (failed transaction, redelivery or retired map entry) | 1,671,883 | `FeedInvariant` (one document, nothing the consumer refused is offered, distinct sequences, budget spent first), `OutcomeStands` |
| `feed_order` | 2 postings, 2 writers | | violated: `PendingIsDecided` |
| `ledger` | 2 receivables of a sale, 2 claims, 1 console, 2 stores, a tenant-wide payer and one of the other store; or 2 stores, 1 product in 2 units, a sale with an ad-hoc line, 3 operations; 2 transactions each | 1,586,289 | `MoneyConserved`, `ClearedClaimStands`, `ReconciledOnce`; `OneUnitPerProduct`, `TransfersBalance`, `AppliedAndAnnouncedOnce`, `CountKeepsRacers` |
| `catalogue` | a till, a manager and an owner, 1 barcode, 2 rows, 1 rival alias, 1 fault; or 3 products, pages of 1, 2 writers, 3 changes | 1,141,288 | `ResolvedIsAnswerable`, `SettledByOne`, `ReportsAreTrue`; `StaleIsAnnounced`, `EventuallyMirrors` |
| `snapshot_full` | 3 products, pages of 1, 1 writer | | violated: `SnapshotIsFull` |
| `change_missed` | the same with 2 writers | | violated: `NothingMissed` |
| `identity` | 10 mixes, 2 clients, 1 terminal, 2 codes, 3 users, 2 tenants, 3 stores, 2 uploads that open one shift | 2,317,578 | `BurnedIffProvisioned`, `TwoSessionsOnlyByRace`, `NoSaleOnceBarred`, `ShiftIffOpened`, `StoreOfActiveTenant`, `InvitationSpentOnce`, `BarredNeverWrites` |
| `takeover` | the same | | violated: `OneSessionPerTakeover` |

The type invariants are conjuncts of an invariant of the run (`FeedInvariant`,
`AppliedAndAnnouncedOnce`, `ResolvedIsAnswerable`, `StaleIsAnnounced`,
`BurnedIffProvisioned`, `RunReportedOnce`); for `Outbox`, `SaleSync`,
`SaleCapture`, `Idempotency` and `Settlement` they are proved.  Every inductive
invariant of section 4 was checked on the instance of its run before it was
proved.

Why the bounds are enough.  Two replicas, and two or three transactions on one
row, are the smallest sets in which every pair of different steps can
interleave; two rows give batches, pages and orders something to choose
between; three attempts reach first try, retry and exhausted budget with two
different delays.  Two retries of one receipt need two tills and three requests.
Counters saturate (`age`, `wait`) or are bounded by a named constant
(`MaxFaults`, `MaxRows`, `MaxIncidents`, `MaxRepairs`, `MaxRequests`,
`MaxRefs`, `MaxClaims`, `MaxOps`, `MaxBackfill`, `MaxItems`, `MaxAliases`,
`MaxEdits`, `MaxRuns` and the caps of a mix).

In `ledger` debts of 2, payments of 1 and remittances of 2 meet in every way
that matters: a remittance equal to its claim, below it (over two lines, one
cleared and one reduced or untouched) and above it (after a payment).  There is
one sale, hence no claim over receivables of two stores; that such a claim is
refused is part of the proof (`ClaimCoversOwnDebt`).  On the stock side numbers
are exact up to 1 and the column holds up to 2, so that three equal movements
overflow it, a sum of two is beyond what a count computes exactly, and the sum
read as -3 does not fit `derived_on_hand_at_count`; the ad-hoc line is the row
without a unit to agree on.  In `catalogue` a barcode is submitted and never an
external POS id, whose branch ends in a constraint that always refuses it (see
the observations); two writers make out-of-order commits, three changes a
pruned log and a till behind it, and the third product lets two unsellable ones
fill the query of a page before a sellable one.  The prices that a currency
cannot represent are in the instances of the violated runs, where they are one
of the ways not to be sold.  In `identity` a code takes one attempt
(`MaxAttempts`), so that two overlapping redemptions of it never both pass the
limit; `BurnedIffProvisionedHolds` covers any limit.  The theorems of section 4
do not depend on any of these sizes.

Deadlock is not checked in the passing runs, since in each of them some part
may come to a legitimate end: every request answered, every posting decided,
one of two models standing still.  Where waiting could go on for ever a
property says so: `EventuallySettled`, `TickEndsOrStarves`, `NoLockCycle` of
the proofs about a sale's sync; in `Settlement` and `Inventory` transactions
that wait for each other can always roll back.

Fairness.  `Outbox`: the supervisor restarts a worker, `setInterval` keeps
firing, awaited calls return, time passes; nothing makes a fault happen.  That
awaited calls return is not true of a starved pool, so `EventuallySettled` is
about ticks that `TickEndsOrStarves` lets end.  `DrainerPool`: the event loop
runs what is ready and the pool serves its queue; new jobs are not promised.
`PostingFeed`: a begun transaction goes on, and the connector polls and answers
what it has taken; it is not obliged to start over from the beginning, which
the code cannot make it do.  `ReadDown`: the till keeps polling and an open
transaction ends; catalogue changes are not promised.  `ErpOps`: a drainer that
can claim an event, or go on with its delivery, does so, an operator's begun
request goes on, the connector pulls and reports; nobody is obliged to trigger,
repair, throw or die.  No event is promised to come back from a worker that is
gone: `AnsweredRunsComplete` excepts a run all of whose events are lost, and
only after a fault.

### What the violated runs say

* `feed_order`: two inserts may commit in the opposite order of their sequence
  numbers; a pull in between moves the cursor past the row that is not visible
  yet, and `sequence > since` never returns it.
* `snapshot_full`: `getSnapshot` looks for a next page among the `limit + 1`
  products it fetched, before it knows which of them the store sells
  (`read-down.service.ts:160-184`).  When unsellable products fill that query
  it gives no next page token.  The till takes the snapshot for complete, and
  its cursor is past the changes that would have told it of the products that
  follow: they are missing from the till until somebody edits them
  (`specs/010-.../spec.md:161` promises the full sellable catalogue).
  `StaleIsAnnounced` excepts these products by name (`unread`).
* `change_missed`: a writer draws its change's sequence when the trigger runs
  and shows it when it commits, and the cursor is the largest committed
  sequence (`read-down.service.ts:139`).  Of two writers that commit in the
  opposite order the second's change is behind the till's cursor when it
  appears; no delta names it and the till stays stale
  (`specs/010-.../spec.md:169`, and the doc at `read-down.service.ts:56`).  It
  is the gap of `feed_order` again.  `StaleIsAnnounced` excepts these products
  by name (`missed`), and the run `catalogue` and the proof show that these two
  are the only causes.
* `pool_tick`: with one, two and three connections per row in a batch and a
  pool of three, the rows hold all connections and each waits for one more
  (`drainer.processor.ts:283`, `posting-requested.consumer.ts:85`,
  `reconciliation-run.processor.ts:108`, `report-backed-bin-view.ts:49`).  The
  tick never ends and `inFlight` stays set, unlike
  `drainer.processor.ts:156-157`.  The defaults are a pool of 10 and batches of
  50.  `TickEndsOrStarves` shows that nothing else keeps a tick from its end.
* `takeover`: a request that finds its event's key without a session id is
  answered as fresh (`pos-operators.service.ts:930-933`), whether the first
  request is still between the key and the session or died there.  Both go on
  to issue: two sessions stand for one event
  (`pos-operators.openapi.yaml:188-192` and 554-558).

### Observations without a run

Disagreements between code and documents met while modelling.  Each is a
behaviour the models contain, or the reason for a bound.

Outbox and sales:

* A row left `claimed` by a crash or a failed mark is never claimed again
  (`repository.ts:201`: the claim takes `pending` and `failed`); the header of
  `drainer.processor.ts` (34-37) says it becomes claimable after a restart.
* A repair that read `failed-needs-repair` and then waited for the job's commit
  moves a synced sale back to `failed-retryable`
  (`sale-sync-ops.read-model.service.ts:376`); `sale-sync-status.ts:69` calls
  `synced` terminal.
* Voids and refunds are deduplicated on their provenance only: a second void of
  one sale under a new `externalId` makes a second row and a second reversal
  (`sales.service.ts:446-463`; `specs/008-sales-transaction-capture/spec.md`
  179, 246 and 273).  `ReversedOnce` is per provenance for that reason.
* A differing payload under a known provenance is answered as a replay, and a
  retry from another store as not found.

Inventory and catalogue:

* `flagIfNegativeOnHand` says that it never throws
  (`inventory.service.ts:1339-1341`).  A probe that fails in the database dooms
  the transaction all the same: COMMIT rolls back and the caller is answered
  201.
* `insertMovementRow` looks the unit up again inside the aborted transaction,
  so a lost race for the unit is a 500 and not the 400 it prepares.
* `recordStockCount` promises that after a count "the derived on-hand equals the
  counted quantity" (`inventory.service.ts:764-765`, SC-005).  It does not when
  a movement or another count commits between the sum and the count's commit:
  two overlapping counts both append their correction.  And it need not for
  quantities of more digits than a double holds.  `CountKeepsRacers` says what
  is left: the counted quantity and whatever the racers brought.
* Two overlapping submissions insert two pending rows for one identifier,
  against FR-020 of `specs/005-...`; the alias lookup ignores `source_system`
  (`unknown-items.service.ts:305-324`, `spec.md:171`).
* Linking or creating from an `external_pos_id` row always violates the store
  scope CHECK of the aliases (500).  A link may name a product that is retired
  after the check.  `listForTenant` offers no second page.
* The controller passes no `cursorToken`, so the pages of one snapshot may carry
  different cursors (`read-down.service.ts:24` and 53), unlike FR-012.

Identity:

* An acceptance that meets the unique index is rolled back and its invitation
  is pending again, as `invitations.accept-existing-user.spec.ts:433-440`
  tests; the comment at `invitations.service.ts:209-212` says that it "remains
  `accepted`".  The index (`0000_initial.sql:167-170`) counts revoked rows, so
  a revoked member cannot accept a new invitation (409).
* `confirmPasswordReset` says it revokes all of the user's active sessions "so
  a stolen cookie can't outlive the credential change"
  (`auth.service.ts:343-345`).  A sign-in whose password was checked before the
  reset may create its session after `revokeAll`; a crash between the
  password's UPDATE and `revokeAll` leaves the old sessions; two overlapping
  confirmations of one token both succeed.  What remains, that one UPDATE
  revokes the sessions it finds, holds by its form, so no property states it.
* `NoSaleOnceBarred` and `BarredNeverWrites` are about users who were barred
  when their request began.  A revocation that falls between the checks of a
  request lets it through; neither property calls that an error.
* The membership lookup does not look at the tenant's own state; a `clearStore`
  may undo a concurrent `switchTenant`'s store; two pending invitations of one
  address are possible; PATCH may edit a revoked membership; revoking a
  membership does not touch the operator's tokens, which `NoSaleOnceBarred`
  shows to be harmless for sales.
* A pairing answer that is lost leaves a used code and a terminal without its
  token.  No code moves a shift out of `open`.

ERPNext operations:

* A stock run triggered while its store is mapped waits for ever when the
  mapping is retired before the report
  (`erpnext-reconciliation.service.ts:346-348`, 389-391); one triggered
  unmapped and processed after a mapping exists reports every item `dp2_only`.
* A product run reads its two sides in two statements and may miss or repeat a
  product in between.  A repair does not check that its mapping belongs to the
  result's product.
* An issue that races a rotation meets the unique index uncaught (500), and an
  expired credential that nobody revoked blocks an issue.  A warehouse set
  makes its INSERT without a savepoint.  The bin-view cursor may pass a run
  that commits late.

Events, idempotency, postings and settlement:

* An event type without consumer (`inventory.movement.created` today) ends
  `claimed` and not `failed`: at `MAX_ATTEMPTS` `markFailed` throws and the
  drainer swallows it.  `StrandedOnlyByFaultOrNoConsumer` states exactly this.
* The sale-processing job may move `failed-needs-repair` to `synced`, which the
  table of `sale-sync-status.ts` does not contain.
* A needs-repair failure reported while a retryable dead letter is open is
  dropped by `ON CONFLICT DO NOTHING`.
* `repairSaleSync` re-queues nothing: no event, no job.
* The in-progress marker's tuple has no tenant, unlike section 9.6 of
  `docs/idempotency/strategy.md`; one user's requests to two tenants under one
  key can meet a 425.
* The idempotency tuple has the route template and the fingerprint has the
  body, so path parameters are in neither, unlike section 4 of the same
  document: a key reused for another resource replays the first answer.
* A receivable that a partial remittance clears first in, first out stays
  `claimed` with balance zero: its claim is reconciled, a payment would exceed
  the balance, and a claimed row cannot be claimed again.
  `specs/035-.../spec.md:276` asks for a defined terminal or flagged state.
  `StateMatchesBalance` states exactly this exception.
* A payment on a claimed receivable makes it `partially_applied`, hence
  claimable again while its first claim is pending; the first claim then
  reconciles only if the row is `claimed` again.  `MoneyConserved` and
  `ClearedClaimStands` hold nevertheless.
* `canTransition` has no caller; the writers satisfy it all the same
  (`ValidLifecycle`).
* `repairPosting` keeps `rejection_category` on the re-offered row.
* A connector may acknowledge a rejection with `unmapped_item`, the category of
  the consumer's own refusal (`outcome-ack.dto.ts:29-35`,
  `erpnext-posting.service.ts:303` and 373).  The category alone hence does not
  tell whether a row was ever offered, and `FeedInvariant` says that only of
  rows the connector did not dismiss itself.
* A pending posting whose mapping is retired is left off the page while the
  cursor passes it (a known limitation, `posting-work-item.projection.ts`).

## 4. The proofs

The proofs assume only the named ASSUMEs of the modules: sizes are natural
numbers, the delays grow up to the plateau, the windows are ordered, the "none"
values are no members of the sets they complement, a sale has at least one line
(the capture schema demands it), the products that exist at the start of
`UnknownItems` are numbered from one, so that a created product's number is new,
and a mix of `Accounts` starts with rows the schema admits and with sessions
whose active tenant and store an earlier switch could have left there
(`RowsAssumption`); a mix of `ErpOps` starts with map rows the schema admits,
and what the connector reports names items of the catalogue (`RowAssumption`).

**`OutboxProofs`**, theorem `InvariantHolds`: `Spec => []InductiveInvariant`.
The safety invariants alone are not inductive.  That a held row is still
`claimed` needs to know that a locked row is claimable, and hence that nobody
holds it (`DrainerDiscipline`); that an effect never exceeds the claims needs
`OneEffectPerClaim`; that a failed row has waited needs
`age + wait >= delay` (`ProgressNeedsClaim`).  With them every action is one
lemma.  From the invariant follow `TypeCorrect`, `NoDoubleClaim` (which is both
`SingleHolder` and `HeldRowIsCurrent`), `BudgetKept`,
`DeliveryMeansEffect`, `EmitAtomicity`, `StrandingCauses`, the action properties
`BackoffKept`, `SettledStaysSettled`, and `Refinement`: under the mapping
`deliveryStatus` every step of `Outbox` is a step of `EventDelivery` or a
stutter.

**`SaleProofs`**, theorems `SyncInvariantHolds` and `CaptureInvariantHolds`.
For the sync, `TxnShape` adds what a transaction has locked and read when it is
at a step: a job past its UPDATE holds the sale and the sale is unprocessed, a
quarantine past its INSERT holds the open slot, and so on.  It gives
`PostedOnceAlways`, `StatusMatches`, `RowsAccounted`, `NoLockCycle` (a holder of
the sale's lock waits for nothing, so the waits-for relation has no cycle) and
`NeverClobbers`.  For the tills, `CaptureInvariant` says what a till has
inserted before its commit and what it may still be told: a key has at most one
committed sale or one open capture, an open capture's sale is not on the books
yet, and a reversal under way is of a sale of the till's store.
`CaptureImplementsSync` shows that every step of the composition is a step of
`SaleSync` or leaves its variables alone: the theorems about the sync are thus
theorems about captured sales.  `CapturedOnceHolds` and `ReversedOnceHolds` are
the two properties of the run `sales`, for any number of tills, keys and sales.

**`ApiProofs`**, theorems `InterceptorInvariantHolds` and
`ErpOpsInvariantHolds`.  While a tuple is not degraded, a request past the
marker owns it, a running handler has no record in its way, and an effect is on
record or about to be; `AtMostOnce` follows (`ExecutedAtMostOnce`).
`ReplaysAreOriginal` needs no such proviso.  For the ERPNext operations the
invariant says who owns what is not committed yet: a run being triggered is its
client's alone (`TriggersHold`), a run being processed is running and its
worker's alone (`WorkersHold`: the row lock of the first statement), so results
are written once, with the completion, from the report that was first recorded
(`RunsHold`, `ResultsHold`).  A stock result has one repair at a time and one
attempt that closed it (`RepairsHold`, `AttemptsHold`), a mapping is confirmed
once (`ItemsConfirmedOnce`), and whatever is older than the newest rotation is
revoked (`OlderRevoked`).  `RunReportedOnce`, `RepairsStand` and
`RotationSupersedes` follow for any mix, with all activities at once.

**`LedgerProofs`**, theorem `InventoryInvariantHolds`.  The two constraints the
code leans on hold between committed rows and between those of open
transactions (`NoCompetitors`): a statement that would break that waits or
fails.  `ClientShape` says which legs a transaction has behind it and that its
uncommitted rows are exactly those; `TransferRows` that a transfer's rows are
its legs so far, of opposite sign; `CommittedIds` and `FreshId` that an event
names rows of its own transaction only.  A commit then moves whole requests
onto the books, and `OneUnitPerProductHolds`, `TransfersBalanceHolds` and
`AppliedAndAnnouncedOnceHolds` follow.  `CountInvariantHolds` adds that the
rows are finitely many and that a count's only row is the difference between
what it counted and what it read (`CountRows`), or that there is none because
the difference is zero; its row has an id nobody else has, so a commit adds it
to the sum exactly once, next to whatever others have added since, which is
`CountKeepsRacersHolds`.

**`LedgerProofs`**, theorem `SettlementInvariantHolds`. The safety invariants
need three facts about the transactions under way: a held row is held by one
transaction and still is what that transaction read (`LockDiscipline`), a claim
being reconciled is still submitted and has no second reconciler
(`OperationShape`), and a version stands for a balance (`SeenByVersion`: every
writer of a balance moves the version). One lemma, `WriterDisturbsNobody`, shows
that a transaction which writes only rows it holds leaves all others
undisturbed; each writer is then its own rows' arithmetic. The four invariants
and the action properties `ValidLifecycle`, `AppliedAsSeen` and `ReconciledOnce`
follow. `MoneyConservedHolds` compares three sums over all rows: what was owed,
what is open or paid, what claims have collected. It needs in addition that
nothing is owed on a receivable that is not opened and nothing collected by a
claim that is not reconciled (`LedgerShape`), and that a remittance below its
claim is used up by the loop that distributes it (`UsedUp`).

**`Sums`**.  `SumFunction` of the community modules folds a recursive function
over the subsets of a set, taking elements in an order nobody knows.  The
lemmas show that the equation of the fold has a solution (`FoldExists`), that it
is unique (`FoldUnique`) and independent of the order (`FoldRemoves`), and then
what the ledgers need: one more entry adds its value (`SumGrows`), a sum over
numbered rows is a running sum (`SumAccumulates`), so two columns that change
alike row by row change alike in sum (`SumsMoveAlike`, `SumMoves`).  The
library's induction theorems take an operator as a parameter, which no
installed prover can instantiate; these inductions are over the size of a set
and use the set of sizes for which the claim holds, with its least
counterexample (`LeastNatural`, `Inductive`).

**`PostingFeedProofs`**, theorem `FeedInductiveHolds`.  `FeedInvariant` says
nothing about open transactions, so `FeedInductive` adds it: what the consumer,
the acknowledgement and the repair have read, drawn or locked at each of their
statements (`CreateShape`, `AckShape`, `RepairShape`), that a row has one
writer at a time (`OneWriter`: the row lock, or the unique index for a row not
there yet), that a sequence number is on a row or in one open transaction and
never in two (`DrawnOnce`), and that what a connector holds exists
(`OfferedExists`).  A decision taken on a locked row is thus still true of the
row at the commit, which gives `FeedInvariantHolds`; that only the repair's
transaction may leave a terminal state gives the action property
`OutcomeStandsHolds`.  A reason the connector may have given is on a row that it
has dismissed, which had been offered (`RefusedNeverOffered`).

**`CatalogueProofs`**, theorem `UnknownItemsInvariantHolds`.  A row has one
locker (`OneLocker`); a reviewer who has seen a pending row under the lock still
has it pending at every later statement (`ReconcileShape`, `Unsettled`); the
product a creation is about to insert has no row yet, and a created one exactly
one (`CreatedRows`); what is reported after the commit stays true because a
settled row changes no more except by a reopening, which makes a new row
(`Reported`, `ReportedRows`).  `SettledByOneHolds`, `ResolvedIsAnswerableHolds`
and `ReportsAreTrueHolds` follow.

**`CatalogueProofs`**, theorems `ReadDownInvariantHolds` and
`StaleIsAnnouncedHolds`, for any number of writers, products and changes and
any page size.  `LogHolds` says that a sequence names one change and is newer
than what has been removed, `PendHolds` the same of the changes still to be
committed.  A product is then as the till has it, or announced after the cursor
it has or will be given, or among the `missed` and `unread` ones:
`SnapshotHolds` says this of the pages staged so far, `DeltaHolds` with
`LeftOut` of the changes that a page of deltas names or leaves for the next,
and `TillHolds` of what the till shows between pages.  The case that needs care
is the commit: it disturbs nobody who has not read the product yet, it is
announced to those whose cursor is before its sequence, and the others have
missed it.

**`PosIdentityProofs`**, theorem `IdentityInvariantHolds`.  No operation of the
dashboard or the till holds a lock between its statements, so a request relies
on what the tables never take back: a membership's row is not deleted and an
edit counts (`MembershipGrows`), a session, a device or a login that is dead
stays dead and keeps its owner (`SessionsGrow`, `DevicesGrow`, `LoginsGrow`), a
takeover's key keeps its operator (`KeysGrow`).  `AccountsShape` and
`TillShape` say what each request knows at each step in terms that survive such
growth: a write or a sale that began barred still is, or its membership was
edited since (`BarredShape`, `SellShape`); below a session's floor nothing is
live at its terminal (`ClearUpTo`), so of two live sessions the later one's
request looked before the earlier was issued (`TwoSessionsOnlyByRaceHolds`); a
batch's accepted events are stored and not yet answered (`UploadShape`).
`AccountsOthers` and `TillOthers` show once that other clients' steps disturb
none of it.  What is left of each action is its own request and the table it
writes: a code is used exactly for the device that names it (`Paired`), an
accepted invitation's row bars every other of its user (`AcceptedMadeRow`), an
event is in one batch's answer at most (`AcceptedByOne`).  The three properties
of `Accounts` and the four of `PosIdentity` follow, for any mix: with all
activities at once, which no run covers.

Proved and no longer repeated by a run: the inductive invariants themselves,
`RetryBudget`, `EmittedWithBusinessWrite`, `BackoffRespected`, `SettledIsFinal`,
`StatusMatchesOpenRow`, `LockOrder`, `StateMatchesBalance`, `ClaimedHasReason`,
`ClaimCoversOwnDebt`, `ValidLifecycle` and `AppliedAsSeen`.

Every invariant and action property that a passing run checks is also proved.
Model-checked only is liveness (`EventuallySettled`, `TickEndsOrStarves`,
`EventuallyMirrors`, `AnsweredRunsComplete`, and the violated
`PendingIsDecided` and `TickCompletes`), which is beyond the prover.

## 5. What is not modelled

Read-only listings, request validation, row-level security (each model is one
tenant's rows, except where tenants meet), metrics, logs, token cryptography,
rate limits, session refresh, migrations and contracts.  The audit pipeline
beyond its outbox hop is one INSERT per job; the e-mail worker keeps no state;
the soft-delete sweep only marks rows nobody reads any more.  Of the catalogue
services the writes that reach the change log and the aliases are modelled, the
global catalogue, categories and price history are not.
`OutboxRetentionWorker` is modelled as if it runs, though `main.ts` does not
start it, and so is the inventory backfill, whose processor is not registered
in `worker.module.ts` (`backfill.processor.ts:40-42`).  Retention has no
property of its own: its DELETE is its guard; that it takes no row from under a
replica is `HeldRowIsCurrent`.  The quarantine producer is modelled from its
code and its tests; no live caller exists yet.

## 6. Plan

1. Composition of `SaleCapture` with `PostingFeed` through the promise of
   `EventDelivery`.
2. The catalogue services that are left: categories, price history, the global
   catalogue; the audit fan-out and the sweeps with their clocks.
