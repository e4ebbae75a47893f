# TLA+ verification of the e-commerce platform

This directory keeps TLA+ specifications of the Go service in `src/`, the TLC
configurations that model-check them, and TLAPS proofs about them.
`PROJECT.json` holds the machine-readable side: which definition models which
source lines, the runs, the theorems, the hazards and the mutants.

Paths below are relative to `src/`.

## 1. The system

One API process serves HTTP (gin) and gRPC over one PostgreSQL database and one
Redis. Several processes may run side by side, so every piece of shared state is
in the database or in Redis, and every handler races the handlers of the other
processes.

| component | state it keeps | operations | module |
|---|---|---|---|
| order service, repository, unit of work (`internal/order/service`, `internal/order/repository`) | tables `orders`, `order_lines`, the unique index on (user, idempotency key) | `PlaceOrder`, `CancelOrder`, reads | `OrderLines`, `OrderTx`; lists in `Listing` |
| inventory (`internal/inventory`) | table `inventories` | `ConsumeStock`, `Restock`, `AdjustStock`, `SetStock`, `List` | `OrderTx`; lists in `Listing` |
| order HTTP handler (`internal/order/port/http`) | Redis: rate counter, idempotency record per (user, key) | rate limit, reserve, replay, complete, release | `OrderIdempotency` |
| outbox and publisher worker (`internal/outbox/service`, `internal/outbox/repository`) | table `outbox_events` (status, attempts, owner, due time) | `CreatePending`, `ClaimReady`, `Publish`, `MarkPublished`, `RecordPublishFailure` | `OutboxPublisher`, `EventPipeline` |
| stream consumer (`internal/outbox/consumer`) | Redis stream, consumer group, processed keys, failure counters, dead-letter stream | `EnsureGroup`, `RunOnce`, `ClaimStaleOnce`, `processMessages` | `StreamConsumer`, `EventPipeline` |
| cart (`internal/cart`) | tables `carts`, `cart_lines` | `AddProduct`, `RemoveProduct`, `GetCart` | `Cart` |
| product catalogue and cache (`internal/product`) | table `products`; Redis: one entry per product, one per list query and version | reads, `CreateProduct`, `UpdateProduct` | `ProductCache` |
| server process (`cmd/api`, `internal/server`) | contexts, goroutines, the error channel | set up, serve, probe, shut down, stop loops | `Lifecycle`, `ApiProcess` |
| configuration (`pkg/config`) | the settings | `Validate`, defaults and conversions | `ApiProcess` |
| users and tokens (`internal/user`, `pkg/jtoken`, `pkg/middleware`) | table `users`: password hash, token version; the tokens clients hold | register, login, refresh, change password, profile | `Users` |
| paging (`pkg/paging`, `pkg/dbs`) | none | the page of a list | `Listing` |
| money (`pkg/money`) | none | checked arithmetic in cents | `OrderLines` |
| metrics, logging, responses, generated code | write-only | none that a modelled decision reads | not modelled |

How they interact:

- `PlaceOrder` inserts the order, its lines and an `order.created` outbox row in
  one transaction. The outbox row is the only link to the event side.
- The publisher loop claims outbox rows, appends them to the Redis stream and
  finalizes the row in a second transaction. The consumer loop reads the stream
  through a consumer group and acknowledges what it has settled.
- The HTTP handler guards `PlaceOrder` with a Redis record. The database's unique
  index is the second guard, and the only durable one.
- `lifecycle.Run` runs the HTTP and gRPC services; the HTTP service starts and
  stops both outbox loops.

### What is hard about it, and what correctness means

- **Lock order and conditional updates** (orders, inventory). Transactions update
  several inventory rows and decide on rows read before the lock. Correct: no
  oversell, no leak, no double restock, no circular wait.
- **Retries racing the first attempt** (idempotency). The Redis record expires, is
  deleted by a slower request, or is lost with the process. Correct: one order per
  key; every success names it.
- **Crash between two stores** (outbox, consumer). The effect is in Redis and the
  row or the acknowledgement is not, or the reverse. Correct: nothing is reported
  settled that is not; everything settles in the end.
- **Ownership by timeout** (publisher claims, stream reclaims). Two workers own one
  row. Correct: the shared row still tells the truth about the stream.
- **Cache fills racing invalidations** (products). Correct: a list is never older
  than the version under whose key it is stored; staleness is bounded by the TTL.
- **First use of a row** (cart). Two calls create the same cart. Correct: the calls
  behave as if each were one indivisible step.
- **Whole-row saves without a transaction** (users). A login may save a row that a
  password change has replaced. The documents promise that a change increments the
  stored version and revokes every earlier refresh token; when saves overlap the code
  does not (see findings). Correct nevertheless: which saves alter a password,
  and that a version is over for good once no call is about to save an older row.
- **Two statements per page, many pages per walk** (lists). Correct: what was there
  when a walk began is in it, and pages neither overlap nor leave gaps.
- **Settings checked long before they are used** (configuration). Correct: what
  `Validate` accepts works where it is read.
- **Shutdown in any order** (process). Correct: the process comes down, reports
  the error that happened and leaves no loop behind; "ready" means usable.

`PROJECT.json` lists each of these as hazards at the line where it bites.

## 2. Modules

| module | extends or instantiates | role |
|---|---|---|
| `OrderLines` | | what is computed from order lines |
| `OrderTx` | `OrderLines`, `OrderLedger` | the order database, statement by statement |
| `OrderLedger` | | abstract: one step per transaction |
| `MCOrderTx`, `OrderTxProofs` | `OrderTx` | TLC instances; proofs |
| `OrderIdempotency` | `OncePerKey` | the order handler |
| `OncePerKey` | | abstract: what a client may observe |
| `OrderIdempotencyProofs` | `OrderIdempotency` | proofs |
| `Cart` | `AtomicCart` | the cart transactions |
| `AtomicCart` | | abstract: indivisible cart calls |
| `CartProofs` | `Cart` | proofs |
| `OutboxPublisher` | | the publisher workers |
| `StreamConsumer`, `StreamConsumerProofs` | `Delivery` | the consumers; proofs |
| `EventPipeline` | `OutboxPublisher`, `StreamConsumer`, `Delivery` | both around one stream |
| `EventPipelineProofs` | `EventPipeline`, `StreamConsumerProofs` | proofs about the publisher and about the whole path |
| `Delivery` | | abstract: what the event path promises |
| `ProductCache` | | the product cache |
| `Users`, `UsersProofs` | | accounts and tokens; proofs |
| `Listing`, `MCListing` | | paged lists; TLC instance |
| `MCShop` | `Cart`, `ProductCache` | TLC instance of both |
| `ListProofs` | `ProductCache`, `Listing` | proofs about cached and paged lists |
| `Lifecycle` | | `lifecycle.Run`, the services and the loops |
| `ApiProcess`, `MCApiProcess`, `ApiProcessProofs` | `Lifecycle` | the process from its settings to its exit; TLC instance; proofs |

### OrderLines, OrderTx, OrderLedger

One action is one SQL statement of an open transaction, or one call outside a
transaction, at READ COMMITTED.

| TLA+ | code |
|---|---|
| `status`, `events`, `rows`, `stock` | committed rows of `orders`, `outbox_events`, `inventories` |
| `held[r]` | inventory rows that transaction r has updated, and therefore locks |
| `written[r]` | the order (and event) that transaction r has inserted or cancelled, uncommitted |
| `setting` | `SetStock` calls between their unlocked read and their save |
| `supply` | history only: the net units administrators put on a row |
| `ReceivePlace` ... `CommitPlace` | `OrderService.PlaceOrder`, in the order of its statements |
| `ReceiveCancel` ... `CommitCancel` | `OrderService.CancelOrder` |
| `Fail` | a statement that times out, a lost connection, a dying process: rollback |
| `AdminStep` | the inventory endpoints |

The waits are PostgreSQL's: an update whose predicate already fails on the
committed row does not wait; otherwise it waits for the row lock and decides again
on the version it then finds; an insert waits for an uncommitted row with the same
unique key. A commit may succeed and be reported as an error.

`OrderLines` is the pure part: quantity validation, the total in checked integer
arithmetic (a price is what `ToMinorUnits` makes of it), the sorted stock plan with the
quantities of equal products added up, and the fingerprint as a multiset of lines.
Quantities are counted as sets of units, which lets the proofs use theorems on
finite cardinality instead of recursion.

`OrderLedger` is the specification of the committed database: an order appears with
its event and its stock at once, a cancellation gives the stock back at once.

Left out: `in-progress` and `done` (no code assigns them), the floating-point
rounding of prices, the read `GetOrderByID`.

### OrderIdempotency, OncePerKey

The handler of `POST /orders` for requests with an idempotency key. State: the
Redis record of each key, the rate counter, the durable order of each key, where
each handler is, what each client was told. `OrderService.PlaceOrder` is one step
here, its linearization point, with the outcomes that `OrderTx` shows it to have.
Every Redis call may fail with or without effect, and a handler may die between any
two calls. `OncePerKey` says what clients may observe: a key makes at most one
order, and every success names it for the lines that made it.

Left out: the path without a key (it calls the service directly), request parsing.

### OutboxPublisher

State: each outbox row (status, attempts, owner), which rows are due or stale, which
events are in the stream, and each worker's batch with the copy of
`attempts` it claimed. Claiming is one step (`FOR UPDATE SKIP LOCKED` and the
update in one transaction). Finalizing is two, `getByID` and `Save`, because the
read takes no lock and `db.Save` writes the whole row. `Publish` may append and
report an error. `GiveUp` is a worker that ends its round early or dies in it;
`OutliveTimeout` is a claim that becomes stale while its worker still runs.

### StreamConsumer

State: the log of the stream, the group's last-delivered id, the pending list and
which of its entries are idle long enough, the processed and failure keys, the
dead-letter stream, each consumer's batch and place in `processMessages`. Each Redis
call of `processMessages` is a step; calls fail with or without effect, keys expire,
and consumers die. The event handler is external and may fail.

Left out: the scan limit of XAUTOCLAIM (10 x COUNT) and the cursor that
`ClaimStaleOnce` discards; with fewer pending entries than that they make no
difference. Stream trimming (the code never trims).

### Delivery, EventPipeline

`Delivery` is the promise of at-least-once delivery: an accepted item stays in
somebody's custody until it has an outcome (handled, or in a dead letter): `Spec`, a
safety property. `Settles` adds that it gets one. `Delivery` has two refinements, each an
`INSTANCE ... WITH` of its own:

| `Delivery` | `StreamConsumer` | `EventPipeline` |
|---|---|---|
| `Items` | messages | outbox events |
| `accepted` | the log | rows that are committed |
| `custody` | undelivered or pending | row pending or processing, or an entry undelivered or pending |
| `outcome` | event handled, or message dead-lettered | the same of one of its entries, or row `dead_letter` |

`EventPipeline` extends `OutboxPublisher` and instantiates `StreamConsumer` on the
same stream. `PublishEntry` joins the two: a publish call appends to the log that the
consumers read, also when it reports an error. Faults of both sides come from one
budget. A retried or taken over row arrives as several messages, so the processed
keys and the failure counters see real duplicates. A stale worker may turn a
`dead_letter` row back to pending or published; `Delivery` allows an outcome to be
revoked only together with custody (`Retake`).

### Cart, AtomicCart

One READ COMMITTED transaction per call: insert-if-absent, lock, change one line,
load, commit, statement by statement, with failures and lost commits. `AtomicCart`
has one step per call.

### ProductCache

Cache-aside reads and invalidating writes. The catalogue is the number of committed
writes, so "older" is "smaller". Redis calls may fail with or without effect and
handlers may die. Lost updates between two updates of one product are not visible
at this abstraction, nor is the paging of the cached lists. The module has its own
names for what every specification has (`CacheInit`, `CacheSpec`, `stage`), because
`MCShop` extends it together with `Cart`, and `ListProofs` together with `Listing`.

### Users

A call reads its row in one statement and saves the whole row in a later one. A
hash is its password and whether its cost is below the default; a token is its
claims; signatures and bcrypt are external. `behind`, `changes` and a token's `login`
are history: which calls hold a row that was saved since they read it, how many
password changes were saved, and how many had been when a token's session began.
`changes` stops counting at `MaxChanges`.

The code has no protection against overlapping saves: a login that upgrades an old hash
can put back the password and version that a change has just replaced, and two changes
can store the same version. The documents promise otherwise without exception.
`RevokedRefused` states that promise as it is written, and TLC refutes it. What holds is
stated through `Over(u, v)`: the row's version is later than `v` and no call is about to
save one that is not. Then `v` never comes back, whatever overlaps later
(`RevocationLasts`), and the sessions of `v` run out of access tokens, even those whose
refresh had read the row before the change (`SettledSessionsEnd`). An overlapping save
that was read before the change makes `Over` false until it is done, and if it puts `v`
back, for as long as `v` stays.

### Listing

The lists of a user's orders and of the inventory: `paging.New` in wrapping
arithmetic, COUNT, SELECT, and a client that walks from page to page while rows are
inserted anywhere, leave the filter or move. Product lists go through the cache and
are not in this module. Limits of the code that the properties name: rows with equal
sort values come in any order in every query and may be missed or repeated (there is
no tie-breaker); a row that leaves the filter shifts the next page; an offset beyond
int64 returns the first page. Its names (`ListingInit`, `ListingSpec`, `place`) differ from
those of `ProductCache` for the same reason.

### Lifecycle, ApiProcess

`Lifecycle` is `lifecycle.Run`, both services and both loops. Contexts are Booleans; a
ten-second wait ends by its event or its timer, at any time. The listener goroutine
is folded into its service. `ApiProcess` adds what surrounds it: loading and
validating settings, the pool, the migration, Redis, the readiness probe as four
checks at different times in a changing world, and the publisher's ticker, which
panics on an interval that is not positive. Tables and migration record come and go
independently (a restored record without tables, tables that AutoMigrate has made
without a record), so neither check of the probe makes the other redundant.
`SettingsHold` excepts a number of seconds that overflows `time.Duration`: the code
does not guard against it, and the property shows that it is the only exception.

## 3. Runs

All runs finish within the five minutes allowed; the larger ones take about two.

| run | instance | what it shows |
|---|---|---|
| `order_stock` | 2 placements without keys, 2 cancels, 2 products in both line orders, one doubled, carts that are refused (unknown product, amount, quantity), administrator | stock conserved, one successful cancel, no circular wait, refinement of `OrderLedger` |
| `order_calls` | 2 placements with equal or different overlapping carts, one key or none, 1 cancel, administrator | one order per key, truthful replies, every call answered |
| `idempotency` | 3 requests, 1 key, 2 fingerprints, limit 1 | answers name the key's order, limit, refinement of `OncePerKey`, reservations end |
| `publisher` | 2 workers, 2 rows, batch 2, 2 attempts, 2 faults | a published row is in the stream, dead letters are earned, every row settles |
| `publisher_claims` | 2 workers, 1 row | **violated**, see findings |
| `consumer` | 2 consumers, every log of 2 entries (duplicates, invalid ones), 1 fault | refinement of `Delivery`, every message settles, dead letters are earned |
| `pipeline` | 2 workers, 1 row, 1 consumer, 2 attempts on either side, 1 fault | refinement of `Delivery` from the commit to the handler, every event is delivered |
| `shop` | cart: 3 calls of one user, an existing and an unknown product; cache: 1 detail reader, 2 list readers, 1 create, 1 update | refinement of `AtomicCart`, every cart call answered; list answers fresh for their version, staleness ends |
| `users` | 2 concurrent calls, 1 email, 2 passwords, 1 version step | which saves alter a password, a version that is over stays over, its sessions end |
| `users_revocation` | the same | **violated**, see findings |
| `listing` | 4 rows, 3 sort values, pages of 1 and 2, 1 move | complete and exact walks, empty pages past the end |
| `process` | all settings classes, both loops | settings hold, ready means usable, errors reported, nothing left running, the process ends |

Every property has a mutant in `PROJECT.json`: a plausible bug in one modelled
definition (a dropped guard, a missing event, an early dead letter) under which TLC
finds the property violated in the same configuration. The mutant operators stand
directly before the definitions they replace.

### Bounds and why they are enough

- Two placements are the smallest number that can collide on a key, on a row, or
  wait in a circle; opposite line orders over two products are the smallest circle.
  Two cancels of one order are the smallest double restock. Keys are in `order_calls`
  only, where they matter; the proofs of both runs' safety properties remove these bounds.
- Three requests on one key: one reserves, one deletes the reservation of another,
  one observes the result. The limit is 1 so that it is exceeded.
- One user in the order runs: two users never share a key or an order, and the
  proofs of `OneOrderPerKey` and `ReplyTruthful` cover any number of them.
- Two workers and `MaxAttempts = 2`: one takes over the claim of the other, and a
  retry exists before the dead letter. `MaxFaults` bounds rounds given up and claims
  overtaken; without a bound a worker may die for ever and nothing settles.
- The consumers' entries are read in batches of 1 and reclaimed in batches of 2, so a
  batch with two copies of one event occurs. `MaxFaults` bounds crashes, Redis errors
  and expiries together.
- `pipeline`: one row, because rows meet only in a worker's batch (run `publisher`);
  at most four entries are appended under these bounds, so `MaxMessages = 4`, which
  bounds the entries that `PublishEntry` appends, cuts nothing off.
- `shop`: cart and cache share no state, so a behaviour serves one of them (`side`)
  while the other stays in its initial state; their interleavings would add states and
  no behaviour of either. Two calls create the cart at once while a third waits. Two
  list readers: one stores what the other is given. A create and an update are the two
  ways to invalidate, and two writes make two versions.
- `users`: two calls are the smallest overlap of read and save; one version step
  separates a session before the change from one after it, and one counted change
  (`MaxChanges = 1`) a token issued before it from one issued after.
- `listing`: four rows and pages of two: a full page, a last full page and an empty
  one. `Word = 16` puts the overflowing offset within reach.
- `process`: pool sizes and durations are negative, unset, in range, and for
  durations beyond the type.
- `MaxSupply`, `MaxMessages`, `MaxFaults` bound counters in the guards. Each call,
  request or handler identifier runs once; a retry is another identifier.

`CHECK_DEADLOCK FALSE` in every configuration but those of `Users`: a bounded set of calls
that have all been answered is a legitimate end. Circular waits are checked by
`NoDeadlock` and by the liveness properties, not by TLC's deadlock check.

### Fairness

Weak fairness is assumed only of what the runtime does by itself: a goroutine with
a request to serve keeps running; PostgreSQL grants a lock that stays free; the
publisher and consumer loops tick; due times, stale times, idle times and TTLs are
reached; access tokens expire; a consumer process is restarted. It is not assumed of
clients, administrators, faults, signals or listener failures. In `order_calls` the
administrator may always interfere, so the result does not depend on a quiet system.

### Findings

`publisher_claims` is a disagreement between `docs/order-outbox-pattern.md` and the
code. The document (line 223) says a later claim clears the stale ownership.
`MarkPublished`, `MarkPublishFailed` and `MarkDeadLetter` find the row by id and never
compare `locked_by`, so the worker that lost its claim still finalizes the row under
the new owner's claim. The `publisher` run shows what holds nevertheless: a published
row is in the stream and dead letters are earned.

`users_revocation` is a disagreement with `README.md:338`, `CHANGELOG.md:31`,
`docs/order-production-readiness.md:104` and `docs/production-deployment.md:43`, which say
that changing a password increments the stored token version and that all refresh
tokens issued before are rejected. In the run (`user.go:158`) a login reads a row with an
old hash; another session changes the password; the first login then saves the upgraded
row it had read, with the old version and the old password, and RefreshToken accepts a
token that the change had revoked. Two changes that have read the same row
(`user.go:134`) break the promise without an old hash: the second stores the version
that the first has stored, so a token issued between the two saves survives the second.
The `users` run and `RevocationsLast` show what holds nevertheless.

A remark on line 249 of `docs/order-outbox-pattern.md` (duplicates of processed events create no
failure counts and no dead letters): the processed key is checked before the handler
only, so with a handler that can fail, a copy that another consumer overtakes may
still be counted and dead-lettered. The shipped `LogEventHandler` never fails, so the
server as it is does not reach this case; `ImplementsDelivery` covers that the
message is not lost in it.

## 4. Proofs

All theorems are checked by TLAPS (SMT and Zenon for the steps, LS4 for the
temporal conclusions), for every value of the constants allowed by the assumptions.

| module | theorems |
|---|---|
| `OrderTxProofs` | `Invariance`, `TypeCorrect`, `Conservation`, `Idempotency`, `EventsMatchOrders`, `TruthfulReplies`, `SingleCancellation`, `DeadlockFree`, `Refinement` (implements `OrderLedger`), `MultiplyExact`, `AddExact` |
| `OrderIdempotencyProofs` | `IdempotencyInvariance`, `IdempotencyTypeCorrect`, `RecordsTrue`, `AnswersTrue`, `LimitHolds`, `OnceRefinement` (implements `OncePerKey`) |
| `CartProofs` | `CartInvariance`, `CartTypeCorrect`, `ChangeIsCurrent`, `CartRefinement` (implements `AtomicCart`) |
| `StreamConsumerProofs` | `ConsumerInvariance`, `ConsumerTypeCorrect`, `ConsumerDeadLettersEarned`, `NoMessageLost` (implements `Delivery`) |
| `EventPipelineProofs` | `PublisherInvariance`, `PublisherTypeCorrect`, `PublishedIsInStream`, `DeadLettersAreEarned`, `PipelineInvariance`, `NoEventLost` (implements `Delivery` end to end) |
| `ListProofs` | `CacheInvariance`, `ListAnswersFresh`, `ListingInvariance`, `ListingTypeCorrect`, `WalksComplete`, `WalksExact`, `PagesPastTheEndEmpty` |
| `UsersProofs` | `UsersInvariance`, `UsersTypeCorrect`, `PasswordsOnlyChange`, `RevocationsLast` |
| `ApiProcessProofs` | `LifecycleInvariance`, `ProcessRunsLifecycle` (implements `Lifecycle`), `ErrorsReported`, `NoLoopLeft`, `ProcessInvariance`, `ProcessTypeCorrect`, `AcceptedSettingsHold`, `ReadyAnswersTrue` |

**Assumptions.** `LinesAssumption`: products are finitely many numbers (only their
order matters, as in `sort.Strings`), carts have 1 to `MaxLines` lines, prices are
between 0 and the integer limit or invalid.
`CallsAssumption`: finitely many placements, distinct from cancellations, and the
"none" values are none of the real ones. `IdempotencyAssumption`, `CartAssumption`:
the same for their modules; cart quantities are positive. `PublisherAssumption`,
`ConsumerAssumption`: finitely many workers and consumers, positive batch sizes and
attempt limits; rows are numbers, their place in creation order.
`PipelineAssumption`: the same for the consumers of the pipeline. `ListingAssumption`:
finitely many rows, fewer than the largest int64 (no table holds 2^63 rows), integers
for pages, limits and sort values. `UsersAssumption`,
`NoneAssumption`: "none" is no email, password, row or request.
`LifecycleAssumption`: the enabled loops are among the two that exist.
`ProcessAssumption`: the word size is even, the default pool sizes and the default
duration are consistent, as they are in `pkg/config`. TLC evaluates each of them in
the runs.

**The order database.** None of the properties is inductive by itself. `Inv` adds:

- `HeldExclusively` and `StockReserved`: what an open placement consumed is still on
  the committed row when it commits, because nobody else can lock the row. Without
  them `CommitPlace` could make stock negative.
- `HeldInOrder`: rows are locked in ascending order and the plan is complete at
  commit. The first half gives `DeadlockFree`, the second `Conservation`, which needs
  that a commit takes exactly the units of its order.
- `WrittenSoFar`: a commit publishes the order and its event together.
- `KeyReserved`: an uncommitted order excludes its key; a call that met the unique
  violation will find the order it has to replay.
- `OrderSettled`, `CancelReserved`: a committed order is not committed again; a
  cancellation that has marked the order still owns a live order at commit, so the
  unlocked read in `CancelOrder` does no harm.

`Conservation` counts units: committing an order adds a disjoint set of
`PlanQuantity` units to `SoldUnits`, cancelling removes it. `DeadlockFree`: take the
call of the group that holds the greatest held product; whatever it waits for is
larger, so nobody in the group holds it. Key and order-row waits are for
transactions that wait only for inventory rows, or for nothing. `Refinement` maps
each commit to a ledger step and every other action to a stutter.

**The order handler.** `Inv` is `TypeOK`, `RecordTrue`, `AnswersAgree` and
`CompletionTrue`. The argument: the durable order of a key, once made, never changes
(the unique index, proved in `OrderTxProofs`), so whatever is deleted, expires or is
overwritten in Redis, a handler only ever stores or answers that order.
`CompletionTrue` carries the fact from the service call to the later write.

**The cart.** `Inv` is `TypeOK`, row-lock exclusion, "a change is made under the
lock", and `ChangeCurrent`: what the transaction loaded is what the commit leaves.
The committed cart cannot move under a lock holder, so the commit is one step of
`AtomicCart`.

**Money.** `MultiplyExact` and `AddExact`: for every limit, the division test of
`money.Multiply` and the difference test of `money.Add` refuse exactly what does not
fit, so an accepted total is the true one.

**The rate limiter.** `LimitHolds` adds to the handler's invariant that the admitted
requests are finitely many and no more than the counter; an increment that failed
after taking effect only widens the gap.

**The publisher.** `PublishedInStream` is inductive with the types: a worker gets past
`Publish` without an error only if the entry is there, and nothing leaves the stream.
`DeadLetterEarned` is not. The decision compares the attempts of the copy that was
claimed, and a save overwrites what others have counted. `AttemptsCovered` says why
it still holds: the attempts in a row, and those a finalizing transaction has read,
plus the failures that workers have yet to save never exceed the failed calls; and a
claimed copy is below the failed calls by at least the worker's own failure, so
`copy + 1 >= MaxAttempts` means `MaxAttempts` failures.

**The consumers.** `Inv` adds `OnlyDelivered` (consumers work on delivered messages),
`WorkAccounted` (a processed key, a message about to be marked or acknowledged stands
on a success or a dead letter) and `FailuresCovered` (a counter plus the errors not
counted yet is at most the errors raised; expiry only lowers it). `NoMessageLost`
goes through the actions: `XADD` is `Accept`, the handler's success and the
dead-letter write are `Settle`, an acknowledgement is `Settle` of nothing with a
release, everything else stutters. That a read moves exactly the window it returns
from undelivered to pending is lemma `ReadWindow`.

**The whole event path.** `PipelineInv` joins the invariants of the publisher and of the
consumers, the latter through an instance of `StreamConsumerProofs` on the shared log,
and adds two facts that neither side has. `StreamPublished`: the publisher's stream is
the set of events in the log, all of committed rows that some worker claimed, and the
handler has seen no others. `MessagesKept`: every entry is undelivered, pending or has
its outcome; it follows for each consumer step from the lemma `ConsumeSettles` that
`NoMessageLost` uses too. A step of one side leaves the other side's invariant alone,
and `PublishEntry` is both a publish call and an `XADD`. In `NoEventLost`, the commit of
the row is `Accept`; a save of the row is a release, a dead letter or, by a stale
worker, `Retake`. That a row may leave custody as published rests on
`PublishedInStream` and `MessagesKept`: one of its entries is still in custody or has the
outcome. A further entry of an event that was handled takes it back into custody.

**Walks over paged lists.** The rank of a row is the number of rows that sort before it.
`WalkCovers`: in a walk from the first page, during which no row left or moved, every
row of the start with a sort value of its own and a rank below the end of the pages
given so far has been given. One page advances that end by exactly the page
(`GetPageWalks`): the offset fits int64 because no page so far lies past the end of the
table (`SkipExact`), and a row's rank says whether it is among the skipped rows, on the page
or behind it (`PageRanks`). An insert only raises ranks (`RankGrows`), so the walk may
see a row twice but passes none over; a page that is not full reaches the end of the
table, so nothing is left. `WalkInOrder` is the converse while nothing is inserted, and
gives `WalksExact`. `PagesPastTheEndEmpty` needs `CountCurrent` (the COUNT belongs to the
table as it is) and that the pages counted hold all rows (`PagesHold`).

**The product cache.** `CacheInv` adds `WritesCounted` (a version counts no write that is
not committed) and `StoredFresh` (a list that is stored, or about to be, under a
version contains all writes that version counts, because it was read after the
version had begun).

**Users.** `CopyCurrent`: only logins and changes save; each saves the password of its
request, and the rest follows from the row as it is, unless the row was saved since
it was read (`behind`). That gives `PasswordsOnlyChange`. `RevocationsLast` is a stability
proof: `Over(u, v)` survives every step, because a call that starts to save has read a
version later than `v` and never lowers it, a call that saves held a later one, and a
registration does not touch a row that is there. It needs no invariant beyond types
and complete requests, so it holds however many saves overlap.

**The process.** `FailuresReported`: a service that fails is on its way out, and once it is
done its error is in the channel or has been taken. `LoopsCovered`: a running loop has
its deferred stop ahead of the HTTP service, or was given up by it. Both are
invariants of `Lifecycle`, and `ProcessRunsLifecycle` carries them to the process.
`SettingsGood` and the lemmas on durations (`WrapRange`, `WrapFits`) say that validated
settings that fit their type are positive after conversion. `ProbeSound`: a probe
holds everything that has been usable since it began, the tables among it before it
looks at the migration record.

**Only model-checked.** The liveness properties (`EveryCallAnswered`, `ReservationEnds`,
`EventSettles`, `MessageSettles`, `EventDelivered`, `CartCallAnswered`, `EventuallyFresh`,
`SettledSessionsEnd`, `ProcessEnds`): fairness and `ENABLED` are out of reach of the installed
provers. Every safety property of a passing run has a theorem. `TypeOK` of `Cart` and
`OutboxPublisher` and `CacheTypeOK` of `ProductCache` are proved with the invariants and are in no run.

## 5. Not modelled

- Metrics, logging, response formatting, copying: no modelled decision reads them.
- Generated protobuf and swagger code.
- Two updates of one product (`product.go:95`): each saves all columns it read, so one
  is lost. Nothing in the repository promises that they merge, and the cache model
  does not depend on it.
- The random order code (`generator.go:44`): the shared generator is used without
  synchronization; no decision reads the code.
- Floating-point rounding of prices, bcrypt, JWT signatures: external.

## 6. State of the work

Order database, order handler, outbox publisher, stream consumer, their composition,
process, product cache, cart, users and lists are modelled, checked and, as far as
safety goes, proved.

What would come next: the paging of cached product lists, as a composition of
`ProductCache` and `Listing`; and the columns of a product, to state what two
concurrent updates of it may lose.
