# Formal models of the products service

TLA+ specifications, TLC model-checking runs and TLAPS proofs for the
`products` service in `src/products`: the HTTP write path with its
transactional outbox, the outbox worker that publishes to RabbitMQ, the
retry engine with its backoff, and the path over the broker to the
`notifications` consumer in `src/notifications`.
They are kept beside the Go code. `PROJECT.json` holds the machine-readable
index:

- components and their status;
- runs and what each one asks;
- mutants;
- the map from each TLA+ definition to the Go lines it translates;
- findings, hazards and theorems.

## 1. The system

| Part | Code | State | Operations |
|---|---|---|---|
| HTTP handlers | `handler/http_handler.go` | none | `CreateProduct`, `DeleteProduct`. Each reads the `Idempotency-Key` header, which is `""` when the header is absent. |
| Use case | `usecase/product_usecase.go` | none | `CreateProduct`. `DeleteProduct` runs `GetByID` on the pool first, outside any transaction. |
| Application service | `application/product_service.go` | none | `ExecuteInTransaction`: `retry.Do` around Begin, `fn` and a deferred Commit or Rollback. `CreateProductWithEvent`, `DeleteProductWithEvent`, `publishDomainEventsBatch`. |
| Unit of work | `repository/unit_of_work.go` | the transaction | `Begin` binds the repositories to `tx` only through a `TransactionalRepository` type assertion; `Commit`; `Rollback`. |
| Product repository | `repository/postgres_product_repository.go` (wrapped by `metrics_decorator.go`) | table `products`, sequence `products_id_seq` | `Create`, `GetByID`, `Delete` (0 rows affected gives `ErrProductNotFound`). |
| Outbox store | `repository/outbox_repository.go`, `queries.go` | table `outbox`: status, retry_count, created_at, idempotency_key (unique) | `SaveEventsBatch` (INSERT … ON CONFLICT DO NOTHING), `GetPendingEvents` (`status='pending'` … FOR UPDATE SKIP LOCKED), `MarkAsPublished`, `MarkAsFailed`, `MoveToDLQ` (retry_count+1 in SQL). |
| Outbox worker | `infrastructure/messaging/outbox_worker.go` | run loop; per-row goroutines; semaphore | `Start`, `Stop`, `run`, `processPendingEvents`, `processEvent`, `publishEventWithRetry`, `handlePublishFailure`. |
| Publisher | `infrastructure/messaging/publisher.go` | one AMQP connection and channel | `Publish`, with no publisher confirms and no reconnection. |
| Retry engine | `infrastructure/retry/retry.go` | none | `Do`, `calculateBackoff`. |
| Consumer | `src/notifications/.../consumer.go` | an exclusive, auto-delete, server-named queue; one consume goroutine | `NewRabbitMQConsumer`, `Start`, `handleMessage` (Ack, or Nack without requeue), `Stop`. |
| Rate limiter | `middleware/rate_limiter.go` | map client IP → admitted request times, under one mutex; a cleanup goroutine | `RateLimitMiddleware`/`allow`, the ticker sweep, `Stop`. |
| Not wired | `circuitbreaker/circuit_breaker.go`, `messaging/listen_notify.go` | | Never constructed by the service. |

How the parts interact:

1. A request's transaction writes a product row and an outbox row.
2. Every replica of the service runs one worker. On each tick the worker claims up to `batch_size` pending rows.
3. The worker publishes each claimed row, up to `max_retries+1` attempts, with at most `concurrency` rows at a time.
4. It then records the outcome: `published`, `failed`, or `dlq` past `max_retries`.
5. The consumer receives the events.

Things that make the system hard to get right:

- concurrent requests sharing a key or a product;
- retries of a whole transaction;
- failed statements and commits;
- process crashes;
- several replicas polling one table;
- bus outages.

## 2. Modules

### `OutboxDispatcher.tla`: the outbox table and the worker

**Constants**
- `Rows`.
- `Workers`: one per replica.
- `BatchSize`, `Concurrency`, `MaxRetries`.
- `MaxFaults`: a budget of bus failures and failed UPDATEs.
- `MaxRestarts`: stops and crashes.

**Variables**
- The store: `status`, `retryCount`, `createdAt`.
- The bus: `delivered`, a per-row delivery count. Counting deliveries instead of keeping a queue lets properties talk about duplicates and losses.
- Each worker: `worker`, which is idle, busy or stopped.
- Each goroutine `task[w][r]`: sem → publish → mark | fail.
- `snap[w][r]`: `event.RetryCount` as the poll read it.
- `attempt[w][r]`: the loop index of `publishEventWithRetry`.

**Actions**, one per handler or step:

| Action | Code |
|---|---|
| `ProcessPendingEvents` | The tick. The SELECT error path and the empty result are one no-op disjunct. |
| `AcquireSemaphore` | `sem <- struct{}{}`. |
| `PublishAttempt` | One loop iteration of `publishEventWithRetry`. |
| `MarkPublished` | The success path of `processEvent`. A failed UPDATE is only logged. |
| `HandlePublishFailure` | Both branches, including a failed `MoveToDLQ` and its `markEventAsFailed` fallback. |
| `FinishBatch` | `wg.Wait`. |
| `Stop` | Taken only from `run`'s select. |
| `Crash` | Environment. |
| `Start` | Environment. |
| `SaveEvent` | A write transaction commits. |

Modelling choices:
- `PendingBatch` is the LIMIT/ORDER BY of the SELECT, computed from insertion stamps.
- Its locks are not modelled, because the SELECT runs outside a transaction and they end with it.
- The `ctx.Done` branches are left out: the worker's context is `context.Background()` (`bootstrap/init_messaging.go:34`), so they are dead code.

### `ProductWrite.tla`: the write path

**Constants**
- `Requests`.
- `KindOf[q]`: create or delete.
- `KeyOf[q]`: the header value.
- `MaxProductId`: bounds the sequence.
- `MaxAttempts`: the service's `retryConfig`, which is 3.
- `MaxFaults`.
- `ProductRepoInTx`: whether the product repository is bound to the transaction.
  - FALSE is the deployed wiring. Bootstrap passes a metrics collector, so the repository is a `MetricsProductRepositoryDecorator`, and the decorator does not implement `TransactionalRepository`.
  - TRUE is a unit of work built without metrics.

**Variables**
- The committed tables: `createdIds`, `deletedIds`, `outbox`.
- `nextId`: `nextval`, which is never rolled back.
- Per request:
  - `pc`: lookup, begin, write, outbox, commit, done;
  - `pid`;
  - `attempt`;
  - its open transaction's writes `txIns`, `txDel`, `txOut`;
  - `result`;
  - `domainEvents`: the ids of the events recorded on the request's `Product` value and not yet cleared, oldest first. `recordDomainEvent` appends (`RecordCreatedEvent`, `RecordDeleteEvent`); `ClearDomainEvents` empties it after a successful `SaveEventsBatch`. The `Product` value outlives a rolled-back attempt, so nothing else resets it.

**Actions**

| Action | Code |
|---|---|
| `Lookup` | `GetByID`, then `RecordDeleteEvent` for a delete. |
| `Begin` | |
| `CreateProduct` | `Create` with a fresh `nextval` id, then `RecordCreatedEvent`. |
| `DeleteProduct` | Blocks on another transaction's row lock. Otherwise it deletes, or gets not-found, which the retrier retries. |
| `SaveEventsBatch` | Blocks on another transaction's uncommitted row with the same key. Otherwise it skips a committed key or inserts the request's rows; `ON CONFLICT DO NOTHING` keeps only the first, oldest event of the buffer (`RowOf`). |
| `Commit` | A failed commit rolls back, but the request still reports "ok" (see the findings). |
| `Crash` | Environment. |
| `Finished` | Terminal stutter. |

`FailAttempt` is the shared error path: Rollback, then `retry.Do` either starts the next attempt or gives up.

### `RetryBackoff.tla`: the two retry loops and their backoff

- **Constants:** `Width`, the bits of `time.Duration`, and `Configs`, a set of records `[loop, limit, base, max, initial]`. `loop` is `"worker"` for `publishEventWithRetry` (limit = `maxRetries`, so `limit + 1` attempts) or `"do"` for `retry.Do` (limit = `MaxAttempts`).
- **Operators:**
  - `Signed`: the two's-complement reading of a Width-bit word.
  - `Shifted(base, k)`: `base * time.Duration(1 << uint(k))`, which is 0 for a shift of `Width` bits or more.
  - `Capped`.
  - `WorkerBackoff`, `CalculateBackoff`: the two delay functions as the code computes them.
  - `IntendedDelay`: the reference in unbounded integers, which is the spec's backoff law.
- **Variables:** `cfg`, `calls`, `pc` (call, sleep or done), `backoff`, `result` (none, ok, exhausted or cancelled).
- **Actions:**
  - `Call`: an attempt that succeeds, or fails with the last-attempt break, or goes to sleep with the computed delay.
  - `Sleep`: `time.After` fires.
  - `Cancel`: `ctx.Done` in the select, or `ctx.Err()` before an attempt of `Do`.
  - `Done`: terminal stutter.
- A loop whose limit allows no attempt returns its error at once (`Init`).
- `OUTBOX_MAX_RETRIES` is read with `getEnvAsInt` and never validated, so any integer is a possible limit.

### `BusDelivery.tla`: publisher, broker and consumer

- **Constants:**
  - `Events`, the outbox events.
  - `Foreign`, messages of other producers on the same fanout exchange.
  - `KindOf`: product, unknown type, or malformed JSON.
  - Bounds `MaxOutages`, `MaxFaults`, `MaxRestarts`.
- **Variables:**
  - `outbox`: pending or published.
  - `pubConn`: the publisher's single connection.
  - `broker`.
  - `cons`: consuming; detached, when the goroutine returned after its delivery channel closed; or down.
  - `queue`: the exclusive queue, as a sequence.
  - History variables `routed` and `handled`. `handled` holds every message of a product event type that the consumer logged and acked, whoever sent it.
- **Actions:**
  - `PublishOk`: Publish, then the broker routes the message to the queue if it exists.
  - `PublishUnconfirmed`: Publish returns nil but the frame is lost with the connection.
  - `PublishFail`: a closed channel.
  - `ForeignPublish`.
  - `Handle`: `handleMessage` on the head of the queue.
  - `BrokerStop` and `BrokerStart`: every connection closes, and the exclusive queue is deleted.
  - `ConsumerStop` and `ConsumerStart`: `Stop`, then a new process runs `NewRabbitMQConsumer` and `Start` with a fresh empty queue.
  - `Idle`: both services polling with nothing to do.
- The dispatcher is reduced to "retry every pending event until Publish returns nil". That is its most favourable behaviour, so a violation here is not an artefact of the retry budget.

### `OutboxRowLifecycle.tla`: the abstract row lifecycle

- The status diagram the outbox promises (spec section 3), written from the spec.
  - A committed row is `pending`.
  - While pending it may be delivered any number of times.
  - It leaves pending as `published` (only after a delivery), `failed` or `dlq`.
  - A `failed` row may still become `dlq`.
- `OutboxDispatcher` instantiates it with the identity mapping on `status` and `delivered`. `LifecycleRefined` is that instance's `Spec`.

### `AtomicProductWrite.tla`: what the write path promises

- The promise of `CreateProductWithEvent` and `DeleteProductWithEvent` to the two tables (spec sections 3, 4.4 and 8), written from the spec.
  - Variables: `createdIds`, `deletedIds` and `outbox`.
  - `CreateWithEvent(k, id)` inserts an id that was never inserted, together with its `PRODUCT_CREATED` row under key `k`.
  - `DeleteWithEvent(k, id)` deletes a live id, together with its `PRODUCT_DELETED` row.
  - Both need a key that no committed row has (`KeyUnused`).
  - Failed statements, failed commits and crashes are stutters: they leave no trace.
- `ProductWrite` instantiates it with the identity mapping on the three tables. `AtomicWriteRefined` is that instance's `Spec`. The write path does not implement it: a retried create commits the stale event of its rolled-back attempt (run `write_create_retry`, finding 11).

### `RateLimiter.tla`: the sliding-window rate limiter

- **Constants:** `Clients`, `Limit` (100 in `init_middleware.go`), `Window` in ticks (one minute) and `MaxTime`.
- **Variables:**
  - `now`: `time.Now`, a tick counter, since Go's monotonic clock never goes back.
  - `requests`: a function whose domain is the clients that have an entry. A deleted entry and an empty slice differ in the code (the nil path), so they differ here.
  - `sweeper` and `stopChan`.
  - `verdict`: the last middleware decision.
  - `admissions`: a history of admitted times per client.
- **Actions:**
  - `RateLimitMiddleware(c)`: the whole of `allow` and the middleware's 429 or `c.Next()`.
  - `Tick`.
  - `Cleanup`: the ticker sweep.
  - `Stop`: `stopOnce` closes the channel.
  - `CleanupOnStop`: the final sweep, after which the goroutine returns.
- Every operation holds `rl.mu` throughout, so each is one atomic step.
- The ticker's one-minute period is not modelled: a sweep may happen at any moment. A sweep only drops expired entries, so this allows more behaviours, not fewer.

### `MC_*.tla` and the `.cfg` files

- These instantiate the constants with model values: three rows and one or two workers for the dispatcher, and three requests for the write path.
- The key and kind assignments are definitions in `MC_ProductWrite`.

### `OutboxDispatcherProofs.tla`, `ProductWriteProofs.tla`, `RetryBackoffProofs.tla`, `BusDeliveryProofs.tla`

These modules hold the TLAPS proofs (section 5).

## 3. Runs

Every pass run finishes in seconds. Pass runs check deadlock: `Finished` and the idle worker's no-op tick are the only stutters.

| Run | Result | What it shows |
|---|---|---|
| `dispatch_retry` | pass | One replica, three rows, a batch of 2 (so a second tick is needed), one semaphore slot, one retry. Bus failures, a failed UPDATE, a stop and a crash all occur. Properties: `TypeOK`; `PublishedImpliesDelivered`; `PendingEventuallyResolved`; `LifecycleRefined` (the dispatcher implements the abstract row lifecycle). |
| `dispatch_dlq` | pass | `MaxRetries = 0`, the only setting where the DLQ is reachable (see the theorem). Covers `MoveToDLQ` failing, with and without its fallback. Checks `DLQConsistency`. |
| `dispatch_bus_outage` | violation | The bus fails for two attempts and then works. The row is marked `failed` and never polled again, so it is never delivered. |
| `write_create_retry` | violation | Product repository bound to the transaction, distinct keys, up to 3 faults. Checks `AtomicWriteRefined`. TLC's trace: the first create's outbox insert fails and rolls back; the retry creates id 2 with the buffer still holding id 1's event; the commit writes a `PRODUCT_CREATED` row for id 1, which was never committed (finding 11). |
| `write_replay_concurrent` | pass | Two creates with one key, run concurrently. Checks `RequestsComplete` under fairness: the key wait always ends. |
| `write_concurrent_delete` | pass | One create and two deletes that may name the same product, in transactions, with up to 3 faults. Checks `TypeOK`, `SingleDeleteEvent`, `DeleteAtomicity` (the committed `PRODUCT_DELETED` rows name exactly the committed deletes, through rollbacks and retries) and `RequestsComplete`. |
| `write_deployed` | violation | The deployed wiring leaves a committed product with no event once all requests have returned (`NoLostEvents`). |
| `write_commit_error` | violation | A failed commit is reported as success (`SuccessMeansCommitted`). |
| `limiter_window` | pass | Two clients, limit 2 per window of 2 ticks, 5 ticks, sweeps and `Stop` anywhere, symmetry over clients. Checks `TypeOK`, `WindowLimit` (no client ever has more than `Limit` admissions in one window, across sweeps that delete its entry) and the action property `RefuseOnlyAtLimit` (a 429 goes only to a client at the limit). |
| `backoff_in_range` | pass | 16-bit durations in ms. `Do` with limits 0..5 under the start-up config of the publisher and `InitDatabase` (base 2000, max 10000, initial 1000) and 0..3 under `DefaultRetryConfig` (base 100, max 1000, initial 50). The worker with `maxRetries` -1..6. Checks `TypeOK` and `BackoffMatchesReference` (every sleep is the capped doubling delay). |
| `bus_faults` | pass | Three events, a malformed and an unknown foreign message, one broker outage, one lost publish, one consumer restart. Checks `TypeOK` and `QueueDrains` under fairness: whatever is in the consumer's queue leaves it. |
| `bus_restart` | violation | One broker outage: pending events are never published again (`EventuallyPublished`). |

Each property of a pass run has a mutant in `PROJECT.json`: a plausible bug in the mapped definition that TLC catches under the run's own configuration. The mutants are:

- an off-by-one retry loop;
- the last publish error dropped;
- the wrong status constant;
- `MoveToDLQ` without its `+1`;
- an outbox repository not bound to the transaction;
- a failed Commit that leaves the transaction open;
- `Delete` without its RowsAffected check;
- a backoff shift one attempt ahead;
- a loop that makes its first attempt whatever its limit;
- a Publish that marks the row without routing;
- a Nack with requeue;
- a consumer without its event-type check;
- a claim without `WHERE status = 'pending'` (for the refinement);
- the limiter's refusal test with `>`;
- the limiter counting an entry exactly one window old;
- the limiter storing `windowStart` instead of `now`.

**Why these bounds are enough.**
- Three rows with a batch of two make a poll leave a row for the next tick.
- One slot makes goroutines queue on the semaphore.
- Two faults let a row exhaust `MaxRetries = 1`, or one publish and one UPDATE fail.
- One restart covers both a clean stop and a crash mid-batch.
- On the write path, three requests are enough for two to race on a key or a row while a third runs.
- `MaxProductId` is at least attempts × creates, so the sequence never runs out.
- The backoff runs scale time.Duration to 16 bits in milliseconds, so TLC's 32-bit integers can hold the products. The wrap then happens at attempt 7, against attempt 35 in the deployed 64-bit build with the 1 s default base: `10^9 * 2^34 mod 2^64` read as signed is `-1266874889709551616` ns. From attempt 65 on the shift is 0. The in-range run covers every limit below the wrap, zero and negative limits included.
- The bus runs use three events and two foreign messages, so a poison message can sit in front of an event. One of each fault is enough to close the publisher's connection, delete the queue and restart the consumer.
- For the limiter, a window of 2 ticks over 5 ticks lets entries expire mid-run. A limit of 2 makes refusals and the boundary entry reachable, and two clients let one be swept while the other is not.
  - A limit of 0, which the code never uses, would break `WindowLimit` through the nil-entry path. That path admits the first request without looking at the limit.

## 4. Fairness

Weak fairness is assumed for:
- each worker's tick;
- `FinishBatch`;
- each goroutine step;
- `Start`;
- each request's steps.

Why the code justifies it:
- `run` is driven by a ticker.
- Every goroutine runs until it ends: no code path blocks forever, since the context is never cancelled.
- A request runs on its own goroutine until it returns.
- WF on `Start` stands for the deployment restarting a stopped process.
- Writers, stops, crashes and faults get no fairness.
- Faults are drawn from a finite budget, which is how "the bus and the database are eventually available" enters the liveness runs.
- In `BusDelivery`, weak fairness is assumed for:
  - `PublishOk` of each event: the dispatcher's ticker retries every pending row;
  - `Handle`: the consume goroutine reads while it runs;
  - `BrokerStart` and `ConsumerStart`: operators restart what stopped.
- `PublishOk` requires an open connection. Nothing in the code re-opens one, and that is exactly what `bus_restart` shows.

## 5. What is proved

`OutboxDispatcherProofs.tla` proves four theorems for all values of the constants that satisfy the module's ASSUMEs. That is any number of rows and replicas, any batch size, concurrency, retry and fault bounds. tlapm checks every proof.

**`TypeCorrect`: `Spec => []TypeOK`.**
- Each action has its own step. Larger actions are split by their disjuncts.
- The lemma `StampIsNat` (from `FS_Subset` and `FS_CardinalityType`) types the `created_at` stamp.

**`PublishedDelivered`: `Spec => []PublishedImpliesDelivered`.**
- The invariant is not inductive as it stands. MarkPublished makes a row published based on what an earlier step did.
- The strengthening `DeliveredInv` also covers every row with a goroutine at "mark".

**`DLQConsistent`: `Spec => []DLQConsistency`.**
- The strengthening adds two facts:
  - every goroutine's snapshot of `retry_count` is 0 (`ClaimedSnapZero`);
  - every pending row has `retry_count = 0` (`PendingCountZero`).
- Together they show `handlePublishFailure` picks the DLQ only when `max_retries = 0`. Then `MoveToDLQ`'s `+1` in SQL makes the stored count exceed it.
- This is the reason the DLQ path is unreachable in the configured service (max_retries 3), as the finding on `dispatch_bus_outage` explains.

**`SingleWorkerRefinement`: with `Workers = {w0}`, `Spec => LifecycleRefined`.**
- The argument has three steps:
  - `Init` maps to the abstract `Init`;
  - `RefinementInv == TypeOK /\ DeliveredInv /\ ClaimedPending` is inductive;
  - under it every dispatcher step is a `Commit`, `Deliver` or `Resolve` step of the lifecycle, or leaves `status` and `delivered` alone (`LifecycleStep`).
- `ClaimedPending` says a row with a live goroutine is pending in the store. It holds for one worker because only the row's own goroutine moves it out of pending.
- With two replicas it fails: both may claim one row, and one may mark published a row the other moved to the DLQ (finding 5). For that reason the theorem assumes one worker.

`ProductWriteProofs.tla` proves three theorems about the write path. They hold for any requests, kinds, keys, id, attempt and fault bounds. The first two hold in either wiring.

The three rest on `TypeInv`, which adds to `TypeOK` what each request's `domainEvents` buffer holds at each phase (`BufOf`):
- it is empty while a delete looks its product up;
- it is non-empty at "outbox", so `SaveEventsBatch`'s `Head` is defined;
- a delete's buffer is exactly `<<pid>>` from its lookup to its commit, because `RecordDeleteEvent` runs once, outside the retried closure.

A create's buffer is not described beyond that: it grows with every retried attempt, which is finding 11. `SequenceTheorems`' `AppendProperties` and `HeadTailProperties` give the provers what `Append` and `Head` return.

**`TypeCorrect`: `Spec => []TypeOK`.**
- Each action has its own step. The frame of a large action is stated first, so that each conjunct's leaf needs only the lines that change it.

**`OneDeleteEvent`: `Spec => []SingleDeleteEvent`.**
- `TxShape` describes each request's open transaction: its outbox rows carry its own key and event type, a delete holds at most its own `PRODUCT_DELETED` row, and a product statement is held only in the transactional wiring.
- `DelEvents` says every committed `PRODUCT_DELETED` row names a deleted id.
- `DeleteHolders` adds two facts:
  - two requests holding a delete transaction hold different ids (the row lock);
  - no committed `PRODUCT_DELETED` row names the id a delete holder holds, because the holder's own `RowsAffected` check passed after every earlier delete.
- `HoldersOnlyByDelete` shows that only a successful `DeleteProduct` makes a new delete holder.

**`DeleteAtomic`: assuming `ProductRepoInTx` and `KeysDistinct`, `Spec => []DeleteAtomicity`.**
- `DeleteAtomicity` says the ids of the committed `PRODUCT_DELETED` rows are exactly the deleted ids.
- The strengthening `TxExact` says what a holder's transaction holds exactly:
  - a delete holder holds `{pid}` as its delete;
  - at "commit" a delete holds exactly its own row `DelRow(q)`;
  - while the request is running, no committed row has its key.
- The last fact is where distinct keys are needed: with it `SaveEventsBatch` always inserts, and the commit adds a delete and its row together (`TableStepInTx`). The buffer fact of `TypeInv` makes that row name `pid`.
- Both hypotheses are needed. Without `ProductRepoInTx` the delete autocommits (finding 1). With a replayed key, the second commit deletes but adds no row (findings 2 and 3).
- The create half of the same statement is false: TLC finds a committed `PRODUCT_CREATED` row for a rolled-back id (finding 11).

`RetryBackoffProofs.tla` proves two theorems about the two retry loops. They hold for every word width `Width` and every set of configurations, negative limits included.

**`TypeCorrect`: `Spec => []TypeOK`.**
- The strengthening `IInv` says that a loop still running has reported nothing and has an attempt left (`calls < Attempts(cfg)`), and that `backoff \in Int`.
- The provers know nothing about `^` beyond constants. So `PowerPos` (`2^k` is a positive natural) and `PowerMono` (`2^j <= 2^k` for `j <= k`) are derived from the library:
  - `2^k` is the number of subsets of `1..k` (`FS_SUBSET`, `FS_Interval`);
  - that set of subsets contains `{}`;
  - the subsets of `1..j` are among those of `1..k` (`FS_Subset`).
- With `2^Width > 0`, `x % 2^Width` is an integer, so `Signed`, `Shifted` and every `Delay` are integers (`DelayInt`), wrapped or not.

**`BackoffExact`: assuming every configuration is `InRange`, `Spec => []BackoffMatchesReference`.**
- `InRange(c)` means no shift the loop sleeps with reaches the sign bit: `base * 2^k < 2^(Width-1)` and `k < Width` for every `k` up to `Attempts(c) - 2`.
  - At larger `k` the loop is at its last attempt and does not sleep.
  - For the worker on the deployed 64-bit build with the 1 s base, this is `OUTBOX_MAX_RETRIES <= 34`.
  - TLC confirms that every configuration of `backoff_in_range` is in range, and that `OUTBOX_MAX_RETRIES = 7` on the 16-bit word is not.
- `SignedId` shows that a value in `0..2^(Width-1)-1` reads as itself, using `PowerMono` for `2^(Width-1) <= 2^Width`.
- `DelayMatches` then shows that the sleep after a non-last attempt equals `IntendedDelay`. The inductive invariant is `TypeInv` plus the property itself.
- The hypothesis is exactly the condition of finding 7: outside it, TLC finds the wrapped delay.

`BusDeliveryProofs.tla` proves **`TypeCorrect`: `Spec => []TypeOK`** for any events, foreign messages and bounds.
- The first attempt failed on `Handle`. `MessagesAssumption` lets a foreign producer send a message of a product event type, and `handleMessage` logs it like an outbox event.
- The earlier type `handled \subseteq Events` therefore held only for the MC module's choice of foreign kinds. It is now `handled \subseteq {m \in Messages : KindOf[m] = "product"}`.
- TypeOK is inductive as it stands. `Route` and `Handle` keep the queue in `Seq(Messages)`.

Each inductive invariant was first checked with TLC as an invariant before it was proved. The dispatcher's were checked on the dispatcher runs, including two replicas. The write path's were checked on the `write_concurrent_delete` constants and on two deletes in the deployed wiring.

**Left to TLC.**
- The limiter's `WindowLimit` and `RefuseOnlyAtLimit`. Their invariant relates `SelectSeq` filters of two sequences, and the sequence library has no facts about `SelectSeq` to build on.
- Liveness (`PendingEventuallyResolved`, `RequestsComplete`, `QueueDrains`), because the provers do not handle fairness or ENABLED.
- The limiter's `TypeOK`, which rests on the same `SelectSeq` filters.
  - `SelectSeq` is defined by a recursive function over `0..Len(s)`.
  - Using its defining equation needs the library's theorem on recursive functions over `Nat`, which takes an operator parameter that the installed provers cannot instantiate.
- `BackoffMatchesReference` outside `InRange`, where it is violated (finding 7).
- The write path's `SuccessMeansCommitted`, `NoLostEvents` and `AtomicWriteRefined`. They are violated in the code (findings 1, 4 and 11), so there is nothing to prove.

## 6. Findings

Findings 1, 4, 6, 8 and 11 are violation runs, with details in `PROJECT.json`. The others were seen while modelling, and no run is kept for them. Each can be reproduced from a kept configuration with the change given.

1. Deployed wiring autocommits product statements outside the outbox transaction (`unit_of_work.go:92`). A crash or a failed statement after the autocommitted INSERT leaves a product with no event (TLC's trace for `NoLostEvents`: begin, create, crash), and each retry inserts another product.
2. The idempotency key does not deduplicate products, only outbox rows. To reproduce: `write_create_retry` with `KeyOf <- ReplayedKey` and `MaxFaults = 0`. A replayed create commits a second product with no row, so `AtomicWriteRefined` fails.
3. A missing header gives every event the key `""`, so all but the first such event are dropped. To reproduce: `write_create_retry` with every request keyed `NoKey` and `MaxFaults = 0`. `AtomicWriteRefined` fails.
4. Commit errors are swallowed, because the defer assigns after the return value is fixed (`product_service.go:131`).
5. The `SKIP LOCKED` claim does not hold across replicas, so terminal statuses can be overwritten. To reproduce: `dispatch_retry` with `Workers = {w1, w2}`, `MaxRestarts = 0` and `LifecycleRefined` alone. Both workers claim one row, and the late update of one moves a row the other has already resolved, which no lifecycle step does.
6. `failed` rows are never repolled, so a bus outage strands events. The DLQ is reachable only with `max_retries = 0`.
7. The worker's backoff shift overflows `time.Duration` for a large unvalidated `OUTBOX_MAX_RETRIES`. The retry then sleeps a negative or zero delay (`outbox_worker.go:275`; `retry.go:61` has the same shift). To reproduce: `backoff_in_range` with `WorkerConfigs(-1..8)`. `BackoffMatchesReference` fails at attempt 7 on the 16-bit word.
8. The publisher never reconnects after the broker restarts (`publisher.go:47`), contrary to the spec's "bus down, then up" scenario.
9. Publish without confirms lets a lost frame be marked published (`publisher.go:153`). In `bus_faults`, `PublishUnconfirmed` marks a row published for a message that was never routed.
10. The exclusive auto-delete queue the spec prescribes loses every event routed while the notifications service restarts (`consumer.go:54`). In `bus_faults`, `PublishOk` between `ConsumerStop` and `ConsumerStart` routes the event to no queue.
11. A retried create commits the event of its rolled-back attempt (`product_service.go:169`). The `Product` value's `domainEvents` survives the rollback, and `ClearDomainEvents` (`product.go:72`) runs only after a successful outbox insert. After a failed outbox insert, the retry's `Create` takes a fresh id and `RecordCreatedEvent` appends a second event. The multi-row `INSERT ... ON CONFLICT (idempotency_key) DO NOTHING` (`outbox_repository.go:487`) keeps the first, stale one. The commit then writes a `PRODUCT_CREATED` row for an id that was never committed, and the committed product has no event. This happens even with the product repository bound to the transaction (run `write_create_retry`).

## 7. Not modelled, and the plan

**Not modelled:**
- HTTP parsing and validation, formatting, metrics, tracing and logging. They only feed parameters into the models.
- `TransactionalEventPublisher`, which is unreachable: the outbox repository always implements `BatchOutboxRepository`.
- The circuit breaker and LISTEN/NOTIFY, which are not wired into the service.

- The publisher's start-up connection retry, `IsHealthy` and the event adapter's JSON conversion. The adapter is reduced to the message's kind.
- A failed `Ack` in the consumer, which only logs. The broker would redeliver the message on a channel that is then broken.
- The error mapper, configuration loading and `bootstrap.Shutdown`.
  - The error mapper is a pure per-request translation of errors to HTTP codes, with no state.
  - Shutdown's order is discussed as a hazard of the write path.

**Planned:**
- A composed pipeline: write path feeding the dispatcher, checking end-to-end no lost events.
