# A TLA+ model of the e-commerce integration

This directory specifies the order integration service of this repository in
TLA+: how partner webhooks become SQL rows exactly once, how approved orders
reach the ERP, and how historical data is bulk-loaded. TLC checks the modules
on small instances, and TLAPS proves the central safety properties for every
value of the constants.

Paths below are relative to the repository root (`src/` in `PROJECT.json` is
that root, so the Python package appears there as `src/src/`). `PROJECT.json`
maps every definition that models code to its file and lines.

## 1. The system

    partner --HTTP--> webhook API --XADD--> Redis Stream --XREADGROUP--> ingest workers
                      (asyncio queue,       (consumer group,              |
                       backpressure)         PEL, DLQ stream)             | one SQL transaction per event
                                                                          v
    ERP <--HTTP-- dispatch workers <--UPDATE TOP (n) ... READPAST-- SQL Server
                                                                  (orders, payments, invoices,
                                                                   outbox, processed_events)
    Airflow DAG --CSV + BULK INSERT--> staging --INSERT..SELECT--> fact table

| Component | Code | State it keeps | Operations |
|---|---|---|---|
| Webhook API | `src/webhook_api` | asyncio queue, batch being published, cached backpressure state | `POST /webhooks/events`, `GET /health`, flush task, `stop()` |
| Publisher | `src/shared/messaging/publisher.py` | none of its own (the Redis Stream) | `publish_many`, `pending_lag` |
| Stream consumer | `src/shared/messaging/consumer.py` | cycle counter (the group's PEL is in Redis) | `read`, reclaim (`XPENDING`, `XCLAIM`), `send_to_dead_letter`, `ack` |
| Dedupe | `src/shared/messaging/dedupe.py` | `SET NX EX` keys in Redis | `claim`, `release` |
| Ingest worker | `src/ingest_worker/main.py`, `processor.py` | the batch in hand | parse, reserve, transaction, release, dead-letter, acknowledge |
| Handlers and repositories | `src/ingest_worker/handlers`, `src/shared/db` | clients, address versions, orders, payments, invoices, outbox, ledger | one transaction per event type |
| Outbox and dispatch worker | `src/dispatch_worker` | outbox rows: status, attempts, `next_attempt_at`, `locked_at` | claim, send, mark sent / retry / dead letter, release stale locks |
| ERP mock | `src/erp_mock` | acknowledged idempotency keys | `receive_order` |
| Bulk load | `airflow/dags` | staging and fact tables, CSV files, task states | prepare, plan, generate and load (mapped), load fact, validate, clean up |
| Bulk benchmark | `airflow/dags/ecommerce/benchmark.py` | the same staging table, a CSV of its own | write the sample, reset, measure three ways of loading, remove |
| Database triggers | `migrations/versions/0002_immutability_triggers.py` | none of their own | refuse changes of closed orders and of their items |
| Contracts, schema, configuration, logging, scripts | `src/shared/domain`, `migrations`, `src/shared/config.py`, `scripts` | static | partly or not modelled, see section 7 |

What is hard, and what must nevertheless hold:

* **Ingest.** Three barriers stack up: a reservation in Redis that may outlive
  its owner, a ledger row in the same transaction as the effect, and unique
  business keys. `XPENDING` and `XCLAIM`, the commit and `XACK`, and the two
  halves of a dead letter are separate commands, between which a worker dies or
  another one acts. Correct means: the effect of an event happens at most once;
  no event disappears; a valid event is given up only after
  `consumer_max_delivery` deliveries; every entry is eventually settled.
* **Handlers.** The database runs `READ_COMMITTED_SNAPSHOT`: a status that was
  read may be stale when it is written. Correct means: the outbox row exists
  exactly when the order was approved, a billed order has its invoice, an order
  keeps the address it was created with, the status only moves along
  `ALLOWED_ORDER_TRANSITIONS`, and what is acknowledged as a duplicate is one.
* **Dispatch.** Rows are claimed without a queue, workers die with a batch in
  flight, answers of the ERP get lost. Correct means: one claimant per row,
  SENT implies that the ERP has the order, the ERP has it once, DLQ implies
  exhausted attempts or a refusal, every row ends in SENT or DLQ.
* **Edge.** The flush takes events out of the queue before it publishes them,
  probes suspend between reading the clock and writing the state, shutdown races
  the flush. Correct means: what was answered with 202 is accounted for in
  order, shutdown drains, a 429 has a cause, overload is noticed and ends, also when
  Redis loses the stream.
* **Bulk load.** Every batch commits by itself and a task that fails starts over
  with parallel siblings running. Correct means: a load that passes validation
  is exact; a file is left only by a chunk that failed; the run always ends. The
  benchmark writes the same staging table at any time.
* **Closed orders.** Triggers guard what was sold against sessions outside the
  application, while the approval copies the order into the message for the ERP.
  Correct means: the columns that the trigger protects and the items of a closed order do
  not change, and the ERP was told what is stored.
* **Redis.** It runs without a log of its commands, so a restart may bring back nothing, or
  everything with all connections broken. Correct means: the workers find their way back
  to a group, everything in the stream is settled, and an event that is sent again is
  not lost.

`PROJECT.json` lists the individual hazards at their lines, each with the
properties aimed at it.

## 2. Modules

| Module | Models | Instance for TLC | Proofs |
|---|---|---|---|
| `IngestDelivery` | consumer group, dedupe, ledger, worker loop | `MCIngestDelivery` | `IngestDelivery_proofs` |
| `EventSink` | abstract: what the ingest promises to whoever fills the stream | through `IngestRefinement` | - |
| `IngestRefinement` | `IngestDelivery` implements `EventSink` | `MCIngestDelivery` | `IngestDelivery_proofs` |
| `RedisLoss` | `IngestDelivery` under restarts of Redis | `MCRedisLoss` | `RedisLoss_proofs` |
| `OrderStore` | the SQL transactions of the four handlers | `MCOrderStore` | `OrderStore_proofs` |
| `ClosedOrders` | the triggers, sessions outside the application, the message for the ERP | `MCClosedOrders` | `ClosedOrders_proofs` |
| `OutboxDispatch` | outbox table, dispatch workers, ERP | `MCOutboxDispatch` | `OutboxDispatch_proofs` |
| `OutboxLifecycle` | abstract: what the outbox promises about each row | through `OutboxRefinement` | - |
| `OutboxRefinement` | `OutboxDispatch` implements `OutboxLifecycle` | `MCOutboxDispatch` | `OutboxDispatch_proofs` |
| `ApprovalToErp` | composition of `OrderStore` and `OutboxDispatch` over the outbox table | `MCApprovalToErp` | `ApprovalToErp_proofs` |
| `WebhookEdge` | API processes, buffer, backpressure, publisher | `MCWebhookEdge` | `WebhookEdge_proofs` |
| `BulkLoad` | one run of the historical-load DAG | through `BulkBenchmark` | `BulkLoad_proofs` |
| `BulkBenchmark` | `BulkLoad` beside the benchmark that writes its staging table | `MCBulkBenchmark` | `BulkLoad_proofs` |

Each module takes its limits from the settings as CONSTANTS with a named
assumption, and a set `Faults` that says which failures a run admits. Operators
commented "Mutant" are deliberate errors; no action uses them. They show that the
properties react to plausible mistakes in the code.

### IngestDelivery

One step is one command to Redis or one SQL transaction. `Read` is
`StreamConsumer.read`; every `ReclaimEvery`-th cycle continues with
`PendingDeliveryCounts` (`XPENDING`) and `ReclaimAbandoned` (`XCLAIM`). `_persist`
takes the messages in list order: `DiscardMalformed` (parse failed),
`ClaimReservation` (`SET NX`, or a granted claim when Redis fails), then one of
`Commit`, `Duplicate`, `Fail`, `CommitLost`, and after a failure `Release`. `_handle` goes
on with `EndPersist`, `SendToDeadLetter` and `AckDeadLetter` for each dead letter,
and `Ack`. The environment has `Publish` (with repeated events), `GoIdle` (the idle
limit passes), `ExpireReservation` (TTL) and `Crash`. `GoIdle` needs no live worker to
hold the message unless "slow" is among the faults. A handler's writes are
abstracted to "event `e` committed"; `DependsOn` gives the facts without which it
raises (a poison event depends on a fact that nobody reports), and `FactOf` the unique
business key, so that one fact can be reported under two event ids.
`DuplicateEventError` for such a report is the second disjunct of `Duplicate`.

The delivery count that decides about the dead letter is the one `XPENDING`
answered, before `XCLAIM` added one. The model keeps both (`delivery_count`, `times`).

### EventSink and IngestRefinement

`EventSink` has no workers, reservations, pending lists or batches. An entry is open
until it is closed or given up. `Effect(e)` happens once, while an entry of the event is
open. `Close` takes an entry away only if its fact is in the database or another entry of
the same event is still there. `GiveUp` needs a malformed payload or `MaxDelivery` deliveries.
The mapping takes `times` for the deliveries, `applied` for the effects, and for the
fate of an entry: dead once its copy is in the dead letter stream, even before its own `XACK`;
open while it can still be delivered; otherwise done. `ImplementsSink` says
`Sink!Spec` of these, as a property of `ingest_core`. It includes what the
single invariants say (at most one effect, no early dead letter) and adds what a
state cannot show: no effect after the last entry was settled, no entry that comes back.

### RedisLoss

`docker-compose.yml:50` starts Redis with `--appendonly no`. Stopped in order it saves a
snapshot (`RedisComesBack`); in a new container, or killed before the first snapshot, it
comes back empty (`RedisComesBackEmpty`), while the workers keep what they hold and the
database keeps the ledger. After either restart each worker's asynchronous connection fails once
(`broken`), and a command that needs the group fails while there is none; both leave the
loop, and `WorkerExits` is the process that ends and is started again by its container,
with `ensure_group` (`GroupAfterStart`). The ids of a stream are times, so lost entries keep their
numbers and the new ones follow.

### OrderStore

One client, its address versions, one order, payments of several provider
transactions, one invoice, the outbox. A handler is split at every statement that
may wait for a lock or whose answer another transaction may change. Reads see the
last committed state and take no lock; an INSERT or UPDATE takes the row or key
lock until the transaction ends, and a waiting statement is one that is not enabled.
`Rollback` may end any transaction at any point, which is also how a missing
dependency and a deadlock victim appear. The database variables change in the
commit steps only. `InsertInvoice` knows both unique keys of `invoices`, the order's
(`order_id`) and the number's (`invoice_number`, `series`); `InvoiceAnotherOrder` is the same handler
for another order, which takes a number. Because versioned reads do not see uncommitted rows, this is
exact for everything but foreign-key checks, which wait (`LockIsFree`). The history
variable `stale` collects events that wrote `orders.status` over a value other than
the one they had read.

### ClosedOrders

Sessions outside the application update the order and insert or delete its items in
transactions of several statements, while one transaction approves the order in the four
steps of `PaymentUpdatedHandler`: load, `UPDATE`, copy the items, commit. A row has its status, its
`terms` (the seven columns that the trigger compares: `total_amount`, `client_id`, both addresses,
`order_uid`, `currency`, `placed_at`) and `closed_at`, which the trigger does not compare, which the message
shows, and which a session may change at any time. The triggers are the operators
`OrdersTriggerAllows` and `ItemsTriggerAllows`; a refusal rolls the whole transaction back.
The second reads `orders` like any SELECT and neither sees nor waits for a transaction
that is about to close the order, while the INSERT of an item waits for the row through the
foreign key; a DELETE does not. `overlap` (the rows that a session was writing while the approval ran) and `reopened` are history,
and name the two ways past the triggers.

### OutboxDispatch

`ClaimBatch` is the `UPDATE TOP (n) ... OUTPUT ... READPAST` statement: any `n` of the
due PENDING rows, since it has no ORDER BY. Each row in `items[w]` is a coroutine of
`gather()`. It sends, waits, and records its result with `MarkSent`, `Reschedule` or
`ToDeadLetter`, which update by `outbox_id` alone, as the code does. Requests live on
inside the ERP after their client timed out or died. `receive_order` has two steps,
the lookup of the key and, after the simulated latency, the registration without
another lookup. `BecomeDue` and `BecomeStale` are the retry delay and
`STALE_LOCK_SECONDS`.

### OutboxLifecycle and OutboxRefinement

`OutboxLifecycle` speaks of rows only: `Write`, `Claim` from PENDING, `GiveBack`, `Confirm` (SENT, the
ERP has the order), `GiveUp` (DLQ, attempts exhausted or refused), and the ERP's `Register`, at most once
per row, and `Refuse`. No step leads out of SENT or DLQ. Its variables are variables of
`OutboxDispatch`, so the mapping only hides the workers, locks and requests.
`ImplementsLifecycle` is a property of `outbox_safety`.

### ApprovalToErp

The two modules are instantiated side by side, with their own variables, and linked by
one rule, `Announce`: the commit that increases `OrderStore`'s `outbox` also makes
the next row of `OutboxDispatch` claimable, in the same step. Nothing else connects an
ingest worker to a dispatch worker. `MaxRows` bounds the rows, and with them the approvals that commit. This is where a second approval (a stale read in `OrderStore`) can be followed to a second
registration at the ERP.

### WebhookEdge

Each process is one event loop; a step runs from one `await` to the next. A probe
is `ProbeByWebhook` or `ProbeByHealth` (which moves `_last_probe_at`), then `MeasureLag`
(`XLEN` was answered) or `MeasureFails` (it was not: `pending_lag` returns `LagOnError`, zero), and `EndProbe`
(the state is written from the lag measured before the await, and the request goes on). The flusher is
`FlushRound`, then `PublishMany` or `PublishFails`, where any subset of the batch may have been
written, because the pipeline is not a transaction. `Stop`, `DrainTimeout`, `LastFlush` are
`EventBuffer.stop`. `Consume` is the consumers, seen from the edge, and `RedisComesBackEmpty` a Redis
that has lost the stream (fault "redis_empty"), while the processes keep their cached state and the answers
that are on their way. `refused`, `dropped` and `limitReached` are history.

### BulkLoad and BulkBenchmark

Task instances of one DAG run with their retries and trigger rules. A label is a
statement that commits by itself. `staging[r]` and `fact[r]` count copies of row `r`, and
a run may begin with rows that an earlier run left. A chunk's file is on the volume from `CreateCsv` on,
before its rows are written (`CompleteCsv`), so an error leaves a partial one. `Cleanup` lists the directory once (`ListFiles`) and
removes file by file; a listed file that its chunk removes first is a `FileNotFoundError` (`ListedIsMissing`). `Raise` fails the current
statement of any task; an attempt that fails makes the task wait for a retry
or fail for good.

`BulkBenchmark` adds the benchmark as one more process: `WriteSample`, then for each of three
measurements `Reset` (TRUNCATE) and `LoadSample` batch by batch, a last `Reset` and `RemoveSample`, with
`BenchmarkFails` at any statement and nothing undone, a partial sample included. Its sample is chunk 900 (`benchmark.py:69`),
which the model takes to be beyond every planned one (`SampleAssumption`); its file has a chunk's name, so it is
in `files` and the DAG's cleanup takes it too. `disturbed` remembers
that it wrote `staging` while the DAG was using it: from the truncation in `prepare_staging` to the
success of `load_fact`, because a `load_fact` whose last statement failed reads the table again.

### How the modules fit together

`ApprovalToErp`, `BulkBenchmark` and `RedisLoss` are compositions that are checked. The
other joints are kept by the same table or stream having the same actions on both sides:
`IngestDelivery` treats a transaction as atomic and `OrderStore` opens it up; the stream that
`WebhookEdge` fills is the `log` of `IngestDelivery`, whose `Publish` admits any event, in any
order and any number of times, hence everything the edge can write. End to end, `AcceptedAccounted`
(an accepted event is buffered, in the stream, in a batch whose publication failed, or was in a Redis that came back empty) and `NoSilentLoss`
(an entry of the stream is not lost) meet at that stream.

## 3. Runs

All runs finish in about three minutes at most with two workers.

| Run | Question | Answer |
|---|---|---|
| `ingest_core` | two workers, a client, an order that depends on it and the same order under a second id, reservations that expire (1.0 million states) | no event lost, one holder per message, one copy in the DLQ; every step is a step of `EventSink` |
| `ingest_faults` | the same loop with crashes, slow workers, failing dedupe, failing transactions and lost commit answers, all at once | the effect stays at most once, no valid event is given up early |
| `ingest_live` | Redis restarts, with all or nothing, at any moment; a client that may never come, lost commit answers (0.3 million) | every entry leaves the pending list; an event sent again is lost only to a worker that still holds a lost entry of it |
| `ingest_crash_loss` | does "at-least-once + idempotent" survive a crash? | **no**, see section 5 |
| `orders_core` | two concurrent transactions of any of nine events, other orders that take invoice numbers (1.0 million) | outbox follows approval, invoice follows billing, address frozen, an approval is not forgotten when a late report overwrites the payment; a refused event lost its key to a committed one; the only status that goes back is that of an order approved again |
| `orders_dispatch` | can a repeated approval be dispatched twice? | **yes** |
| `closed_all` | two outside sessions with transactions of up to three statements beside an approval (1.1 million) | the compared columns of a closed order do not change; the ERP was told what is stored in them and in the items, but for rows that were being written during the approval and orders whose status was put back |
| `outbox_safety` | two workers, two rows, one crash, lost requests and answers, 5xx, 4xx (0.3 million) | exclusive claim, SENT was registered, DLQ was exhausted or refused, attempts bounded; every step is a step of `OutboxLifecycle` |
| `approval_erp` | the handlers' transactions and two dispatch workers, a repeated approval, a crash, lost requests (0.2 million) | the ERP hears of approved orders only, once unless a stale status was acted on; an approval reaches the ERP or the DLQ, every row ends |
| `edge_all` | one process with overlapping probes, unanswered probes, failing publications, shutdown and a Redis that comes back empty (0.3 million) | accepted events accounted for, one batch drained on stop, a 429 has one of its two causes, overload noticed and ended by the loss of the stream, buffer flushed |
| `edge_lag` | does overload end when the consumers catch up? | **no** |
| `bulk_load` | leftovers, two errors anywhere, retries, two parallel chunks, partial files, cleanup file by file, the benchmark at any moment (0.7 million) | unless disturbed: a validated load is exact, a refused one had a retried chunk; only a failed chunk leaves its file; the run ends |

### Bounds

* `IngestDelivery`: `MaxMessages` 3 is enough for a dependency delivered after its
  dependent, a fact reported twice, and one repeated event; `BatchSize` 2 puts fresh and
  reclaimed messages in one batch; `MaxDelivery` 2 makes the last allowed, the first
  excessive and an earlier delivery all reachable. `MaxTimesDelivered` stops ageing only
  beyond `MaxDelivery + 1`, the number of deliveries that the code reaches without crashes, so
  that it does not cut off a behaviour in `ingest_core`; in `ingest_faults`, where a worker may
  crash for ever, it is what makes the state space finite. Two workers suffice for every race
  in the code, which are all between one holder and one rival.
* `RedisLoss`: one restart and two entries: one may be lost and the other sent afterwards, or both be pending
  when Redis comes back.
* `OutboxDispatch`: two rows and `BatchSize` 2 allow full, partial and empty batches;
  `MaxAttempts` 2 with one crash reaches three claims, and `MaxClaims` 4 is never reached
  (`AttemptsBounded` says so).
* `OrderStore`: nine events cover each pair of handlers, a fact reported twice for
  orders and invoices, and three payments of which two approve; `MaxConcurrent` is 2
  because every conflict in the handlers is between two transactions. Two invoice numbers let the order lose one
  to another order and be billed with the other.
* `ApprovalToErp`: the four events that can produce a second row, and `MaxRows` 2, as many as
  there are approvals.
* `ClosedOrders`: three statements per session allow a change, its consequence and one more after the approval; one
  item that was sold and one that was not give a deletion and an insertion; two values of `terms` and of `closed_at` tell
  kept from changed.
* `WebhookEdge`: a queue of 3, a batch of 2 and requests of 1 or 2 events make partial
  acceptance, a full queue and a remainder after the last flush reachable; 4 events
  reach `MaxLag` 2; two probes overlap. Processes share only the stream, so one is
  enough for what a process promises; `edge_lag` uses two.
* `BulkLoad`: four rows in chunks of 2 or 3 give full chunks and a smaller last one, and a chunk of two
  batches; two errors exhaust the two attempts of one task or hit two tasks. The samples have one
  row, so that each measurement is one batch.

Worker, row and session symmetry is used in safety runs only. `CHECK_DEADLOCK FALSE` is set where
the system really stops:

* `edge_all`: the process has exited and the bounded number of events was sent;
* the `orders` runs: every event has been handled;
* `closed_all`: the sessions have used up their statements and the approval is over;
* `bulk_load`: the DAG run and the benchmark are over.

The loops of workers never end, so deadlock is checked wherever they run.

### Fairness

Only where liveness is checked.

* A worker's loop runs on (`Step(w)`, `WorkerStep(w) \/ WorkerExits(w)`): the `while` loops of
  `ingest_worker/main.py` and `dispatch_worker/main.py`, and for processes that exit
  `restart: unless-stopped` in `docker-compose.yml`.
* Time passes: `GoIdle`, `BecomeDue`, `BecomeStale`, `ProbeInterval`.
* The ERP deals with what it received (`ErpStep`): a request is a coroutine that sleeps and ends.
* The event loop runs the flusher and resumes each answered probe (`EndProbe(p, lag)`, one
  condition per answer, since two probes may overlap), and the container's health check
  calls `GET /health` again, so a probe happens without traffic.
* Redis does not fail every `XLEN` for ever: strong fairness of `MeasureLag`, the only strong
  condition. Without it no overload would ever be measured.
* Airflow starts what may start and a running task goes on (`DagFairness`: one weak fairness condition on all the `Work` of
  the DAG, which is never out of steps before the run has ended). The benchmark is started by hand and gets none.

No fairness is given to success: `Fail`, `PublishFails`, lost answers, 5xx and `Raise` are
never forced to stop; where they could go on for ever the code has a limit
(`consumer_max_delivery`, `dispatch_max_attempts`, retries) and the property depends on it.

## 4. Proofs

Eight modules hold theorems. Each uses only the named `ConstantsAssumption` of its module, which TLC
evaluates in the runs: limits are natural numbers (positive where the settings require it), faults
are faults the model knows, and names that the model compares are different names (a transaction is not
called like a lock, an outside session is not called "worker"). The theorems hold for any number of
workers, events, rows and sessions. Where one excludes faults, the excluded ones are
an assumption of the theorem (`"slow" \notin Faults`), the runs without these faults agree, and the others
may happen all at once, in combinations that no run affords.

In every module the invariant proved by induction is wider than the properties; this section says what it adds and why.

### Ingest

**`IngestDelivery_proofs`**, for every set of faults:

* `TypeCorrect`: `Spec => []TypeOK`. `TypeOK` is not inductive: a worker could
  hold a message that was never delivered, and acknowledging or reading the count of such
  a message leaves the types. `TypeInv` adds that what a worker has in hand is a message
  (`current # NoMessage` in the steps that use it) and that every message in a list
  was delivered (`id <= cursor`).
* `ExactlyOnceEffect`: `Spec => []AppliedAtMostOnce`. The ledger's primary key alone gives it:
  both steps that apply an event require it to be absent from the ledger. No
  assumption about reservations, acknowledgements, crashes or counts enters, which
  is the point of "barrier 2" in `processor.py`.
* `GivenUpOnlyWhenExhausted`: `Spec => []NoEarlyDeadLetter`. The property speaks about
  `times`, the decision uses a count that was read earlier and perhaps by a worker that has
  since lost the message. `DeliveryInv` adds that every count a worker carries
  is at most the number of deliveries now, that delivered entries were delivered once at least
  and others are not in the dead letter stream, that what sits in `dead` is malformed or was
  delivered `MaxDelivery` times, and keeps the property itself. `times` never decreases, so
  counts stay behind.

Each of the other theorems of this module excludes the faults under which its property fails:

* `DeliveryIsExclusive` (no slow workers): `[]ExclusiveDelivery`. `HandInv` says of what a worker has in hand that it
  was delivered, is not idle and in nobody else's hands, and that a message sits in one of the worker's lists, once. A step
  that moves a message between lists would otherwise seem able to duplicate it. That it is pending is a separate
  invariant (`HandsPending`), because a restart of Redis takes that away and nothing else.
* `DeadLettersAreSingle` (no slow workers, no crashes): `[]DeadLetteredOnce`. Between `XADD` and `XACK` the message is
  dead and still pending; `DeadLetterInv` says that then a worker is about to acknowledge it. A crash in between is
  the copy that the property excludes.
* `NothingIsLost` (releases do not fail either): `[]NoSilentLoss`. `LossInv` follows an event and not an entry: an
  entry may be acknowledged because another entry of the same event is reserved, so each valid entry is
  represented by its committed fact or by some entry that stands for its event, that is, can still be delivered
  or is in the dead letter stream, and is in no list of acknowledgements. A reserved event is committed or being
  committed (`KeysHeld`), which is what a dead worker, a slow one or a failing release breaks.
* `IngestImplementsSink` (the same faults excluded): `Spec => Sink!Spec`. Each step maps to `Offer`, `Deliver`, `Effect`, `Close`,
  `GiveUp` or a stutter. The step case by case needs the invariants above, because `Close` asks that the fact
  or another open entry remains.

`LossInvBut(L)` is the invariant behind `NothingIsLost` with a set `L` of entries that are excepted; `LossInv` takes none. The lemmas about
the steps of a worker are proved for any `L`, and serve the restarts too.

### Restarts of Redis

**`RedisLoss_proofs`**, for any number of restarts, each with everything or with nothing, at any moment:

* `RestartsKeepTypes` and `ExactlyOnceWithoutRedis` (`AppliedAtMostOnce`), for every set of faults: a forgotten reservation costs a
  transaction that the ledger refuses, nothing else.
* `OnlyTwinsOfLostEntriesDisappear` (no slow workers, releases do not fail): `[]ResendNeedsNoLostTwin`. `RestartInv` takes the lost entries
  for `L`: what a worker has in hand is pending or lost, a dead letter about to be acknowledged was written or its entry is lost, and an
  entry that is not represented has a lost entry of its event. The last exception is needed: a worker that holds a lost entry may reserve the event, have
  the new entry refused, and fail. A worker that exits breaks none of this, unlike one that crashes, because it exits in a command to
  Redis and never between reservation and commit.

### Orders

**`OrderStore_proofs`**, for any events and addresses and any number of open transactions. `StoreInv` consists of
`SessionInv`, what an open transaction knows and what stays true while others commit (the version it read is still
there; an order it saw exists; one it saw approved stays approved; it holds the locks of the statements behind it),
`OneInsertsTheOrder`, and `Facts`, about committed rows. The facts alone are not inductive, since a commit writes
what its transaction read long before.

* `TypeCorrect`, `StatusAndFactsAgree` (`StatusHasItsFacts`), `RefusedKeysAreTaken` (`RefusedKeyIsTaken`),
  `ApprovalsStay` (`ApprovalIsNotForgotten`): invariants of every interleaving, stale reads included. `RefusedKeysAreTaken` needs that every row
  of the database has a processed event behind it: the refusal looks at the row, the property at the events.
* `SingleDispatchUnlessStale`: `[](stale = {} => SingleDispatch)`. The run `orders_dispatch` shows that `SingleDispatch` fails; the
  theorem says that a write over an unread change of status is the only way. (The mock ERP is called once per outbox row.)
* `AddressesAreFrozen` (`OrderAddressIsFrozen`) and `StatusAdvances` (`StatusAdvancesUnlessApprovedAgain`), action properties. No stale write is excluded
  from `StatusAdvances`: that a transaction which loaded APPROVED can only meet APPROVED or INVOICED, and one that
  loaded PENDING writes a message with what it overwrites, is what `SessionInv` and `Facts` are for.

**`ClosedOrders_proofs`**: `TypeCorrect`, `MessageMatchesTheOrder` (`AnnouncedAsStored`) and `ClosedOrdersStay` (`ClosedRowIsImmutable`), for any
sessions, values, items and number of statements. The first two are about `terms` and the items, not about `closed_at`. `ClosedInv` adds what the holder of the row lock can have written (`DraftFollows`), that
what the approval read of a row that nobody was writing is what is stored (`Alone`), and that after the message only a session that opened the order again
has changes of items to commit (`Announced`).

### Outbox and ERP

**`OutboxDispatch_proofs`**, for every set of faults. `DispatchInv` carries types, the two properties, and
`ItemsJustified`: a coroutine in phase "ok" has an acknowledged order, one in phase
"permanent" a refused one, and its attempts are at most the row's attempts now. The last
part replaces `ExclusiveClaim`, which does not hold with slow workers; `SentMeansRegistered` and
`GivenUpOnlyWhenExhausted` therefore cover coroutines that write over a newer claim.
`OnlyWrittenRowsAreSent` says that no coroutine, lock, request or answer concerns a row that was not written yet.

With faults excluded:

* `ClaimsAreExclusive` (`ExclusiveClaim`) and `ClaimsAreBounded` (`AttemptsBounded`), without slow workers. `ClaimInv` adds that a stale lock's row is in nobody's
  hands and that a claimable row has an attempt left or owes one to a crash.
* `DispatchImplementsLifecycle`, without slow workers and a slow ERP: `Spec => Lifecycle!Spec`. `RequestInv` says that a row has
  at most one request that will be registered, and none while the row may be claimed or sent again: the reason why
  `receive_order`, which looks the key up once and registers later, registers once.

**`ApprovalToErp_proofs`** reasons about the composition through its parts.

* `ImplementsItsParts`: `Spec => Store!Spec /\ Dispatch!Spec`. A step of the composition is a step of one part and
  a stutter of the other, or the commit of an approval, which is a commit of `OrderStore` and an `Enqueue` of `OutboxDispatch`.
  With it the invariants of the two sections above hold of the composition; their modules are instantiated, and
  lemmas (`Same...`) identify the two instances of each definition.
* `ErpHearsOfApprovedOrdersOnly`: `[]RegisteredWasApproved`, for every set of faults. `AnnouncedInv` links the parts: the rows of the outbox that
  exist are at most as many as the approvals that committed.
* `ErpRegistersOnce`: `[]RegisteredOnceUnlessStale`, without slow workers and a slow ERP, from `SingleDispatchUnlessStale`, `AnnouncedInv` and `RequestInv`.

### Edge

**`WebhookEdge_proofs`**, for any processes, limits, request sizes and faults.

* `TypeCorrect`, `StopSavesABatch` (`StopDrainsOneBatch`) and `RefusalsAreJustified` (`RefusalIsJustified`) from `BufferInv`: where the flusher is
  (`FlusherInv`), and that a stream, an answer in flight or a cached state at the limit means that the stream has been as long as the
  limit (`LimitInv`), which stays true when Redis comes back empty. A refusal whose cause is the queue leaves it full.
* `AcceptedIsAccounted`: `[]AcceptedAccounted`. The property has an order in it (queue before stream, a batch may be written in part, as
  any subset in order; the stream may be lost). `PlaceInv` adds that an event is accepted once and is in one place, once.

### Load

**`BulkLoad_proofs`**, of `BenchmarkSpec`: a run of the DAG and the benchmark beside it, for any parameters, number of errors and retries.

* `LoadTypeCorrect`: `[]TypeOK`, with the bound on attempts. `TaskInv` adds that only a task with attempts left waits for a retry, that a task
  that was started has what it depends on, and that `chunks` is the answer of `PlanChunks` for the parameters.
* `WholeChunksHaveUniqueUids` (`UidsUniqueForWholeChunks`). `PlanIsPlan` says what `plan_chunks` answers for every input: chunk `i` begins at
  row `i * chunk_size`, all are full but the last, and they add up to `row_count`. When none is smaller, `order_uid` is the place of the row.
* `OrphansAreOfFailedChunks` (`OrphanOnlyOfFailedChunk`). `ChunkInv` ties the file and the progress of a mapped task to its state: a task that has
  not begun or has succeeded has no file, whatever cleanup removes meanwhile. The benchmark's sample is excepted, which `SampleIsNotPlanned` justifies.
* `AcceptedLoadIsExact` and `RefusedLoadHadARetry` (`ExactUnlessDisturbed`, `RefusedForAReasonUnlessDisturbed`). `LoadInv` says what the two tables hold at each point
  of the run: a row that its chunk has passed is there, once if the chunk was attempted once, and no other row is. `validate_load` compares only a
  count, and `CountingIsEnough` is why that does: a table that holds every planned row, no other row and as many rows as were
  planned holds each once. `PlannedRowsCounted` gives the number of the planned rows.

### Induction

The library's induction theorems take the formula as an operator, which the provers cannot instantiate. `NatSetInduction` and `SeqSetInduction` take
instead the set of the numbers or sequences that satisfy it, and rest on the library's `WFMin`. With them the lemmas about recursive
functions are proved: `Only(s, S)`, the elements of a sequence that are in a set, and `PlanChunks`, whose existence as a function (`PlanExists`) comes first.

### Only model-checked

Every invariant and action property of a passing run is proved, and both refinements. What stays with TLC is liveness, since `ENABLED` and fairness are outside the
provers' reach: `SettledAfterRestart`, `ApprovedReachesErp`, `EventuallyDispatched`, `OverloadFollowsTheStream`, `EventuallyFlushed`, `EventuallyEnded`.

## 5. Findings

Three runs end in a counterexample to something the repository says of itself.

1. `ingest_crash_loss` - `README.md:193` promises at-least-once delivery with an
   exactly-once effect. A worker that dies after `SET NX` and before the commit leaves
   its reservation for a day; the entry is reclaimed after a minute, taken for a
   duplicate and acknowledged. A live but slow worker and a failing `release` lead to the
   same loss.
2. `orders_dispatch` - `README.md:199` and `payment_handler.py:33` say that a repeated approval
   does not dispatch twice. `transition` decides by the status that the transaction loaded;
   two that loaded PENDING both write an outbox row, with different idempotency keys.
3. `edge_lag` - the lag is `XLEN`. Acknowledging does not shorten the stream, and
   `stream_maxlen` (1000000) trims it only far above `backpressure_max_lag` (100000),
   so a process that begins to refuse events refuses them for ever (unless Redis loses the stream).

The passing properties mark where the promises hold: without crash, slow workers and failing
releases `NoSilentLoss` holds; without stale reads the ERP registers an order once
(`RegisteredOnceUnlessStale`); a refused event lost its key to a committed one (`RefusedKeyIsTaken`); a closed order stays while its status
does (`ClosedRowIsImmutable`); and everything lost at the edge is in a failed publication or beyond
the last batch at shutdown, or was lost by Redis (`AcceptedAccounted`, `StopDrainsOneBatch`).

## 6. Limits of what holds

What a careful reader might expect and the code does not give; the properties are stated
up to these limits.

* An accepted event is lost when its publication fails: `_flush` takes the batch from the queue first, and when
  `publish_many` raises it is gone after 202 was answered, although `docker-compose.yml:49` prefers
  refusing to losing.
* An error while measuring the lag makes a process forget an overload it had measured (`LagOnError`).
* `Register` happens once per row only if the ERP decides within the client's timeout plus the retry delay
  (fault "erp_slow" excluded): `receive_order` does not look the key up again.
* `ExclusiveClaim` and `ImplementsLifecycle` need workers that finish a batch within
  `STALE_LOCK_SECONDS`; with slower ones SENT and DLQ are not final.
* `ExclusiveDelivery` and `ImplementsSink` need workers that finish within `consumer_idle_reclaim_ms`, do not
  die, and can release their reservations. `ingest_live` does not include failing releases: with them a
  redelivered event is refused and acknowledged.
* `processor.py:95` takes every `IntegrityError` for the same fact under a new `event_id` (`processor.py:45`). `RefusedKeyIsTaken` says that
  the key is taken, not that the refused fact is the one that took it, and three facts that are not repeated are acknowledged as duplicates and
  recorded nowhere: the APPROVED of a new payment that is handled together with its PENDING, so that the order stays
  PENDING; an invoice whose number and series another order has (`models.py:202`); and one of two first `client.upserted` with different addresses.
* A late PENDING overwrites an APPROVED payment (`repositories.py:215`); the order stays approved.
* An invoice before the approval is written, and nothing moves the order to INVOICED later.
* An approval that loaded the order earlier may turn INVOICED back into APPROVED and announce it again; `StatusAdvancesUnlessApprovedAgain` says
  that nothing else goes back.
* The orders trigger compares seven columns. `closed_at`, `source_event_id` and `created_at` of a closed order may change; `closed_at` is in the message for
  the ERP (`order_payload.py:26`) and does change when the order is billed (`invoice_handler.py:33`), so no property compares it.
* `AnnouncedAsStored` excludes, row by row, what a session was writing during the approval, and both properties of `closed_all` exclude orders that were
  opened again. An item that is written before the approval and committed after it changes a closed order, although the trigger says that its
  items are immutable (`0002:73`), because the trigger reads the committed status. And the orders trigger, "ultima linha de defesa"
  (`0002:22-25`), does not look at the new status: a session that puts a closed order back to PENDING may change everything afterwards.
* The stream that is lost with Redis takes with it what was accepted (`dropped`); an accepted event is in nothing else by then.
* With more than 900 chunks, which the parameters allow, the benchmark's sample would overwrite the CSV of chunk 900 of a run
  (`benchmark.py:69`); `SampleAssumption` excludes it.
* A chunk that is retried after some of its batches leaves those rows twice, and `validate_load` then refuses the load, where
  `README.md:272` says that a failure is reprocessed without redoing the load; a chunk that fails for good after cleanup leaves its file,
  which `README.md:274` means to rule out.
* The benchmark in the middle of a load makes `validate_load` accept a wrong load or refuse a right one; `README.md:252` calls the
  staging table the load's own.
* `UidsUniqueForWholeChunks` is about `chunk_size` dividing `row_count`; otherwise uids repeat.

## 7. Not modelled

* Trimming of the stream (`MAXLEN ~ 1000000`): `MaxMessages` stays below it. The edge
  stops accepting at a tenth of that length, unless the probe fails. Memory exhaustion of Redis.
* A snapshot of Redis that is older than the restart, a restore of the database, and the
  loss of the ERP mock's memory.
* A graceful stop of ingest and dispatch workers: it ends a loop between batches, which is
  a worker that takes no further step. The edge's shutdown is modelled.
* The outcome REJECTED of the processor, which no event type that the envelope accepts can
  reach.
* Amounts, address hashing, formatting and logging; of the message for the ERP, only what can disagree
  with the database (`ClosedOrders`).
* Validation in `src/shared/domain` beyond "malformed"; the DDL in `migrations` beyond the unique and foreign keys and the
  triggers; `catalog.py`, which is a constant table.
* `scripts` (seed, demonstration, load test, verification) and `bootstrap.py`, which run before or beside the system and keep no
  state; configuration, whose values are the CONSTANTS.

## 8. Plan

Done: the five component modules; two abstract specifications with refinements; the compositions
`ApprovalToErp`, `BulkBenchmark` and `RedisLoss`; the triggers; proofs of all safety properties. What could follow:

1. Restarts of Redis with crashes of their own and failing releases: `ResendNeedsNoLostTwin` would need a reservation
   that nobody holds as a third exception.
2. A composition of `WebhookEdge` and `IngestDelivery` over one stream, with `MAXLEN` trimming, so that `AcceptedAccounted` and `NoSilentLoss` become one property.
3. The payment in the message for the ERP, and DELETE of an order, in `ClosedOrders`.
