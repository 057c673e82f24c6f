# Verification of the order service and its event path

TLA+ models of the Go service in `src/`: an order API that writes orders and a
transactional outbox to Postgres, a worker that relays the outbox to NATS JetStream and
projects the events back into a read model, and the platform code around them (auth, rate
limits, admission, lifecycle). TLC checks each model on a small instance; TLAPS proves the
main safety properties for every instance.

The code's promises are mostly about failure: an event is never lost, never reordered for
one order, applied once. They are stated in comments and hard to test, because each needs a
particular interleaving of a crash, a lost answer or a second process. These are the
properties the models are for.

## The system

| Part | Source | State it keeps | Operations | Modelled in |
|---|---|---|---|---|
| Order service | `internal/order/service.go`, `order.go` | none; runs transactions | Create, Cancel, Get, List | `OrderService` (writing operations) |
| Order stores | `internal/order/orderpg`, `ordermem` | orders, items, outbox rows; `ordermem` a mutex and a staged copy | Create, Get, Update, List, Publish, InTx | `OrderService` (all but List) |
| Outbox relay | `internal/platform/outbox/relay.go` | the `outbox` table (`published_at`, `failed_at`), one open transaction per drain | DrainOnce, quarantine, Run | `OutboxRelay` |
| Pruner | `internal/platform/outbox/prune.go`, `cmd/prune` | deletes from `outbox` and `processed_events` | Prune, Eligible | `OutboxRelay`, `EventRetention` |
| JetStream publisher | `internal/platform/events/publisher.go` | the stream's configuration | EnsureStream, Publish, classify | `OutboxRelay`, `EventRetention` |
| Event consumer | `internal/platform/events/consumer.go` | a durable consumer on the server | Run, dispatch, deadLetter | `EventConsumer` |
| Order-count projection | `internal/order/orderproj` | `processed_events`, `order_counts` | Handle, Count | `EventConsumer`, `EventRetention` |
| Worker process | `cmd/worker` | goroutines, a small connection pool | run | `WorkerProcess`; its crashes in `OutboxRelay` |
| Outbox observer | `internal/platform/outbox/observer.go` | gauges | Observe, Run | `WorkerProcess` |
| Server lifecycle | `internal/app`, `cmd/orderd` | servers, listeners, shutdown steps, health | New, Run, Close, Shutdown | `ServerLifecycle` |
| Rate limiter | `internal/platform/ratelimit`, its interceptor | a TAT per key in Redis | Allow, checkQuota | `RateLimit`, `RequestPath` |
| Admission | `interceptor/admission.go` | slots | the interceptor | `RequestPath` |
| Token verification | `internal/platform/auth` | cached key set, discovery, two locks | Verify, keySet, keyFor, refresh | `KeyCache`; claims in `RequestPath` |
| Authorization policy | `auth/policy.go`, `grpcapi/policy.go` | a table | Check, ValidateCoverage | `RequestPath` |
| API and interceptor chains | `grpcapi`, `interceptor` | a context, a principal and an error per call | the two chains, five handlers | `RequestPath` |
| Error model | `apperr`, `grpcapi/errmap.go`, `gateway/errors.go` | none | ToStatus, classify, DomainErrorKind, handleError | `ErrorModel` |
| Outbound client | `platform/client` | retry policy, deadline budget | unaryBudget, attachIdentity, newUpstreamError | `UpstreamCall` |
| Money | `order/money.go`, `order/order.go` | none | NewMoney, Add, Sub, Mul, Neg, ComputeTotal | `Money` |
| Pagination | `order/cursor.go`, both `List` | page tokens held by clients | List, EncodePageToken, DecodePageToken | `OrderListing` |
| HTTP gateway | `internal/gateway` | none | error rendering, in-process connection | `ErrorModel`, `RequestPath`, `ServerLifecycle` |
| Configuration | `platform/config` | none | Load, Validate | retention rules in `EventRetention` |
| gormx, migrations, observability, developer tools, generated code | | | | not modelled: see the end |

How they interact. A request runs in a goroutine of any replica and enters one database
transaction that changes an order and inserts an outbox row. Relays (one goroutine per
worker process) claim unpublished rows with `FOR UPDATE SKIP LOCKED`, publish each over the
network while the transaction stays open, then mark and commit. JetStream drops a repeated
`Nats-Msg-Id` inside a window and keeps messages up to an age. Consumers (in the same worker
processes) dispatch each delivery to the projection, whose transaction inserts a
deduplication row and increments a count, and then acknowledge, dead-letter or give the
message back. The pruner deletes old rows of both tables, and an operator may replay
quarantined rows. `EventPath` composes these parts.

A request passes an interceptor chain first: admission takes a slot, the token is verified
against the issuer's keys, the tenant's quota is asked of Redis, a deadline is set, the message
is validated; on the way out the error is mapped and logged, and a panic takes a path of its
own. REST requests go through a gateway in the same process, which calls the gRPC server over
an in-memory connection, so the two servers have to be stopped in the right order.

What is hard: the database session, the process, the publish's answer and the commit's
answer can each be lost independently; rows become visible out of id order; deliveries
overlap because the redelivery backoff (1 s) is shorter than the handler's deadline; the last
permitted delivery has no retry behind it; three retention clocks run against each other. On
the request side: concurrent misses of a rate-limited cache whose keys are revoked while the
issuer is down; time in three units with three roundings; panics, hang-ups and deadlines at
every point of a chain; start-up that fails half way and a shutdown that must end although
watches do not; three loops on a pool that one of them can hold across a network call.

## Modules

**`OrderService`** - `Service.Create` and `Service.Cancel` as concurrent transactions, split
at every statement: `BeginCreate`/`InsertOrder`/`Publish`/`Commit` and
`BeginCancel`/`GetOrder`/`UpdateOrder`/`Publish`/`Commit`, with `CancelRejected` for the
domain errors and `Rollback` for any other failure. `Backend` selects the store: `orderpg` is
READ COMMITTED (a SELECT sees committed state and waits for nothing, a written row is locked
until the end), `ordermem` holds one mutex for the whole callback. `nextId` is the outbox
sequence, which is not rolled back. `OrderLedger` is the abstract specification: create and
cancel are single atomic steps, each with its event.

**`OutboxRelay`** - the table, the broker and any number of relays. `Claim` is the claim
query, `Publish`/`PublishTransient`/`PublishPermanent` the three results of one publish (an
unanswered one may have been stored), `Quarantine` the separate UPDATE, `Commit` the marking
transaction, `CommitUnanswered` a commit whose answer is lost, `LoseSession` a dropped
database session the relay does not notice, `Cancel`/`DrainCancelled`/`RunReturn` SIGTERM,
`Crash`/`Restart` the process. `Insert`, `Prune` and `Replay` are its environment. The guard
of `Insert` (when a row commits, no row of its order with a larger id has) is an assumption about
the order service, which `EventPath` discharges. `EventDelivery` is the abstract promise: an event is recorded, then delivered, and
retired only after it was delivered.

**`EventConsumer`** - workers sharing one durable consumer, each with the buffer its client
fills ahead of the handler. `Deliver` counts a delivery and puts it into a buffer, whether or not
an earlier delivery of the same message is still waiting or being handled; `Dispatch` takes one
out. `DeliveryLost` loses a buffered delivery; `Crash` is a kill, and also a shutdown whose drain
outlasts AckWait, and throws the whole buffer away. What ended without a verdict is remembered in `failed`
and, for a last delivery, in `broken`; `GivenUp` says that a message lost all of its deliveries
this way. `ClaimEvent`, `CommitProjection`, `CommitUnanswered` and
`HandleFail` are the statements and failures of `Projection.Handle`; `Ack`, `DeadLetter`,
`Term` and their failures the rest of `dispatch`. JetStream is external and modelled by what
the code relies on.

**`EventPath`** - the three together, each as an instance of its own module, with the outbox and
the stream shared. Two actions belong to two parts: `Commit` (a business transaction commits
and its row becomes visible to the relays) and `SendStored` (a publish becomes a message of the
stream: the first of its row, or a repeat that JetStream no longer recognises). Every other step
is a step of one part. `Commit` does not repeat the guard of `OutboxRelay`'s `Insert`: that it holds
is `ImplementsRelay`. What a row says is not known before it commits, but `OutboxRelay` and
`EventConsumer` take the aggregate and the kind of a row as constants; so the constant `Contents`
foretells it, and a behaviour whose transactions commit something else is a behaviour of another
value of `Contents`. The theorems quantify over all of them. The instance fixes one of
them: an order is created, and two clients cancel it at once (so TLC does not see the order
created by the second attempt, with another id; the proofs do). The variables
of the parts are repeated as explicit tuples (`serviceVars`, `relayVars`, `consumerVars`) because
the parts are instances.

**`EventRetention`** - one outbox row followed over time through the duplicate window, the
stream's age and the pruning of its deduplication row. Its assumptions on the constants are
the rules `config.Validate` enforces (and JetStream's own: window no longer than age).

**`KeyCache`** - `OIDCVerifier.keySet` (double-checked discovery behind a lock) and `keyCache`
(`keyFor`, `refresh`, `fetch`) used by concurrent callers. A caller's stage is a place in the
code where it can be overtaken: before a lock, inside a network call, before the second look.
The issuer rotates, revokes (for good) and fails; `publishedAt` and `revokedAt` remember when. Time is an integer clock that waits for
code that does not block; a network call lasts at most `ClientTimeout`.

**`RateLimit`** - the Lua script of `gcra.go`. Redis runs it atomically on its own clock, so
one `Allow` is one step. Nanoseconds, microseconds and milliseconds are kept apart, in small
ratios, because each boundary truncates or rounds up.

**`ErrorModel`** - errors as three shapes (plain, application error, status) and the functions
between them: `classify`, `ToStatus`, `mapErr`, `DomainErrorKind`, `asAppError`, the HTTP table,
and (external) grpc-gateway's own table, which a stream's error meets instead.
A text is public or private; nothing else of it matters. Metadata is a name.

**`RequestPath`** - concurrent calls through the unary and the stream chain of
`grpcapi.NewServer`: `Admission`, `Auth`, `CheckQuota`, `Deadline`, `Validate`, the handlers
(which succeed, fail, hang, give up with their context, or panic), then `Return` (ErrorMap and
Logging) or `Recover`. What the interceptors read from a caller (token, deadline, payload) is
chosen where they read it. `HangUp` and `DeadlinePasses` happen at any point. `sent` are the streams
that have sent a message: over REST their HTTP status went out with it, so a later failure is a
chunk of a 200 (`HTTPStatus`).

**`UpstreamCall`** - one outbound call: identity, budget, the attempts grpc-go makes under the
service config, and the error the handler returns. A call may also end before the wire: over its
credentials, whose error (plain, a context's or a status) is wrapped and still found by
`classify` and `mapErr`, over an exhausted budget, or in an interceptor the caller added. `settled`
records which. An attempt whose connection broke may still
be carried out later.

**`ServerLifecycle`** - one `orderd` process. `OpenNext` opens a resource inside a constructor of
`New`, `Construct` is the constructor's return, which registers what closes it, and
`ConstructFails` its failure in between, with the unwinding of what was registered (`LeftBy` is what
it may leave); `Listen`, `Bind` the listeners; `Close`, `Drained` the drain;
`StepBegins`, `StepEnds`, `StepTimesOut`, `Release` the steps of `Shutdown` in the order
`shutdownSteps` gives them. Calls connect to either server for as long as Kubernetes routes
to the pod.

**`WorkerProcess`** - one `worker` process: relay, observer, consumer and the consumer's handler
ask for connections of one pool (`Ask`, `Acquire`, `GiveBack`); `Wait` is `wg.Wait`,
`WorkerExit` the exit code and the deferred closers.

**`Money`** - the operations of `money.go` in integers of `Width` bits (from `-HalfRange` to
`HalfRange - 1`) that wrap around and whose division truncates, each step next to the same step
in true integers.

**`OrderListing`** - a client pages through `List` while orders are stamped, committed and
cancelled; uuids have no relation to creation order and an order may commit after a later one.
`ORDER BY` is a relation (`Sortings`): the sequence that has every match once, in key order.

**`MCPlatform`** - these nine components (from `EventRetention` on) side by side. They share no variable: a behaviour
picks one of `Parts` and follows it, so that one run covers them all.

`MC*` modules give the instances; `*Proofs` modules hold the theorems. Definitions named
`X_Something` next to a definition `X` are mutants: `X` with a plausible bug, used to show
that the properties notice it.

## Runs

| Run | Instance | Checks |
|---|---|---|
| `relay_safety` | 2 relays, 3 rows of two orders, batch 2, 4 faults of any kind | no row marked before the broker has it, a drain owns the rows it claimed, quarantined rows kept, refinement of `EventDelivery` |
| `relay_order` | 1 relay, 3 rows of two orders, batch 2, 4 faults, fairness | events of one order first stored in id order except around quarantine; at-least-once |
| `relay_stops` | 1 relay, 2 rows, 1 fault | **violated**: `Run` returns without cancellation |
| `orders_pg` | 3 clients, 2 tenants, 3 orders, 4 requests on Postgres, fairness | order and events atomic, outbox ids follow commits, every transaction ends |
| `orders_mem` | the same, in memory | refinement of `OrderLedger`, in which an order is cancelled once |
| `orders_twice` | 2 clients on Postgres | **violated**: one cancellation per order |
| `consumer` | 2 workers, an event, a poison message and one of no interest, 2 deliveries, 2 faults, fairness | applied at most once, nothing settled unaccounted, a silent drop takes a fault or a discarded buffer per delivery and a last one broken off, every event eventually accounted for or given up |
| `consumer_drop` | 1 worker, 2 messages | **violated**: a failed dead-letter copy is retried |
| `event_path` | 2 clients, 1 order, 3 requests on Postgres, 1 relay with batches of 1, 1 worker, 1 delivery, up to 2 copies of a row, a fault in each half, fairness | types of all three parts; only created orders are counted, once; no created order goes missing; its cancellation does not overtake it; refinement of `OutboxRelay`; every created order is counted or where an operator finds it |
| `retention_late` | as `platform`, retention | **violated**: outliving the stream's age is enough |
| `platform`, keys | 2 callers, 2 keys, refresh interval 2 and key age 1, 4 instants, fairness | a rotated key is noticed whatever the traffic, how long a revoked key verifies, held keys survive outages, every verification ends |
| `platform`, rate | 1 bucket, interval 2.5 us, burst 2, 3 us to the ms, 10 instants | the quota over every stretch of time; Retry-After and Remaining predict the next decision exactly |
| `platform`, requests | 2 calls of any of 5 methods, 1 slot, fairness | slots match calls, handlers only run for authorised callers, every answer is mapped, every call is answered |
| `platform`, upstream | 1 call, 3 attempts, 6 instants | no repeated mutation, nothing sent by a call that failed before the wire, time left to answer, no foreign status |
| `platform`, server | 2 calls over gRPC or REST, every subset of gateway, Postgres and Redis, fairness | a deploy loses no call, everything the constructors returned with is closed, SIGTERM ends the process |
| `platform`, worker | pool of 1, with and without a broker, fairness | closers run after the loops, failures reach the exit code, nobody waits for a connection forever, SIGTERM ends the process |
| `platform`, money | 5-bit integers, 2 nanos to the unit, 2 currencies, factors -1 to 5 | amounts are exact, overflow is reported when and only when it happens |
| `platform`, retention | window 3, age 3, retention 4, 12 time units | once within the window, twice only after a late copy |
| `platform`, listing | 3 orders, 2 tenants, pages of 1 and 2, 2 timestamps | no order skipped, repeated or foreign, in sort order |
| `requests_cancelled` | as `platform`, requests | **violated**: a cancelled call is not an internal error |

Why the bounds are enough. Two relays and two workers are the smallest number that can
conflict, and a third adds no new kind of conflict because the interaction is through row
locks and keys. Of the three rows of the relay's runs two are of one order, with a row of
another in between, and they do not fit into one batch. The faults of a run
are enough to combine, for instance, a lost session, a failed publish and a crash. Two
deliveries make the second one the last; with two workers they may wait in two buffers, or both in
one behind another message. A message published twice is in `event_path`: to the projection it
is one more delivery of the same event, which the two deliveries of `consumer` are as well. `event_path` is about what passes between the parts, so
each of them is smaller than in its own run: batches of one row, one delivery, so that a dead letter or a drop happens
after one fault, and two copies, so that an event meets its own deduplication row. In `EventRetention` the retention is the smallest
`config.Validate` accepts, so the bounds of the properties are tight. In `KeyCache` the refresh
interval exceeds the key age, the case in which a stale key meets a rate-limited refetch. The
units of `RateLimit` divide neither the interval nor the tolerance, so every rounding matters.
`Money`'s width leaves amounts next to both ends of the range, and products that wrap around
more than once. A pool of one is the smallest `config.Validate` accepts and the one in which
the loops get in each other's way most. Deadlock checking is off because each model stops when
its bounded requests, rows, faults or instants are used up, or its process has exited.

Fairness. Each relay, transaction and worker takes its next fault-free step eventually (weak
fairness): goroutines are scheduled, the poll timer fires, statements return, and a worker
that exited is restarted by its deployment. A worker empties its buffer, and JetStream goes on
delivering while an unsettled message has a delivery left. `event_path` assumes the same of its
relay and its worker, and nothing of the clients: `EventuallyCounted` starts where an order exists.
No failure is ever assumed to happen or to stop happening other than by the bound on faults. In `KeyCache` goroutines run and `http.Client` ends every request; in
`RequestPath` the interceptors run, deadlines pass, and a store call returns once its context is
done, but a handler never owes a return of its own. `ServerLifecycle` assumes that timers fire
and that Kubernetes gets round to a terminating pod; handlers and clients owe nothing.
`WorkerProcess` assumes that loops run, timers fire and a waiter that is offered a connection
again and again gets one (strong fairness, for the relay alone: `database/sql` queues its
waiters); a drain owes nothing before SIGTERM, because a broker can hold it.
`relay_order` and `event_path` leave publish timeouts out, because one of them ends the
relay (`relay_stops`) and nothing restarts it.

## What the runs found

1. *Two cancels both succeed on Postgres* (`orders_twice`). `orderpg.Get` inside the
   transaction takes no lock and `Update`'s WHERE does not mention the status. The comment at
   `internal/order/service.go:169` says reading inside the transaction prevents this; it does
   so only on `ordermem`. The order ends up cancelled either way; the visible effect is a
   second `OrderCancelled` event.
2. *A timeout ends the relay* (`relay_stops`). `Run` treats any `DeadlineExceeded` as
   shutdown, and a publish whose acknowledgement times out, or quarantine's own deadline,
   returns one. `cmd/worker/main.go:202` says both loops return nil only on cancellation.
3. *A failed dead-letter copy on the last delivery loses the event* (`consumer_drop`),
   although `consumer.go:236` says the original is left to be retried. The proved bound
   (`DropsAreExpensive`) says how bad this is: every delivery must have met a fault or been thrown
   away, and the last one must have been broken off or its copy have failed.
4. *A late republish outlives the deduplication row* (`retention_late`), although
   `00002_events.sql:50` says outliving the stream's retention suffices. The proved bound
   (`RetentionCoversOutages`) gives the right rule: retention of at least the stream's age
   plus the longest time between the first and the last publish of a row.
5. *A caller that hangs up is told the service is broken* (`requests_cancelled`). The handlers
   pass every store error through `asAppError`, which turns `context.Canceled` and
   `DeadlineExceeded` into `KindInternal`; `classify`, which knows better, only sees errors
   nobody wrapped. `apperr.go:64` says the most important thing about a cancelled call is that
   it is not `KindInternal`, and `errmap_test.go` tests the interceptor without the handlers.

Noticed while modelling, and not a run of their own:

- A failed start leaves things open. `closeOpened` runs the registered closers only: a trace
  exporter whose resource cannot be built (`tracing.go:59`), a pool that cannot be unwrapped
  (`app.go:356`) or guarded, and the gateway's in-process listener, `Serve` goroutine and
  connection when the client or the mux fails (`app.go:196-204`) stay open, although `app.go:72`
  says everything already opened is closed. In the model `open = {}` is false of a process
  that exited from `New`; `ExitReleasesWhatWasBuilt` is what holds instead. The process exits
  next; a test that calls `New` keeps the goroutine.
- A last delivery can die in a buffer. `Consume` prefetches, deliveries are counted when the server
  makes them and their redelivery timers run in the buffer; a worker that stops before `Drain` has
  finished leaves them. `consumer.go:131` says that in-flight messages will be redelivered, which
  is not so of one on its last delivery, and nothing dead-letters it. `DropsAreExpensive` bounds
  this loss too.
- `MarkServing`'s comment says `Run` calls it once its listeners are bound. It is called after
  the gRPC bind; the gateway and the admin server bind later, in goroutines, so a REST call can
  arrive early (the `early` outcome of `Connect`). A listener that fails ends the process
  without `Close`.
- With `OUTBOX_MAX_CONNS=1` a drain that waits for the broker leaves the observer no connection:
  its observations fail (and are counted) for as long as that lasts.
- The client's stream chain has no counterpart of `unaryErrors`: a stream's upstream status can
  pass through this service's `ErrorMap` unchanged, which `client/errors.go` says cannot
  happen by accident. `UpstreamFaultsStayUpstream` is therefore stated for unary calls.
- A stream that fails over REST after its first message is a 200 with a trailing error, and before
  it the status is grpc-gateway's own choice; `gateway/errors.go` says so. `AnswersAreMapped`
  shows that the two tables agree on every code the service sends, and excepts the 200.
- `AsAppError` puts the upstream's name, method and code into metadata, which the comments mean for
  the log; with `Unavailable`, which is not redacted, it reaches this service's caller.
- A credentials error that carries a status passes `ErrorMap` with that status, and the text of
  the whole chain; one that carries the caller's context error is answered as that.
- `NewRedis` truncates the emission interval and the tolerance to microseconds separately, so the
  tolerance keeps the fractions the interval lost; `ratelimit.go:77` says exactly `Burst` requests
  are admitted from an idle bucket. It takes an interval of a few microseconds or a very large
  burst to notice (700000 a second and a burst of 100 admit 142; in the model, an interval of
  1.5 us and a burst of 2 admit 3). `WholeIntervalsKeepTheBurst` proves the comment
  (`AtMostBurstAtOnce`) for intervals of whole microseconds; an attempt to prove
  `Remaining <= Burst` in general showed that it is false.
- `NewRedis` accepts a limit above a million a second, for which the truncated interval is zero;
  `QuotaAssumption` leaves such a quota out. `QuotaHolds` is stated with the truncated values.
- A key set document without a usable key counts as a failed fetch: an issuer that withdraws its
  last key this way is not obeyed until it publishes another.
- A panicking RPC writes no access-log record: `Recovery` is outside `Logging`.
- A listing can miss an order whose transaction commits late with a `created_at` behind the
  cursor. `ListingsAreExact` asks for the orders that become visible ahead of it.

## Proofs

All theorems hold for every value of the constants that satisfies the named assumptions;
none assumes more than finiteness and types, except where a theorem's own hypothesis says so:
`ordermem`'s theorems assume `Backend = "ordermem"`, `OneRelayKeepsOrder` and
`CancellationsFollowCreations` a single relay, `RequestsTypeCorrect` and `PlatformTypeCorrect` finitely
many calls, and `WholeIntervalsKeepTheBurst` an interval of whole microseconds. Every invariant below was checked by TLC before it was proved. In the modules that
are proved about, the arms of every `CASE` exclude each other: overlapping arms are a choice in
TLA+, whatever order the model checker tries them in.

- `OutboxRelayProofs`: `TypeCorrect`, `NoLostEvents`, `ClaimsAreExclusive`,
  `QuarantineIsSafe`, `RelayImplementsDelivery`, `OneRelayKeepsOrder`. The
  invariant adds to the properties that
  marks refer to present rows and exclude each other (`TableConsistent`), that a drain's
  acknowledged rows are stored and inside its batch (`DrainConsistent`), and that the broker
  has only recorded rows (`StoredWereRecorded`, needed by the refinement). Without
  `HeldRowsStayMarkable` the commit step could mark a quarantined row. Order (`OInv`) needs, beyond
  the guard of `Insert`, that a batch holds, with each row, whatever its aggregate has still to send before it (`BatchesAreClosed`): the
  claim's `ORDER BY id LIMIT n` takes a prefix, and a second relay is what could break it.
- `OrderServiceProofs`: `TypeCorrect`, `OrderAndEventAreAtomic`, `OutboxIdsAreOrdered` for
  both stores; `MemoryStoreCancelsOnce`, `MemoryStoreImplementsLedger` for `ordermem`. The
  invariant describes what a transaction in flight knows (`InFlight`), that a writer holds its
  row lock (`LockHeld`), and that ids are below the sequence (`IdsBelowNext`): id order
  follows because the id is drawn while the lock is held. `OutboxTellsTheStory` (`HInv`) says what
  the rows of one order are: ids nobody else has (`IdsAreUnique`), one creation, cancellations with
  larger ids (`CreatedFirst`).
- `EventConsumerProofs`: `TypeCorrect`, `EffectivelyOnce`, `NothingSettledUnaccounted`,
  `DropsAreExpensive`. Counts equal membership in `processed_events`
  (`CountedIffProcessed`), and an uncommitted row is unique (`ClaimsExclusive`). The last
  theorem accounts for deliveries one by one: each delivery of an unsettled message has failed,
  waits in a buffer or is being dispatched (`DeliveriesExplained`), and the last delivery of an
  undecided message is still to end unless it was broken off (`LastDeliveryHeld`). So the number of
  workers, and what they buffer, does not matter. `CountsComeFromStream`
  (`SInv`) says that every count has a message of the stream to show for it.
- `PlatformProofs`, retention: `RetentionTypeCorrect`, `RetentionCoversOutages`,
  `ValidatedRetentionIsSafe` (`DoubleCountsAreLate`, from `AgeInv`). The invariant carries the ages of copies (`CopiesAreYoung`) and
  of a forgotten event (`ForgottenOnlyWhenOld`).
- `PlatformProofs`, keys: `KeysTypeCorrect`, `RotationsAreNoticed`, `OutagesRefuseNoHeldKey`,
  `RevokedKeysAgeOut`. The
  bound on revoked keys needs to know how old a cached set can be: a document was built after
  its attempt was stamped (`AnswerIsRecent`), so a revoked key in the cache was fetched at most a
  timeout after its revocation (`KeysAreExplained`), and a published key it lacks is at most a
  timeout older than the last document (`MissingAreYoung`); and a caller that looks a second time does
  so because a fetch has just ended or none may start (`SecondLook`, `AttemptIsExplained`).
- `PlatformProofs`, the composition: `PlatformTypeCorrect` and `PlatformIsSafe` over `PlatformSpec`.
  Every step of the composition is a step of one part and leaves the others alone
  (`PartsStepAlone`), so the conjunction of the nine invariants (`PlatformInv`) is inductive.
- `EventPathProofs`: `PathTypeCorrect`, `PathImplementsRelay`, `ProjectionIsTruthful`, `NothingGoesMissing`,
  `CancellationsFollowCreations`. The proof modules of the three parts are instantiated (`SP`, `RP`,
  `CP`) and their assumptions discharged (`ServiceConstants`, `RelayConstants`,
  `ConsumerConstants`). Every step of the path is a step of each part or leaves it alone
  (`ServiceRefined`, `RelayRefined`, `ConsumerRefined`); the one that is not obvious is
  `CommitIsInsert`, where the row lock that the committing transaction holds gives the guard of
  `Insert`. So `Spec` implies the three specifications (`PartsRefined`) and their theorems are cited,
  not repeated. Two invariants join the parts: outbox and pruned rows are the committed
  events (`OutboxIsEvents`), and the rows the broker stored are those with a message
  (`StreamIsStored`); `PathInv` is these and the invariants of the parts. Each theorem then
  walks along the path: a count has a message, the message a stored row, the row an event, the
  event an order. A cancellation in the broker needs its creation by `CreatedFirst` (the outbox)
  and `PerAggregateOrder` (the relay) together.
- `ProcessProofs`: `WorkerTypeCorrect` and `WorkerExitsInOrder` (`WInv`): who asks for a
  connection or holds one is busy with the step that needs it (`UsersAreBusy`), and the phase of
  `run` bounds the states of its loops (`PhasesMatchLoops`). `ServerTypeCorrect`,
  `ShutdownIsGraceful` and `ShutdownReleases` (`SInv`): everything open has its closer in `steps`
  or among the steps still to run, or belongs to the constructor at work or the one that failed
  (`ResourcesHaveClosers`). So `ShutdownReleases` says that a process that was shut down has closed
  everything, and one whose `New` failed everything but what `LeftBy` allows; it says nothing of
  a process that a listener's error ended, which closes nothing. The servers' steps come before any
  closer (`ServersStopFirst`, from `ShutdownOrder` on `Reverse`), and the state of a port and of
  each call in flight follows from which step is next (`PortsFollowSteps`, `CallsFollowSteps`). A
  forwarded call finds its gRPC server because the gateway's step is the first.
- `RequestProofs`: `RequestsTypeCorrect`, `AdmissionIsExact`, `HandlersAreAuthorised`,
  `AnswersAreAlwaysMapped` (`RInv`): the holders of slots are the calls past `Admission`
  (`SlotsAreCounted`), past `Auth` a principal fits the rule of its method (`PrincipalsAreSet`),
  and whatever error is on its way out can be mapped (`ErrorsAreSafe`), by lemmas on
  `classify`, `ToStatus`, `asAppError` and `handleError` for every error of the model; the two HTTP
  tables agree on the codes that are left (`StatusesAgree`).
  `UpstreamTypeCorrect`, `UpstreamFaultsAreContained` (`UInv`): a method outside the policy is
  sent once (`SentOnce`) and the call's limit lies before the handler's deadline
  (`LimitsAreTight`, from `BudgetIsLess`: the reserve never rounds to nothing). What
  a credentials or interceptor error says of itself is passed on, and nothing is claimed of it
  except that such a call was never carried out.
- `AlgorithmProofs`, quota: `RateTypeCorrect`, `QuotaIsNeverExceeded`, `AnswersAreExact`,
  `WholeIntervalsKeepTheBurst` (`QInv`). Every grant, with those after it, takes its interval of
  the time paid for, which is the stored TAT or, of a key that is gone, now (`GrantsArePaid`); a
  key's whole milliseconds end no earlier than its TAT (`KeyOK`), so an expiry forgets nothing
  owed. What the last answer said is tied to the key (`ToldOK`).
- `AlgorithmProofs`, money: `NewMoneyIsExact`, `AddAndSubAreExact` and `MulIsExact` are about the
  operations on every valid amount, not only the model's samples: the answer is exact, or it is an
  overflow and the true result cannot be represented (`Outcome`). They rest on what wraparound
  does near the range (`WrapNear`) and on `DivisionDetectsWraparound`, the check of `Mul`: dividing
  the wrapped product gives the factor back only if nothing was lost. `MoneyTypeCorrect` and
  `MoneyIsExact` follow for sequences of operations.
- `AlgorithmProofs`, listings: `ListingTypeCorrect`, `PagingIsExact` (`LInv`). What was returned is
  committed and keeps its key (`SeenIsStored`), the token is the key of the last order returned,
  and what is owed still matches and lies beyond the token (`Resumes`); a page is a prefix of the
  sorted matches (`PageFacts`), so what it leaves out is beyond the next token.

Only model-checked: liveness (`AtLeastOnce`, `TransactionsEnd`, `EventuallyAccounted`,
`EventuallyCounted` and the platform's `[]<>` properties), which is beyond the prover; and that a
sorting of every set of matches exists (an induction over data; if one did not, `List` would be
disabled and the runs would show it). Every safety invariant and action property of a passing run
is a theorem.

## Not modelled

Payloads, headers, traces, log lines and metrics are abstracted everywhere; reads that change
nothing (`Get`, `Count`, `Eligible`) have no actions. Signature verification, key encodings,
goose, grpc-go, the gateway's generated mux and the SQL drivers are libraries, modelled by what
the code relies on.

- *Configuration*: parsing of the environment and most of `Validate` are independent checks of
  single values; the rules that relate two components appear as assumptions of their modules.
- *gormx*: connection options, a tenant guard whose predicate the stores also write
  themselves, a query counter for tests.
- *Migrations, observability, developer tools*: one-shot scripts, exporters and log handlers;
  the schema's constraints appear in the modules that use the tables.
- *Protobuf conversions* (`convert.go`, `orderpg/model.go`): field by field, and tested so.
- *Retry throttling and keepalive* of the outbound client: options of grpc-go.
