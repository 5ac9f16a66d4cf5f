# API Time Machine: TLA+ models, checks and proofs

The repository is a temporal REST API: every change of a user, product or order is an
immutable event in PostgreSQL, the current state is a projection written in the same
transaction, past states are replayed from snapshots and events, and events leave through
a transactional outbox. This directory models that system in TLA+, from the migrations an
instance runs when it starts to its exit, checks it with TLC, and proves the write path, what its
clients read, replays from snapshots, answers through the cache, the order of publishing, the
deduplication of commands, the rate limiter, the migrations and the shutdown with TLAPS.

    tlc -workers 2 -config MCOrderCommands.cfg MCOrderCommands    # a run
    tlapm CommandsProofs.tla                                      # the proofs

## The system

| Component | State | Operations | Interacts with |
|---|---|---|---|
| Command path (`internal/user/service.go`, `internal/platform/commands.go`, `internal/eventstore/store.go`) | `events`, `outbox`, sequences; locals of each handler | create, update, delete, cancel, add item: one `append` | PostgreSQL transaction and pool, projector |
| Aggregates (`internal/{user,product,order}`) | fields of an entity | `New`, `Apply` | used by projectors and replay |
| Projections (`internal/projection`) | `users`, `products`, `orders` | `Apply` in the event's transaction, `GetCurrent` | command path, GET handlers |
| Replay engine (`internal/replay`) | locals of a replay | `ReplayUser/Product/Order` | snapshots, events |
| Snapshots (`internal/snapshot`, `internal/worker/outbox.go`) | `snapshots` | `Latest`, `Save`, `SnapshotBuilder`, the user service's goroutine | replay engine |
| Outbox publisher (`internal/worker/outbox.go`) | `outbox.published`, the NATS client's buffer | poll, publish, mark | NATS |
| Replay cache, warmer (`internal/cache`, `internal/worker/cache_warmer.go`) | Redis keys with a TTL | get or replay and set | replay engine |
| Idempotency keys (`internal/api/helpers.go`, `internal/platform/commands.go`) | `idempotency_keys` | get before, store after a user command | user handlers |
| Rate limiter (`internal/api/ratelimit.go`) | request times per client | `allow` | every HTTP request |
| Authentication (`internal/auth`) | none | token, middleware, role checks | every HTTP request |
| gRPC API, diff engine, parameter parsing | none | conversions, `Compare` | replay engine |
| Migrations (`pkg/migrate`), lifecycle (`cmd/api/main.go`) | `schema_migrations`; started goroutines | `Up`; start and shutdown | all |
| Configuration, observability, explorer UI, generated protobuf | none that the rest reads | | |

Handlers, workers and snapshot goroutines run concurrently, in several instances of the
program; they share only the database, Redis and NATS. What is hard:

* two handlers work on one entity: the version is read outside the transaction and checked
  long before the insert, the unique index alone decides;
* a handler holds one pool connection while it asks for a second;
* ids and `created_at` are assigned before a transaction commits, so neither follows the
  order in which events become visible;
* any database call can fail, a commit can succeed unanswered, an instance can stop between
  any two steps;
* replay reads a snapshot and then the events, which have grown; item events of orders are
  not idempotent, so one event too many or too few shows;
* publishing is buffered by the NATS client, marking is not, and publishers of several
  instances read the same rows;
* a cached replay outlives the log it was made from, and a slow fill can put an old one back;
* a diff replays its two states one after the other;
* workers compete with commands for the connections of one pool, and main does not wait for
  them when it shuts down;
* instances that start together run the same migrations.

What makes the parts correct: the log of an entity is contiguous, starts with its only
creation, and grows by atomic conditional appends; replies are truthful; the read model has
the version of the log; a snapshot holds the state of its version; a query returns the state
of the version or instant it names, through the cache with a bounded delay; every stored event
is published, in an entity's order; windows of the rate limiter are exact; tables are created
once and before anybody serves; and a shutdown ends and cuts nothing it need not cut.

## Modules

| Module | What it is |
|---|---|
| `VersionedLog` | abstract specification of the write path: one log per entity, atomic conditional append |
| `Commands` | the write path step by step; implements `VersionedLog` |
| `Entity` | what the write path and the replay engine take from an aggregate, as parameters, and the replay of a history, a fold |
| `UserAggregate`, `ProductAggregate`, `OrderAggregate` | `New`, `Apply`, the table's columns: values for the parameters of `Entity` |
| `OrderCommands` | `Commands` on orders, and what their totals should be |
| `TimeTravel` | replay engine, snapshot table, snapshot builder, snapshots of the user write path |
| `Outbox` | outbox rows, publishers, NATS connection |
| `Idempotency` | the HTTP command handlers and the Idempotency-Key header, around the log of `VersionedLog` |
| `ReadApi` | the query handlers over HTTP and gRPC, their parameters, the replay cache, searches and diffs |
| `RateLimiter` | the sliding window of each client |
| `Migrate` | `migrate.Up` in several instances that start together |
| `Lifecycle` | requests and workers of an instance on one pool, and the order of its shutdown |
| `CommandsProofs`, `TimeTravelProofs`, `OutboxProofs`, `IdempotencyProofs`, `ReadApiProofs` | theorems about the module each is named for |
| `InstanceProofs` | theorems about `Migrate`, `Lifecycle` and `RateLimiter` |
| `EntityProofs` | lemmas about `ReplayOf` for histories of any length |
| `HistoryProofs` | theorems about what histories lead to: replays, rows and the totals of orders |
| `MCOrderCommands`, `MCUserCommands`, `MCProductCommands` | commands and payloads for TLC |
| `MCUserReplay`, `MCOrderReplay` | changes and queries for TLC |
| `MCReplay` | `MCOrderReplay`, and an instance of `TimeTravel` with two users and the snapshot builder |
| `MCIdempotency` | commands and retries for TLC |
| `MCQueries` | queries for TLC: `ReadApi` with three sets of requests, and `RateLimiter` |
| `MCOutbox` | `Outbox` with one publisher that is interrupted, and an instance of it with two |
| `MCPool` | `Lifecycle`, `Migrate`, and an instance of `Commands` with the commands on two users |

`Commands` and `TimeTravel` take the aggregate as CONSTANT operators of `Entity` (`Fresh`,
`ApplyEvent`, `TableColumns`); an MC module extends one aggregate and one of the two, and its cfg
substitutes `New`, `Apply` and `Columns`. A few operators marked *Mutant* are wrong variants
of the definition after them; substituting one breaks the property it is paired with in
`PROJECT.json`, which shows that the property constrains that piece of code.

`MCQueries`, `MCPool`, `MCReplay` and `MCOutbox` put several machines into one run. These share no state: a
variable (`part`, `publishers`) that never changes says which of them moves, so a run checks
each on its own, and the properties repeated there say which machine they are about.

### Commands and the code

`user.Service.append` and `platform.CommandService.Append` are the same sequence of database
calls, and one writer's `pc` walks through it:

| Action | Code |
|---|---|
| `Begin` | `Pool().Begin`; fixes `NOW()`, takes a connection |
| `Accept`, `Reject` | `LatestVersion` on a second connection, then the three checks |
| `DrawId` | `INSERT INTO events`: `nextval` of the id, before the unique index is consulted |
| `Insert`, `UniqueViolation` | the index lets the row in, or a committed row refuses it (`ErrConflict`); while another transaction holds the key, neither is enabled and the writer waits |
| `InsertOutbox`, `Project` | the outbox row; the projector's upsert |
| `Commit`, `CommitUnanswered` | `tx.Commit`; its answer may be lost |
| `GetCurrent` | the row read back for the reply, on a connection of its own |
| `Fail` | any call returns an error or the request is cancelled; the deferred `Rollback` |

`events`, `outbox` and `readModel` hold committed rows; what a transaction has written is in
`tx` and `staged`. For the code of products and orders the read back is in their services.
A transaction's `at` is unique, since `clock` counts begun transactions. It names the command
in `replies`, the record of what clients were told.

### TimeTravel and the code

`Commit` appends in one step (`Store`), which is what `Commands` is proved to do. `ReadSnapshot`,
`LoadEvents`, `ApplyNext` and `Reply` or `SaveBuilt` are the statements of `Engine.replay`
between which other processes move; `Select` is the builder's query, `ReadBack` and
`SaveSpawned` the end of `append` and the goroutine it starts. `truth` is a history variable:
the fold of the log, kept as the log grows. `SnapshotEvery = 0` is the code of products and
orders, whose `maybeSnapshot` does nothing; the user service takes the configured value.
`created_at` may lie up to `MaxLag` ticks before the commit, so with two it can decrease from one version
to the next, as it can in the code.

### Outbox and the code

`DrawId`, `CommitRow` and `RollbackRow` are the write path seen from the outbox: an entity has
at most one open transaction past its insert (`OnlyTheNextVersionIsHeld`), several entities
have one each. `Poll`, `Publish`, `PublishRefused`, `Mark` and `MarkFails` are `publishBatch`
statement by statement; `batch` is the set of ids its SELECT returned and `Current` the one
handled next, since the rows come ORDER BY id. `Flush`, `Disconnect` and `GiveUp` are the NATS client as the code
uses it (`Publish` returns when the message is buffered); they are external. `Start` finds the
broker or not (`BrokerAtStart`): without it `nc` stays nil until the next restart, and `Poll`
returns at once. `Refuses` has the three reasons for which `Publish` returns an error: a closed
connection, a full buffer while it reconnects, and a payload above the broker's `max_payload`
(`Oversized`). The last is refused at every tick, and `publishBatch` returns at its row, so nothing behind it
is published any more.

### Idempotency and the code

One `call` per handler goroutine. `BadRequest`, `Replay`, `LookupMisses` and `LookupFails` are the
lines of a handler before its command, `AppendEvent`, `Refuse`, `CommandFails` and `ReadBack` the
command service, `StoreKey`, `StoreFails` and `Reply` the lines after it; `Stop` is an
instance that ends or a client that goes away. The command itself is `Log!AppendTo`, one step,
as `Commands` is proved to implement it; a command that loses the race for a version is
refused with 409 (`Refusals`). `KeyedAggregates` are the users: the handlers of products and orders
never look at the key. `ParsedVersion` is `parseExpectedVersion`: header before parameter,
an optional leading `v`, no expectation if the rest is not a number. The database's and the
instances' clocks are one `clock`. `effects` and `replies` are history variables; payloads are
left out.

### ReadApi and the code

One `job` per goroutine that serves a query. Each handler (`GetUser`, `CatalogDiff`,
`GrpcReplayUser`, ...) is an action that refuses its request or turns it into a `plan`: the
queries it will ask, one after the other, of a source - the cache, the replay engine, the
projection, the history or the search. `BoundOf`, `QueryOf`, `BodyQuery` and `EntityQuery` are the
parsers over the forms a parameter can have: absent, no number and no time, a number, a number
after a `v`, a time. The handlers of products and orders are the same code and one action each.
`Hit`, `Miss`, `Replay`, `Store` and `StoreFails` are the statements of `ReplayCache.ReplayUser`;
`Miss` stands for an absent, expired or evicted key, for a failing GET and for a client that is
nil. An entry has a key of the three kinds of `cacheKey` and the TTL of its SET.

A commit is one step, as `Commands` shows, and so is the save of a snapshot. A replay is two,
`ReadSnapshot` and `Replay`, with the choice `Engine.replay` makes: only a target version rules the newest
snapshot out. A state is the set of versions it is made of and the version up to which it came out of
JSON (`Scanned`, `Decoded`). `SaveSnapshot` lets a product's snapshot be made of all versions up to its own, as
`TimeTravel` is proved to; a user's may lack the earlier ones, because the user service saves its
projection row, and `SelectRow` reads a row made of the latest event alone. `ToMap` gives each field
the version of the event that wrote it last, and the two times with their zones: pgx scans local times,
while JSON yields UTC where local time is UTC (`LocalIsUTC`). `Compare` tells these apart, as
`reflect.DeepEqual` does.

### RateLimiter, Migrate, Lifecycle and the code

`allow` runs under a mutex and is one action, `Allow` or `Refuse`. `allowed` keeps the times of all
allowed requests for good; of these the limiter's map holds the ones at the positions `times`, so two
requests at one instant count twice. `refused` is a history variable.

`Migrate` follows `Up` statement by statement in each instance. PostgreSQL is what the code
relies on it to be: a transaction that creates a table another one has just created waits for that
one (`Wait`) and fails if it commits (`Collide`); if the table was committed before,
`IF NOT EXISTS` finds it (`Exec`), and the row of `schema_migrations`, a primary key, refuses
the second recorder (`RecordRefused`). An instance that fails exits and is started again.

`Lifecycle` has one `task` per request, the publisher and the cache warmer, with the connections
they hold at each point: a command one in its transaction and a second for `LatestVersion`, a
worker one for its open rows and a second for the UPDATE or the replay. `Signal`, `GracefulStop`,
`Shutdown`, `CloseNats` and `ClosePool` are the end of `main` in its order, with the deferred
`pool.Close` last, which waits for connections in use. The ten seconds of `shutdownCtx` start
before `GracefulStop` (`TimerEnds`). The client's `link` to the broker may break, losing what was on
its way, and return; `CloseNats` sends what the client holds, unless it is reconnecting. Each request is seen in the calls it makes of the pool; its
refusals and failures are those of `Commands`. The timeouts of `net/http` (`main.go:101`) are left out: they
end a stall in the pool with an error.

## Runs

| Run | Instance | Shows |
|---|---|---|
| `commands` | 2 writers, 1 order, 4 transactions, 3 connections | all invariants of `Commands`, `AppendsAtomically` and `TotalsAgree` |
| `instances` | three machines, fair: 2 writers, 2 users, 3 transactions, 3 connections; 2 commands, 1 query, 1 row, both workers, 5 connections; 3 instances that start, releases of 1 and 2 files, 1 failure | `CommandsAnswered`; an instance answers every request, its shutdown ends and cuts only what the timer allows, what is marked was sent unless the link broke; each file is applied once and before an instance serves it, and all come to serve |
| `past_reads` | 2 writers | `PastIsSettled` is violated |
| `product_read_model` | 2 writers, 1 product | `ReadModelMatchesHistory` is violated |
| `user_snapshots` | 1 builder, 2 users with 2 events each, write-path snapshots | `SnapshotSound` is violated |
| `order_replay` | two machines: 1 reader, 1 builder, 3 events, 1 failure, lag 2; fair, 1 builder, 2 users, batch of 1, write-path snapshots, 1 failure or restart | snapshots and version queries of orders are exact, time queries in their version, and in their state where creation times are ordered; the users' builder catches up once commits cease |
| `time_query_snapshots` | the same with a query for an instant | `TimeQueryExact` is violated |
| `outbox` | two machines, fair: 1 publisher, 3 rows of which the third is oversized, 1 stop, 1 break, 1 failure; 2 publishers, with or without a broker, 2 rows, 1 break, 1 failure | order of first deliveries, what two publishers leave of it, nothing else loses an event, the outbox drains up to an oversized row |
| `outbox_crash` | 1 publisher, 1 row, 1 stop, fair | `DeliveredAtLeastOnce` is violated |
| `idempotency` | 2 handlers, 4 requests over 2 keys, 1 user, 1 product, TTL 1, 1 failure or stop | replays are earned and agree, conditional and answered commands take effect once |
| `queries` | four machines: 2 handlers, 3 cached queries of a user whose log grows to 2, TTL 1; 2 queries of every kind of a user with 2 events and a snapshot; 1 of a product with 3 events, 2 snapshots, lag 1; 2 clients, 4 requests each, limit 2 in a window of 2 | answers, searches and diffs are those of a log not older than the cache allows and of the snapshots it has; windows are exact |
| `diff_times` | the same with 2 events, 1 snapshot and no lag | `DiffOnlyOfEvents` is violated |

Bounds. Two writers are enough to race for a version, wait for a key and be refused; four
transactions reach a creation, two conditional updates of the same version and a later
reader. `MaxClock` bounds begun transactions and so ids and events. Three connections
are one more than two writers hold at once. Three events let a replay start from a snapshot
that is older than, equal to or newer than its target while the log still grows; the run asks for a
version, which is the current state of a shorter log, and an instant; the builder asks for the current
state, and the theorems are about every query. A lag of two lets a later version carry an earlier time.
Three rows and
a batch of two make a batch that is not the last, and a row that commits behind it. Four
requests let two handlers execute one key at once and two later requests replay it; one tick is
enough for a stored reply to expire. For the cache, two handlers let a slow fill overtake a newer
one and a third request hear it; a diff asks for two keys, one of which may name a version
that does not exist yet. One snapshot of a user can be newer than the instant asked for, or lack earlier events;
two of a product let one be saved between the two replays of a diff. A limit of 1 leaves out events
of a search that matches two or three. Four requests at
five instants fill a window of two, are refused, and are allowed again when it has slid. Three
instances are two that collide and one that waits for them; two files leave one half applied
between releases. Five connections are one more than commands and workers of that instance hold
at once: two commands, the publisher and the warmer.

Deadlock checking is off everywhere: when the bounds are used up and every process is idle,
the system rests.

Fairness. `Commands!FairSpec`: a handler that can take its next step takes it (`Begin`, a
failure and a lost answer are never forced). `TimeTravel!FairSpec`: the builder's ticker fires for as
long as its instance runs. `Outbox!FairSpec`: likewise for the publisher, a stopped instance is
started again by whatever runs it, and an accepted message is flushed unless the connection
breaks first. `Migrate!FairMigrateSpec`: calls return, and an instance that exited is started again; the
repository's compose file has no restart policy, so `AllServe` (`InstancesServe` in the run) is about a deployment that has one.
`Lifecycle!FairSpec`: database calls return, whoever waits for a connection that stays free gets
it, and time passes; nothing makes a request or a signal arrive. No fairness is assumed of
failures, stops or writers that start.

## What the runs found

1. `product_read_model`: the projector applies an event to an empty aggregate and overwrites
   the row, so a partial event empties the other fields (`internal/projection/catalog.go:25`; the
   same in `user.go:23` and for orders).
2. `user_snapshots`: the user service saves that row as a snapshot (`internal/user/service.go:129`),
   and later replays start from it.
3. `time_query_snapshots`: a query for an instant starts from the latest snapshot even if it is
   newer than the instant (`internal/replay/engine.go:80`).
4. `past_reads`: `created_at` is the start of the transaction; an event appears in the past of
   queries already answered (`migrations/001_init.sql:10`). Creation times can even decrease from one
   version to the next; a query for an instant in between then has a version whose earlier events it
   lacks, which is why `TimeQuerySound` claims the state only for ordered times.
5. `diff_times`: a diff of which one state was replayed from a snapshot and the other was not reports
   `created_at` as changed, because `reflect.DeepEqual` tells a UTC time from an equal Local one
   (`internal/diff/engine.go:31`). It needs processes in UTC, and a snapshot that is saved between the two
   replays or that only one of the two bounds allows.
6. `outbox_crash`: a row is marked published when its message is only buffered
   (`internal/worker/outbox.go:66`). A broker that is down when the instance starts is never tried again
   (`BrokerAtStart = {"nil"}`), and two instances may publish an entity's events out of order:
   with two publishers `FirstDeliveriesInOrder` fails, and what remains is `OvertakenOnlyInBuffers`.

`Idempotency` also shows what its properties have to leave out: an unconditional update is
executed twice if its retry overtakes the store of the key, if the handler stops after the commit,
for products and orders always, and for users again and again once a row has expired, because
`ON CONFLICT DO NOTHING` keeps the expired row. ADR-005 says without these limits that the
key deduplicates retried commands.

The other modules show limits of the same kind, by their constants:

* `Lifecycle` with 4 connections violates `Answered`: two commands, the publisher and the warmer hold
  one each and wait for a second. pgxpool's default is the larger of 4 and the number of CPUs. With 2
  connections two commands hold both, `pool.Close` waits for them, and `ShutdownEnds` fails. In the code such
  a stall ends when `ReadTimeout` (15 seconds, `main.go:101`) cancels a request's context: its `Acquire` fails,
  its transaction is rolled back and its client is told 500.
* An event whose message is above the broker's `max_payload` stops the outbox: `Publish` refuses it at
  every tick and `publishBatch` returns there (`internal/worker/outbox.go:62`). `AllDelivered` and `AllDrain` are about
  the rows in front of it.
* A marked row is lost as well if `main` closes the NATS client while it reconnects (`main.go:144`), which
  `MarkedIsSent` excepts.
* The builder's SELECT has a LIMIT and no order, so entities that keep growing can keep others out of its
  batches for as long as they grow; `UsersCatchUp` is about a log that has stopped growing.
* The version and the state of an answer for a user come apart: snapshots of the user service and rows of the
  projection lack what earlier events set, and `StalenessBounded` leaves open which events a user's state is made of.
* The timer of `srv.Shutdown` runs while `GracefulStop` waits for RPCs, which has no limit of its
  own: `RequestsFinished` can excuse an HTTP request only by `timer = "out"`, which a slow RPC can
  bring about.
* An answer through the cache can be as old as the TTL and the time a fill took together
  (`StalenessBounded`), because a slow fill stores a replay of an older log. This includes versions
  and instants that lay ahead when they were first asked for.
* A request with both `version` and `at` is cached under its version alone, and the next with another
  `at` gets the same answer. `SingleBounds` leaves such requests out of the instances and the
  theorem; with them `StalenessBounded` fails.
* The bounds of a product's or order's diff that cannot be read count as the current state, those
  of a user's are refused (`CatalogBound`).
* The cache warmer discards what it replays; ADR-006 says it pre-populates the cache.
* Two instances that apply the same file at once make one of them exit (`Collide`, `RecordRefused`).

## Proofs

`CommandsProofs` proves of `Commands`, for any sets of writers, entities and commands, any
`ApplyEvent` and any pool, from `RequestsAssumption` (commands name known entities and
natural versions) and `BoundsAssumption`:

* `TypeCorrect`, `HistoryIsContiguous`, `OnlyTheNextVersionIsHeld`, `CreationIsFirst`;
* `WritePathAppendsAtomically`: `Spec => Log!Spec` under the mapping of an entity's committed
  rows to the sequence of their changes.

The inductive invariant is

    IInv == TypeOK /\ LatestVersion(a) \in Nat for every a
            /\ HistoryContiguous /\ InFlightSound

`HistoryContiguous` alone is not inductive: a commit of version *current + 1* extends 1..n only
if *current = n* still holds, long after it was read. `InFlightSound` supplies it: a
transaction in flight read a version not newer than the latest, and one that holds its row
holds exactly the next version, because the unique key lets nobody else hold a row of the entity.
`Insert` establishes this: the key of *current + 1* is not taken, the history is 1..n, so
*current = n*. `Commit` keeps it for the others since none holds a row of the same entity.
A step therefore either leaves every history alone or appends the held row to one of them
(`CommitOrSame`, `HistoryStep`), which gives the invariants and the step of the refinement.

The second part of `CommandsProofs` shows, from the same assumptions: `ReadModelIsFresh`,
`IdsOrderVersions`, `RepliesAreTruthful`, `NoUpdateIsLost` and `WritesAreRead`. On top of `IInv` it keeps

    CInv == Stamped /\ Told /\ Numbered /\ OutboxNumbered /\ StagedFresh
            /\ ReadModelFresh /\ RepliesTruthful /\ ReadYourWrites

`Stamped` makes a start time the name of one command. `Told` says that a transaction that
has committed left its row, and passed its check against the version before it, so two
successes that named one version would be one event (`NoUpdateIsLost`). `Numbered` and
`OutboxNumbered` say when an id was drawn: after every event the transaction read, so ids follow the
versions although other transactions draw ids before they commit; the outbox's ids are drawn
while the unique key is held. `StagedFresh` says that the row the projector read is still the row it will
replace, for the same reason.

The last part is about waiting. ENABLED is beyond the provers, so `Ready(w)` spells out the guards of
a writer's next step (TLC found the two to agree). `OnlyThePoolIsWaitedFor`: when no command can go on,
all connections are held by transactions that want a second one to read the latest version. Waiting
for a unique key adds no cycle, since who holds a key holds what it needs. `NobodyIsStuck`:
with a connection more than writers, somebody can always go on. This is the safety half of
`CommandsAnswered`; that it does happen needs the fairness and stays with TLC.

`EntityProofs` and `HistoryProofs` prove what depends on whole histories. The library's induction
theorems take the predicate as an operator, which the provers cannot instantiate; `NatSetInduction` takes
it as a set and follows from < being well founded. With it, `ReplayOf`, a fold, is shown
to be the recursion it stands for: nothing yields `Fresh` (`ReplayOfNone`), one event more applies that event
to the replay of the others (`ReplayOfOneMore`), for any `ApplyEvent` and any length. `HistoryProofs`
concludes of `Commands`, from the invariants above:

* `ReplayIsIncremental`: a step leaves every replay of a committed history alone or applies to one of them
  the event it commits;
* `RowsForgetThePast`: a row holds the table's columns of what its latest event makes of an empty entity,
  and nothing of the events before it, which is why `ReadModelMatchesHistory` fails;
  `CreatedRowsMatchHistory`: until the first update the two are the same;
* `OrderTotalsAgree`: `TotalsAgree`, under the hypotheses that `Fresh`, `ApplyEvent` and `TableColumns` are the
  order's `New`, `Apply` and `Columns`, which is the substitution of the cfg. Each event of an
  order leaves the total the sum over its items (another fold), and the replay hands this on from version
  to version.

`TimeTravelProofs` proves of `TimeTravel`, for any entities, readers, builders, queries, batch size and
`ApplyEvent`, `TypeCorrect`, and for `SnapshotEvery = 0`:

* `SnapshotsAreSound`, `VersionQueriesAreExact`, `SnapshotsAreInvisible`;
* `TimeQueriesAreSound`: `TimeQuerySound`, whatever `MaxLag` is.

`SnapshotEvery = 0` is the code of products and orders; for users the theorems would be false, as
`user_snapshots` shows. Decreasing creation times are part of the fourth finding. The shape of
the state is `TInv`: in particular `RunSound` says of every replay that its snapshot was one
its query allows and that it has loaded exactly the matching versions up to the log's length
at that moment. What the states are is `SInv`: `TruthChain` (each version's state is `ApplyEvent` of the one
before), `SnapshotSound`, `StateSound` (a replay's state is the one after the last event it
applied) and `AnswerSound`. `ApplyNext` keeps `StateSound` because the matching versions above the
snapshot have no gap (`Prefixed`): a query for a version matches a prefix of the log, one for an
instant does if creation times are ordered; if not, only the version of the answer is claimed, which
is that of the last matching event. Applied events are then consecutive, and the state
of the last one is that of the version asked for, whatever commits, builds, failures and
restarts came in between.

These theorems compare with `truth`, a history variable. `TruthIsReplayed` says, for any `SnapshotEvery`, what it
is: for each version the replay of the first events up to it, by induction over the versions
(`ChainReplays`). `SnapshotsAreInvisible` puts the two together: every snapshot and every answer for a
version is a replay from the first event.

`OutboxProofs` proves of `Outbox`, for any entities, batch limit, rows, stops, breaks and failures:

* `TypeCorrect` and, for any publishers, `NothingIsPassedOver`: `OvertakenOnlyInBuffers`;
* `OnePublisherKeepsOrder`: `FirstDeliveriesInOrder` if there is one instance.

Both rest on `Numbered` (an entity's rows commit in the order of their ids, so no row comes in
before one of the same entity that is already there: `NothingPrecedesLater`) and on batches being the first
unpublished rows (`BatchIsPrefix`). With several publishers that are not interrupted, marked rows
were accepted, batches are closed under earlier rows not yet accepted, and what lies in a buffer has its
predecessors before it there, in another buffer, or delivered (`MarkedAccepted`, `BatchesClosed`,
`BuffersOrdered`). With one publisher the invariant is a disjunction. If no call failed, a row is taken up
only when its predecessors are marked, and the buffer and the stream are sorted
(`PredecessorsMarked`, `QueuesSorted`), also when messages are lost. If no connection broke, what lies in the buffer or
the stream has its predecessors before it (`PredecessorsFirst`), except those that a stop
lost: these are marked and never come back (`Lost`).

`IdempotencyProofs` proves of `Idempotency`, for any handlers, entities, requests, keys and TTL and
any number of failures, from the assumptions on its constants: `TypeCorrect`, `NoUnearnedReplay`,
`RetriesHearTheSame`, `ConditionalCommandsRunOnce` and `AnsweredCommandsRunOnce`, that is every property
of the run. The inductive invariant is

    IInv == TypeOK /\ EffectsInLog /\ RepliesBacked /\ AnsweredKept /\ ReplaysFromRows

`EffectsInLog` ties each effect to one version of its entity, and a conditional command to the
version it named: two effects of one such command would be the same version. `RepliesBacked`
carries "some effect under this key" from the append over the locals and the key's row to the
replayed reply. `AnsweredKept` says that a success is answered only when its key has a row (or
one of its calls failed), so that a handler which came later and still executes found
the row expired. `ReplaysFromRows` says that a key has one row and that every replay is of it.

`ReadApiProofs` proves of `ReadApi`, for any handlers, users, products, orders, requests, TTL and limits,
from `NumbersAssumption` and `RequestsAssumption` (what a request's fields can be, by its route):

* `TypeCorrect`; `DiffsTellEvents`: `DiffTellsEvents`; `SearchesAreComplete`: `SearchComplete`;
* `AnswersAreFreshEnough`: `StalenessBounded`, if also `SingleBounds` holds.

`TInv` is the shape of the state: what lies in the log is past (`LogInv`), a snapshot has its version's event
and none the log lacks, and for products and orders all up to its version (`SnapInv`), a handler's place
follows from the source of its plan (`JobInv`), and Redis has one entry per key, of versions the log has
(`CacheInv`). `AskPlans` sums up the fifteen ways a request begins, `HandlerKinds` the nine statements after it. Of
an answer, `Seen` says that the log had exactly its first n events at some moment between two times, that
some snapshot of a version up to n was usable for the query, and that the answer is made of what the query
selects of these events and what lies behind the snapshot. The log only grows, what it adds becomes
visible later, and a version that has a snapshot keeps one (`Kept`), so `Seen` stays true. On top of `TInv`,

    SInv == JobSound(h) for every handler /\ EntrySound(e) for every entry /\ StalenessBounded

`EntrySound` is what makes the bound inductive: the moment an entry was replayed is at most the TTL and the slowest
fill before it expires, so a hit finds it less than that old, whatever fills overtook each
other. A key has to stand for one query (`KeysDiffer`), which is where `SingleBounds` is needed.

For diffs the invariant keeps that the first of two states is a prefix of the log cut by its bound, with what
lies behind the snapshot it started from (`FirstOfTwo`). The second is read from a log that has grown, cut by
a bound that is not before the first (`BoundsInOrder`); its snapshot is at least as new, unless its bound is
a version, which the first one's snapshot did not exceed either. So the first state's events are among the
second's (`SecondHasFirst`).

`InstanceProofs` proves of `Migrate`, for any instances, releases, failures and restarts:
`FilesAppliedOnce` and `NobodyServesWithoutTables`. What an instance found in `schema_migrations` is old
when it commits; the inductive invariant says what remains true of it:

    MigrateInv == MigrateTypeOK /\ AppliedOnceInOrder /\ Reached /\ OneCreator
                  /\ CommitsNext /\ Finished

The files before the one an instance is at are applied (`Reached`), so it is at most at the next
one. Only one transaction has created the tables of the next file (`OneCreator`), because the
catalog makes the others wait and then fail. The primary key refuses the version of an applied
file, so a transaction that recorded is about the next one (`CommitsNext`), and its commit extends
1..n by n + 1.

It proves of `Lifecycle`, for any finite set of commands, any queries and rows and any
pool: `NoRequestCutShort` and `MarkedReachBroker`. The inductive invariant is

    IInv == TypeOK /\ TimerOff /\ GrpcStopped /\ HttpStopped /\ PoolEmpty /\ FailedLate
            /\ Accepted /\ Flushed

`GrpcStopped`, `HttpStopped` and `PoolEmpty` carry past each close what it has waited for: no RPC is
pending, then no HTTP request unless the timer has run out, then nothing is in a transaction. `FailedLate`
follows, since a handler finds the pool closed only after them. `Accepted` says that a row is marked
after the client took its message, which it holds or has sent as long as the link has not broken, `Flushed`
that the buffer is empty once the connection is closed; after that `Publish` is refused. The commands are finite so that "no connection in use"
means "no transaction".

`ShutdownWaitsOnlyForThePool` and `ShutdownIsNeverStuck` are to `ShutdownEnds` what the theorems about waiting are to
`CommandsAnswered`: a shutdown that cannot go on (`ShutdownStuck`, the guards of what the workers, handlers
and `main` do next) is in front of the gRPC server or the pool, with every connection held by a
command that wants a second one. The open rows of the workers and the order of the closes add no
cycle. With a connection more than commands it does not happen.

Of `RateLimiter` it proves `WindowsAreExact`, for any clients, limit and window and any number
of requests at one instant: `WindowExact`. The invariant adds `WindowKept`: the map still holds every
time of the window that ends now, and what it has dropped never comes back into one. Then
what `allow` counts is the window (`FilteredIsWindow`), and later windows of past instants do not change.

Only model-checked: liveness under fairness, that is `Answered`, `CommandsAnswered`, `ShutdownEnds`,
`InstancesServe`, `AllDelivered`, `AllDrain` and `UsersCatchUp`, which the provers cannot state; and
`TwoOvertakeOnlyInBuffers`, the instance with two publishers of `OvertakenOnlyInBuffers`, which
`NothingIsPassedOver` proves for any number of them. Properties that a run expects to be violated have no theorem.

## Plan

All modules of the plan are written, and every safety invariant and action property of the runs is proved.
What could come next:

1. `Outbox` appends rows one by one, as `Commands` is proved to; a refinement between the two would say so.
2. `TimeTravel` and `ReadApi` replay in different grain: one follows states through single events, the other
   the versions a state is made of. That a replay of `ReadApi` stands for one of `TimeTravel` is argued, not proved.
3. The timeouts of `net/http` would show when a stall in the pool ends, and with which answers.

## Not modelled

Formatting, JSON, logging, metrics and the explorer UI carry no property. Configuration
appears as constants. Authentication decides each request by its token and route without
state; an operator for it would repeat its conditions. The conversions to protobuf messages are left
out, among them the cut of an item's quantity to 32 bits; 64-bit overflow of order totals as
well, totals are integers. `ReplayQuery.UntilID`, `internal/temporal` and the idempotency methods of
`user.Service` have no caller. The timeouts of `net/http` cancel requests, which the modules allow at any call
(`Fail`) but do not force. Search filters by type, actor and correlation id choose among
events `ReadApi` does not tell apart. Identifiers and payloads are model values or small
records. `PROJECT.json` lists every part with its status and every hazard with the property
that covers it, or the reason why none does.
