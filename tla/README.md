# Verification of event-logging

`event-logging` moves audit events from services to a database. A service embeds
`libs/go-outbox`, which writes every event into a table `outbox` of the service's own
database (a *transactional outbox*); a worker in the same process reads the table and sends
the events to a Kafka topic. `services/event-sink` consumes the topic into the table
`audit_events` and serves queries over HTTP.

This directory holds TLA+ models of that code, the TLC runs that check them on small
instances, and TLAPS proofs that do not depend on the size of the instance. `PROJECT.json`
lists, for every definition, the lines of code it stands for.

## 1. Inventory

| Component | Source | State | Operations |
|---|---|---|---|
| Relay worker | `libs/go-outbox/worker.go` | the batch and the record at hand; `published_at` of the rows | `Start` (ticker of 5 s), `processBatch`, `Stop` |
| Publishing API | `outbox.go:145-229` | rows of `outbox`; `dbProblem` | `PublishEvent`, `PublishEventWithTx` |
| Senders | `rest_sender.go`, `sarama_sender.go`, `outbox.go:73-116` | `sender`, `senderBroken` | `Send`, `tryCreateSender`, `GetSender`, `MarkSenderBroken` |
| Table repair, migrations | `outbox.go:118-143, 293-326`, `migrations.go`, `migrations/*.sql` | the table and its columns, `outbox_schema_migrations`, `dbProblem` | `ensureTable`, `dbRecoveryLoop`, `RunMigrations` |
| Library lifecycle | `outbox.go:18-71, 328-338`, `worker.go:27-44, 132-134` | `globalInstance`, `once`, two goroutines, two stop channels | `Init`, `setup`, `Shutdown` |
| Enrichment, metadata | `outbox.go:231-291`, `context.go`, `extract.go`, `helpers.go`, `middleware/` | none | `enrichEvent`, `ExtractMetadata...`, event constructors |
| Encoders, wire format | `encoder.go`, `schema.go`, `rest_consumer.go:182-192` | none | `Encode`, `EncodeMessage`, `DecodeMessage` |
| Event contract | `contracts/event` | none | generated code |
| Sink: Kafka consumer | `internal/consumer/sarama_consumer.go`, `internal/repository` | offsets, claims, rows of `audit_events` | `Start`, `ConsumeClaim`, `Save` |
| Sink: REST consumer | `internal/consumer/rest_consumer.go` | the consumer instance at the proxy | `createInstance`, `subscribe`, `Start` |
| Sink: process | `cmd/main.go` | consumer goroutine, HTTP server | `main` |
| Sink: query API | `internal/api/handlers.go` | none (reads `audit_events`) | `List`, `GetById`, `Export` |

How they interact:

* Publishers, the worker and the recovery loop of one process share the flag `dbProblem`
  without a lock, and the sender under `mu`.
* Workers of several processes share the table `outbox`; nothing locks the rows they read.
  They share the topic, too.
* The recovery loops and workers of all processes share the version table of the migrations.
* Several sinks share a consumer group and the table `audit_events`, whose unique index on
  `event_id` is the only thing that removes duplicates.

What is hard to get right, and hard to test:

* a call to the database or the broker that fails *after* it took effect, a request the
  client gave up that arrives late, a process that dies between send and UPDATE, or between
  `Save` and `MarkMessage`;
* order: `created_at` is the start of a transaction, not its commit, and workers race;
* liveness: a worker must find a new sender and a repaired table by itself; a message that is
  always rejected is first in the queue for ever;
* rebalances: a fenced consumer goes on for a while next to its successor;
* a repair that judges the table by its name only.

* an author's event is changed in place by every attempt to publish it, and the library and
  the sink are configured apart from each other;
* the lifecycle: `Init` may run beside `PublishEvent` and `Shutdown`, which read its fields
  without a lock.

`PROJECT.json` lists these hazards at their lines, each with the properties that watch it.

What makes each component correct:

* relay: nothing marked as published is missing in the topic; nothing uncommitted gets there;
  no event precedes one it may depend on; duplicates have a cause; everything committed is
  published in the end;
* repair: scripts run once, in order, whoever races; the flag rests only with a table there;
* lifecycle: `Init` leaves a running worker or an error, `Shutdown` ends both goroutines;
* enrichment: fills what is missing and overwrites nothing (but `service_version`);
* wire format: what a sink decodes is what the encoder was given, if they are set up alike;
* REST consumer: one process polls at a time, and no record passes by in silence;
* Kafka consumer: no message is committed past in silence; every message is dealt with in
  the end;
* query API: pages partition the result, `total_pages` fits `total`.

## 2. Modules

    TransactionalOutbox        what the library promises (abstract)
      ^ implemented by
    OutboxRelay                worker, publishers, senders, crashes, several processes
      MCOutboxRelay            its TLC instances
      OutboxRelay_proof        its proofs
    OutboxRecovery             dbProblem, ensureTable, dbRecoveryLoop, RunMigrations
      MCOutboxRecovery, OutboxRecovery_proof
    OutboxLifecycle            Init, setup, the two loops, Shutdown of one process
      MCOutboxLifecycle, OutboxLifecycle_proof
    WireFormat                 encoders, the schema-registry header, both decoders
    Enrichment                 request metadata, enrichEvent, convertToModel
      ^ composed by
    EventPath                  author, library and sink: what becomes of an event
      MCEventPath, EventPath_proof
    SinkConsumer               ConsumeClaim, Start, the consumer group, audit_events
      MCSinkConsumer, SinkConsumer_proof
    RestConsumer               NewRestConsumer, Start, the instance at the REST proxy
      MCRestConsumer, RestConsumer_proof
    AuditQuery                 ListAuditEvents, ExportAuditEventsCsv, a paging client
      MCAuditQuery, AuditQuery_proof

The library is cut along what its parts share. `OutboxRelay` is the table and the topic over
all processes, with repair and lifecycle as single steps; `OutboxRecovery` and
`OutboxLifecycle` take these apart and leave out the rows. `EventPath` follows the content of
an event from its author to `audit_events` and leaves order, repetition and failures of the
transport to `OutboxRelay` and `SinkConsumer`.

Operators named `X_Something` next to an operator `X` are wrong versions of it, kept to see
that the properties notice: with `X` replaced by one of them, a run of `PROJECT.json`
("mutants") ends in a violation.

### OutboxRelay

One step is one database query or one broker request; between two of them everything else may
happen. `row[r]` is the life of a row: `begun` (the transaction runs), `inserted` (INSERT of
`PublishEventWithTx` done, transaction open), `pending` (committed, `published_at IS NULL`),
`published` or `aborted`. `pc[i]`, `batch[i]` and `cur[i]` are where the worker of process `i`
is in `processBatch`, what of `records` the loop has not reached, and `rec`.

| Action | Code |
|---|---|
| `Begin`, `EndTx` | a transaction of the service (implicit for `PublishEvent`); `created_at DEFAULT NOW()` |
| `PublishEvent`, `PublishEventWithTx` and `...Fails` | `ExecContext` returns, `dbProblem` is assigned |
| `Tick`, `EnsureTable`, `EnsureTableFails` | ticker, `dbProblem` read, `ensureTable` |
| `SelectBatch`, `SelectBatchFails` | the query (`FirstBatches` are its possible results), `GetSender` |
| `CreateSender`, `CreateSenderFails` | `tryCreateSender` and the second `GetSender` |
| `SendOk`, `SendRetries`, `SendFails`, `SendRejected` | `Send` and `MarkSenderBroken` |
| `MarkPublished`, `MarkPublishedFails` | the UPDATE; its error sets `dbProblem` and the loop goes on |
| `RecoveryTick` | one turn of `dbRecoveryLoop` |
| `Crash`, `Restart`, `LateAppend` | the process dies at any point, comes back; an abandoned request arrives |

A failing INSERT, UPDATE or send may have taken effect. `before[r]`, a history variable, is
what had been committed when the transaction of `r` began: everything the author of `r` can
have seen.

Abstractions: each row belongs to its own transaction; `ensureTable` and the recovery loop are
one step each (`OutboxRecovery` takes them apart); encoding cannot fail (the encoders return no
error) and neither can scanning text and bytes; payloads are not modelled. Assumptions:
the database clock is strictly later at a commit than at the start of that transaction, and
later starts see later times; a nil of `Send` means that the topic has the message (the REST
proxy can answer 200 with an error per record, which the code does not read).

### OutboxRecovery

The columns of the table, the recorded versions, and for each process the two goroutines that
repair: each reading and writing of `dbProblem`, each query and each script is a step.
`done[i][t]` is the map `applied` of a running `RunMigrations` together with what its loop has
passed. `table[s]` is `absent`, `v1` (after script 001) or `v2` (with `payload_json`).
The database is new, of an earlier release, or up to date at the start. An operator may drop
the table, which leaves the version table in place.

### OutboxLifecycle

One process. `once`, `instance` and `stopCh` are `sync.Once`, `globalInstance # nil` and the
two stop channels; `pc[g]` and `tick[g]` are the goroutine and the one-place channel of its
ticker. `call`, `stop` and `event` are the calls of `Init`, `Shutdown` and `PublishEvent`.
`setup` is three steps (`FirstInit`, `StartRecovery`, `StartWorker`, or `SetupFails`), so that
the others come in between. While it runs its fields are read without a lock: a reader may
find nil where `setup` has written already (`once = "running"` in `PublishRefused`,
`CallShutdown` and `CloseStop`). `TakeTick` and `TakeStop` are the cases of `select`, which
chooses at random when both are ready. A batch (`Send`, `Finish`) is a set of events, at most
`BatchSize` of them; it may hang (`Hang`), for its calls have no deadline.

### WireFormat, Enrichment, EventPath

`Enrichment` states the functions of `extract.go` and `context.go`, `enrichEvent` and
`convertToModel` on records; a pointer field is `Nil` or a record, and `NilMap` is a `Struct`
without a map, into which `enrichEvent` panics. `WireFormat` has bytes that are plain or
framed with an id modulo 2^32: the first byte of a protobuf message or of a text key is never
the zero of a header. The header is what both `DecodeMessage` of the library and
`decodeMessage` of the sink look for. `Text` is the set of what the program's strings hold;
it is `STRING` for TLC, and a constant because the provers know no member of `STRING`. The sets
`RequestContexts`, `ActorMessages`, `Structs`, `RequestMetadata`, `Events` and `Configs` are the
messages and structs with such fields.

`EventPath` composes them. `event[p]` is what the author's pointer points to: made by
`NewEvent` or as a literal, changed by `SetActor` and `SetDetails`, and by every `PublishEvent`,
whether it succeeds or not. `own` and `under` remember what the author has set and for which
requests the event was published. `NewEvent` gives an event a UUID, which stands for its pointer;
`HandwrittenIds` are the ids of the literals, whose authors do not make up somebody's UUID.
`outbox` and `topic` are sets: anything in them may be taken
next. Each library `Config` is paired with a consumer of the sink, equal ones and others.
Authors are assumed to leave an event alone once it is published. An event of which text is
not UTF-8 (a header can hold any bytes) does not marshal, and stays so when published again.

### SinkConsumer

Each process has the loop of `Start` (`proc`) and a claim per partition (`pc`, `pos`,
`marked`). `Receive`, `Save`, `SaveDuplicate`, `SaveFails` and `Mark` are the calls of
`ConsumeClaim`. The rest is the consumer group as the code relies on it (external, Kafka and
sarama): a rebalance cancels the sessions, which wait for their claims (`EndSession`);
`FormGeneration` distributes the partitions over the members that have joined and may leave
behind a slow one, which then goes on as a zombie until it notices; commits are accepted of
the current generation only. A `Save` under a cancelled context fails. `failed[p]`, a history
variable, holds the offsets for which a `Save` has returned an error, the violation of the
unique index included.

### RestConsumer

`instance`, `next` and `committed` belong to the REST proxy: a named instance of the group, the
offset of its next answer, and where a new instance begins. `pc`, `batch` and `cancelled` are a
process in `NewRestConsumer` and `Start`. The name of the instance is the group's, so a second
process is refused (`NewInstance`); an answer moves the instance on, received or not (`Poll`,
`PollFails`); a `Save` that fails goes by. Nothing in the code deletes an instance or commits:
`autoCommit` chooses whether the proxy does. The proxy drops an instance nobody asks
(`Expire`); it may do so under a process that waits for its database, and then another process
can create one under the same name, which the first goes on to poll.

### AuditQuery

`ListAuditEvents` is two queries, `CountEvents` and `FindEvents`; the consumer may save events
before, between and after them. `FirstPage` and `NextPage` are a client that takes the pages in
order as long as `total_pages` promises one. `Window` is the set of results that ORDER BY,
LIMIT and OFFSET allow when timestamps tie. The values of the filters are fixed, so that a
request is the set of filters it gives and an event the set of filters it passes; the listing
and the export apply the same thirteen. `Bind` is what the generated wrapper and the handler
make of the query string, defaults included; neither refuses a `page_size` that `openapi.yaml`
forbids. With 0 the division panics after the queries (`FindEventsPanics`); below 0 GORM writes
no LIMIT and no OFFSET (`Taken`, `Skipped`), the page holds every match, and `total_pages` is
what Go's division, which drops the fraction, makes of it (`Quotient`). The one property that
looks across both endpoints is `ExportAgrees`: what a client has listed and what it exports.
`GetAuditEventById` reads one row and is left out; so is a `page` below 1, which the
paging client never asks for (with a `page_size` of at least 1 GORM drops its negative offset,
and it is answered with the items of page 1).

## 3. What the runs show

| Run | Instance | Result |
|---|---|---|
| `relay` | 2 processes, 3 rows, batches of 2, 2 failures, crashes or late requests | all safety properties and the refinement of `TransactionalOutbox` hold (1.5 million states up to symmetry) |
| `relay_live` | 1 process, 2 rows and a poisoned one, 2 failures | every committed event is published unless the poisoned one is before it |
| `recovery` | 2 processes (4 goroutines that repair), 1 failure, crash or drop | scripts are committed once; `dbProblem` is not cleared without a table; the table comes to exist and the flag rests, from every start |
| `lifecycle` | 2 calls of `Init`, 2 of `Shutdown`, 1 event, known and unknown mode, `BatchSize` 0 and 1 | nil of `Init` means two goroutines; a lone `Shutdown` never panics and ends what does not hang; which accepted events are sent |
| `path` | 2 events, 2 calls of `PublishEvent`, 4 requests, 6 pairs of library and sink | what the author has set prevails over request and configuration (but for `service_version`), the first request over later ones; events with ids are stored once; a record that is read has a row exactly if both sides are set up alike; a retry changes nothing |
| `sink` | 2 processes, 1 partition, logs of 3 with duplicates and garbage, 2 faults | nothing is committed past in silence; every message is accounted for, unless all consumers have stopped |
| `rest` | 2 processes, 3 records of 2 events and foreign ones, 2 faults, with and without commits | no record passes by in silence; one process polls unless an instance expires under it; while one polls, every record is dealt with |
| `query` | 4 events, 2 of one time, page sizes -1, 0, 1 and the default 2, all combinations of 2 filters | a paging client misses only what was pushed off its last page; nothing comes twice without a cause; `total_pages` fits the pages for sizes of at least 1; an export, cut at 2 rows, agrees with what was listed |

Why these bounds: two processes are the least that race, and a third worker could only do what
one of the two does at another time, since workers meet in the table and the topic only. Three
rows with batches of two give batches that are cut, batches that overlap, and a row committed
late between two others. The safety properties are proved without bounds (section 4), so the
runs of `recovery` and `sink` are sized for liveness: one fault that the repair must
recover from, with all four goroutines; two for the consumer, a failure and one in the reaction
to it. In `lifecycle` two callers of each kind race each other and everybody else, and one
event is before, in or after the batch. In `path` two events collide on an id, two calls are a
retry or a second request, and ids modulo 4 have ones that fit, ones that are too large and
ones that are negative. In `rest` three records are an answer of several with something before
or behind it, and the second fault lets a process die in the reaction to the first, such as an
instance that expired. One partition is enough for the consumer, whose claims share no state
but the store. Four events and pages of one and two rows give even and uneven last pages, an
event pushed from one page to the next and off the last one, and a tie within a page and across
two; -1 stands for the sizes without a LIMIT, which differ only in `total_pages`. Processes, rows and events are permuted by symmetry in runs without liveness only.

Four runs end in a violation, each of something the repository says of itself:

* `recovery_json` (`InsertsRecover`): with `StoreJSON` set and a table from before migration
  002, inserts fail for ever. `dbRecoveryLoop`, which "restores the table on problems"
  (`outbox.go:293`), finds a table called `outbox`, clears the flag, and never gets to
  `RunMigrations`.
* `recovery_schema` (`MigratesConfiguredSchema`): `migrations.go:59` says the scripts name no
  schema; 001 sets `search_path` to `public`. With another `Config.Schema` the worker never
  finds its table.
* `sink_loss` (`FailedIsNotCommitted`): `rest_consumer.go:174` says of a failed `Save` "log it,
  but do not commit". The Kafka consumer skips the message in the same way, and the next
  message it marks commits the skipped one.
* `query_page_size` (`PageIsBounded`): `openapi.yaml:83-84` gives `page_size` a minimum of 1 and
  a maximum of 100. Nothing checks it: a page of -1 holds every match. (In the model the
  maximum is 2, so that three events are too many.)

Two divergences have no run of their own. A dropped table does not come back, because its
versions stay recorded: `RunMigrations` has nothing to do and returns nil, and the log says
"table created successfully" (`outbox.go:138`). `MCOutboxRecoveryJSON.cfg` shows it when it is
given `StoreJSON = FALSE` and `MaxFaults = 1`. And `outbox.go:231` says that `enrichEvent` fills
missing fields, but `service_version` is written over what the author set; `AuthorPrevails`
states that exception.

Fairness. `OutboxRelay`: a worker that can step does (its ticker fires and calls return: note
that `processBatch` sets no timeout), and a dead process is restarted; nothing is assumed of
publishers or of late requests. `OutboxRecovery`: both loops go on, a publisher whose INSERT
has returned goes on; nothing is assumed of when events are published. `OutboxLifecycle`: a
call that has begun goes on, tickers fire, a batch that does not hang ends; `TakeStop` is
strongly fair, since `select` chooses at random and does not pass over a ready channel for
ever; nobody has to call anything. `SinkConsumer`: claims
go on, Kafka completes its rebalances, cancelled sessions end, dead processes are restarted;
a consumer that has stopped with an error stays so (`main.go:73-77` only logs it), which is why
`EventuallyAccounted` has its exception. `RestConsumer`: a process goes on with what it has
begun; nobody has to start one, and an instance that expired under it answers no more, which
is the exception there. Failures are bounded, so they stop eventually; that
is the usual meaning of "if the database and the broker come back".

Deadlock is checked except in `sink`, `lifecycle`, `path` and `rest`: there everything may have
been consumed, called or stopped for good.

## 4. What is proved

For any number of processes, callers, rows, partitions, messages, any batch size and any number
of failures. The only assumptions are those that say what the constants are, and TLC evaluates
each of them in a run: `RelayAssumption` (the processes are finitely many), `RecoveryAssumption`,
`LifecycleAssumption`, `SinkAssumption`, `RestAssumption`, `QueryAssumption` (the events are
finitely many), `MessageAssumption` and `PathAssumption` (nil is no text, number or message;
`NewEvent` makes up no id that somebody wrote by hand; events, requests and configurations have
the fields of their types).

* `OutboxRelay_proof!TypeCorrect`, `RelayCorrect`, `NoLoss`, `OrderKept`: the types and
  `RelayInv`, of which `PublishedIsDelivered` and `RealTimeOrder` are parts.
* `OutboxRelay_proof!CopiesCorrect`, `FewDuplicates`: `CopiesInv`, and from it
  `DuplicatesBounded`.
* `OutboxRelay_proof!Refinement`: `Spec => Abstract!Spec`, the relay implements
  `TransactionalOutbox`.
* `OutboxRecovery_proof!TypeCorrect`, `RecoveryCorrect`, `Once`, `ClearedTruly`: the types,
  `RecoveryInv`, its part `MigratedOnce`, and the action property `ClearedOnlyWhenPresent`.
* `OutboxLifecycle_proof!TypeCorrect`, `LifecycleCorrect`, `NilCorrect`, `PanicCorrect`: the
  types, `LifecycleInv`, `NilMeansStarted` and `PanicNeedsTwo`.
* `SinkConsumer_proof!TypeCorrect`, `SinkCorrect`, `NoSilentLoss`: the types, `SinkInv` and
  its part `CommittedIsAccounted`.
* `RestConsumer_proof!TypeCorrect`, `RestCorrect`, `NoRecordLost`, `OnlyOne`: the types,
  `RestInv`, its part `AnsweredIsAccounted`, and `OneProcess`.
* `EventPath_proof!TypeCorrect`, `PathCorrect`, `AuthorsWord`, `RequestsWord`, `OneRow`,
  `WireAgrees`, `RetryIsHarmless`: the types, `PathInv`, `AuthorPrevails`,
  `FirstRequestPrevails`, `StoredOnce`, `StoredWhenSameWire`, and the action property
  `RetryChangesNothing`.
* `AuditQuery_proof!TypeCorrect`, `QueryCorrect`, `MissedFew`, `NoneTwice`, `PagesFit`,
  `ExportFitsListing`: the types, `QueryInv`, `MissedWerePushed`, `EachOnce`, `PagesAgree`, and
  the action property `ExportAgrees`. The page sizes are any integers.

The argument for the order. `RealTimeOrder` is not inductive: it says nothing of what workers
hold. `CausalInv` adds it: the past of the record being sent, and of every abandoned request,
is in the topic; the past of a record further down the batch is in the topic, in the batch, or
is the record at hand. It is established by the query: a row that committed before `f` began
has a smaller `created_at` (`ClockInv`), so when `f` is in the result it is either published,
hence in the topic (`PublishedIsDelivered`), or pending, hence in the result before `f`. It is
kept because the loop takes the oldest record first and gives up the batch at the first error.
`CommittedInv` and `OpenInv` say that only committed rows are read and that transactions end
once. The refinement then follows step by step: `SendOk` and `LateAppend` are `Relay`, the
UPDATE is `Acknowledge`, ends of transactions are `Resolve`.

The argument for the consumer. `ClaimInv`: all offsets below the one a claim is at are
accounted for, and its mark is below that offset. `Save` makes the current one accounted for
before `Mark` may mark it; `Skip` records the failure. A new generation starts at the committed
offset, for which `CommittedIsAccounted` itself supplies the invariant; zombies keep theirs
because logs, store and failures only grow.

The argument for the repair. `MigratedOnce` needs that a script that is not recorded has not
run (the two are one transaction) and that the scripts are recorded in order; then a commit of
script `m` finds the table in the state that precedes it. `ClearedOnlyWhenPresent` speaks of a
step that comes some steps after the look at the table: `RecoveryInv` says of everybody who is
about to clear the flag, after `EXISTS`, after `RunMigrations` or after an INSERT that
succeeded, that the table is still there, as it is while nobody drops it.

The argument for the lifecycle. `SetupOnce` says that one call at most is in `setup`, and only
while `once` runs; `SetupProgress`, that this call still has its channels to make, so that
`Launch` never replaces one, and that afterwards both goroutines exist or the call had an
error; `ClosedByShutdown`, that a closed channel has a closer, who has gone past it. A
`Shutdown` that finds its channel closed therefore finds somebody else's work.

The argument for the duplicates. `DuplicatesBounded` says nothing of who may send next, and
nothing keeps a worker from sending what another one has stamped: it may have read the row
before. `CopiesInv` counts per row. Until the row is stamped, each copy belongs to a failure or
to a worker that has sent it and is about to stamp it (`Marking`): the worker's success stamps
it, its error or its death is a failure. Once it is stamped the query finds it no more, so only
the workers that have it already (`Sending`) can add a copy, one each; they are others than those
in `Marking`, since no worker has a record twice. So no sum over processes is needed, only the
sizes of two disjoint sets of them.

The argument for the REST consumer. What the proxy has answered is accounted for or in
somebody's batch (`AnsweredIsAccounted`): a process puts a record down only after its `Save`, and
one that dies, or never gets the answer, loses what `lost` remembers. `OneProcess` needs the reason why the proxy refuses
the second one: as long as no instance has expired under a process, whoever is not down has the
instance of the group's name.

The argument for the event path. `AuthorPrevails` and `FirstRequestPrevails` speak of what is
stored; `EventInv` and `RowInv` say the same of an event in memory and in the outbox, with
what it owes to the requests so far. That a field is filled at most once is a property of
`EnrichEvent`; that a request which comes again fills nothing is `Settled`: the event is a fixed
point of `EnrichEvent` for its last request, and the lemma for it is that `EnrichEvent` is
idempotent for one request, whatever time it is called at. `WireInv` says that a record of the
topic is the encoding of a row, and that nothing is stored unless the two sides agree;
`StoredWhenSameWire`, which says of each record read whether it has a row, then follows from
what the decoders do with an id cut to 32 bits.

The argument for the pages. A page is a `Window` of the listing as it is at the `Find`, not as
it was for the page before. `MissedIsBehind`: whatever the client has not received of what was
there has, in front of it, as many newer events as the pages so far can hold, for an event that
is saved pushes others back and never forward. After the last page, what was pushed between
Count and Find is therefore all that can be missing (`LastPage`). `SeenAreNewest` is the same
with equality: without ties and new events the client has exactly the newest events, as many as
fit on the pages, so no page repeats one. The lemma behind both is `WindowIs`, which says of
ORDER BY, LIMIT and OFFSET how many events a window has and skips, and that they are the newest.
A `page_size` below 0 needs a part of its own (`AnswerCounts`): its first page has all there is
to list, and while nothing is saved `total_pages` asks for a second one only if that is nothing.
`ExportAgrees` puts two results side by side. What a client has listed passes the filters of the
export, so a row that the export lacks was cut off (`ExportIsListed`); and a client that has
all pages, without ties and new events, has all there is to list (`FinishedHasAll`).

Every safety property and every action property of the passing runs is proved. Only
model-checked: the liveness properties `EventuallyPublished`, `Recovers`, `ShutdownStops`,
`AcceptedIsSent` and both `EventuallyAccounted`, for liveness under fairness (and ENABLED) is
beyond this prover; and the four violations of section 3, which are counterexamples.

## 5. Not modelled, and the plan

Worth doing next: lemmas of `WireFormat` by themselves (an id that fits comes back, one that
does not never does), and an abstract specification of the sink (each event is stored at most
once) that `SinkConsumer` and `RestConsumer` both implement.

Not modelled:

* start-up of the sink (`main.go:28-49`): golang-migrate, GORM and the environment, called once
  and in sequence before anything else runs. What a crash within a migration leaves behind is
  golang-migrate's, which then refuses to go on;
* the error per record in a 200 of the REST proxy (`rest_sender.go:50`): the body is never read,
  and nil of `Send` is taken as an append. With such a proxy an event is lost;
* `GetAuditEventById`, routes, responses and the embedded specification: reading only, and
  mostly generated (`types.gen.go`); `event.pb.go` is generated and has no behaviour of its own;
* `SetResource`, `SetResourceDetails`: fields that nothing else reads; `PublishSimple`:
  `NewEvent`, then `PublishEvent`; the middlewares, which call `ExtractRequestMetadata`;
* logging, addresses and credentials, `Config.Workers` (read nowhere), the tests' programs.
