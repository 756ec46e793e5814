# Micromegas in TLA+

Micromegas records logs, metrics and spans in instrumented processes with little overhead, sends
them in blocks to an ingestion service, which stores them in an object store and a PostgreSQL
database (the data lake), and answers queries about them. This directory holds TLA+ models of its
core, the TLC configurations that check them on small instances, and TLAPS proofs for instances of
any size.

Paths below are relative to the repository root.

## 1. Inventory

| Component | State | Operations | Talks to | What is hard |
|---|---|---|---|---|
| Dispatch and event streams: `rust/tracing/src/dispatch.rs`, `event/`, `guards.rs`, `panic_hook.rs` | `G_DISPATCH`; log and metrics streams behind mutexes; thread-local streams and a vector of pointers to them; the sink | record an event, flush a stream, register a thread stream, shut down | calls the sink with every full block | a stream's lock is released between "full" and "flush"; `set_full` stores from another thread; shutdown beside running threads |
| Flush monitor: `rust/tracing/src/flush_monitor.rs` | time of the last flush | `tick` | flushes the shared streams, marks thread streams full | runs on the sink's own thread; uses `is_busy()` as a hint; holds a clone of the sink |
| HTTP sink: `rust/telemetry-sink/src/http_event_sink.rs` | sender mutex, unbounded channel, `queue_size`, sink thread, process info | `on_startup`, `on_init_*`, `on_process_*`, `is_busy`, `Drop` | posts to the ingestion service | counter changed by several threads; retries; dropping under load; `Drop` joins while it holds the mutex |
| Telemetry guard: `rust/telemetry-sink/src/lib.rs` | global weak guard | build, drop | creates dispatch and sinks | drop order of its fields; rebuild after drop |
| Composite, local and interop sinks: `rust/telemetry-sink/src/` | level filters | fan-out | other sinks | consistency of filters |
| Level filters: `rust/tracing/src/levels.rs`, `logs/events.rs` | packed generation and level per call site | lookup, refresh | every log call | compare-and-swap between threads |
| Transit: `rust/transit/` | byte queues | push, iterate, parse | streams write, analytics reads | writer and reader agree; dependencies precede objects |
| Ingestion: `rust/ingestion/`, `rust/telemetry-ingestion-srv/` | object store, tables processes, streams, blocks | insert process, stream, block; migrate | HTTP clients, PostgreSQL, object store | blob then row without a transaction; repeated requests; concurrent migrations |
| Retention: `rust/telemetry-admin-cli/` | the same | delete old payloads | the same | not working code at this commit, see section 7 |
| Analytics: `rust/analytics/`, `rust/analytics-srv/` | none of its own | find processes, query spans, logs, metrics | reads the data lake | contiguity of blocks, spans cut by ranges, trees from incomplete streams |
| Unreal client: `unreal/` | as the Rust dispatch and sink | the same, plus sampling | the same | unlocks a stream before it calls the sink; lock-free queue with a wake-up event |
| Python client: `python/micromegas/` | none | HTTP calls, conversions | analytics service | nothing stateful |

What makes each correct:

* **Streams**: every event recorded reaches the sink once, in order, in some block; block times
  cover their events; a full or marked stream is flushed; a shutdown loses nothing it promises to
  flush.
* **Sink**: accepted messages are handled in order, each once; metadata precedes blocks; data is
  dropped only under a real backlog; `Drop` ends and drains the queue.
* **Transit**: what was written is what is read, unknown types are skipped by their size.
* **Ingestion**: a row names a payload that exists; no block is recorded twice; a migration is
  applied once, by whichever service comes first, and survives a crash.
* **Analytics**: the tree of a stream depends on its events, not on how they were cut into blocks;
  a query range selects every block that holds an event in it.

`PROJECT.json` lists the components with their status and, under `hazards`, each place where this
code can go wrong in a way that a unit test would hardly reach.

## 2. Modules

| Module | Models | Instances |
|---|---|---|
| `HttpEventSink.tla` | `http_event_sink.rs`; `FlushMonitor::tick` as the sink sees it; the creation and the release of the sink by the dispatch | `MCHttpEventSink*.cfg` |
| `HttpEventSinkProofs.tla` | theorems about it, the refinement of `SinkContract` included | |
| `EventStream.tla` | recording and flushing in `dispatch.rs`; `event/stream.rs`, `event/block.rs`; `FlushMonitor::tick` as the streams see it; guards and shutdown | `MCEventStream.cfg` |
| `EventStreamProofs.tla`, `EventStreamFlush.tla` | theorems about it; the second extends the first and holds those about sizes, times and flushes | |
| `Ingestion.tla` | one client and the three requests of the ingestion service (`telemetry-ingestion-srv/src/main.rs`, `ingestion/src/web_ingestion_service.rs`) | `MCIngestion.cfg` |
| `IngestionProofs.tla` | theorems about it | |
| `Migration.tla` | `migrate_db` of services that start at once (`ingestion/src/remote_data_lake.rs`, `sql_migration.rs`, `sql_telemetry_db.rs`) | `MCMigration.cfg` |
| `MigrationProofs.tla` | theorems about it | |
| `SinkContract.tla` | abstract: what a sink promises to the dispatch, a queue served in order; implemented by `HttpEventSink` and `UnrealSink` | `ImplementsContract` in `sink` and `unreal` |
| `Levels.tla` | levels and filters (`tracing/src/levels.rs`) | through `TelemetryGuard` |
| `CompositeSink.tla` | which sinks take a log record (`telemetry-sink/src/composite_event_sink.rs`, `log_interop.rs`, `tracing_interop.rs`) | through `TelemetryGuard` |
| `TelemetryGuard.tla` | building, sharing and dropping guards (`telemetry-sink/src/lib.rs`, `tracing/src/guards.rs`), the path of a log call with the cached filter (`macros.rs`, `logs/events.rs`), panics and control-C; extends `CompositeSink` and `Levels` | `MCTelemetryGuard.cfg` |
| `TelemetryGuardProofs.tla` | theorems about it, and about the operators of `CompositeSink` and `Levels` | |
| `Transit.tla` | reflection, queue layout, dependencies, parser (`rust/transit/`, the `block.rs` files of `tracing`, the Unreal log block) as operators | through `EventQueries` |
| `EventQueries.tla` | recording, encoding (`telemetry-sink/src/stream_block.rs`, `stream_info.rs`) and the log, metrics and thread event queries (`analytics/src/query_*.rs`, `log_entry.rs`, `measure.rs`, `thread_events_table.rs`); extends `Transit` | `MCEventQueries.cfg` |
| `UnrealSink.tla` | the Unreal dispatch, sink, flush monitor and plugin module | `MCUnrealSink.cfg` |
| `UnrealSinkProofs.tla` | theorems about it, the refinement of `SinkContract` included | |
| `CallTree.tla` | the tree builder (`analytics/src/call_tree.rs`) and the rows of a tree (`span_table.rs`) | through `QuerySpans` |
| `QuerySpans.tla` | a traced thread, its blocks, and one span query over them (`query_spans.rs`, `thread_block_processor.rs`, `metadata.rs`, `time.rs`); extends `CallTree` | `MCQuerySpans*.cfg` |
| `QuerySpansProofs.tla` | theorems about it, and about the operators of `CallTree` | |

### HttpEventSink

Processes: the application's threads (`Main` creates and shuts down the dispatch), each of which may
be inside a `send()` (`spc`, `smsg`), and the sink's thread (`wpc`), which may itself call `send()`
from a tick.

* `send()` is `SendLock`, `SendPush` and, when the receiver is gone, `SendError`. The mutex
  `sender_lock` is held across them, as in the code. The `error!` in the error path is a log event
  recorded with the mutex held: `SendError` returns when that event can be recorded and goes to
  `stuck` when it needs a mutex that this thread already holds (the log stream's during a log flush,
  or the sender's when the log block is full).
* `thread_proc_impl` is `ThreadStart`, `Recv`, `RecvTimeout`, `RecvDisconnected`, `PushMetadata` (one
  attempt of `push_process` or `push_stream`, retried), `PushBlock` (posted or not sent, dropped
  above `max_queue_size`, or refused before a Startup message), `FetchSub`.
* `FlushMonitor::tick` is `TickGetSink` (clones the `Arc`), `TickIsBusy` (reads the counter and
  releases the clone), `TickFlush`. The wall clock is a nondeterministic choice.
* `shutdown_telemetry` is `ShutdownTelemetry`, `ShutdownFlush`, `ReleaseSink`; `Drop` is `DropLock`
  and `DropJoin` on `Main`, or `SelfJoin` on the sink's thread.
* `accepted`, `handled`, `posted`, `fate` and `drift` are history variables that no action reads
  (except for the bound on timeouts).

An HTTP request is posted or not sent; the code does not look at the status, so an answer is
"error, retry" or "end". A flush finds a block or finds none: the contents belong to `EventStream`.

### EventStream

Processes: threads that record into the log and metrics streams and, for `Traced` threads, into a
stream of their own; `Ticker`, which ticks the monitor; `Main`, which shuts down.

* A recording call is `Stamp` (reads the clock, before the lock), `Push` (the critical section: push,
  look at `is_full`, unlock), and then, when full, the flush function: `FlushEmpty`, or
  `ReplaceBlock` followed by `OnProcessBlock` with the lock held in between.
* A thread stream has no lock. `SetFull` changes its threshold at any moment while `tick` walks the
  registered streams; `InitThreadStream` waits for the end of such a walk.
* A shutdown begins with `DropTelemetryGuard` (which flushes Main's thread stream first, by field
  order) or `ShutdownTelemetry` (panic hook, Ctrl-C handler), flushes both shared streams and then
  installs the null sink.
* An event is its time stamp, a block the sequence of them with an offset, a begin and an end. The
  size in bytes, which decides `is_full`, is chosen from `Sizes` for each event.
* `pushed`, `sent`, `delivered`, `due` and `raised` are history variables.

### Ingestion

The client is the sink's thread seen from the service: one request at a time (`sending`, `conn`),
in an order that `HttpEventSink`'s `MetadataFirst` and `StreamOrder` allow, metadata retried after a
connection error (`AfterError`), blocks not. A request becomes a handler of the service. `PutBlob` and
`InsertRow` are the two awaits of `insert_block`; metadata has only the second. A failing statement
(`StatementError`) is logged and answered like a success, as the handlers in `main.rs` do. When the
client gives up on a connection, the handler may run on or be dropped by the HTTP server at an await
(`Cancel`), and what it was waiting for may have happened (`MaybeDone`). `hurt` records which messages
met a fault, so that properties can say that a fault harms nothing but its own request.

### Migration

One action per statement group of `migrate_db` and `execute_migration`. PostgreSQL is external: a
transaction is visible when committed, the advisory lock belongs to the transaction that took it,
and a CREATE waits for an uncommitted creator of the same name and fails if the name exists. Any
error while the version is read counts as version 0, as in `read_schema_version`. Faults: a failing
statement, the loss of the connection that holds the lock (unnoticed until it is used), a commit
whose answer is lost, a restart at any step.

### CallTree and QuerySpans

`CallTree` holds the builder as action operators over its fields (`stack`, `nb_spans`, what the last
handler returned). What is below a node is kept as the rows that `for_each_node_in_tree` gives for it,
parents first with their depth: the order and the depths determine the tree. `finish` folds the stack
from its top. `QuerySpans` drives the builder: a thread records begins and ends in LIFO order (spans are
guards, and one may be open before the stream exists), cuts blocks between any two events, and any
block may never arrive. Then one query runs: `StartQuery` selects blocks, `GroupBlock`, `GapBlock` and
`LastRun` gather runs, `ParseEvent` and `NextBlock` are the loops of `parse_thread_block_payload` and
`make_call_tree`, `FinishCallTree` writes the rows. Times are ticks, converted to nanoseconds with the
rounding of `ConvertTicks`. `Lags` is the time between the begin of a new block and the end of the old
one: 0 in the Unreal dispatch, which reads the clock once (`Dispatch.cpp:122`), positive in the Rust
dispatch, which reads it for the new block first (`BlockTimes` in `EventStream`).

### SinkContract and its implementations

The contract has four variables: `open`, the queue `pending`, how often its head was tried (`tries`)
and the last message that reached the network (`request`). Its steps are `Accept`, `Retry`, `Settle` and
`Close`. The Rust sink is mapped onto it with the message in the thread's hand in front of the
channel, `attempts` as `tries`, and the last element of `posted` as `request`; everything about the
sender's mutex, the counter, ticks and timeouts is stuttering. The Unreal sink never retries and
hands a request to the engine's HTTP module, so that its `tries` is 0 and its `request` is left open.

### Levels, CompositeSink, TelemetryGuard

`build` is five steps (`BuildLock`, `BuildComposite`, `BuildCapture`, `BuildInit`, `BuildThread`) with
`GLOBAL_WEAK_GUARD` held from the first to the fourth; what it does depends on a value of `Builds` (the
sinks with their levels, the filters by target, overrides, captures). Dropping a `TelemetryGuard` is
`DropOrder`: the thread guard, then the system guard, whose last holder calls `ShutdownTelemetry`. A
panic and control-C call it at any moment. A log call passes the static and the global maximum,
asks the sink (`Load` and `Cas` refresh the cached filter of the call site), goes to the sinks that
take it (`OnLog`) and into the log stream (`Push`). Names of targets are sequences, so that
`starts_with` is a prefix; `UsizeRange` is the range of `usize` in the wrapping negation by which the
filters are sorted. A second build after the last guard is gone does what the code does: with the
tracing capture it panics in the `tracing` crate and poisons the lock, without it the dispatch
answers `AlreadyInitialized`, after the global level was changed.

### Transit and EventQueries

A buffer is a sequence of cells, a cell being a byte or a whole number of some width: what matters
is who writes how many of them where. Types are records of members with sizes, from which the
metadata (`Reflect`, `FlattenMetadata`), the writer (`Push`), the iteration of the queue (`Frames`), the
extraction of dependencies (`Extract`) and the parser (`ReadDependencies`, `ParseObjectBuffer`) are
separate definitions, as in the code, that meet only in the buffer. A string is a slice of the
program's constants (`Bytes`), identified by its address. `Transit` also has the log block of the
Unreal client, whose types and dependencies have other names and which the same parser reads.

`EventQueries` stamps an event, pushes it, and cuts blocks, any of which may be lost; then one query
of a range and a limit runs in one step (it works on immutable blocks). The three loops differ in how
they stop: the log query goes on with the next block, the metrics query ends, the thread event
query has its range cut at the last block first.

### UnrealSink

The library instruments itself: `FlushImpl` opens a span with the stream's mutex held, the sink
records a metric for every message, and a thread's first event creates its stream. A call therefore
nests in another, and each thread has a stack of steps (`stack`); `Call` replaces the step at its top
by what it calls. `CutBlock` swaps the block, unlocks and goes on to the sink, in one step; a
flush holds the mutex from its decision to that step. The worker's loop is `Drain`,
`CheckShutdown`, `Wait`; the event is auto-reset, and the wait may end by its timeout. A message that
`Drain` takes is first formatted (`FormatRequest`), which for a block opens and closes five spans and
records a log entry (`FormatBlockRequest`, `InsertBlockRequest.h`), so that the worker itself fills
and flushes the log stream, and then sent (`SendBinaryRequest`). Loading and unloading the plugin is
Main's. Console variables keep their value during a behaviour.

### Modelling decisions

* A critical section that takes one lock and blocks on nothing inside it is one step; where the
  code blocks or calls out with the lock held, the lock is a variable.
* `queue_size`, `full_threshold` and the channel are sequentially consistent. For `queue_size`
  (relaxed) this is enough: the counter is the only atomic involved and each of its operations is a
  single read-modify-write. `queue_size` is unbounded in the model: an `isize` cannot overflow by
  messages that fit in memory.
* `G_DISPATCH` is a `static mut`. A write that races with a read of another thread is undefined
  behaviour and has no outcome to enumerate. The models assume that other threads are outside the
  sink when its last reference is released, and that a recording thread sees either sink afterwards.
* Streams of threads that have ended are outside the model (`dispatch.rs:300` notes that the vector
  keeps their pointers).
* A message dropped because the sender is `None` is not accepted; nothing is claimed about it.

## 3. Runs

| Run | Checks | Shows |
|---|---|---|
| `sink` | `TypeOK`, `QueueSizeAccounting`, `MetadataFirst`, `StreamOrder`, `DropsOnlyWhenBacklogged`, `JoinDrains`, `ImplementsContract` | two application threads, one with its own stream, race with the sink thread, a tick and a shutdown; the sink is the abstract queue |
| `sink_live` | `DropReturns`, `AcceptedIsHandled` | messages are handled and `Drop` returns, outside the two blocked situations named below |
| `sink_busy` | `BusyWhileWriting` (violated) | finding 1 |
| `sink_join` | `JoinSucceeds` (violated) | finding 2 |
| `streams` | `TypeOK`, `BlocksPartitionEvents`, `Overfull`, `BlockTimes`, `SetFullHonoured`, `ShutdownFlushes`, `TickFlushes` | three threads compete for the shared streams, one owns a stream, one ticks the monitor that marks it full, one shuts down; a tick that has begun flushes the shared streams under contention |
| `ingestion` | `RowHasBlob`, `NoDuplicateBlock`, `BlockIsDescribed`, `SentIsRecorded`, `ClientGetsOn` | two faults at any point of the requests of two streams harm no more than the requests they hit |
| `migration` | `TypeOK`, `ConnectedHasSchema`, `NoNeedlessFailure`, `EveryoneReturns` | three services start at once, with up to three faults |
| `spans` | `SpansNested`, `TreeMatchesTrace`, `OnlyAfterGaps` | every trace of four events, cut anywhere, with blocks missing, under every query range |
| `spans_stop` | `StopIsHonoured` (violated) | finding 3 |
| `guard` | `FastCheckConservative`, `OnLogByLevel`, `SinkAliveWhileHeld`, `GuardedEventsDelivered` | two threads build and drop guards of two configurations, log, panic and exit; `on_log` of each sink is called for the events its level admits |
| `transit` | `AnswerSound`, `AnswerComplete` | what is recorded is what queries of the range return, through encoding, lost blocks and parsing |
| `unreal` | `NoLostWakeup`, `ThreadStreamFirst`, `BlocksConserved`, `DeadlockOnlyByReentry`, `ShutdownDrains`, `ImplementsContract` | the game's thread and the sink's record, flush and nest, the sink's also while it formats a block; the sink is the abstract queue |

Every property has a mutant in `PROJECT.json`: a plausible error in one definition that the run
then reports.

**Bounds.** `MaxBlocks`, `MaxTimeouts` and `MaxRetries` bound the sink, `MaxClock` (how many times an
event may be stamped) and `MaxTicks` the streams, `MaxBlocks` and `MaxFaults` the ingestion,
`MaxFaults` the migration, `MaxEvents` the traces. Two application threads and the sink's thread give
every pair of concurrent senders, and a flush from a tick against both. Two blocks of the log stream
are needed for order; the metrics stream behaves alike and has blocks in `sink_live`. With three or
four boot messages `max_queue_size` 2 makes data drop. One timeout exhibits the drift of
`queue_size`; each further one only adds to it, as `QueueSizeAccounting` states and the proof
confirms for any number. One retry makes the worker send the same metadata twice. In `streams` a buffer of three bytes,
one of them reserved, is filled by every third metric or span, of one byte, so that a mark of the
monitor makes a difference, and by every log event, of three bytes and hence longer than the hint
(`LongLogs`), so that threads meet between "full" and "flush"; three threads and three stamps let two
wait to flush the log stream while the third pushes, which is the case of `Overfull`. Two
faults let a retry fail after a lost answer, or a crash follow a lost connection; three let every
service of `migration` meet one. Four events are two spans, nested or one after the other, or one
that began before the stream; with four ticks to a nanosecond several events share a time, and some fall half way. Limits
of 2 and 20 are one that bites and one that does not. In `guard`, two threads and three builds give a
build beside a drop and a rebuild after the last drop; the first configuration has one target name
that starts another and `OFF` beside `DEBUG`, the second an empty name, a name that is not a level and
an override; one call site is enough for two threads to race for its filter. In `transit` three
events in two blocks give an overtaken event in either block and a reference to a lost one, and the
descriptors share strings, one of which is empty and one the end of another. In `unreal` one game
thread and the worker suffice for every nesting: `Fillers` says whose events fill a block (the
worker's metrics and log entries, which is where flushes nest), `MaxBlocks` how often, `MaxFlushes`
how many flushes and unloads there are; metric, thread and log blocks are switched on in turn. `CHECK_DEADLOCK` is off in all runs: an
instrumented program may stop recording, the bounds end, and the two blocked situations below are
stated by properties rather than reported as deadlocks. The scopes of `spans` are a symmetry set
(only invariants are checked there, and scopes are only compared); threads and services are not,
since `Main` and `Ticker` are distinguished and liveness is checked.

**Fairness.** The operating system runs every thread that can run, and an HTTP request ends with an
answer or an error: weak fairness of `send()` of each caller, of the sink thread's steps, of the
shutdown's steps, and in `Ingestion` of posting and of the handlers. The second half is an assumption
about the network and the server, since the client is built without a request timeout: a server
that accepts a connection and never answers stalls the loop, and a `Drop` that waits for it. For
`TickFlushes` a thread that waits for a stream's mutex competes with others that take and release
it: strong fairness of a thread's call says that the mutex is granted in the end, which the mutexes
of the supported platforms provide in practice though not by contract. In `Migration` strong fairness
of a service's step says that PostgreSQL grants an advisory lock to those who wait, which it does in
their order. Nothing forces the application to record, flush or shut down, a receive to time out, or
a fault to happen.

**Blocked situations.** `DropReturns` and `AcceptedIsHandled` name the exceptions that the code has:

* `Drop` holds the sender mutex while it joins. If the sink thread is then inside a tick's flush or
  in a log call, it waits for that mutex in `send()`, and both wait for ever (`SinkThreadBlocked`).
* When the receiver is gone, the error path of `send()` records an `error!` with the sender mutex
  held, and possibly the log stream's; the thread then waits for itself (`stuck`).

## 4. Findings

1. **`is_busy()` is false while the sink writes** (`sink_busy`). The loop of `thread_proc_impl`
   decrements `queue_size` at its end also when `recv_timeout` returned `Timeout`
   (`http_event_sink.rs:306`). After *n* timeouts the counter is *n* too small, for good, whereas
   `event/sink.rs:27` and `flush_monitor.rs:8` say that the sink reports itself busy while it writes.
   The same drift raises the real threshold above which blocks are dropped; `DropsOnlyWhenBacklogged`
   shows that it never lowers it.
2. **The sink can be dropped on its own thread** (`sink_join`). `tick` holds a clone of the sink's
   `Arc` while it asks `is_busy()`. When `shutdown_dispatch` releases its reference at that moment,
   the clone is the last one, `Drop` runs on the sink thread, and it joins itself although the code
   expects the join to succeed (`http_event_sink.rs:47`).
3. **A limit can make a span query fail** (`spans_stop`). `make_call_tree` (`call_tree.rs:209`) ignores
   what `parse_thread_block` returns. A handler that says stop, here because the limit is reached, ends
   its block, but the next block is parsed with a stack that missed the ends in between, and the first
   end that does not match fails the query with "top scope mismatch parsing thread block".
   `thread_block_processor.rs:12` says "return true to continue", and the loop in
   `query_thread_events.rs:86` does break. Without a limit that bites the failure does not occur
   (`OnlyAfterGaps`).

Two observations that contradict no document, or only in passing:

* The Rust dispatch gives consecutive blocks overlapping times (`BlockTimes`), whereas `query_spans`
  wants `begin_ticks` to equal the previous `end_ticks` and drops the block that does not follow
  (`query_spans.rs:52`). Of the blocks of a Rust thread stream every other one is then left out of a
  query; `OnlyAfterGaps` says exactly when a block is.
* The comment at `call_tree.rs:24` says that the root node corresponds to the thread. The thread's
  node appears only when some span closes; a span that is still open at the end of the range is
  itself the root (`finish` in `CallTree`).

Further observations, of situations about which no document says anything:

* **Unreal, self-deadlock.** `FlushMetricStreamImpl` opens a span with `MetricMutex` held
  (`Dispatch.cpp:98`). If that span creates the thread's stream, or flushes it while
  `telemetry.spans.enable` is on, the sink records the metric `QueueSize`, which locks the same
  non-recursive mutex. `DeadlockOnlyByReentry` says that this is the only way in which threads block
  each other.
* **Unreal, order.** Blocks of one stream may be queued out of order, since the mutex is released
  before the sink is called and a flush may nest in another. The dispatch is published before the
  sink hears of the process, so that the process and the two shared streams may be announced after
  a thread's stream, or after their first block. A worker that has just found the queue empty when
  the shutdown is requested leaves the last flush unsent, and so does an authenticator that is not
  ready.
* **Guards.** A rebuild after the last guard was dropped never brings telemetry back: it panics, or
  fails after it changed the global level. Threads with a bare `TracingThreadGuard` that outlives the
  last `TelemetryGuard` lose their spans (`GuardedEventsDelivered`).
* **Levels.** The levels of sinks and targets decide whose `on_log` is called, hence what is printed.
  They do not limit what is sent: the `on_log` of `HttpEventSink` does nothing, `on_process_log_block`
  goes to every sink whatever its level (`composite_event_sink.rs:114`), and `log_interop` records
  events that no sink's level admits.
* **Block size.** `hint_max_obj_size` is a hint: the text of a log event has any length
  (`dispatch.rs:496`), so `Overfull` bounds the number of objects beyond the threshold, not bytes.
* **Queries.** An event of a shared stream that was stamped before another thread's later event but
  pushed after it can be missing from a query that ends between the two (`Overtaken`); for metrics this
  can hide later blocks altogether, since that query ends at the first event beyond its range.

## 5. Proofs

TLAPS checks the theorems below for every set of threads, any buffer and event sizes, any number of
blocks, retries, timeouts, ticks, services, faults, builds, levels, targets and traces. The assumptions are
`ConstantsAssumption` (the sink), `StreamAssumption` (the streams), `IngestionAssumption`,
`MigrationAssumption`, `UsizeAssumption` and `GuardAssumption` (guards and levels),
`QueryAssumption` (span queries) and `UnrealAssumption`: names are distinct, `None` is no message,
numbers are naturals, the threads of a process are finitely many, the buffer is not smaller than the
reserved room (the code computes `buffer_size - max_obj_size` unsigned), there is a whole number of
ticks to a nanosecond, and the length of a target's name is a `usize`. `QueriesAssumption` of
`EventQueries`, about which nothing is proved, says that two strings of a program at one address are
one string and that none is at the address of a descriptor. TLC evaluates the assumptions in the runs
of their modules. Every inductive invariant was checked with TLC on the instance of
its module, with one exception: of that of the span queries only the parts that do not quantify over
histories (`RecorderType`, `LakeInv`, `QueryTypes`, `BuilderType`, `Groups`, `Mismatched`) can be evaluated
there.

**The Rust sink**

* `HttpEventSinkProofs!TypeCorrect`: `Spec => []TypeOK`. Not inductive by itself: that the message in
  a caller's or the sink's hand is a message, and not `None`, depends on the program counters, so the
  invariant includes that correspondence.
* `HttpEventSinkProofs!AccountingHolds`: `Spec => []QueueSizeAccounting`. The strengthening says that
  at most one caller is between counting and pushing, namely the one that holds the sender mutex;
  that the sink thread holds a message exactly in the steps from receive to decrement; and that a
  live receiver goes with a running loop. Without the first, two increments could stand for one
  message; without the second, a decrement could come for a message that is still queued.
* `HttpEventSinkProofs!DropsAreBacklogged`: the action property `DropsOnlyWhenBacklogged`, from the
  accounting: the counter is never above the backlog.
* `HttpEventSinkProofs!StreamOrderHolds`, `MetadataFirstHolds`, `JoinDrainsHolds`, `RefinesContract`:
  `StreamOrder`, `MetadataFirst`, the action property `JoinDrains`, and `ImplementsContract`, the
  refinement of `SinkContract`. All go through the sequence `accepted`. The mutex of a stream, held
  from the cut of a block to the end of its `send()`, makes what is being sent come after everything
  accepted for that stream (`SendingInv`), hence `accepted` is in order (`AcceptedInv`); until the
  dispatch is published only `Main` sends, the boot messages in their order (`BootInv`); the message in
  hand and the channel are the rest of `accepted` (`FifoInv`); requests follow it (`PostedInv`), a
  repeated request only for metadata; and the loop ends with nothing left over (`LoopInv`). The step
  simulation then maps `SendPush` to `Accept`, a failed attempt to `Retry`, the last
  attempt (`PushMetadata`, `PushBlock`) to `Settle`, the end of the loop to `Close`, and everything else to stuttering.

**The event streams**

* `EventStreamProofs!TypeCorrect`: `Spec => []TypeOK`.
* `EventStreamProofs!BlocksPartition`: `Spec => []BlocksPartitionEvents`. The invariant adds the block
  in a flusher's hand, which belongs between the last block sent and the current one: while it is in
  hand the stream is locked by its flusher, or is a thread stream whose owner flushes it, so that no
  second block can be cut (`HandInv`); with no block in hand the current one follows the last one sent
  (`RestInv`); the sent blocks form a chain (`SentInv`).
* `EventStreamFlush!OverfullBounded`: `Overfull`, for objects of any size. `SizeInv` adds that the
  monitor only lowers thresholds and that no object ends beyond the length of its queue: who pushes
  beyond the threshold joins the flushers, an object within it has all earlier ones within it too, and
  who leaves the flushers has replaced the block or found it empty.
* `EventStreamFlush!BlockTimesHold`: `BlockTimes`. Nothing is stamped in the future (`ClockInv`), a
  stream that is not registered has no events (`UnusedInv`), and the block in a flusher's hand overlaps
  both its neighbours (`OverlapInv`).
* `EventStreamFlush!SetFullHolds`: `SetFullHonoured`. A mark may be overwritten by the flush of the
  owner, but only by one that cuts the marked events (`MarkInv`), which needs that an empty block has no
  events (`EmptyInv`: `is_empty` counts bytes).
* `EventStreamFlush!ShutdownFlushesHolds`: `ShutdownFlushes`. What the shutdown owes is delivered, in
  the block it is flushing, or in a stream it has still to flush (`DueInv`).

**Ingestion and migration**

* `IngestionProofs!RowsHaveBlobs`, `BlocksRecordedOnce`, `BlocksDescribed`: `RowHasBlob`,
  `NoDuplicateBlock` and `BlockIsDescribed`. One inductive invariant: a handler about to insert a block
  finds its payload stored (`HandlerInv`); a block is with the client, with exactly one handler, or in
  the database (`OnceInv`), which is where it matters that blocks are not retried; whatever the client
  has finished with is recorded or met a fault, and it finished with the metadata before it began
  with a block (`ClientInv`). That a crash counts as a fault of the request the client waits for needs
  that this request is at work (`WaitInv`).
* `MigrationProofs!TypeCorrect`, `ConnectedIsMigrated`, `StartTogether`: `TypeOK` (the committed schema is
  all or nothing), `ConnectedHasSchema` and `NoNeedlessFailure`. The invariant ties the uncommitted
  objects to the one transaction that creates them and, as long as there is no fault, every service
  past the lock to the lock.

**Guards and levels**

* `TelemetryGuardProofs!OnLogByLevelHolds`: `OnLogByLevel`, a claim about `CompositeSink::on_log` and
  not about log blocks. `CallsInv` lists the programs a thread may
  be in (`Programs`), and says that the mutex belongs to the one thread that builds (`LockInv`), that a
  cached filter is the one of the installed sink (`CacheInv`) and that an event about to be pushed was
  given to the takers of that filter (`CallInv`): the race for the cache cannot matter since all
  contenders write the same value, and the sink that is installed never changes. The lemma
  `MatchIsLevelFor` shows that the first match in the list sorted by wrapped lengths is the filter of
  the empty name, or else of the longest name that starts the target.
* `TelemetryGuardProofs!FastCheckHolds`: `FastCheckConservative`. `MaxLevelInv` adds that as long as
  somebody has a system guard the max level is that of the installed sink: a build that changes it
  holds the mutex, which it got because there was no guard, and it can leave a guard behind only by
  installing its own sink.
* `TelemetryGuardProofs!SinkAliveHolds`, `GuardedEventsHolds`: `SinkAliveWhileHeld` and
  `GuardedEventsDelivered`. As long as there was neither a panic nor Ctrl-C (`GuardInv`), holders are the
  threads that have or are about to get a full guard (`HolderInv`); the rest of a shutdown runs with no
  holder, and none can come back, as the dispatch is never built twice (`AliveInv`); and the log stream
  stays empty from its last flush on (`FlushedInv`), as only a holder's events count.

**The Unreal sink**

A thread's state is a stack of steps. A step is located by its depth from the bottom, which stays the
same while it waits for what it called. The lemmas named `...Effect` turn each action into one list of
steps that takes the place of the top of one stack, `Replaced` says what that makes of each depth, and
`NextKind` and `Flow` sort the actions by what they do to the stacks and to the messages that wait.
`StackInv` says which steps are where: the worker's stack ends in what is left of an iteration, an
enqueue sits directly on its trigger and an increment directly on its enqueue.

* `UnrealSinkProofs!ShutdownDrainsHolds`: `ShutdownDrains`. What a shutdown is owed is handled, in hand or
  queued, and a worker past its look at the queue owes nothing; there is one request at most, which is
  why nothing is added to the debt later (`ShutdownInv`).
* `UnrealSinkProofs!DeadlockOnlyByReentryHolds`: `DeadlockOnlyByReentry`. A thread makes its stream once at
  a time (`OwnInv`); a shared stream is locked exactly from the decision to flush it to its one cut
  (`LockInv`); above a cut there are no flushes of shared streams nor log entries, and a metric only
  where a thread stream is being made or spans are cut (`NestInv`); the worker formats, and logs, a
  block outside any flush. So a thread that holds the metrics' mutex never waits for the log's, though
  one that holds the log's may wait for the metrics': a circle can only be a thread that waits for
  itself, and only for the metrics.
* `UnrealSinkProofs!ThreadStreamFirstHolds`: `ThreadStreamFirst`. A thread cuts only its own stream and
  announces it below the step that publishes it (`TalkInv`), and no block of it waits until then
  (`AnnounceInv`).
* `UnrealSinkProofs!BlocksConservedHolds`: `BlocksConserved`. A block that was cut is at one depth of one
  stack, at one place of the queue, or handled, and is somewhere if its kind is recorded (`BlockInv`).
  The cut is one step: what is shown is that nothing is lost after it, when the mutex is free again.
* `UnrealSinkProofs!NoLostWakeupHolds`: `NoLostWakeup`. Once the worker is past its look at the queue, the
  event is set or somebody is about to set it (`WakeInv`); the counter is the length of the queue and
  the number of messages counted and not yet queued (`CountInv`), so it is never below the queue.
* `UnrealSinkProofs!RefinesContract`: `ImplementsContract`. An enqueue is an `Accept`, a request handed to
  the HTTP module or given up is a `Settle`, the end of the worker is `Close`, and everything else stutters,
  taking a message out of the queue included.

**Span queries**

`QuerySpansProofs` proves the three invariants of `QuerySpans` for any scopes, lags, limits, number of
events and whole number of ticks per nanosecond (a fractional frequency is outside it), from one inductive invariant, `IInv` (`SpecIInv`).

* `RecorderInv`: events and blocks are in order of time, a block that begins where another ends also has
  the events that follow the other's (`LakeInv`), and the trace has a *history* (`HistoryInv`): the
  indices of the begins that are open after each event, 0 standing for a span from before the stream.
  A begin pushes its index, an end pops one that has its hash.
* `Groups`: each selected block that the query has looked at is in some tree, waits in
  `blocks_to_process`, or does not begin where the one before it ended; and a run waiting to be processed
  ends with the last block looked at. Without the last part nothing would tie `last_end` to the block
  that a gap is measured from.
* `Mismatched`: a failed query had reached its limit.
* `ParseInv`: the ids left to parse are consecutive from some event n to the end of the run (`Pending`),
  and the builder fits what came before n (`TreeAt`). The nodes of the stack are nested and lie before
  everything still to come (`StackOk`), also after the limit was reached. Until then the stack is in step
  with every history of the trace (`InSync`): the events before n that lie in the range are an interval,
  the nodes above the thread's are the spans of the history that began in it, and their finished
  children are exactly the spans that ended in it.

The theorems follow from it:

* `OnlyAfterGapsHolds`: `OnlyAfterGaps`. A mismatch needs a top node that is neither the thread's nor the
  span that the history closes, which `InSync` excludes below the limit; that no block is passed over is
  `Groups` at the end of the query.
* `SpansNestedHolds`: `SpansNested`. Appending a finished node to the children of a node that began before
  it keeps the rows nested (`Forest`), and `finish` does so from the top of the stack down.
* `TreeMatchesTraceHolds`: `TreeMatchesTrace`. When nothing is left to parse, the interval is `Covered`; the
  balance of begins and ends between two events is the difference of the heights of the history, so that
  `Ends` relates a begin to the end that pops it, and the spans of `InSync` are those of `ExpectedSpans`.

`finish` and `find_stream_blocks_in_range` are recursive functions, and a history a function of the number
of events: what they are for every input is an induction, which is done with a set in the place of the
predicate (the lemma `Induction`, from the library's minimum of a well-founded relation, `WFMin`).

**Model-checked only**: the liveness properties (fairness and ENABLED are out of the prover's reach:
`DropReturns`, `AcceptedIsHandled`, `TickFlushes`, `SentIsRecorded`, `ClientGetsOn`, `EveryoneReturns`) and
`AnswerSound` and `AnswerComplete` of `EventQueries`. Both compare the rows of an answer with what the
program meant, so they rest on the round trip through `Transit`: that the parser, given the dependencies
of a block, gives back every type of event and descriptor as it was written. `Transit`
and the loops of the queries use the library's folds, which take an operator as a parameter; what a fold
computes is then an induction that none of the provers can instantiate. The folds would have to become
recursive functions, as those of `CallTree` have, and the round trip be proved for each layout.

## 6. Plan

Every safety property that a run checks has its theorem, except the two of `EventQueries`. What is left
to prove is that the parser of `Transit` inverts its writer, and from it `AnswerSound` and
`AnswerComplete`; the steps are given at the end of section 5.

## 7. Not modelled

HTTP routing, SQL text, Arrow tables, CBOR, lz4, authentication decorators, time-stamp counters and
their frequency, process information, the Python client and notebooks, generated protocol buffers
and third-party code: formatting, library code or no state of their own. Of `analytics-srv/src` only
`main.rs` is compiled. Retention (`telemetry-admin-cli/src/lake_size.rs`) names a table `payloads` and
functions that the schema and PostgreSQL do not have, and reads columns it does not select: as
written its statements fail before anything is deleted, so there is nothing to model. Levels of detail
(`Verbosity`, `LodFilter`), `log_enabled!`, the printing of the local sink and the fan-out of blocks by
the composite sink have no state; the codec of Unreal names needs the engine's name table. Streams of
threads that have ended (`dispatch.rs:300`) and races on the `static mut` (`dispatch.rs:269`) are
undefined behaviour without outcomes to enumerate.
