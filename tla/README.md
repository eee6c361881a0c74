# A TLA+ model of a2akit

a2akit serves agents over the A2A protocol. A client sends a message, the server turns it into a
*task*, a worker runs the user's handler on it, and the client follows the task by polling or over
server-sent events. This directory models the parts of a2akit in which concurrency and failure decide
correctness:

* what happens to **one task** while requests, retries, cancels, timers and worker runs act on it at
  the same time (`A2ATask` and the modules it composes), over the in-memory bus (`MemoryEventBus`);
* the **shared backends** on which several server processes meet: SQL and Redis storage
  (`SharedStorage`), the Redis broker (`RedisBroker`), the Redis bus and cancel registry
  (`RedisSignals`);
* the **server around it**: lifespan and webhook delivery (`ServerLifespan`), request handling in the
  four bindings and the client that calls them (`ClientCall`).

All paths below are relative to the repository; the implementation is `src/src/a2akit/`.

## 1. Inventory

| Component (source) | State | Operations | Interacts with |
|---|---|---|---|
| Storage (`storage/base.py`, `memory.py`, `_sql_base.py`, `redis.py`) | one row per task: state, OCC version, status message, history, artifacts | `create_task`, `update_task`, `load_task`, `get_version`, `list_tasks`, deletes | everybody |
| Event bus (`event_bus/memory.py`, `redis.py`) | subscriber list, ring buffer, event ids, purge deadlines | `publish`, `subscribe`, `cleanup` | TaskManager subscribes, context/cancel helper publish, adapter and timer clean up |
| Cancel registry (`broker/base.py`, `broker/memory.py`, `broker/redis.py`) | a set event per task, scopes held by runs | `request_cancel`, `is_cancelled`, `on_cancel`, `cleanup` | `cancel_task` signals, runs listen |
| Broker (`broker/memory.py`, `broker/redis.py`) | pending operations with attempts | `run_task`, `receive_task_operations`, `ack`, `nack` | TaskManager enqueues, adapter consumes |
| TaskManager (`task_manager.py`) | background coroutines | `send_message`, `stream_message`, `subscribe_task`, `cancel_task`, `_enqueue_or_fail`, `_force_cancel_after` | storage, bus, registry, broker |
| Cancel helper (`cancel.py`) | none | `cancel_task_in_storage` | timer and run both call it |
| TaskContext (`worker/base.py`) | `_version`, `_turn_ended`, buffered artifacts | lifecycle methods, `send_status`, `emit_artifact`, `_versioned_update` | storage, bus |
| WorkerAdapter (`worker/adapter.py`) | one run per operation | `_handle_op`, `_run_task_inner`, `_mark_failed` | all of the above |
| SQL and Redis storage (`storage/_sql_base.py`, `sqlite.py`, `postgres.py`, `redis.py`) | rows, contexts; Redis also an index set per context and expiring idempotency keys | the storage operations in several round trips | all server processes |
| Redis broker (`broker/redis.py`) | stream, pending lists, crash counts, dead letters | receive, claim, `ack`, `nack`, deregister | adapters of several processes |
| Redis bus and cancel registry (`event_bus/redis.py`, `broker/redis.py`) | replay stream, cancel key, Pub/Sub connections | as the in-memory ones | as the in-memory ones |
| Push delivery (`push/`) | configurations, a bounded queue and a worker per configuration | set/delete config, enqueue, deliver with retries, idle exit, shutdown | emitter, lifespan |
| Hooks, emitter chain (`hooks.py`, `event_emitter.py`, `push/emitter.py`) | none | wrap update and send | storage, bus |
| Container and lifespan (`dependencies.py`, `server.py`) | what was started | startup with roll-back, shutdown | everything |
| HTTP and JSON-RPC (`endpoints*.py`, `jsonrpc*.py`, `middleware/`) | per request: middlewares entered | checks, middleware, operation, reply or stream | TaskManager, push store |
| Client (`client/`) | transport, attempts | `connect`, calls with retry | the endpoints |

What is hard here:

* every storage, bus, broker or registry call is an `await`; other coroutines, and with the Redis
  and SQL backends other processes, act in between. Correctness rests on the order
  "capture the version, load, validate, write pinned to the version" and on the terminal guard;
* a write and the event that announces it are two steps, and several writers may try to end one
  task: the run, the run's cancel, the force-cancel timer, the enqueue-failure handler, the poison
  check;
* clients retry; brokers raise after having taken effect, redeliver, and count attempts; storage
  calls raise at any await; worker processes die;
* cleanup after a terminal state removes what a later turn or a late subscriber may still use;
* subscribers have bounded buffers, reconnect with Last-Event-ID and load snapshots concurrently
  with publication;
* with SQL and Redis one storage call is several round trips and any of them may be the last one of a
  process that dies; Pub/Sub loses wakeups; keys expire; streams are trimmed;
* startup fails half-way, shutdown meets deliveries in flight, and a client repeats a call that the
  server is still working on.

What makes the components correct: a terminal state is final and announced exactly once;
a message enters the history once and is worked on by one operation; one pause is consumed by one
follow-up; what subscribers saw of the artifacts reaches storage; an accepted message and a
requested cancel eventually end in a terminal or paused state; streams end; events arrive in order
and once; an update of a shared row is applied once and atomically; an idempotency key leads to one
task; an operation given to the broker is not forgotten and not run too often; a webhook sees the newest
snapshot last; everything started is stopped; middleware is left when it was entered; an error keeps its
meaning on the way to the caller. `PROJECT.json` lists the hazards line by line with the properties aimed at them.

## 2. Modules

```
TaskStore      the row: create_task, update_task with version check and terminal guard
EventBus       who is registered, whose stream ended or was full, what was announced  (EXTENDS TaskStore)
CancelRegistry the cancel key, scopes held by runs
Broker         pending operations by attempt
CancelTask     cancel_task_in_storage, await by await    (EXTENDS the four above)
TaskManager    requests, resubscription, cancel calls and timers     (EXTENDS CancelTask)
TaskContext    the handler's calls and _versioned_update             (EXTENDS CancelTask)
WorkerAdapter  runs, failure marking, finally block, settlement, faults (EXTENDS TaskContext)
A2ATask        the composition, fairness, properties    (EXTENDS TaskManager, WorkerAdapter)
TaskProtocol   abstract specification: the documented lifecycle
MCA2ATask      instances for TLC
A2ATaskProofs  theorems: types, terminal states, history            (EXTENDS A2ATask, TLAPS)
A2ATaskTurnProofs  theorems: operations, artifacts, turns, streams   (EXTENDS A2ATaskProofs)
MemoryEventBus InMemoryEventBus in detail; MCMemoryEventBus its instances
MemoryEventBusProofs  theorems                         (EXTENDS MemoryEventBus, TLAPS)

VersionedStore abstract specification: atomic merges on versioned rows
StorageCalls   calls of several processes to one backend         (EXTENDS VersionedStore)
SqlStorage     SQLStorageBase statement by statement               (EXTENDS StorageCalls)
RedisStorage   RedisStorage command by command                     (EXTENDS StorageCalls)
SharedStorage  a deployment with either, properties  (EXTENDS SqlStorage, RedisStorage)
SharedStorageProofs  theorems                          (EXTENDS SharedStorage, TLAPS)
RedisBroker    stream, consumer group, handles, crash counts, dead letters
RedisBrokerProofs  theorems                               (EXTENDS RedisBroker, TLAPS)
RedisEventBus  replay stream and wakeups
RedisCancelScope  cancel key, channel, scopes
RedisSignals   both users of Pub/Sub, fairness (EXTENDS RedisEventBus, RedisCancelScope)
RedisSignalsProofs  theorems                           (EXTENDS RedisSignals, TLAPS)
PushDelivery   emitter, configurations, queues and their workers
ServerLifespan startup and shutdown around it                      (EXTENDS PushDelivery)
ServerLifespanProofs  theorems                         (EXTENDS ServerLifespan, TLAPS)
RequestHandlers  what each handler of the four bindings checks, runs and raises
FrontEnd       requests through checks, middleware, operation, reply  (EXTENDS RequestHandlers)
ErrorWire      every error as a reply, every reply as an exception
ClientCall     connect, call, retry against the front end    (EXTENDS FrontEnd, ErrorWire)
ClientCallProofs  theorems                                 (EXTENDS ClientCall, TLAPS)
MCSharedStorage, MCRedisBroker, MCServerLifespan, MCClientCall  instances for TLC
```

**Processes.** Requests (`Requests`, of which `Creates` carry no task id), resubscribed clients
(`Watchers`), cancel calls with their timer (`Cancels`) and worker slots (`Runs`). `pc[p]` names the
await a process is about to perform; one action performs that call and everything up to the next
await. `ver[p]` is the version the process captured, `pending[w]` a run's artifact buffer
(`_pending_artifacts`), `kind[w]` the write a run is in, `turnEnded` is `_turn_ended`, `newState[r]` the
transition `_submit_task` computed. A request leaves two things behind: the background coroutine,
followed by `pc[r]`, and its listener, followed by `stream[r]`.

**Abstractions.**

* One task. Nothing in the modelled code couples two tasks except the bus lock (MemoryEventBus).
* Every await on a backend is one atomic step of that backend. For in-memory storage, whose calls do
  not suspend, this explores more interleavings than one process shows; for SQL and Redis it is
  what they allow. The compare-and-swap retry inside a blind SQL or Redis `update_task` is one step,
  so the `ConcurrencyError` branch of the `working` transition (`adapter.py:331`) is not explored.
* Messages the server generates carry fresh ids and never meet the duplicate check; they appear only
  as the message of the status they belong to. `statusMsg` records who wrote it.
* A follow-up is sent only once the task exists, because its client needs the task id. Retries of
  a first message carry the same context id (the idempotency key compares it).
* Read-only reloads used only for an answer, direct replies, inline push configs, input-mode
  validation and the loading of the context are left out. `complete()`'s own artifact travels with the
  transition and adds no interleaving.
* The user's handler is any sequence of context calls that ends in a return or an exception. It
  sends at most one progress update per run and uses the lifecycle methods in `Calls` (bounds).
* A subscriber's stream may be full whenever a TerminalMarker is published: `PublishMarker` chooses the set that has no
  room. Such a subscriber is `missed`, and `overrun` once cleanup has dropped it; it still waits. The fill level itself is
  in MemoryEventBus.
* `emit_artifact` publishes and then buffers. Only a cancellation can tell the two apart, since the publish waits for
  nothing but the bus lock and its errors are swallowed by the emitter; so `EmitArtifact` is one step and `CancelDelivered`
  has the branch in which the artifact is out and not buffered.
* Cancellation of a handler may come late. `TaskTerminalStateError` leaving the handler is caught by
  name or, wrapped by the task group into an `ExceptionGroup`, treated as an ordinary failure: both
  are explored.
* The in-memory cancel registry holds event objects: dropping the key detaches runs from later
  signals but does not unset what they hold (`attached`, `signalled`).
* The broker delivers in any order; this covers several worker processes. With `Redelivery` a crashed
  worker's operation comes back with its attempt incremented, as `RedisBroker` claims it.
* `MaxFaults` bounds storage errors plus crashes; `MaxRetries` is the configured value.

**MemoryEventBus** models publish as two atomic sections (id and ring buffer; fan-out under the
lock), subscribe as registration under the lock plus the bookmark, the caller's snapshot load, the
replay of `list(buf)`, the live phase with its skip rule (it compares with `last_yielded_id`, which only
the replay moves), and the purge 60 s after cleanup. A publisher may be cancelled while it waits for the
lock. Events are numbered by `published`; their `id` is what the code assigns and restarts after a purge.
The lock is FIFO. `base`, `seen`, `lost`, `skipped`, `outdated` (clients that know ids from before a restart)
and `stalled` (those of them that had resumed and not begun to read) only record what a client was told and
what was lost, for the properties.

**Shared storage.** A call is made once by some coroutine of some process; `pc[o]` names its next round
trip, `arg[o]` keeps what it was asked. A row holds the `log` of the calls merged into it in place of
history, artifacts and metadata. A SELECT and the UPDATE after it are two steps (READ COMMITTED in
PostgreSQL, no read transaction in sqlite3), a guarded UPDATE, an INSERT under the unique index, a Lua
script and a MULTI block are one. Task ids are uuids: a create draws one that nobody has used.
`forgotten` records the idempotency keys lost while their task lived on.

**Redis broker.** Every command is a step; a process dies, or is stopped and deregistered, between any
two. A handle is what the adapter holds; the adapter's part (run, ack, nack, poison check, failed mark) is
modelled as far as the broker sees it, with the calls of `ack` and `nack` that raise before or after they
took effect: a failed `ack` of a finished run sends the adapter into its retry path. The commands of the receive loop
raise as well, before or after they took effect: those about a claimed entry (`ClaimRaises`) end in the `except` clause for
malformed payloads, the others (`ReceiveRaises`) leave the loop, which starts again. `setup.adapterMax` is the adapter's own `max_retries`, which the
configuration may make larger than the broker's.

**Redis bus and cancel registry.** An event is known by its number, which orders as its stream id. A
pipeline without a transaction is as many steps as commands. Wakeups may get lost; the reader's poll does
not. A scope's start is three round trips, each of which may fail; `wait` starts it once more.

**Push and lifespan.** A snapshot is the version it shows. A writer is the run of the task or a background
task of the TaskManager; a POST ends, is refused or fails. `late` marks workers that `deliver` started
after `shutdown` began. The lifespan is the sequence of awaits of `lifespan()`; each step may fail.

**Requests.** A handler is a record: who runs the middleware around it (`pipeline`), its own checks, the
errors its operation raises, whether it streams. `FrontEnd` takes a request through these; `ClientCall`
connects, calls, loses requests and replies, and retries, while the attempt it gave up on goes on in the
server. Errors are known by their names, a reply is status, code and reason. A request may be cancelled while it waits for a
middleware or for its operation, and before its response starts (`Cancelled`). An endpoint is up, refuses connections, answers
5xx or takes the connection and stays silent; the caller may have asked for a protocol, and a URL need not serve the
protocol the client takes it for.

## 3. Runs

The instances are small but chosen so that each race has all its participants; deadlock is not
checked in the task model, because a task at rest is its normal end (the bus model does check it).

| Run | Instance | Shows |
|---|---|---|
| `turns` | first message and one follow-up, each sent twice; two runs; `request_auth`, `respond`; tenant write | `TypeOK`, `PauseShowsQuestion`, `HistoryOnce`, `OneOperationPerMessage`, `FollowUpResumes`, refinement of `TaskProtocol` |
| `agent` | a message of role agent starts a second run on a live task; one artifact; conflicts without a reported version | `ArtifactsKept` |
| `crash` | two faults among storage errors and worker crashes, broker that raises before or after the effect, a cancel, two attempts | `FinalEventOnce`, `TerminalIsFinal`, `FailedMarkSparesRun` |
| `progress` | fair, dutiful handlers; broker failures, a cancel, an artifact, pauses | `ArtifactsKept`, `EveryTurnEnds`, `PausedCancelEnds` |
| `streams_end` | fair, dutiful handlers; a stream, a blocking retry with timeout, a resubscribed client | `NoOrphanedStream`, `StreamsEnd` |
| `orphaned_stream` | two turns of one task, a run that is slow in its finally block | expects a violation of `NoOrphanedStream` |
| `bus` | one client that connects, reads, drops and resumes; two publishers; four events; stream of 1, ring of 2 | `InPublicationOrder`, `OnlyKnownLosses` |
| `storage` | four calls of any kind, two task ids, one context, one key, two attempts; SQL or Redis | `AppliedOnce`, `OneTaskPerKey`, `KeyLeadsToTask`, `HiddenOnlyByContextDelete`, `ContextLostOnlyByDelete`, refinement of `VersionedStore` |
| `redis_broker` | two processes of one slot, one operation, three entry ids, two retries; two faults among deaths, stops and errors of the receive loop, one trim, one run that outlasts the claim timeout; equal or unequal limits | `OnlyKnownLosses`, `RunsBounded`, `DeadLettersMarked` |
| `redis_signals` | fair; one reader and one writer, three events, a stream of two; or two scopes and two cancel requests | `RedisInOrder`, `RedisOnlyKnownLosses`, `RedisDelivers`, `CancelReachesScope`, `CancelIsSeen` |
| `server` | fair; one configuration, a run and a forced cancel writing three versions, queue of two, two POSTs per snapshot; three dependencies, one under two keys | `WebhookOrder`, `NewestSettles`, `ClosedAfterWorkers`, `UnwindsInReverse` |
| `requests` | one call of at most two attempts, two middlewares, one stream event, eight agent cards, no preference or either protocol, each transport up, down, sick or mute, requests cancelled, a redeployment in between | `MiddlewareUnwinds`, `WorkBehindMiddleware`, `OneTaskPerCall`, `ErrorsAgree`, `FallsBack` |

Two retries of each message are enough to show duplication, because every attempt runs the same code;
two writers besides the run are enough to lose both of the two writes every helper tries; a stream of
one and a ring of two overflow with four events. Four storage calls suffice for a create, the update or
delete that races it, the third call that invalidates what they read, and a witness; the proofs below lift
the storage properties to any number. Two processes suffice for a claim, two middlewares for an order, a
queue of two for an overflow while the worker holds a third snapshot. One operation is enough in
`redis_broker`: different operations share nothing but their places in the queue and a process's slots. Symmetry is used
for runs, cancels, publishers, calls, task ids, processes, handles and entry ids in the runs without
liveness. Deadlock is not checked in the runs that say so in their configuration: there the system may come to
rest (all calls returned, nothing to publish, server ended).

Terminal finality, the single final event, the single history entry and the count of operations are proved for all
constants (section 4), with cancels, redelivery and brokers that raise; `crash` checks the first two with a cancel
call and faults. The type
invariant of A2ATask is checked and proved; those of SharedStorage, RedisBroker, ServerLifespan, MemoryEventBus
and ClientCall are proved, the last two as parts of the inductive invariants.

**Fairness.** `ServerFairness`: the event loop resumes every coroutine whose await completed and timers
fire, so each server coroutine that has begun is weakly fair; a run takes an operation that is there.
`HandlerFairness` adds that handlers return and give way to cancellation. Clients, the calls a handler
chooses to make, timeouts of blocking waits and faults owe nothing. `DutifulSpec` has both.
`streams_end` and `progress` need the handler's part: nothing in a2akit limits how long a handler runs.
`RedisSignals` has weak fairness for readers, for scopes that started and for a `request_cancel` that has
set the key: Redis answers and the loop resumes them. `ServerLifespan` has it for the lifespan once begun and for
each configuration's worker, whose waits all have timeouts. Nobody has to publish, write, cancel or connect.

**Disagreement.** `orphaned_stream` expects a violation, with a finding in `PROJECT.json`: the finally block of a
finished turn loads the task only after the next turn ended, and its cleanup removes the next turn's
subscribers before the end marker is published.

**Known divergences.** Places where the code does less than a comment or docstring says, or than a reader would
expect; the models contain them and the properties except them by name where they concern them.

Tasks and in-memory bus:

* a cancel that finds the task already terminal at its first load drops the artifacts drained from the run,
  which subscribers have seen (`cancel.py:58`, against the docstring at 49); `ArtifactsKept` excepts this
  step by name;
* a cancellation that strikes while `emit_artifact` awaits the publication leaves an artifact that subscribers have seen
  neither buffered nor stored (`worker/base.py:1096`, before the append at 1108); `ArtifactsKept` excepts this step
  by name too, and the proof shows that faults are the only other exception;
* a subscriber whose stream is full when the TerminalMarker is published loses it and waits for ever
  (`event_bus/memory.py:138`, against `event_emitter.py:30`); cleanup then drops it. `StreamsEnd` and `NoOrphanedStream` except
  exactly the streams that lacked room (`missed`, `overrun`);
* a flush that lost to a force-cancel goes on with the version of the terminal task; the next progress update
  is pinned to it and replaces the cancellation's status message (`worker/base.py:744`, against 722);
* the force-cancel timer tries two pinned writes, may lose both (to `working` and to a pause), then releases the
  cancel key: the cancelled task stays paused (`cancel.py:107`, against `task_manager.py:684`).
  `PausedCancelEnds` is the part that holds;
* an artifact event published before a client's subscription is taken to be in the snapshot, but artifacts are
  stored later than they are published (`event_bus/memory.py:169`, against 165).

Storage:

* two racing Redis `delete_task` calls of one task can delete the idempotency key of a younger task, and so can
  one that runs after the key's TTL (`storage/redis.py:628`); a later retry of that message then creates a second
  task. `OneTaskPerKey` excepts such keys;
* a task created while a Redis `delete_context` is under way may survive and be missing from the index;
* `update_context` of SQL whose row is deleted between its INSERT and its second UPDATE writes nothing and does
  not say so; SQL `delete_context` reads the ids whose push configurations it removes before it deletes.

Redis broker:

* a run whose `ack` raises after it finished is retried by the adapter, so it may run again
  (`worker/adapter.py:181`); `RunsBounded` counts these runs too;
* `nack` sends XACK and XADD in a pipeline without a transaction, although the comment at `broker/redis.py:399`
  calls them atomic: a process that dies, or an error, in between loses the operation;
* an error of Redis while an entry is claimed (HINCRBY, the XADD of the burial, XACK, HDEL: `broker/redis.py:699-717`) is
  taken for a malformed payload by the `except Exception` at 751: the operation is dead-lettered as
  `deserialization_failed` and acknowledged, no handle is yielded and the task is never marked. The loss is
  named `misread`, and `OnlyKnownLosses` and `DeadLettersMarked` allow it;
* XGROUP DELCONSUMER on shutdown drops the pending entries of the consumer;
* an adapter whose `max_retries` is larger than the broker's lets an operation end in the dead-letter stream
  with its task unmarked.

Push and lifespan:

* of two writers at the same time the slower one may hand over the older snapshot last; the comment in
  `push/emitter.py:61` speaks of one writer;
* a worker started by `deliver` after `shutdown` began outlives the HTTP client; the sentinel may push the oldest
  snapshot out of a full queue; a worker keeps the configuration it was started with until it goes idle;
* `handle_set_config` that has seen the task before `delete_task` stores a configuration nobody deletes;
* the HTTP client stays open when the container or a backend fails to start; a dependency registered under two
  keys is stopped at its second key's turn.

Requests and client:

* over protocol 0.3 a `ConcurrencyError` (and over JSON-RPC an unsupported operation) reaches the caller as
  `TaskTerminalError`; the 404 of an unknown route, card or push configuration as `TaskNotFoundError`; an invalid
  push configuration over JSON-RPC as an internal error;
* `connect` accepts an endpoint that takes the connection and leaves the health check unanswered (`client/base.py:310`), and a
  JSON-RPC one that refuses connections, against the fall-back the docstring at 176 speaks of;
* a GRPC interface of a 0.3 card is tried as JSON-RPC (`client/base.py:382`), and a protocol the caller asked for is
  spoken to the card's first URL whatever that serves (403);
* network errors of the JSON-RPC transport are not retried, because it wraps them;
* a repeated blocking send may return a task that is not finished, a repeated cancel may report that the task
  cannot be cancelled;
* after one `after_dispatch` raised, the remaining ones are skipped; they are also skipped when a JSON-RPC stream is
  never started, when a 0.3 REST reply cannot be converted, and when `message_send` (REST or JSON-RPC) is cancelled
  before its result is there: its handlers catch `Exception` only (`endpoints.py:377`, `endpoints_v10.py:330`,
  `jsonrpc.py:337`, `jsonrpc_v10.py:274`), those of the streams `BaseException`.

The models also reach the following; no run is kept for them:

* a force-cancel between the `working` write and its event lets `working` follow the final event
  (`adapter.py:342`), the order the comment at `worker/base.py:1016` wants to exclude;
* a load that raises in the finally block is taken for a deleted task, so the cancel key of a
  paused task is released (`adapter.py:461`, against the comment at 477);
* a blocking follow-up accepted between the write of a pause and its marker is ended by the
  marker of the turn before and returns a task that is still `submitted`;
* a message of role agent, or the redelivery of a turn whose worker died after pausing the task, moves a
  paused task to `working` without the `submitted` of the documented diagram. The runs that check the
  refinement therefore use user messages and no redelivery;
* a broker that raises after it took the operation, or a force-cancel that cleans up before a
  request has subscribed, can leave a stream without an end;
* a subscriber whose stream was full and that later received newer events cannot get the dropped ones
  back: its Last-Event-ID is past them (`event_bus/memory.py:138` speaks of recovery);
* an event published more than 60 s after the cleanup of a task that was not terminal gets id 1 and is
  skipped by subscribers with an older bookmark (`event_bus/memory.py:101`);
* a client that resumed while such a purge stays armed, has an event in its stream and begins to read only after
  the ids restarted gets new events from the replay and then the older one live (`event_bus/memory.py:228`, against
  the MUST at `event_bus/base.py:54`). `InPublicationOrder` names this client (`stalled`), and the proof shows that
  it is the only exception; without the exception TLC finds the trace with five events and buffers of two.

## 4. Proofs

`A2ATaskProofs` holds for every set of requests, watchers, cancels, runs, messages and artifacts, every
assignment of messages to requests and every number of retries and faults. Assumed are the named
assumptions of the modules: process sets are disjoint, creating requests carry one message,
`MaxRetries > 0`, and the types of the other constants.

* `TypeCorrect`: `[]TypeOK`. `TypeOK` alone is not inductive: publishing the end of a turn
  applies `CallState` to `kind[w]`, so `TypeInv` adds `EndKindOK` (a run at `end_publish` is in a
  lifecycle call).
* `TerminalFinality`: `TerminalIsFinal`. `StoreSteps` shows that every step leaves the row alone,
  inserts it, appends a follow-up or is an update that passed the terminal guard; from that,
  `TerminalStays`.
* `HistoryRecordedOnce`: `[]HistoryOnce`, and `FollowUpsResume`: `FollowUpResumes`, from `HistoryInv`.
  Its heart is `AppendReady`: while the captured version is still current, what `_submit_task`
  validated (message not in the history, state accepts it, computed transition) is still true of the
  row. It needs `VersionsBehind` (no captured version is ahead of the row), since otherwise a later
  write could make a stale validation look current. This is why the version is read *before* the load.
* `FailedMarkSpares`: `FailedMarkSparesRun`, from `MarkInv`, the same argument for `_enqueue_or_fail`: while the version it
  captured is current, the task it loaded as `submitted` still is (`MarkReady`). It needs that a recorded message has
  a row (`RecordedIsThere`), so that a version cannot become current again by an insert.
* `FinalAnnouncedOnce`: `[]FinalEventOnce`, from `FinalInv`: a process about to announce a terminal state
  is the one that wrote it (`AnnouncerOwns`) and there is at most one (`OneAnnouncer`). Each step of each
  process is shown to be quiet, the terminal write, or the announcement (`FinalStep`).

`A2ATaskTurnProofs` goes on from there, with the same constants and assumptions. Two theorems are about all
behaviours:

* `OperationsCounted`: `[]OneOperationPerMessage`. The property counts the requests that are about to enqueue, the
  operations in the broker and the runs that hold one; they never exceed the messages recorded. Every step
  keeps the three sets, accepts a message together with its request, or hands one operation from one set to the next
  (`CountPreserved`). It needs `Untouched` (before the row exists nothing is under way) and that the sets are finite,
  which the library's cardinality facts ask for.
* `SeenArtifactsKept`: `ArtifactsKept`, an action property, from `BufferInv`. Only a run in the middle of its turn has
  artifacts buffered (`BufferHeld`, which a publication cut off by a cancellation leaves as it is); otherwise a batch could sit in a run that has written for the last time. That a
  run back in `_handle_op_inner` has an empty buffer needs `OutsideMarks`.

Three hold only in part of the behaviours, and the theorems say in which. `Undisturbed` is the state predicate "no
fault so far, and no message of role agent in the history":

* `PausesShowQuestion`: `[](Undisturbed => PauseShowsQuestion)`, from `TurnInv`. `Sole`: a turn has one owner, the
  request that submits it, its operation in the broker or the run that works on it, and a paused task has none;
  hence nobody is there who could overwrite the question. `Begun`: nothing is retried, an ended turn is
  not taken up again, and a run that may end its turn finds the task `working` or ended by another.
* `ProtocolImplemented`: `Spec /\ []Undisturbed => ImplementsProtocol`, the refinement of `TaskProtocol`, from the same invariant;
  `Begun` is what lets a run's last write be a step of the diagram, `Sole` what lets a pause be left only by a
  follow-up.
* `StreamsNotOrphaned`: `Spec /\ []Calm => []NoOrphanedStream`. `Calm` adds that at most one run is busy, that no request
  is in its enqueue-failure path and that no force-cancel timer has fired; the number of turns, listeners and requests is free.
  `StreamInv`: nobody works on a terminal task except to announce its end (`OwnerGone`), cleanup follows the end of the
  task (`CleansEnded`), and once the end is announced only listeners that are about to load the terminal snapshot
  are still registered with room for it (`EndAnnounced`), so only they can be orphaned (`OrphansEnded`). A listener that had
  no room is not covered: it is `missed` and then `overrun`.

The hypotheses are not for the prover's sake. A worker that dies, or an `ack` that raises, after a pause has the turn run again on
the paused task; a message of role agent starts a run beside the one under way: both replace the question and leave the
documented diagram (section 3). Two overlapping runs orphan a stream: that is the run `orphaned_stream`; a broker that
raises after taking the operation, and a timer that cleans up early, do the same. Every state of the
run `turns` is `Undisturbed`, with pauses, retries and follow-ups; every state of `streams_end` is `Calm`.

`SharedStorageProofs` holds for every number of calls, tasks, contexts, keys and attempts, from the assumptions
that `Nil` is none of them, `MaxAttempts > 0` and `Kinds` are kinds.

* `SharedTypeCorrect`: `[]SharedTypeOK`, and `StoreImplemented`: the refinement of `VersionedStore`, from `StoreInv`.
  Its heart is `ReadsArePast`: what a call has read is the present row or one with a smaller version, and so is the
  version it was pinned to. Hence (`WriteOnPresentRow`) a write that finds the version it insists on merges into
  the row as it is now, although the merge was computed from what was read. It needs `Located` (what a call at
  some round trip is about) and `RowsKnown` (ids are not used twice, so a deleted row cannot come back with a
  small version). `StoreEffect` then gives each step its abstract counterpart.
* `UpdatesAppliedOnce`: `[]AppliedOnce`, from `LogInv`: a call that has not returned a version is in no row, an
  update that has is in its row once. `OkMeansWritten` shows that no path returns without the write.
* `KeysLead`: `[]KeyLeadsToTask`, and `OneTask`: `[]OneTaskPerKey`, from `KeyInv`: a `delete_task` about to remove knows
  the key of its task while the task lives (`HintAt`), SQL admits one row per key (`KeysOfSql`), and Redis has the
  key of every task that has one unless it was forgotten (`KeysOfRedis`).

`RedisSignalsProofs` holds for every number of readers, writers, scopes, cancel requests and events.

* `CancelReaches`: `[]CancelReachesScope`, from `ScopeInv`: a scope subscribes before its second look at the key and
  stays subscribed until it is signalled (`Listens`), so a request that set the key too late for the second look
  publishes to a scope that listens.
* `RedisOrdered`: `[]RedisInOrder`, from `OrderInv`: what a reader has fetched and not yet handed out is ahead of
  `last_seen_id`, what it handed out is not, and both respect the id the client resumed from (`Ordered`).

`ContextsKept` and `HiddenByDelete` in `SharedStorageProofs`, `RedisLossesKnown` in `RedisSignalsProofs` and the four
modules below complete the picture: every safety property of the runs `bus`, `storage`, `redis_broker`,
`redis_signals`, `server` and `requests` is proved for all constants.

* `ContextsKept`: `[]ContextLostOnlyByDelete`, from `LostInv`: the second UPDATE of an `update_context` finds the row
  that made its INSERT fail, or a `delete_context` has returned (`RetryAt`).
* `HiddenByDelete`: `[]HiddenOnlyByContextDelete`, from `HiddenInv`: the tasks a `delete_context` listed and dealt with are
  gone for good, and it drops the index only when it has dealt with all of them (`SweptAt`); so what the drop hides
  was not on its list.
* `RedisLossesKnown`: `[]RedisOnlyKnownLosses`, from `KnownInv`, which adds to `OrderInv` where each event between the
  snapshot and the last one received is: received, fetched and not yet handed out, still in the stream ahead of
  `last_seen_id`, unreadable, or trimmed or expired before it was read.

`MemoryEventBusProofs` holds for every number of clients, publishers and events and all buffer sizes (`BusAssumption`:
the sizes are positive, clients are not publishers).

* `BusInvariant`: `[]BusInv`. `Ring`: the ring buffer holds the last events of the present epoch, consecutively, so
  id and number of an event differ by `published - counter`. `Queue`: who waits for the lock is known by what they
  do. `Sending`: events not yet fanned out come in publication order, and none is pending when a purge is due. These
  three make the lock's FIFO order the publication order, which is why the fan-out may run outside the section that
  assigns the id. `Ordered(c)`: whatever may reach a client next, from the replay batch, its stream, the ring or a
  pending fan-out, is newer than all it has (`Top`, `Horizon`, `Reach`). `Complete(c)`: each event after the snapshot
  is accounted for.
* `BusInOrder`: `[]InPublicationOrder`, and `BusLossesKnown`: `[]OnlyKnownLosses`. Steps of others are covered by frame
  lemmas (`HoldingKept`, `OrderedKept`, `CompleteKept`), steps of the client by one lemma each.

`RedisBrokerProofs` holds for every number of processes, slots, handles, operations, deaths, trims and retries, and
limits of adapter and broker that are equal or not (`BrokerAssumption`).

* `BrokerTypeCorrect`: `[]TypeOK`; `NoSilentLoss`: `[]OnlyKnownLosses`, and `DeadLettersGetMarked`: `[]DeadLettersMarked`, from
  `LossInv`. An operation is settled, lost in a named way, or some entry stands for it (`Known`); `Justified` says why
  each handle that acknowledges may do so, `BurialShape` what a receive loop in the middle of a burial, genuine or
  after an error, knows of its entry, `HandleShape` that no entry id is drawn again while somebody holds it.
* `RunsAreBounded`: `[]RunsBounded`, from `RunInv`. Every start of user code is paid for by an attempt or a counted crash
  (`Paid`), strictly while the delivery has not reached user code (`Fresh`). This needs that the entry of an operation
  not claimed from a living process is in one place (`Exclusive`); a claim from a dead one moves it and pays.

`ServerLifespanProofs` holds for every number of configurations, writers, versions, queue sizes, attempts,
dependencies and resources (`PushAssumption`: positive bounds; `LifespanAssumption`: runs are writers, no dependency is
one of the server's own resources).

* `WebhooksInOrder`: `[]WebhookOrder`, and `ClientClosedLast`: `[]ClosedAfterWorkers`, from `PushInv`: what a webhook has, what
  its worker holds and what waits in its queue follow each other by version (`InOrder`), unless a writer was overtaken;
  once shutdown has waited only latecomers are alive (`Closed`).
* `LifespanTypeCorrect`: `[]TypeOK`, and `LifespanUnwinds`: `[]UnwindsInReverse`, from `UnwindInv`: everything started is stopped
  or `Pending` at the stage reached (`Accounts`), things are started in the order of registry and resources (`Chain`),
  and what is stopped was stopped after all that started later (`StopsAfter`). The property alone says nothing
  between the first failure and the end.

`ClientCallProofs` holds for every number of attempts and middlewares and every set of cards whose
candidate lists, for every preference, are sequences of bindings (`CandidatesAssumption`; `RequestsAssumption`: one request per attempt).

* `MiddlewaresUnwind`: `[]MiddlewareUnwinds`, `NoWorkBeforeMiddleware`: `[]WorkBehindMiddleware`, `CallsMakeOneTask`: `[]OneTaskPerCall` and
  `ConnectFallsBack`: `[]FallsBack`, from `CallInv`. The first allows four misses, the last two endpoints that pass for one that
  answers (section 3). `AllSound` establishes of each handler of the four bindings what the
  pipeline relies on; `Piped` ties the stage of a request to the middlewares entered and left.
* `CallersLearnErrors`: `[]ErrorsAgree`, from `AgreeInv`: the reply under way is the one the binding makes of the outcome of
  this request (`Told`), for a client that knows which protocol it speaks; the table of errors is then checked binding
  by binding (`Agrees`).

Out of the prover's reach and left to TLC: liveness under fairness (`EveryTurnEnds`, `PausedCancelEnds`, `StreamsEnd`,
`NewestSettles`, `RedisDelivers`, `CancelIsSeen`) and anything with ENABLED. Every safety property and every refinement of
the passing runs is stated by a theorem; `PauseShowsQuestion`, the refinement of `TaskProtocol` and `NoOrphanedStream` under the
hypotheses above.

## 5. Not modelled

* `list_tasks` and its paging: reads only. What the Redis index would hide from it is
  `HiddenOnlyByContextDelete`.
* In-memory storage beyond one task: its calls do not suspend.
* The in-memory broker's bounded buffer with the adapter's semaphore, the task lock, errors of `nack`; a cancellation
  that interrupts a storage write half-way; handlers that catch the framework's exceptions; publishes that fail (the emitter logs and swallows the error).
* Hooks: awaited inline between a write and its event, exceptions swallowed; they delay, and change no state.
* Telemetry, agent card and signatures, configuration, schema: formatting, cryptography and settings.
* The fields of messages, the conversions between protocol 0.3 and 1.0, SSE framing, URL validation and pinning of
  webhooks: data the properties do not tell apart.

## 6. Plan

Done: the task model with its abstract specification, the in-memory bus, the shared backends, broker and signals
over Redis, push delivery and lifespan, requests and client. Next:

1. A bounded in-memory broker with the adapter's semaphore: the possible wait of every slot on a full buffer
   (hazard at `broker/memory.py:185`).
2. Liveness with storage errors: what becomes of a message whose tenant write or reload raised after it was accepted
   (hazard at `task_manager.py:443`).
