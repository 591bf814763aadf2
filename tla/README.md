# A TLA+ model of nodejs-template

This directory models the service template under `src/` (a Node.js/TypeScript
backend: HTTP and WebSocket server, RabbitMQ consumers and publishers, Agenda
workers, MongoDB log repositories, Memcached) and checks it with TLC and TLAPS.
Paths below are relative to the repository root.

## The system

One Node.js process runs every part. Code between two `await`s is atomic; what
interleaves are the continuations of promises, timers, socket events and the
events of external services. Where the order of continuations is fixed by the
event loop (microtasks before timers and I/O) the models keep it.

| Part | State | Operations | Hard because | Module |
| --- | --- | --- | --- | --- |
| Log buffer, `src/infra/db/mongodb/util/bulk-insert-buffer.ts` | queue, timer, insert in flight, drop counter | enqueue, flush, timer, finally of the insert | several flushes await one insert; a fired timer still in `this.timer`; drop at the limit | BulkInsertBuffer, DocumentLog |
| RabbitMQ deliveries, `src/infra/mq/utils/rabbitmq-server/rabbitmq-server.ts` | `consumers`, `messages`, `customProperties`, `closing` | consume callback, ack, reject, cancelConsumers, stop | a job's reject races the finally's ack; entries deleted under running jobs; stop drains while deliveries arrive | ConsumerDelivery |
| RabbitMQ lifecycle, same file | connection, listeners, channel pool, `thereIsAPendingRestart` | start, stop, restart, rebuildConsumers, rebuildConsumer, createChannelPool, publish | reconnect retries, close events during a restart, timers that fire while the connection is null | RabbitMqLifecycle |
| Consumer loading, same file and `src/main/consumers` | list, options, channels being opened | constructor, consumersDirectory, makeConsumer, consume | three sources of options, files that fail, limits set before the first delivery | LoaderLists, ConsumerLoading |
| Reprocessing, `src/job/util/reprocessing.ts`, `src/data/usecases/mq/mq-send-reprocessing.ts`, `src/infra/db/mongodb/reprocessing/` | delay headers, tries, stored documents | publish to a delay queue, save, get-publish-delete | crash between publish and delete, counters at their limit | Reprocessing |
| Flow and job pipelines, `src/main/adapters/flow-adapter.ts`, `job-adapter.ts`, `parallelize/`; flow manager, `src/main/adapters/flow-manager/` | shared state object, session | next(), throw(), groups, branches by conditions | shared state written concurrently, next called twice, synchronous throws, coercions | FlowManager, RequestFlow |
| Web server, `src/infra/http/util/web-server/`, `src/main/web-server.ts` | routes, `isLoadingRoutes`, connections | routesDirectory, listen, close | concurrent loads share one boolean; connections that outlive close() | Process, WebServer |
| Workers, `src/infra/worker/` | agenda, registrations, client | makeWorker, start, stop, task handler | registrations in the background, failed start, stop before start | Process, WorkerManager |
| Startup and shutdown, `src/main/bootstrap.ts` | order of services, 30 s timer | bootstrap, gracefulShutdown | second signal, calls that hang, two timed waits under one timer | Bootstrap |
| Cache and cached reads, `src/infra/cache/`, `src/infra/http/service/adapters/`, turbo queries, `src/presentation/middlewares/cache/` | client, keys with TTL | get, set, cached request, turbo query | a cache that fails, expires or holds other text; saves after the answer | CachedReads |
| WebSocket server and timed repeater, `src/infra/http/util/websocket-server/`, `src/main/adapters/socket/` | sockets, interval and timer | events, responses, ticks | messages served concurrently; ticks that overlap their interval | SocketPolling |
| Request data, `src/main/adapters/request-validation-adapter.ts`, `src/util/object/`, `src/plugin/extract-values.ts` | one request | normalise, validate, extract, answer | several conversions of keys, one after another | Payloads, RequestData |
| Example handlers and transactions, `src/presentation/`, `src/util/transaction.ts` | transactions of the request | token, create, get, commit, rollback | failures between transactions | Transactions, RequestData |
| Masking of logs, `src/util/security/` | memo of classified keys | sanitize | a bounded memo shared by every log | Masking |
| Split promises, `src/util/promise/`; traced calls, `src/util/observability/` | running callbacks; spans | splitPromises, decorators | callbacks that settle at once; labels that throw after success | SplitPromises, TracedCalls, Work |

HTTP routes, RabbitMQ consumers and Agenda tasks all run pipelines of middlewares;
pipelines publish through RabbitMqServer and store through the repositories; every
request and message writes to the two log repositories, each with one buffer;
bootstrap() starts the servers and, on SIGINT/SIGTERM, closes them in a fixed order
and flushes the buffers last. The modules compose in the same way:

    Bootstrap      EXTENDS WebServer, WorkerManager   (both EXTEND Process)
    SocketPolling  EXTENDS CachedReads
    RequestData    EXTENDS Masking, Transactions      (Masking EXTENDS Payloads)
    RequestFlow    EXTENDS FlowManager
    Work           EXTENDS SplitPromises, TracedCalls
    ConsumerLoading, WorkerManager  EXTEND LoaderLists
    BulkInsertBuffer  implements DocumentLog (INSTANCE ... WITH)

Where a module would need the whole of another one it has its promise instead:
the buffers in `Process` are what BulkInsertBuffer is shown to guarantee (one insert
at a time takes all that is queued, FlushHandsOver), RabbitMqServer.stop() in
`Bootstrap` is what ConsumerDelivery and RabbitMqLifecycle show (of the shutdowns and
the restart() of a lost connection one drains and closes, another returns at once).

A definition whose name has an underscore (`TakeBatch_Slice`) is a deliberately wrong
variant of the definition after it; it is used only to show that a property can tell
the two apart. Every part of a property that is a conjunction has a variant of its own.

## Modules

### BulkInsertBuffer, DocumentLog

State: `queue`, `timer`, `flushing` and `dropped` are the fields of the class;
`bgWaiting`/`bgResumed` count the flushes started by the size trigger or the timer
that await the insert or were resumed; `caller` is the place of each public flush();
`created`, `settled`, `seen` are history. A document is the number of its enqueue.
`timer = "stale"` is a timer that fired but is still referenced: `scheduleFlush`
tests only the reference.

Actions: `Enqueue`, `TimerFire`, `Settle` (insertMany settles, the catch and the
finally run, waiters become runnable), `ResumeBackground`, `Flush`, `ResumeFlush`.
Continuations run before the next timer or I/O event (`MicrotasksDone`).

`DocumentLog` is what the repositories are promised: documents are taken in order, at
most Capacity wait, the oldest are lost and counted, all that wait leave as one batch and
nothing waits for ever. The refinement `ImplementsLog` maps the queue to `waiting`, the
insert in flight to `batch` and the settled documents to `stored`; timers and waiting
flushes have no counterpart.

### ConsumerDelivery

State: `connection`, `consumers`, `messages`, `flags` (customProperties), `stop` (the
place of the stop() that set `closing`), and per delivery its message, tag and phase.
A delivery is one Message object; a message that returns to its queue comes again as
a new delivery. The broker's side (`channel`, `unacked`, `removed`, `settlements`) is
external and modelled from how the code uses it. `early` (deliveries that came before their
consume() continued) and `cut` (deliveries whose channel, entry or wait was lost while their
job ran) are history.

Actions: `ConsumeOk`/`Register` (the two halves of consume()), `ReceiveClosing`,
`ReceiveUnparsable`, `ReceiveJob`, `JobReject`, `JobDone` (the callback),
`DeleteConsumer`, `Cancel`, `CloseChannel` (cancelConsumers and the rebuilds),
`Stop`, `StopClose`, `StopDone`, `Start`, `ConnectionLost`.

### RabbitMqLifecycle

State: `connection` (null, open, dead), whether the close listener is on it, the pool
(`live` channels, `ghosts`: channels pooled after their close event), the place of the
one restart() past its guard, who runs the stop() body, the consumer of each queue
(`stale`: in the map with a closed channel; `absent`: forgotten) and the pending
REBUILD_CONSUMER timers. `crashed` is an unhandled rejection. `PublishOutcomes` is what
publishInQueue() and publishInExchange() may come to in each state of these.

Actions: broker and network (`ConnectionLost`, `BrokerDown`, `BrokerUp`,
`ConsumerChannelClosed`, `PoolChannelClosed`), CHECK_CHANNEL_POOL (`Refilled`), stop
(`ShutdownStop`, `StopForShutdown`, `StopForRestart`), start and restart (`Connect`,
`ConnectFails`, `PoolDone`, `PoolEmpty`, `ConsumeDone`, `Rebuilt`, `Cooldown`) and
REBUILD_CONSUMER (`RebuildTimer`, `OldRebuildTimer`).

### LoaderLists, ConsumerLoading

`LoaderLists` has the two readings of a list, `LoaderOptions`/`Registers` of the worker
manager and `QueueOptions`/`Consumes` of the RabbitMQ server. `ConsumerLoading` chooses a
list, a value of RABBIT_OPTIONS and a directory of consumer files at the start; `Construct`
is the constructor, `LoadConsumers` consumersDirectory(), `ChannelOpens`, `PrefetchSet`,
`ConsumeAnswers` and `ConsumeFails` are the awaits of consume(), `Deliver` and `Ack` the broker
and the callback's finally. `Option` is the order of environment, file and default, with
the conversions of parseValue().

### Reprocessing

State: the messages published so far (`copies`: an original, or an envelope with the job
that failed, its tries and the state at the failure), the chain of jobs each delivery
runs (`job`, `step`, `state`, `meta` = state.reprocessing), the shared array of delays,
the repository's documents and the place of each POST /reprocessings request. `outcome`
and `done` are history. Of the state that jobs share the model keeps the attempt in
which each job's key was last written.

Actions: `Deliver`, `EnterSkip`/`EnterRun` (the decorator up to the job),
`HandlerSucceeds`, `HandlerFailsPublish`, `HandlerFailsSave`, `SendFails` (its catch),
`Ack`, `Crash`, and the route's `RouteGet`, `RoutePublish`, `RouteDelete`. The mode is
STOPPED_MIDDLEWARE, with REPROCESSING_ENABLED and a non-empty REPROCESSING_DELAYS.

### FlowManager, RequestFlow

`FlowManager` has the conditions as operators: a JavaScript value is its type and text,
`Satisfied` is the result of one option (yes, no, throws), `Deciding` the first option
that is not refused. `RequestFlow` runs one HTTP request (a hook, then the route) or one
message (jobs) through `makeFlow()`. State: the flow that runs (`stage`), its callback
(`at`) and what it is about to do (`pc`), the chain inside a branch, the phase of every
handler, who called next() before settling, the promise of a group and the answer.
The mode of the groups and the values found in the request are inputs chosen at the start.

Actions: `CallSingle`, `CallParallel`, `CallBranch`/`CallNoBranch`; `ReturnSingle`,
`ReturnInBranch`, `Throw`, `SettleInGroup`, `SettleStray` (a handler nobody waits for any
more); `GroupResumes`, `PastEnd`, `HookResolves`, `RouteResolves`, `Rejects`.

### Process, WebServer, WorkerManager, Bootstrap

`Process` is what the parts share: `exit` (how the process ended), `elapsed` (since the
first signal, in units of 5 s: SHUTDOWN_TIMEOUT is 6, the drain of stop() 5, END_TIMEOUT
of a connection 1) and the log document of each request, message and task on its way through
the buffers.

`WebServer` has the two routesDirectory() calls that src/main/web-server.ts makes at once,
serverBootstrap() polling the one `isLoadingRoutes`, Fastify's boot running the Routes'
plugins in order, requests and close() with its timers. `WorkerManager` has getAgenda() and
its one promise, the registrations in the background of makeWorker(), start(), its failure
and the tasks. `Bootstrap` runs the phases of bootstrap() (mongoose, the other services,
the servers), and one gracefulShutdown() for each signal, step by step: `CloseWeb`,
`StopWorker`, `StopAgenda`, `CloseClient`, `WorkerStopped`, `CloseDashboard`, `StopRabbit`,
`RabbitStopped`, `Flush`, `Flushed`, `Disconnected`, `Finish`. `ShutdownFails` is a step
that rejects, `Hang` one that never settles, `Tick` time passing in the two timed waits,
`TimeIsUp` the exit timer.

The connection to RabbitMQ (`link`) may be lost at any time: `LinkLost` starts the restart(), whose
place is `restart` (`RestartStopped`, `Reconnect`, `ConnectFails`, `PoolFills`, `PoolEmpty`,
`CooldownEnds`), and `RebuildRejects` is a REBUILD_CONSUMER that finds no connection. restart()'s
own stop() and those of the signals share `closer`, which is `closing` with its owner: who finds
it set returns at once. `overlapped` is history, that a signal's stop() was called while a
restart() was under way. `restart = "spinning"` is a restart() whose attempts follow one another
without a turn of the event loop; nothing happens after it. A deployment says how often
its connection may fail.

### CachedReads, SocketPolling

`CachedReads` is a call of CachedRequestAdapter or an awaited turbo query, from `Start` over
`ReadCache`, `Answers` or `Refuses` to `Save`, over Memcached or node-cache whose calls fail,
whose entries expire (`Expires`) and are overwritten by somebody else (`Corrupted`). What a read
asks for is its `Target`: method and url, the header, the body and the credentials (`auth`).
`KeyOf` leaves out what generateCacheKey() leaves out: auth, headers it is not told of, and what
JSON does not show of a body (`BodyText`). Text of another program is `Garbage`, which does not
parse, or `Foreign`, which does; `Taken` says what a read makes of it.
`SocketPolling` composes it with one WebSocket: `Receive` calls the handlers of an event with a
new state, `GetValue` and `SaveValue` are the cache middlewares, `StartRepeater`, `Tick`,
`TickResolves`, `TickFails` and `TimerFires` useTimedRepeater().

### Payloads, Masking, Transactions, RequestData

`Payloads` has objects as sequences of entries and keys as sequences of spelt words, with the
formatters and conversions of src/util/object, the payloads that a schema tries and the
expansion of a payload to every case. What the code computes by recursion on a payload is a
function of the payload's level: `Payload[n]` has the payloads of at most n levels, and
`Level`, `SanitizeLevel` say what one level becomes, given what becomes of the levels below. The
constant Depth bounds the levels of what is sent and of what the database returns; a log, which
has four levels more, is in `Payload[Deepest]`. `Masking` has the classification of keys, the test
for card numbers, the masks and the memo of CACHE_MAX keys. Digits and letters are the
characters; the lists of keywords are constants.

`Transactions` has the handlers and the database: `Arrive`, `Validate`, `AskToken`/`TokenSettles`,
`Create`/`Begin`/`InsertOk`/`InsertFails`, `RollBack`/`RollBackFails`/`RolledBack`,
`StartCommit`/`Commit`/`CommitFails`/`Committed`, `ReadExample`, `ListExample`, each database
call failing or not. What a schema or a header says of the data is a parameter of its actions,
so that it has no recursive operator and is proved about. `RequestData` gives the
parameters their values and adds what becomes of the data: `Normalized`, `Accepts`,
`ExtractValues`, the state, `Respond`, and `Send`, which logs the masked request and answer.

### SplitPromises, TracedCalls, Work

`SplitPromises` is the first wave and the chain behind it, `TracedCalls` the decorators
apmSpan(), apmTransaction() and makeDecorator() over async functions, functions that return
promises and plain ones, `Work` splitPromises() over decorated methods, so that a method
that throws at once settles its callback while the wave is still being started.

## Runs

Named parts of a property that is a conjunction are in parentheses.

| Run | Properties | Bounds, and what they make happen |
| --- | --- | --- |
| buffer | TypeOK, NeverStranded (a queued document has somebody who comes for it), InsertOrder, DroppedIsExact, FlushHandsOver (a flush() that returned left nothing it found), ImplementsLog (the refinement, with liveness) | batches of 2, room for 3, 6 documents, 2 flush callers: the size trigger, the timer, a full queue, both callers waiting on one insert |
| delivery | TypeOK, SettledAtMostOnce, GracefulStopDrains, HandledIsSettled (a delivery whose callback ended was settled once at the broker; its exceptions are named in its comment), RemovedIsHandled | 2 messages (one not JSON), 2 consumers in succession, 3 deliveries, prefetch 2: a redelivery under a second consumer while the first job still runs, a message that comes before its consume() continues |
| lifecycle | TypeOK, WatchedWhenIdle, CleanRestart, ConsumersAreKept, RestartReconnects, RestartSettles | 2 consumers, pool of 3, 6 failures: a failure in each phase of a restart and a second restart |
| consumer_lost | ConsumerIsRebuilt, violated, see below | 1 consumer, 1 failure |
| consumers | StartsAsListed (LoadingTypeOK, ListDecides, SameSemantics as for workers), HeldIsBounded, EachIsTried | every list of at most 2 entries over 2 queues, 6 values of RABBIT_OPTIONS, 4 directories with broken, empty and throwing files; default prefetch 2, at most 4 messages held |
| reprocessing | RetriesAreExact, RetryIsDelayed (with TypeOK), ResumesExactly (NoRepeatedStep, ResolvedIsComplete, StateIsCarried), NothingLost | 2 jobs allowing 1 and 2 tries, 1 configured delay, 4 copies, 1 crash, 1 replay request: the array of delays grows, a chain resumes at its second job, a record is replayed |
| request | RouteIsObeyed (TypeOK, ModeIsObeyed, DefaultIsLast), RefusalIsFinal, EveryFlowEnds | a hook, a middleware, a group of 2 in each of the 4 modes, a branch of 4 options, a controller; every value that separates the conditions; HTTP and messages |
| service | StartsComplete (TypeOK, SomeDirectoryIsComplete, StartsWithEveryTask, NothingRunsEarly), WorkIsLogged (what was answered or processed is stored), EndsInOrder (MongoOutlivesMessages, GracefulEndIsComplete, TimerCoversOneTimeout), SignalEndsProcess | 6 deployments, among them one outside production, one without RabbitMQ for its consumers, one with nothing to start, and two whose connection to RabbitMQ fails once and twice; 2 directories of routes, 3 workers (one not loadable, one denied), 1 connection, 1 message, 2 signals at any moment |
| polling | CacheIsHarmless (TypeOK, AnswersMatch, CacheFailsNoRequest), StateIsPerMessage, PollingEnds (RepeaterEnds, EndIsFinal) | 2 messages of two events, one registered twice; two requests for one URL with two tokens and credentials, one without a body and one with a body that JSON cannot show, too large to save, and a query; Memcached and node-cache with all three, and Memcached where other programs overwrite what the two requests share, or the entries of a query and of a value |
| data | ConversionsHold (TypeOK, LenientAcceptsMore, ExtractsLatest, AnswersAreSnake), CreateIsAtomic (HandlersTypeOK, CreatedIsCommitted, FailedCreateUndone, SettledOnce), LogIsMasked | 2 requests; six spellings of a key under every option, a key sent twice, 2 creates with and without transactions, keys that hold a keyword or seem to, a memo of 12 keys, payloads of 3 levels |
| spelling | EverySpellingAccepted, violated, see below | those of data |
| work | SlotsAreExact (AtMostMaxRunning, NoIdleSlot), TracesAreExact (EndedWhenSettled, SpanCoversMethod, LoggedSucceeded), ResolvesInOrder (with TypeOK and ResultsInOrder) | 4 methods of 3 assignments of kinds in 2 slots: callbacks that settle while the wave starts, and behind it |

The runs data, spelling and work check deadlock as well: their modules have a
step that only an execution which is over may repeat, so that one that stops earlier is an error. The others say CHECK_DEADLOCK
FALSE because their bounded environment may stop: all documents enqueued, all deliveries
made, the process shut down.

The bounds are small because the hazards are: two of what competes (flushes, consumers,
signals, requests, requests with the same address), one more message or document than
the limit, and one failure more than the number of phases it may hit. Every action
of every module is taken in some run.

The deployment with the web server has a connection that does not fail: the server is closed
before the consumers stop and shares nothing with a restart() but the time, and both together
would be several times the states. BootstrapProofs has every deployment with any number of failures.

### Fairness

- `BulkInsertBuffer`, `RabbitMqLifecycle`: weak fairness of timers, of the promises of the
  drivers (insertMany and amqplib answer or fail by their own timeouts) and of
  continuations: the event loop guarantees it. The broker comes back. Nobody is obliged to
  enqueue, to fail or to shut down.
- `ConsumerLoading`: calls of amqplib settle, one way or the other; the broker need not deliver.
- `RequestFlow`, `Bootstrap`, `Work`: each step happens a bounded number of times (in `Bootstrap`
  those of a restart() once for each failure), so weak fairness of Next only says that the event
  loop runs. In `Bootstrap` a call that never settles is a step of its own (`Hang`), so
  SignalEndsProcess does not assume that calls return. It excepts a restart() that spins,
  where the event loop does not run.
- `SocketPolling`: only the repeater's own timer is fair; reads need never settle.
- `ConsumerDelivery`, `Reprocessing`, `Transactions`, `RequestData`: none; their properties are safety.

### Findings

1. A consumer whose channel the broker closed is deleted and never rebuilt
   (`consumer_lost`): in rebuildConsumer() cancel() on the closed channel rejects before
   consume() is reached, and the entry is already gone.
2. Not every spelling that the documentation lists is accepted by the default options
   (`spelling`): CLIENT_ID is normalised to a key without separators before the validation
   looks for its words, and clientid is one word.

Seen while reading and kept in the models as the code has it, without a run of their own:

- RabbitMQ. A message that is not JSON is acknowledged by the callback's finally
  (`ReceiveUnparsable`), although its test is named "should log and skip ack…". A
  delivery that arrives while the server closes is not rejected, because reject() reads
  `customProperties` before they are set (`ReceiveClosing`). REBUILD_CONSUMER with a null
  connection rejects in a listener (`crashed`). A connection lost while
  `thereIsAPendingRestart` is set, up to 1500 ms after the rebuild, is not replaced. Channels
  pooled after their close stay in the pool (`ghosts`).
- RabbitMQ and shutdown. stop() returns at once while another stop() is closing, that of a
  restart() among them, so that the shutdown disconnects MongoDB under the messages which that one
  still waits for; and a restart() under way connects again behind the shutdown's stop(). WorkIsLogged,
  MongoOutlivesMessages and GracefulEndIsComplete except such a shutdown (`overlapped`), and
  each fails without the exception. A connection lost while a shutdown's stop() waits is restarted
  without a wait: on the dead connection nothing is awaited that takes time, the catch of restart() emits
  RESTART again, and no timer has a turn, the exit timer included (`spinning`).
- Loading. RABBIT_OPTIONS is ignored for a consumer given as a string, a pair without "="
  throws in the constructor, `no` means enabled, a prefetch that is no number makes
  consume() fail with a log only.
- Reprocessing. A message whose reprocessing publication fails is acknowledged and kept
  nowhere (`SendFails`; NothingLost excepts it). A decorator later in a reprocessed chain puts
  the saved state back over what an earlier job of this run just wrote (`OverriddenState`).
  getByIdentifier() returns deleted documents too. With REPROCESSING_DELAYS unset the
  delay is NaN.
- Flows. A condition that expects 0 or '' never holds, with `strict: true` either
  (`Satisfied`). A handler that throws before it returns a promise rejects a group in the
  mode allSettled too. httpAdapter() decides by reply.sent, not by its next().
- Server and shutdown. Two routesDirectory() calls share `isLoadingRoutes`, so the server may
  listen without the routes of one (SomeDirectoryIsComplete is what does hold). close()
  ends connections under requests that are being answered. The timeout of
  serverBootstrap() rejects a promise that nobody awaits (`RoutesTimeOut`). "Services are
  online" is logged before the server listens (`ServerOnline`).
- Cache. The key of a request has nothing of its auth, nor of a body that JSON cannot show, so
  requests with other credentials or other such bodies share an answer (`KeyOf`). Text of another program that
  parses to several keys is returned as the response, and to a query any text is (`Taken`). A turbo
  query over Memcached never settles when the cache throws (`CacheFails`). Responses with an error
  status are cached. A TTL in minutes is passed as seconds.
- WebSocket. A second registration of an event is ignored (`Handlers`); a failed tick ends the
  polling and leaves the socket open; what is registered behind useTimedRepeater() does
  not run.
- Data. commitAll() stops at the first failure and leaves the rest open; nothing in src/ sets
  state.transactions, so that CreateExampleMiddleware throws after its insert unless a
  handler does (`shared`). The example's create route extracts only the name, while its
  schema also asks for description and value. A thrown error is answered as it is, in
  camel case (`ErrorLeaves`). A handler that answers without a body answers 500.
- Work. The span of a plain function that throws is not ended (EndedWhenSettled excepts
  it), labels that throw turn success into a rejection, and maxRunning below 1 never
  resolves (excluded by SplitAssumption).

## Proofs

TLAPS checks these for every value of the constants. Each theorem rests on the
inductive invariant of its module; the assumptions are the named ASSUMEs of the
components.

`BulkInsertBufferProofs` (SizeAssumption: the sizes are positive, as the constructor's
defaults ensure): TypeOK, NeverStranded, TimerIsCovered, QueueIsNewest, InsertOrder and
FlushHandsOver. NeverStranded is not inductive alone: after an insert settles with a short
queue the step relies on the timer being set or on a resumed background flush, so it is
proved together with TimerIsCovered (`Covered`). QueueIsNewest gives that queued documents
are newer than all taken ones; InsertOrder needs in addition that settled and in-flight
documents are at most `created` minus the queue's length (`Left`, `Ordered`).
FlushHandsOver needs that a caller which is an owner, waiting or resumed has nothing of
`seen` newer than `created` (`HandedOver`).

The same module proves the refinement, `BufferIsLog`, Spec => Log!SafeSpec. `Enqueue` is an `Accept`
that lets its document wait or leave, the taking of a batch is `Leave`, a settled insert
`Store`, everything else a stutter; the queue is Newest of what was accepted (QueueIsNewest).
`DropsAreExact` follows along the refinement: only `Accept` changes the counts. The fairness
of the log (nothing waits for ever) is checked by TLC.

`ConsumerDeliveryProofs` (DeliveryAssumption): TypeOK, SettledAtMostOnce, PendingIsRunning
and GracefulStopDrains from `IInv`, which adds `Marked` (a delivery settled at the broker is
flagged rejected or acked, and settled once), `Untouched` (deliveries not yet made have no
mark) and `Made`: without them the guard of reject() and of the finally's ack() say nothing
about earlier settlements. HandledIsSettled and RemovedIsHandled from `History`: a running job
that was not cut can still be acknowledged (`CanSettle`: its channel is open, its entry is in the
map or about to be, and a reject() of it was sent), and only an open connection has usable channels
(`ChannelsAreLive`), so that the finally's ack() reaches the broker.

The same module proves StartsAsListed and HeldIsBounded of ConsumerLoading (LoadingAssumption:
a queue is no wildcard, and a RABBIT_OPTIONS text is one of the kinds that are told apart;
DirectoriesAssumption: the type of a consumer's options, and a queue has one consumer). That
extractQueueOptions(), a loop, and extractWorkerOptions() read lists of every length alike is
`ListsReadAlike`: by induction on the prefixes of the list, each turn of the loop makes of the
options of a prefix those of the next one (`EntryAdds`). `LoadingInv` adds to the two properties
that the consumers which are there are those selected (`AreSelected`), and that one which may
have deliveries has a limit that is a number and that of its prefetch (`AreLimited`); HeldIsBounded
is not inductive without it, nor without `PairsHaveValues` and `PrefetchIsPositive`: a limit of 0
would be none at all.

`RabbitMqLifecycleProofs` (LifecycleAssumption: the pool's length is positive): TypeOK
with the bound of the pool, WatchedWhenIdle, CleanRestart and ConsumersAreKept. `PoolIsFree`: a
pool is filled only where nothing is in it and nothing else fills it. `Watched`: from
createChannelPool() on, an open connection has its listener. `StopIsOwn`: no stop() but the
restart's own runs while the restart waits for it. `Calm`: what each phase of an undisturbed
restart hands to the next one.

`ReprocessingProofs` (ReprocessingAssumption: there are jobs, every limit of tries is
positive and the originals fit into the bound of copies): RetriesAreExact, ResumesExactly and
NothingLost. The first two are consequences of `Inv`. `Sent` and `Stored` say of every
envelope how its depth, tries and replays are related and that `done` is the prefix of jobs
before the failed one, with their state in it; the tries of a replayed message are already
used up, which is why the count alone does not bound the depth. `Chains` carries that into a
running chain: `Entering` while it skips (all of the prefix is done, the state is in the chain
or still in the envelope), `Handling` in a job. NothingLost is not inductive: `Kept` says that
a message has a copy that is delivered or goes on (`Live`), or a record that no request is
about to delete (`Doomed`); a request dooms a record only by publishing a copy of it, and an
acknowledged copy was not live any more.
RetriesWait (a retry that goes through an exchange waits) needs `Pace`: the delays of the
environment are positive, every envelope has a delay for each of its tries, and the bounds of
copies and crashes, by which Padded() never has more to fill than it can. What Padded(), a
recursive function, returns is proved by induction on how many delays are missing (`SetInduction`
from the library's least elements of < on Nat, `PaddedDelays`).

`WorkProofs` (SplitAssumption; MethodsAssumption: every callback calls a method): SlotsAreExact,
TracesAreExact, and ResultsAreInOrder, the safety half of ResolvesInOrder. splitPromises() and
the decorated methods change different variables, so each has its own invariant: `Slots` (what
runs plus what is left of the wave is MaxRunning while callbacks wait) and `Calls` (what
span, end and log of a method are while it is idle, running or settled). ResultsAreInOrder joins
them: `Order` says that every callback is at one place (in the wave, waiting, running or put out,
once) and counts them, so that the promise resolves when nothing runs and every index was put
out; `Kept` that what was put out is what the call settled to, and stays so. That sort() then
puts index i at place i is `SortedByIndex`: a map of 1..n onto itself that never descends moves
nothing (`NothingMoves`, by least elements).

`BootstrapProofs` (BootstrapAssumption, RoutesAssumption, WorkAssumption: there are finitely
many signals, the flags name known services and servers, and connections and deliveries are
different things): StartupIsComplete, LogsAreStored and ShutdownEndsInOrder, for every set of
deployments, route files, workers and messages.
  - Startup: `Phases` says what each phase of bootstrap() has connected and still waits for,
    `Waiting` that a server does nothing before its phase, `Boots` that a directory complete
    when Fastify began to boot is plugged later, `Tasks` that a manager which has started has
    registered its tasks. StartsComplete is not inductive without `Waiting`: the phases only
    say what is up because nothing is taken down before the process is online.
  - Log: `Unlogged` and `Logged` (a unit has a document exactly when it has ended), `Flushes` (a
    flush() that went on left nothing it had found) and `Stored`: at a signal's flush() every answered
    request and every processed message has its document in what it finds or already stored. That
    rests on the order: the web server is closed by then (`Closes`), so that no request is answered
    any more, and no message is processed (`MessagesEnd`). That WorkIsLogged holds for requests is proved
    for every number of signals at once.
  - Shutdown: `Closes` says what a shutdown has closed by its place. What it finds open
    afterwards depends on other shutdowns: a second signal sets `closing` again or creates a
    client that nobody closes, so `WorkersEnd`, `MessagesEnd` and `TimeEnds` are stated for a
    signal that is alone, as EndsInOrder is. `Restarts` says who closes the connection: a stop() of
    restart() exactly while restart() is at it; with it MessagesEnd says that behind a signal's
    own stop() the connection stays forgotten and nothing is delivered, unless the stop() met a
    restart(). TimeEnds adds up the two timed waits by place.

`SocketPollingProofs` (ReadsAssumption: queries are reads without header and auth, and a client is
one of the two; KeysAssumption: the text of a query is no url, and the hashes that are keys of
reads are not the keys that the cache middlewares use; EntriesAssumption: a response is
none of the markers nor another program's text; SocketAssumption): CacheNeverHarms and
StatesAreKeptApart, and EndedPollingStaysEnded, the safety half of PollingEnds. `Cached` says that
what is under the key of a read is the upstream's word to a read with that key that fits, a
value or, under a key that others write, their text, and that what is still to be saved is the
upstream's word; that two reads with one key ask for the same but for what the key leaves out is a
lemma about KeyOf. `Refused` keeps a refused read from going anywhere but to its tick, and `Polls` orders a
message's flow, its repeater and its ticks: a repeater starts once, when the flow has ended.

`RequestProofs` (RouteAssumption: the shape of a chain; PlacesAssumption: a handler is named
for its place, so that a middleware used twice is two handlers): RoutesAreObeyed and
RefusalsAreFinal, for every route, mode, set of conditions and behaviour of the handlers. Most of
it is about places: `SubIsOption` (the chain that runs inside a branch is one of its options),
`RunningIsAwaited` (a handler outside the groups runs only while the flow awaits it) and
`GroupWaits` (a group is waited for until its mode is content) place every handler that can
move, and `RefusedEnds` says that behind a refusal the flow only ends. That the option taken is
the first that fits is a lemma, `FirstDecides`, by the least element of a set of naturals.
RouteAssumption asks every option for a handler: httpAdapter() and messageAdapter() also accept
none, then call finish() at once, and nothing in src/ uses them so.

The same module proves `CreatesAreAtomic` of Transactions (WorkloadsAssumption: a route is a
sequence of the handlers), the four parts of CreateIsAtomic for every number of requests, creates
and transactions. Requests share nothing, so the invariant, `Fits`, is about the state of one,
and `OneMoves` lifts it to all. CreatedIsCommitted is not inductive: `Ordered` says that the list
which the handlers share has each transaction once, in the order of their opening,
`NoneForgotten` that whatever was opened is in it but for the create that runs, and `InTurn` how
far the commits or rollbacks have come, behind the cursor and before it. `SettlesOne` is the step
they have in common: one open transaction of the list is settled and no other changes.

It also proves `ConversionsAlwaysHold`, the four parts of ConversionsHold (which say of answers that
their keys are snake case, and compare no values of theirs), for payloads of every shape up to any
Depth, keys of any words in any spelling, any schema and any extraction table (DepthAssumption,
MaskingAssumption, FragmentsAssumption; DataAssumption: what is sent and what the database
returns are payloads of at most Depth levels; LiteralsAssumption and NamesAssumption only say that
the strings written in the modules are strings, which the provers do not know). The induction on
the levels of a payload, on the entries of an object or on the tokens of a key is by the least
element of a set of naturals (`SetInduction`).
  - LenientAcceptsMore: every spelling of a key has the letters of the key (`SpelledAre`, `VariantsAre`),
    so that keys which are no spellings of one another are still apart after an expansion, no
    entry overwrites another's, and what a schema finds under a key in one payload it finds, with
    the same text, in the more lenient ones (`LenientModes`).
  - ExtractsLatest: what a prefix of the table has left under a name is the latest value of the
    prefix that is not falsy, or its first; each turn of the loop keeps that (`ExtractsOne`).
  - AnswersAreSnake: a conversion to snake case gives keys without capitals from any keys, and so
    payloads with such keys at every level.
  - `DataInv` is the inductive invariant: what is in the request, the state, the answer and the log
    are payloads of the levels that their place allows, and the memo has the type of each of
    its keys and never more than CacheMax of them. It includes the invariant of the transactions, so that
    CreateIsAtomic holds of the handlers with their data as well (`CreatesStayAtomic`).

`LogsAreMasked` is about the logs, from the same invariant: whatever is logged has the leaves of
what was received and answered, in their order and on their paths, each masked by what is on its
own path. The code goes from the root down and carries a type along; the property asks of each
leaf which key around it is the last that has a type. That they agree has four parts:
  - keys: a fragment is known to the recursion of isKnownFragment() exactly if it can be cut
    into fragments (`KnownFragments`: the places after which the rest is known are the cuts), and so
    the early returns of classifyKey() find what the lists of keywords say (`KeyHasType`);
  - values: one pass over the characters, backwards, counts the digits and adds up what Luhn's
    sum adds up forwards (`PassIsLuhn`), and isPAN() accepts the card numbers only (`CardsAreFound`);
  - the memo: it holds the type of each of its keys, whatever the values beside them were
    (`MemoIsRight`), so that a log depends on no earlier one;
  - payloads: below a key the type carried along is the one `TypeAround` finds on the path
    (`TypesAround`), so that an entry or an item is masked by its path (`EntryIsMasked`,
    `ItemIsMasked`), and with them each level (`PayloadIsMasked`).
The keywords, the affixes, the lengths and the number of digits are any.

Only model-checked: liveness, which is out of the prover's reach (EveryFlowEnds,
SignalEndsProcess, RepeaterEnds, that splitPromises() resolves, every other property of this
kind), and the fairness of the refinement.

## Not modelled

- The knex plugins that format queries and rows: they rewrite the text of one query at a time
  and keep no state; what they produce is SQL.
- Log transports, formats and the APM agent: winston and the agent do the work. Their
  places in the code are in Masking, TracedCalls and BulkInsertBuffer.
- Configuration, dependency injection, factories, schemas and types: read once, without
  steps. What startup decides from configuration is in ConsumerLoading and Bootstrap.
- Of the web server listenAsync(), onStart(), refresh() and ready(): nothing in src/ calls them.
- httpWebsocketAdapter(): it takes (request, socket) where the server passes (socket, request).
- The mode of reprocessing other than STOPPED_MIDDLEWARE, and a delay array that is empty.
- Inside values: indices in paths, dates, the hash of cache keys, the text of labels, logs
  and errors.
