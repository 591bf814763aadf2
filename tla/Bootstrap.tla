----------------------------- MODULE Bootstrap -----------------------------
(***************************************************************************)
(* src/main/bootstrap.ts: the order in which the services start, and the   *)
(* graceful shutdown that a signal starts, over the web server, the        *)
(* workers, the consumers and the log buffers, with a second signal, a     *)
(* connection to RabbitMQ that is lost and restarted, calls that hang and  *)
(* the timer that ends the process.                                        *)
(*                                                                         *)
(* RabbitMqServer is as ConsumerDelivery and RabbitMqLifecycle have it,    *)
(* without its channels: of the callers of stop(), the restart() that a    *)
(* lost connection starts among them, one drains and closes, and another   *)
(* one returns at once.                                                    *)
(***************************************************************************)
EXTENDS WebServer, WorkerManager

CONSTANTS Signals,      \* SIGINT and SIGTERM, as often as they come
          Deployments   \* what to start with, and with which failures: records
                        \* [services, servers, production, failures]

Servers == {"consumer", "worker", "dashboard", "server"}
Services == {"mongo", "sql", "rabbit", "memcached"}

\* The flags of the environment enable some of the services and servers; a
\* deployment's failures bound those of its connection to RabbitMQ.
ASSUME BootstrapAssumption ==
    /\ IsFiniteSet(Signals) /\ Signals \cap {"nobody", "restart"} = {}
    /\ \A d \in Deployments : /\ d.services \subseteq Services
                              /\ d.servers \subseteq Servers
                              /\ d.production \in BOOLEAN /\ d.failures \in Nat

VARIABLES deployment,  \* the enabled services and servers, and NODE_ENV
          phase,       \* of bootstrap(): mongo, services, servers, online
          pending,     \* what its Promise.all waits for
          up,          \* services that are connected, the dashboard, consumers
          delivery,    \* of each message: waiting, running, done
          link,        \* this.connection to RabbitMQ: null, open, dead
          restart,     \* where its restart() is, "idle" if none is pending
          failures,    \* failures of the connection so far
          closer,      \* whose stop() has set closing: a signal's, restart()'s, nobody's
          drainFrom,   \* when a signal's stop() began to wait
          overlapped,  \* a signal's stop() was called while restart() was under way
          place,       \* of each gracefulShutdown()
          found,       \* documents its flush() found
          hung         \* a call other than the two timed waits did not return

startVars == <<deployment, phase, pending>>
drainVars == <<closer, drainFrom, overlapped>>
stopVars == <<drainVars, place, found>>
rabbitVars == <<link, restart, failures>>
serviceVars == <<up, delivery, rabbitVars>>
bootstrapVars == <<startVars, serviceVars, stopVars, hung>>
vars == <<processVars, webVars, workerVars, bootstrapVars>>

CallsOut == {"webClosing", "agenda", "agendaStopping", "clientClosing", "dashboard", "draining",
             "flushing", "disconnect"}
Places == CallsOut \cup {"none", "web", "worker", "rabbit", "flush", "cache", "exit"}

\* The types of the state.
TypeOK == /\ WebTypeOK /\ WorkerTypeOK
          /\ exit \in {"no", "0", "1", "timer", "crash", "killed", "offline"}
          /\ elapsed \in 0..Timeout
          /\ document \in [Work -> {"none", "queued", "inserting", "settled"}]
          /\ deployment \in Deployments
          /\ phase \in {"mongo", "services", "servers", "online"}
          /\ pending \subseteq Services \cup Servers
          /\ up \subseteq Services \cup {"consumer", "dashboard"}
          /\ delivery \in [Deliveries -> {"waiting", "running", "done"}]
          /\ link \in {"null", "open", "dead"}
          /\ restart \in {"idle", "stop", "connect", "pool", "cooldown", "spinning"}
          /\ failures \in 0..deployment.failures
          /\ closer \in Signals \cup {"nobody", "restart"}
          /\ overlapped \in BOOLEAN
          /\ drainFrom \in 0..Timeout
          /\ place \in [Signals -> Places]
          /\ found \in [Signals -> SUBSET Work]
          /\ hung \in BOOLEAN

Init == /\ ProcessInit /\ WebInit /\ WorkerInit
        /\ deployment \in Deployments
        /\ phase = "mongo"
        /\ pending = deployment.services \cap {"mongo"}
        /\ up = {}
        /\ delivery = [m \in Deliveries |-> "waiting"]
        /\ link = "null"
        /\ restart = "idle"
        /\ failures = 0
        /\ closer = "nobody"
        /\ drainFrom = 0
        /\ overlapped = FALSE
        /\ place = [s \in Signals |-> "none"]
        /\ found = [s \in Signals |-> {}]
        /\ hung = FALSE

Online == phase = "online"
Parts == <<webVars, workerVars>>

-----------------------------------------------------------------------------
(* bootstrap().                                                            *)

\* No service enabled: process.exit(0).
Enables == deployment.servers # {} \/ "memcached" \in deployment.services

NothingToDo == /\ phase = "mongo" /\ ~Enables
               /\ exit' = "offline" /\ UNCHANGED <<elapsed, document, Parts, bootstrapVars>>

Awaited_First == Cardinality(pending) <= 1

\* Promise.all: the next phase waits for everything.
Awaited == pending = {}

\* mongoose first, then the other services at once, then the servers.
NextPhase ==
    /\ Awaited
    /\ \/ /\ phase = "mongo" /\ Enables
          /\ phase' = "services"
          /\ pending' = deployment.services \ {"mongo"}
          /\ UNCHANGED manager
       \/ /\ phase = "services"
          /\ phase' = "servers"
          /\ pending' = deployment.servers
          /\ manager' = IF "worker" \in deployment.servers THEN "loading" ELSE manager
       \/ /\ phase = "servers"
          /\ phase' = "online"
          /\ UNCHANGED <<pending, manager>>
    /\ UNCHANGED <<processVars, webVars, agendaVars, registration, defined, polling, job,
                   deployment, serviceVars, stopVars, hung>>

\* A service connects, the consumers are registered, the dashboard listens.
\* startConsumers() throws without RabbitMQ.
PartStarts(p) ==
    /\ p \in pending \cap (Services \cup {"consumer", "dashboard"})
    /\ p = "consumer" => "rabbit" \in up
    /\ up' = up \cup {p}
    /\ link' = IF p = "rabbit" THEN "open" ELSE link
    /\ pending' = pending \ {p}
    /\ UNCHANGED <<processVars, Parts, deployment, phase, delivery, restart, failures, stopVars,
                   hung>>

\* A part's start rejects: bootstrap() rejects, and src/main/index.ts exits.
PartFails(p) ==
    /\ \/ p \in pending \cap (Services \cup {"consumer", "dashboard"})
       \/ p = "worker" /\ p \in pending /\ manager \in {"loading", "failed"}
    /\ exit' = "1"
    /\ UNCHANGED <<elapsed, document, Parts, bootstrapVars>>

WorkersOnline == /\ "worker" \in pending /\ manager = "started"
                 /\ pending' = pending \ {"worker"}
                 /\ UNCHANGED <<processVars, Parts, deployment, phase, serviceVars, stopVars, hung>>

\* startServer(): import('./web-server'), then listen(), which returns before
\* the server listens.
ImportServer == /\ "server" \in pending
                /\ LoadDirectories
                /\ UNCHANGED <<workerVars, bootstrapVars>>

ServerOnline == /\ "server" \in pending
                /\ \A d \in Dirs : load[d] # "none"
                /\ Listen
                /\ pending' = pending \ {"server"}
                /\ UNCHANGED <<workerVars, deployment, phase, serviceVars, stopVars, hung>>

-----------------------------------------------------------------------------
(* Consumers and the database.                                             *)

\* A delivery; while closing, its job is not called, and until a restart() has
\* rebuilt the consumers none listens on its connection.
Deliver(m) == /\ "consumer" \in up /\ closer = "nobody"
              /\ link = "open" /\ restart \notin {"connect", "pool"}
              /\ delivery[m] = "waiting"
              /\ delivery' = [delivery EXCEPT ![m] = "running"]
              /\ UNCHANGED <<processVars, Parts, startVars, up, rabbitVars, stopVars, hung>>

\* The job ends; amqpLogger has logged it.
Consumed(m) == /\ delivery[m] = "running"
               /\ delivery' = [delivery EXCEPT ![m] = "done"]
               /\ Log(m)
               /\ UNCHANGED <<Parts, startVars, up, rabbitVars, stopVars, hung>>

Buffers == /\ InsertSettles \/ ("mongo" \in up /\ InsertStarts)
           /\ UNCHANGED <<Parts, bootstrapVars>>

-----------------------------------------------------------------------------
(* The connection to RabbitMQ is lost, and restart() (RabbitMqLifecycle).  *)

Failure == failures < deployment.failures /\ failures' = failures + 1

RabbitStays == UNCHANGED <<processVars, Parts, startVars, up, delivery, drainFrom, overlapped,
                           place, found, hung>>

\* restart() up to its first wait.  While another stop() is closing its own
\* returns at once, and start() works on the connection l that is there.  With a
\* dead one nothing waits for the network: the pool stays empty, and the catch
\* emits RESTART from one microtask to the next, so that no timer has a turn,
\* unless a channel closed before it was pooled, and start() goes on with it.
BeginRestart(l) ==
    \/ /\ closer = "nobody"
       /\ restart' = "stop" /\ closer' = "restart"
    \/ /\ closer # "nobody"
       /\ restart' \in CASE l = "null" -> {"connect"}
                         [] l = "open" -> {"pool"}
                         [] l = "dead" -> {"spinning", "cooldown"}
       /\ UNCHANGED closer

\* The connection breaks; its close listener emits RESTART unless one is pending.
LinkLost ==
    /\ link = "open" /\ Failure
    /\ link' = "dead"
    /\ \/ restart = "idle" /\ BeginRestart("dead")
       \/ restart # "idle" /\ UNCHANGED <<restart, closer>>
    /\ RabbitStays

\* restart()'s stop() has waited for the messages, which may have begun long
\* before the signal, and forgets the connection.
RestartStopped ==
    /\ restart = "stop"
    /\ restart' = "connect" /\ closer' = "nobody" /\ link' = "null"
    /\ UNCHANGED failures
    /\ RabbitStays

\* connect()
Reconnect ==
    /\ restart = "connect"
    /\ restart' = "pool" /\ link' = "open"
    /\ UNCHANGED <<failures, closer>>
    /\ RabbitStays

ConnectFails ==
    /\ restart = "connect" /\ Failure
    /\ BeginRestart("null")
    /\ UNCHANGED link
    /\ RabbitStays

\* createChannelPool(), with channels that closed since if the connection did;
\* then the consumers are rebuilt.
PoolFills ==
    /\ restart = "pool"
    /\ restart' = "cooldown"
    /\ UNCHANGED <<link, failures, closer>>
    /\ RabbitStays

PoolEmpty ==
    /\ restart = "pool"
    /\ IF link = "open" THEN Failure ELSE UNCHANGED failures
    /\ BeginRestart(link)
    /\ UNCHANGED link
    /\ RabbitStays

CooldownEnds ==
    /\ restart = "cooldown"
    /\ restart' = "idle"
    /\ UNCHANGED <<link, failures, closer>>
    /\ RabbitStays

\* The REBUILD_CONSUMER timer of a channel that closed finds no connection:
\* nobody handles the rejection of rebuildConsumer().
RebuildRejects ==
    /\ "consumer" \in up /\ link = "null"
    /\ exit' = "crash"
    /\ UNCHANGED <<elapsed, document, Parts, bootstrapVars>>

RabbitNext == \/ LinkLost \/ RestartStopped \/ Reconnect \/ ConnectFails \/ PoolFills \/ PoolEmpty
              \/ CooldownEnds \/ RebuildRejects

-----------------------------------------------------------------------------
(* gracefulShutdown(), one call for each signal.                           *)

Has(part) == part \in deployment.servers
Stopping == \E s \in Signals : place[s] # "none"

\* Before the handlers are registered a signal kills the process; outside
\* production the handler exits at once.
Signal(s) ==
    /\ place[s] = "none"
    /\ exit' = IF ~Online THEN "killed" ELSE IF deployment.production THEN exit ELSE "0"
    /\ place' = [place EXCEPT ![s] = IF Online THEN "web" ELSE "none"]
    /\ UNCHANGED <<elapsed, document, Parts, startVars, serviceVars,
                   drainVars, found, hung>>

GoesTo(s, p) == place' = [place EXCEPT ![s] = p]
Stays == UNCHANGED <<processVars, startVars, hung>>

CloseWeb(s) ==
    /\ place[s] = "web"
    /\ IF Has("server")
       THEN StartClose /\ GoesTo(s, "webClosing")
       ELSE GoesTo(s, "worker") /\ UNCHANGED <<closing, endedAt, socket>>
    /\ Stays
    /\ UNCHANGED <<loadVars, bootVars, request, workerVars, serviceVars,
                   drainVars, found>>

WebClosed(s) ==
    /\ place[s] = "webClosing" /\ Closed
    /\ GoesTo(s, "worker")
    /\ Stays
    /\ UNCHANGED <<Parts, serviceVars, drainVars, found>>

\* worker.stop(): awaits getAgenda(), which creates one if there is none.
StopWorker(s) ==
    /\ place[s] = "worker"
    /\ IF Has("worker") THEN GoesTo(s, "agenda") /\ GetAgenda
                        ELSE GoesTo(s, "dashboard") /\ UNCHANGED agenda
    /\ Stays
    /\ UNCHANGED <<webVars, manager, clients, mongoClient, openClients, registration, defined,
                   polling, job, serviceVars, drainVars, found>>

\* agenda.stop(): no new task; those that run are not awaited.
StopAgenda(s) ==
    /\ place[s] = "agenda" /\ agenda = "open"
    /\ GoesTo(s, "agendaStopping")
    /\ polling' = FALSE
    /\ Stays
    /\ UNCHANGED <<webVars, manager, agendaVars, registration, defined, job, serviceVars,
                   drainVars, found>>

CloseClient_Leaves(s) ==
    /\ place[s] = "agendaStopping"
    /\ GoesTo(s, "clientClosing")
    /\ Stays
    /\ UNCHANGED <<Parts, serviceVars, drainVars, found>>

\* The finally closes the client that this.mongoClient holds by now,
CloseClient(s) ==
    /\ place[s] = "agendaStopping"
    /\ GoesTo(s, "clientClosing")
    /\ openClients' = openClients \ {mongoClient}
    /\ Stays
    /\ UNCHANGED <<webVars, manager, agenda, clients, mongoClient, registration, defined,
                   polling, job, serviceVars, drainVars, found>>

\* and forgets both.
WorkerStopped(s) ==
    /\ place[s] = "clientClosing"
    /\ GoesTo(s, "dashboard")
    /\ agenda' = "none" /\ mongoClient' = 0
    /\ Stays
    /\ UNCHANGED <<webVars, manager, clients, openClients, registration, defined, polling, job,
                   serviceVars, drainVars, found>>

\* agendaDashboard.close().
CloseDashboard(s) ==
    /\ place[s] = "dashboard"
    /\ GoesTo(s, "rabbit")
    /\ up' = up \ {"dashboard"}
    /\ Stays
    /\ UNCHANGED <<Parts, delivery, rabbitVars, drainVars, found>>

StopRabbit_Impatient(s) ==
    /\ place[s] = "rabbit"
    /\ closer' = s /\ drainFrom' = elapsed
    /\ GoesTo(s, "flush")
    /\ Stays
    /\ UNCHANGED <<Parts, serviceVars, overlapped, found>>

\* rabbitServer.stop() returns at once while another one is closing, and does
\* not end the restart() that is under way.
StopRabbit(s) ==
    /\ place[s] = "rabbit"
    /\ IF "rabbit" \in deployment.services /\ closer = "nobody"
       THEN closer' = s /\ drainFrom' = elapsed /\ GoesTo(s, "draining")
       ELSE GoesTo(s, "flush") /\ UNCHANGED <<closer, drainFrom>>
    /\ overlapped' = (overlapped \/ restart \notin {"idle", "cooldown"})
    /\ Stays
    /\ UNCHANGED <<Parts, serviceVars, found>>

DrainTimeout_TooLong == 6

DrainTimeout == 5   \* timeoutMs of waitForPendingProcessing()
Drained == \A m \in Deliveries : delivery[m] # "running"
DrainOver == Drained \/ elapsed >= drainFrom + DrainTimeout

RabbitStopped(s) ==
    /\ place[s] = "draining" /\ DrainOver
    /\ GoesTo(s, "flush")
    /\ link' = "null" /\ closer' = "nobody"
    /\ Stays
    /\ UNCHANGED <<Parts, up, delivery, restart, failures, drainFrom, overlapped, found>>

\* Both repositories' flush().
Flush(s) ==
    /\ place[s] = "flush"
    /\ IF "mongo" \in deployment.services
       THEN GoesTo(s, "flushing") /\ found' = [found EXCEPT ![s] = In("queued") \cup In("inserting")]
       ELSE GoesTo(s, "cache") /\ UNCHANGED found
    /\ Stays
    /\ UNCHANGED <<Parts, serviceVars, drainVars>>

Flushed_Early(s) ==
    /\ place[s] = "flushing" /\ In("queued") = {}
    /\ GoesTo(s, "disconnect")
    /\ Stays
    /\ UNCHANGED <<Parts, serviceVars, drainVars, found>>

Flushed(s) ==
    /\ place[s] = "flushing" /\ found[s] \subseteq In("settled")
    /\ GoesTo(s, "disconnect")
    /\ Stays
    /\ UNCHANGED <<Parts, serviceVars, drainVars, found>>

Disconnected(s) ==
    /\ place[s] = "disconnect"
    /\ GoesTo(s, "cache")
    /\ up' = up \ {"mongo"}
    /\ Stays
    /\ UNCHANGED <<Parts, delivery, rabbitVars, drainVars, found>>

\* cacheServer.disconnect() and process.exit(0).
Finish(s) ==
    /\ place[s] = "cache"
    /\ GoesTo(s, "exit")
    /\ up' = up \ {"memcached"}
    /\ exit' = "0"
    /\ UNCHANGED <<elapsed, document, Parts, startVars, delivery, rabbitVars, drainVars,
                   found, hung>>

\* A step rejects: exit(1).
ShutdownFails(s) ==
    /\ \/ place[s] \in {"webClosing", "agendaStopping", "clientClosing", "disconnect"}
       \/ place[s] = "agenda" /\ agenda = "connecting"
       \/ place[s] = "dashboard" /\ Has("dashboard")
    /\ exit' = "1"
    /\ UNCHANGED <<elapsed, document, Parts, bootstrapVars>>

\* The wait for the connections, or the one for the deliveries.
Waits(s) == \/ place[s] = "webClosing" /\ ~Closed
            \/ place[s] = "draining" /\ ~DrainOver

\* Five seconds pass in a wait; timers and checks that are due come first.
Tick == /\ \E s \in Signals : Waits(s)
        /\ \A c \in Conns : ~Overdue(c)
        /\ \A s \in Signals : place[s] = "draining" => ~DrainOver
        /\ elapsed' = elapsed + 1
        /\ UNCHANGED <<exit, document, Parts, bootstrapVars>>

\* A call of the shutdown does not return: the exit timer is next.
Hang == /\ \E s \in Signals : ~Waits(s) /\ place[s] \in CallsOut
        /\ elapsed' = Timeout /\ hung' = TRUE
        /\ UNCHANGED <<exit, document, Parts, startVars, serviceVars, stopVars>>

TimeIsUp_Cleared == FALSE /\ UNCHANGED vars

\* SHUTDOWN_TIMEOUT: process.exit(0).
TimeIsUp == /\ elapsed = Timeout
            /\ exit' = "timer"
            /\ UNCHANGED <<elapsed, document, Parts, bootstrapVars>>

Startup == \/ NothingToDo \/ NextPhase \/ WorkersOnline \/ ImportServer \/ ServerOnline
           \/ \E p \in Services \cup Servers : PartStarts(p) \/ PartFails(p)

Shutdown(s) == \/ Signal(s) \/ CloseWeb(s) \/ WebClosed(s) \/ StopWorker(s) \/ StopAgenda(s)
               \/ CloseClient(s) \/ WorkerStopped(s) \/ CloseDashboard(s) \/ StopRabbit(s)
               \/ RabbitStopped(s) \/ Flush(s) \/ Flushed(s) \/ Disconnected(s)
               \/ Finish(s) \/ ShutdownFails(s)

Step == \/ Startup
        \/ WebNext /\ UNCHANGED <<workerVars, bootstrapVars>>
        \/ WorkerNext /\ UNCHANGED <<webVars, bootstrapVars>>
        \/ \E m \in Deliveries : Deliver(m) \/ Consumed(m)
        \/ RabbitNext
        \/ Buffers
        \/ \E s \in Signals : Shutdown(s)
        \/ Tick \/ Hang

\* The exit timer was set before every other one.  Nothing happens between the
\* microtasks of a restart() that spins.
Next == /\ exit = "no" /\ restart # "spinning"
        /\ IF elapsed < Timeout THEN Step ELSE TimeIsUp

\* Each step happens a bounded number of times, and a call that does not return
\* is a step too (Hang): the fairness of Next only says that the event loop runs.
Fairness == WF_vars(Next)

Spec == Init /\ [][Next]_vars /\ Fairness

-----------------------------------------------------------------------------
(* Properties.                                                             *)

OneSignal == Cardinality({s \in Signals : place[s] # "none"}) = 1

\* No request, message or task is worked on before every service that the
\* process needs has been connected (the two Promise.all, 138-159).
NothingRunsEarly ==
    (\E w \in Conns : request[w] # "none") \/ (\E m \in Deliveries : delivery[m] # "waiting")
        \/ (\E w \in Workers : job[w] # "idle")
    => phase \in {"servers", "online"} /\ (~Stopping => deployment.services \subseteq up)

\* What a graceful end in production owes the log in MongoDB: because the web
\* server closes first, the messages drain next and the buffers are flushed last
\* (176-213), every request that was answered is stored, however many signals
\* came, and with one signal every message that was processed, unless its stop()
\* met a restart() under way or its wait timed out.  A request whose connection
\* close() ended before the answer, and a task, which worker.stop() does not wait
\* for, may end after the flush: theirs may be lost.
WorkIsLogged ==
    exit = "0" /\ deployment.production /\ "mongo" \in deployment.services
        => /\ \A c \in Conns : request[c] = "answered" => document[c] = "settled"
           /\ OneSignal /\ ~overlapped /\ elapsed < drainFrom + DrainTimeout
                 => \A m \in Deliveries : delivery[m] = "done" => document[m] = "settled"

\* MongoDB, where the messages' jobs keep their results and logs, goes only
\* when no message is being processed, but for a drain that timed out, a second
\* signal, whose stop() returns at once, and a stop() that met a restart() under
\* way: it returns at once too if that one is closing (190-192), and otherwise
\* does not keep it from connecting again.
MongoOutlivesMessages ==
    Stopping /\ "mongo" \in deployment.services \ up /\ OneSignal /\ ~overlapped
        => Drained \/ elapsed >= drainFrom + DrainTimeout

\* A graceful end of one signal leaves nothing open, but for the connection that
\* a restart() under way opens after the stop().
GracefulEndIsComplete ==
    exit = "0" /\ deployment.production /\ OneSignal
        => /\ up \cap {"mongo", "memcached", "dashboard"} = {}
           /\ ~overlapped => link = "null"
           /\ openClients = {} /\ ~polling
           /\ \A c \in Conns : socket[c] \notin {"open", "ended"}

\* The 30 s of the exit timer cover the 5 s for the connections and the 25 s for
\* the messages unless both are used up: if no call took longer than that,
\* the logs are not flushed only then.
TimerCoversOneTimeout ==
    exit = "timer" /\ ~hung /\ OneSignal => drainFrom = 1 /\ ~Drained

\* Whatever hangs, a signal ends the process, but for a connection that breaks
\* while a signal's stop() is closing: its restart() may spin on it, and then
\* not even the exit timer has a turn (rabbitmq-server.ts 242-258).
SignalEndsProcess == Stopping ~> exit # "no" \/ restart = "spinning"

\* Nothing is served before what it needs: the server listens with routes, the
\* manager runs every worker's tasks, the services are connected.
StartsComplete ==
    TypeOK /\ SomeDirectoryIsComplete /\ StartsWithEveryTask /\ NothingRunsEarly

\* The shutdown closes everything, in the order in which the parts depend on
\* one another, and within its time.
EndsInOrder == MongoOutlivesMessages /\ GracefulEndIsComplete /\ TimerCoversOneTimeout
=============================================================================
