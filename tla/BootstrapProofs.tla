-------------------------- MODULE BootstrapProofs --------------------------
(***************************************************************************)
(* What startup and shutdown guarantee for every deployment, set of route  *)
(* files, workers, connections and messages, and number of signals.        *)
(***************************************************************************)
EXTENDS Bootstrap, FiniteSetTheorems, TLAPS

-----------------------------------------------------------------------------
(* The inductive invariant.                                                *)

\* The places of a gracefulShutdown() after each of its waits.
PastFlush == {"flushing", "disconnect", "cache", "exit"}
PastRabbit == {"flush"} \cup PastFlush
PastDashboard == {"rabbit", "draining"} \cup PastRabbit
PastWorker == {"dashboard"} \cup PastDashboard
PastWeb == {"worker", "agenda", "agendaStopping", "clientClosing"} \cup PastWorker

Alone(s) == \A t \in Signals \ {s} : place[t] = "none"

Typed == TypeOK /\ callbacks = [d \in Dirs |-> callbacks[d]]

\* A directory that was complete when Fastify began to boot is plugged later.
Boots ==
    /\ isStarted <=> listener # "off"
    /\ listener # "off" => \A d \in Dirs : load[d] # "none"
    /\ \/ isLoadingRoutes
       \/ \A d \in Dirs : load[d] = "none"
       \/ \E d \in Dirs : load[d] = "done"
    /\ listener \in {"off", "polling"} => plugged = 0
    /\ listener \in {"booting", "listening"} =>
          \E d \in Dirs : load[d] = "done" /\ (d <= plugged => callbacks[d] \subseteq routed)
    /\ listener = "listening" => plugged = Len(RouteFiles)

\* What each phase of bootstrap() has connected and still waits for.
Phases ==
    /\ phase \in {"mongo", "services"} => pending \subseteq deployment.services
    /\ phase = "servers" => pending \subseteq deployment.servers
    /\ Online => pending = {}
    /\ phase = "mongo" => deployment.services \cap {"mongo"} \subseteq pending \cup up
    /\ phase = "services" => deployment.services \subseteq pending \cup up
    /\ phase \in {"servers", "online"} /\ ~Stopping => deployment.services \subseteq up
    /\ up \cap Services \subseteq deployment.services
    /\ Stopping => Online

\* A server does nothing before its phase, nor if it is not enabled.
Waiting ==
    /\ phase \in {"mongo", "services"} =>
          listener = "off" /\ manager = "off" /\ "consumer" \notin up
    /\ listener # "off" => Has("server")
    /\ Has("worker") /\ phase \in {"servers", "online"} /\ "worker" \notin pending =>
          manager = "started"
    /\ \A c \in Conns : socket[c] # "none" \/ request[c] # "none" => listener = "listening"
    /\ \A m \in Deliveries : delivery[m] # "waiting" =>
          "rabbit" \in deployment.services /\ phase \in {"servers", "online"}

Tasks ==
    /\ polling => manager = "started" /\ Registered
    /\ \A w \in Workers : job[w] # "idle" => manager # "off"
    /\ agenda # "none" \/ openClients # {} => manager # "off"
    /\ manager # "off" => Has("worker")

\* A unit that has not ended has no document.
Unlogged ==
    /\ \A c \in Conns : socket[c] = "none" => request[c] = "none"
    /\ \A c \in Conns : request[c] \in {"none", "running"} => document[c] = "none"
    /\ \A m \in Deliveries : delivery[m] \in {"waiting", "running"} => document[m] = "none"
    /\ \A w \in Workers : job[w] \in {"idle", "running"} => document[w] = "none"

\* A unit that was answered or processed has a document.
Logged ==
    /\ \A c \in Conns : request[c] = "answered" => document[c] # "none"
    /\ \A m \in Deliveries : delivery[m] = "done" => document[m] # "none"

\* A flush() that went on left nothing it had found.
Flushes == \A s \in Signals : place[s] = "flushing" \/ found[s] \subseteq In("settled")

\* The connection to RabbitMQ, and who may be closing it.
Restarts ==
    /\ closer = "restart" <=> restart = "stop"
    /\ link # "null" \/ restart # "idle" => "rabbit" \in deployment.services

\* What a shutdown has closed by its place, with any number of signals.
Closes ==
    /\ closing => Has("server") /\ \A c \in Conns : socket[c] # "open"
    /\ \A s \in Signals :
          /\ place[s] = "draining" <=> closer = s
          /\ place[s] = "webClosing" => closing
          /\ place[s] \in PastWeb => /\ Has("server") => closing
                                     /\ \A c \in Conns : socket[c] \notin {"open", "ended"}
          /\ place[s] \in PastDashboard => "dashboard" \notin up
          /\ place[s] \in {"cache", "exit"} => "mongo" \notin up
          /\ place[s] = "exit" => exit = "0" /\ "memcached" \notin up
    /\ exit = "0" /\ deployment.production => \E s \in Signals : place[s] = "exit"

\* One signal closes the manager's only client, and creates no other.
WorkersEnd == \A s \in Signals : Alone(s) =>
    /\ openClients \subseteq {mongoClient}
    /\ agenda # "open" => openClients = {}
    /\ manager = "started" /\ place[s] \notin PastWorker => agenda = "open"
    /\ place[s] \in {"agendaStopping", "clientClosing"} \cup PastWorker => ~polling
    /\ place[s] \in {"clientClosing"} \cup PastWorker => openClients = {}
    /\ place[s] \in PastWorker => agenda = "none"

\* One signal closes RabbitMQ after the wait for the messages, MongoDB then; a
\* connection that is lost in that wait is not made again.
MessagesEnd == \A s \in Signals : Alone(s) =>
    /\ ~overlapped /\ place[s] = "draining" => restart \in {"idle", "cooldown", "spinning"}
    /\ ~overlapped /\ place[s] \in PastRabbit =>
          link = "null" /\ restart \in {"idle", "cooldown"} /\ DrainOver
    /\ Online /\ place[s] \notin {"cache", "exit"} =>
          {"mongo"} \cap deployment.services \subseteq up

\* What a flush() owed the log it has found, or it was stored before.
Stored == \A s \in Signals : place[s] \in PastFlush /\ "mongo" \in deployment.services =>
    /\ \A c \in Conns : request[c] = "answered" => c \in found[s] \cup In("settled")
    /\ Alone(s) /\ ~overlapped /\ elapsed < drainFrom + DrainTimeout =>
          \A m \in Deliveries : delivery[m] = "done" => m \in found[s] \cup In("settled")

\* The time that one signal has used by its place.
TimeEnds == \A s \in Signals : Alone(s) /\ ~hung =>
    /\ place[s] \in {"none", "web"} => elapsed = 0 /\ ~closing
    /\ place[s] = "webClosing" => endedAt = 0 /\ elapsed <= 1
    /\ place[s] \in PastWeb \ ({"draining"} \cup PastRabbit) => elapsed <= 1
    /\ place[s] = "draining" =>
          /\ drainFrom <= 1 /\ elapsed <= drainFrom + DrainTimeout
          /\ elapsed = Timeout => ~Drained
    /\ place[s] \in PastRabbit => elapsed < Timeout
    /\ exit = "timer" => elapsed = Timeout

Inv == Typed /\ Boots /\ Phases /\ Restarts /\ Waiting /\ Tasks /\ Unlogged /\ Logged
          /\ Flushes /\ Closes /\ WorkersEnd /\ MessagesEnd /\ Stored /\ TimeEnds

-----------------------------------------------------------------------------
(* Which steps change what: every other step leaves the variables alone.   *)

USE DEF Next, Step, Startup, WebNext, WorkerNext, Shutdown, Parts, Stays, GoesTo, Exit, Log,
        NothingToDo, NextPhase, PartStarts, PartFails, WorkersOnline, ImportServer,
        LoadDirectories, ServerOnline, Listen, DirectoryLoaded, SetupThrows, Poll,
        RoutesTimeOut, PluginRuns, Ready, ListenFails, Request, Respond, Disconnect, Destroy,
        TasksLoaded, AgendaConnects, AgendaFails, Scheduled, StartManager, StartFails,
        RunTask, TaskDone, Deliver, Consumed, Buffers, InsertStarts, InsertSettles, MoveAll,
        Signal, CloseWeb, StartClose, WebClosed, StopWorker, GetAgenda, StopAgenda, CloseClient,
        WorkerStopped, CloseDashboard, StopRabbit, RabbitStopped, Flush, Flushed,
        Disconnected, Finish, ShutdownFails, Tick, Hang, TimeIsUp, RabbitNext, LinkLost,
        RestartStopped, Reconnect, ConnectFails, PoolFills, PoolEmpty, CooldownEnds,
        RebuildRejects, BeginRestart, Failure, RabbitStays, rabbitVars, drainVars, vars,
        processVars, loadVars, bootVars, connVars, webVars, agendaVars, workerVars,
        startVars, serviceVars, stopVars, bootstrapVars

\* The routes and the server's boot.
LEMMA BootFrame ==
    ASSUME [Next]_vars
    PROVE  \/ UNCHANGED <<isStarted, isLoadingRoutes, load, callbacks, plugged, routed, listener>>
           \/ \E d \in Dirs : DirectoryLoaded(d)
           \/ ImportServer \/ ServerOnline \/ Poll \/ PluginRuns \/ Ready
OBVIOUS

\* The connections.
LEMMA ConnFrame ==
    ASSUME [Next]_vars
    PROVE  \/ UNCHANGED <<closing, endedAt, socket, request>>
           \/ \E c \in Conns : Request(c) \/ Respond(c) \/ Disconnect(c) \/ Destroy(c)
           \/ \E s \in Signals : CloseWeb(s)
OBVIOUS

\* The worker manager.
LEMMA WorkerFrame ==
    ASSUME [Next]_vars
    PROVE  \/ UNCHANGED <<manager, agenda, clients, mongoClient, openClients, registration,
                          defined, polling, job>>
           \/ NextPhase \/ WorkerNext
           \/ \E s \in Signals : \/ StopWorker(s) \/ StopAgenda(s) \/ CloseClient(s)
                                 \/ WorkerStopped(s)
OBVIOUS

\* The log, the time and the end of the process.
LEMMA ProcessFrame ==
    ASSUME [Next]_vars
    PROVE  /\ \/ UNCHANGED document
              \/ \E c \in Conns : Respond(c)
              \/ \E m \in Deliveries : Consumed(m)
              \/ \E w \in Workers : TaskDone(w)
              \/ Buffers
           /\ UNCHANGED <<elapsed, hung>> \/ Tick \/ Hang
           /\ \/ UNCHANGED exit
              \/ exit' \in {"1", "crash", "offline"} /\ UNCHANGED <<place, deployment>>
              \/ TimeIsUp
              \/ \E s \in Signals : Signal(s) \/ Finish(s)
OBVIOUS

\* bootstrap().
LEMMA StartFrame ==
    ASSUME [Next]_vars
    PROVE  /\ UNCHANGED deployment
           /\ \/ UNCHANGED <<phase, pending>>
              \/ NextPhase \/ WorkersOnline \/ ServerOnline
              \/ \E p \in Services \cup Servers : PartStarts(p)
OBVIOUS

\* The services and the messages.
LEMMA ServiceFrame ==
    ASSUME [Next]_vars
    PROVE  /\ \/ UNCHANGED up
              \/ \E p \in Services \cup Servers : PartStarts(p)
              \/ \E s \in Signals : CloseDashboard(s) \/ Disconnected(s) \/ Finish(s)
           /\ \/ UNCHANGED delivery
              \/ \E m \in Deliveries : Deliver(m) \/ Consumed(m)
OBVIOUS

\* The connection to RabbitMQ.
LEMMA RabbitFrame ==
    ASSUME [Next]_vars
    PROVE  /\ \/ UNCHANGED <<link, restart, failures, closer>>
              \/ \E p \in Services \cup Servers : PartStarts(p)
              \/ RabbitNext
              \/ \E s \in Signals : StopRabbit(s) \/ RabbitStopped(s)
           /\ restart = "spinning" => UNCHANGED vars
OBVIOUS

\* The shutdown, whose steps happen in a process that has not ended.
LEMMA StopFrame ==
    ASSUME [Next]_vars
    PROVE  \/ UNCHANGED <<drainFrom, overlapped, place, found>>
           \/ /\ exit = "no" /\ elapsed < Timeout
              /\ \E s \in Signals :
                    \/ Signal(s) \/ CloseWeb(s) \/ WebClosed(s) \/ StopWorker(s)
                    \/ StopAgenda(s) \/ CloseClient(s) \/ WorkerStopped(s)
                    \/ CloseDashboard(s) \/ StopRabbit(s) \/ RabbitStopped(s) \/ Flush(s)
                    \/ Flushed(s) \/ Disconnected(s) \/ Finish(s)
OBVIOUS

HIDE DEF Next, Step, Startup, WebNext, WorkerNext, Shutdown, Parts, Stays, GoesTo, Exit, Log,
         NothingToDo, NextPhase, PartStarts, PartFails, WorkersOnline, ImportServer,
         LoadDirectories, ServerOnline, Listen, DirectoryLoaded, SetupThrows, Poll,
         RoutesTimeOut, PluginRuns, Ready, ListenFails, Request, Respond, Disconnect, Destroy,
         TasksLoaded, AgendaConnects, AgendaFails, Scheduled, StartManager, StartFails,
         RunTask, TaskDone, Deliver, Consumed, Buffers, InsertStarts, InsertSettles, MoveAll,
         Signal, CloseWeb, StartClose, WebClosed, StopWorker, GetAgenda, StopAgenda, CloseClient,
         WorkerStopped, CloseDashboard, StopRabbit, RabbitStopped, Flush, Flushed,
         Disconnected, Finish, ShutdownFails, Tick, Hang, TimeIsUp, RabbitNext, LinkLost,
         RestartStopped, Reconnect, ConnectFails, PoolFills, PoolEmpty, CooldownEnds,
         RebuildRejects, BeginRestart, Failure, RabbitStays, rabbitVars, drainVars, vars,
         processVars, loadVars, bootVars, connVars, webVars, agendaVars, workerVars,
         startVars, serviceVars, stopVars, bootstrapVars

-----------------------------------------------------------------------------
(* The types.                                                              *)

LEMMA WebTypes == ASSUME Typed, [Next]_vars PROVE WebTypeOK' /\ (callbacks = [d \in Dirs |-> callbacks[d]])'
<1>0. /\ DOMAIN RouteFiles = 1..Len(RouteFiles) /\ Len(RouteFiles) \in Nat \ {0}
      /\ DOMAIN callbacks = Dirs
  BY RoutesAssumption DEF Typed
<1> USE DEF Typed, TypeOK, WebTypeOK
<1>1. /\ (isStarted \in BOOLEAN)' /\ (isLoadingRoutes \in BOOLEAN)'
      /\ (load \in [Dirs -> {"none", "importing", "done"}])'
      /\ (listener \in {"off", "polling", "booting", "listening"})'
  <2>1. UNCHANGED isLoadingRoutes \/ isLoadingRoutes' \in BOOLEAN
    BY BootFrame DEF DirectoryLoaded, ImportServer, LoadDirectories, ServerOnline, Listen,
                     Poll, PluginRuns, Ready, loadVars
  <2>2. UNCHANGED isStarted \/ isStarted' \in BOOLEAN
    BY BootFrame DEF DirectoryLoaded, ImportServer, LoadDirectories, ServerOnline, Listen,
                     Poll, PluginRuns, Ready, bootVars
  <2>3. (load \in [Dirs -> {"none", "importing", "done"}])'
    <3>1. \/ load' = load \/ load' = [d \in Dirs |-> "importing"]
          \/ \E d \in Dirs : load' = [load EXCEPT ![d] = "done"]
      BY BootFrame DEF DirectoryLoaded, ImportServer, LoadDirectories, ServerOnline, Listen,
                       Poll, PluginRuns, Ready, loadVars
    <3> QED
      BY <3>1
  <2>4. (listener \in {"off", "polling", "booting", "listening"})'
    BY BootFrame DEF DirectoryLoaded, ImportServer, LoadDirectories, ServerOnline, Listen,
                     Poll, PluginRuns, Ready, bootVars
  <2> QED
    BY <2>1, <2>2, <2>3, <2>4
<1>2. /\ (\A d \in Dirs : callbacks[d] \subseteq RouteFiles[d])'
      /\ (callbacks = [d \in Dirs |-> callbacks[d]])'
  <2>1. ASSUME NEW d \in Dirs, DirectoryLoaded(d)
        PROVE  /\ \A e \in Dirs : callbacks'[e] \subseteq RouteFiles[e]
               /\ callbacks' = [e \in Dirs |-> callbacks'[e]]
    BY <1>0, <2>1 DEF DirectoryLoaded
  <2>2. callbacks' = callbacks \/ \E d \in Dirs : DirectoryLoaded(d)
    BY BootFrame DEF ImportServer, LoadDirectories, ServerOnline, Listen, Poll, PluginRuns,
                     Ready, loadVars
  <2> QED
    BY <2>1, <2>2 DEF Dirs
<1>3. (plugged \in 0..Len(RouteFiles))'
  <2>1. plugged' = plugged \/ PluginRuns
    BY BootFrame DEF DirectoryLoaded, ImportServer, LoadDirectories, ServerOnline, Listen,
                     Poll, Ready, bootVars
  <2> QED
    BY <1>0, <2>1 DEF PluginRuns
<1>4. (routed \subseteq UNION {RouteFiles[d] : d \in Dirs})'
  <2>1. \A d \in Dirs : callbacks[d] \subseteq UNION {RouteFiles[e] : e \in Dirs}
    OBVIOUS
  <2>2. PluginRuns => plugged + 1 \in Dirs
    BY <1>0 DEF PluginRuns, Dirs
  <2> QED
    BY <1>0, <2>1, <2>2, BootFrame DEF DirectoryLoaded, ImportServer, LoadDirectories,
              ServerOnline, Listen, Poll, PluginRuns, Ready, bootVars
<1>5. /\ (closing \in BOOLEAN)' /\ (endedAt \in Nat)'
      /\ (socket \in [Conns -> {"none", "open", "ended", "closed"}])'
      /\ (request \in [Conns -> {"none", "running", "answered", "lost"}])'
  <2>1. CASE UNCHANGED <<closing, endedAt, socket, request>>
    BY <2>1
  <2>2. ASSUME NEW c \in Conns, Request(c) \/ Respond(c) \/ Disconnect(c) \/ Destroy(c)
        PROVE  /\ closing' \in BOOLEAN /\ endedAt' \in Nat
               /\ socket' \in [Conns -> {"none", "open", "ended", "closed"}]
               /\ request' \in [Conns -> {"none", "running", "answered", "lost"}]
    BY <2>2 DEF Request, Respond, Disconnect, Destroy
  <2>3. ASSUME NEW s \in Signals, CloseWeb(s)
        PROVE  /\ closing' \in BOOLEAN /\ endedAt' \in Nat
               /\ socket' \in [Conns -> {"none", "open", "ended", "closed"}]
               /\ request' \in [Conns -> {"none", "running", "answered", "lost"}]
    <3>1. CASE StartClose /\ UNCHANGED request
      BY <3>1 DEF StartClose, Timeout
    <3>2. CASE UNCHANGED <<closing, endedAt, socket, request>>
      BY <3>2
    <3> QED
      BY <2>3, <3>1, <3>2 DEF CloseWeb
  <2> QED
    BY <2>1, <2>2, <2>3, ConnFrame
<1> QED
  BY <1>1, <1>2, <1>3, <1>4, <1>5

LEMMA WorkerTypes == ASSUME Typed, [Next]_vars PROVE WorkerTypeOK'
<1> USE DEF Typed, TypeOK, WorkerTypeOK
<1>1. /\ (manager \in {"off", "loading", "starting", "started", "failed"})'
      /\ (agenda \in {"none", "connecting", "open"})'
      /\ (polling \in BOOLEAN)'
  BY WorkerFrame DEF NextPhase, WorkerNext, TasksLoaded, AgendaConnects, AgendaFails, Scheduled,
       StartManager, StartFails, RunTask, TaskDone, StopWorker, StopAgenda, CloseClient,
       WorkerStopped, GetAgenda, agendaVars
<1>2. (clients \in Nat)' /\ (mongoClient \in 0..clients)' /\ (openClients \subseteq 1..clients)'
  <2>1. \/ UNCHANGED <<clients, mongoClient, openClients>>
        \/ AgendaConnects \/ StartFails
        \/ \E s \in Signals : CloseClient(s) \/ WorkerStopped(s)
    BY WorkerFrame DEF NextPhase, WorkerNext, TasksLoaded, AgendaFails, Scheduled, StartManager,
         RunTask, TaskDone, StopWorker, StopAgenda, agendaVars
  <2>2. CASE AgendaConnects
    <3>1. clients' = clients + 1 /\ mongoClient' = clients + 1
          /\ openClients' = openClients \cup {clients + 1}
      BY <2>2 DEF AgendaConnects
    <3> QED
      BY <3>1
  <2>3. CASE StartFails \/ \E s \in Signals : CloseClient(s) \/ WorkerStopped(s)
    <3>1. /\ clients' = clients
          /\ mongoClient' \in {mongoClient, 0}
          /\ openClients' \subseteq openClients
      BY <2>3 DEF StartFails, CloseClient, WorkerStopped
    <3> QED
      BY <3>1
  <2> QED
    BY <2>1, <2>2, <2>3
<1>3. (registration \in [Workers -> {"none", "agenda", "every", "resolved", "rejected"}])'
  <2>1. \/ UNCHANGED registration
        \/ TasksLoaded \/ AgendaConnects \/ AgendaFails \/ \E w \in Workers : Scheduled(w)
    BY WorkerFrame DEF NextPhase, WorkerNext, StartManager, StartFails, RunTask, TaskDone,
         StopWorker, StopAgenda, CloseClient, WorkerStopped
  <2>2. CASE TasksLoaded
    BY <2>2 DEF TasksLoaded
  <2>3. CASE AgendaConnects \/ AgendaFails
    BY <2>3 DEF AgendaConnects, AgendaFails
  <2>4. CASE \E w \in Workers : Scheduled(w)
    BY <2>4 DEF Scheduled
  <2> QED
    BY <2>1, <2>2, <2>3, <2>4
<1>4. (defined \subseteq Workers)' /\ (job \in [Workers -> {"idle", "running", "done"}])'
  BY WorkerFrame DEF NextPhase, WorkerNext, TasksLoaded, AgendaConnects, AgendaFails, Scheduled,
       StartManager, StartFails, RunTask, TaskDone, StopWorker, StopAgenda, CloseClient,
       WorkerStopped
<1> QED
  BY <1>1, <1>2, <1>3, <1>4

\* A gracefulShutdown() moves on, and begins once the process is online.
LEMMA PlaceFrame ==
    ASSUME Typed, [Next]_vars
    PROVE  \/ place' = place
           \/ \E s \in Signals, p \in Places \ {"none"} :
                 /\ place' = [place EXCEPT ![s] = p]
                 /\ place[s] = "none" => p = "web" /\ Online
<1>1. CASE UNCHANGED place
  BY <1>1
<1>2. ASSUME NEW s \in Signals, Signal(s)
      PROVE  \/ place' = [place EXCEPT ![s] = "none"] /\ place[s] = "none"
             \/ place' = [place EXCEPT ![s] = "web"] /\ Online
  BY <1>2 DEF Signal
<1>4. ASSUME NEW s \in Signals, place' = [place EXCEPT ![s] = "none"], place[s] = "none"
      PROVE  place' = place
  BY <1>4 DEF Typed, TypeOK
<1>3. ASSUME NEW s \in Signals,
             \/ CloseWeb(s) \/ WebClosed(s) \/ StopWorker(s) \/ StopAgenda(s) \/ CloseClient(s)
             \/ WorkerStopped(s) \/ CloseDashboard(s) \/ StopRabbit(s) \/ RabbitStopped(s)
             \/ Flush(s) \/ Flushed(s) \/ Disconnected(s) \/ Finish(s)
      PROVE  place[s] # "none" /\ \E p \in Places \ {"none"} : place' = [place EXCEPT ![s] = p]
  BY <1>3 DEF CloseWeb, WebClosed, StopWorker, StopAgenda, CloseClient, WorkerStopped,
              CloseDashboard, StopRabbit, RabbitStopped, Flush, Flushed, Disconnected, Finish,
              GoesTo, Places, CallsOut
<1> QED
  BY <1>1, <1>2, <1>3, <1>4, StopFrame DEF Places

LEMMA TypedStep == ASSUME Typed, [Next]_vars PROVE Typed'
<1> USE DEF Typed, TypeOK
<1>1. (exit \in {"no", "0", "1", "timer", "crash", "killed", "offline"})'
  BY ProcessFrame DEF TimeIsUp, Signal, Finish
<1>2. (elapsed \in 0..Timeout)' /\ (hung \in BOOLEAN)'
  <2>1. [Next]_vars => elapsed' = elapsed \/ elapsed < Timeout
    BY DEF Next, vars, processVars, TimeIsUp
  <2> QED
    <3>1. CASE UNCHANGED <<elapsed, hung>>
      BY <3>1
    <3>2. CASE Tick
      <4>1. elapsed' = elapsed + 1 /\ hung' = hung
        BY <3>2 DEF Tick, bootstrapVars
      <4> QED
        BY <2>1, <4>1 DEF Timeout
    <3>3. CASE Hang
      BY <3>3 DEF Hang, Timeout
    <3> QED
      BY <3>1, <3>2, <3>3, ProcessFrame
<1>3. (document \in [Work -> {"none", "queued", "inserting", "settled"}])'
  BY ProcessFrame DEF Respond, Consumed, TaskDone, Log, Buffers, InsertStarts, InsertSettles,
       MoveAll, Work
<1>4. deployment' \in Deployments
  BY StartFrame
<1>5. (phase \in {"mongo", "services", "servers", "online"})'
  BY StartFrame DEF NextPhase, WorkersOnline, ServerOnline, PartStarts, startVars
<1>6. (pending \subseteq Services \cup Servers)'
  BY StartFrame, BootstrapAssumption DEF NextPhase, WorkersOnline, ServerOnline, PartStarts
<1>7. (up \subseteq Services \cup {"consumer", "dashboard"})'
  BY ServiceFrame DEF PartStarts, CloseDashboard, RabbitStopped, Disconnected, Finish
<1>8. (delivery \in [Deliveries -> {"waiting", "running", "done"}])'
  BY ServiceFrame DEF Deliver, Consumed
<1>9. /\ (overlapped \in BOOLEAN)' /\ (drainFrom \in 0..Timeout)'
      /\ (place \in [Signals -> Places])'
      /\ (found \in [Signals -> SUBSET Work])'
  <2>1. (overlapped \in BOOLEAN)' /\ (drainFrom \in 0..Timeout)'
    BY StopFrame DEF Signal, CloseWeb, WebClosed, StopWorker, StopAgenda, CloseClient,
         WorkerStopped, CloseDashboard, StopRabbit, RabbitStopped, Flush, Flushed, Disconnected,
         Finish, drainVars
  <2>2. (place \in [Signals -> Places])'
    BY PlaceFrame
  <2>3. (found \in [Signals -> SUBSET Work])'
    <3>1. \/ found' = found
          \/ \E s \in Signals : found' = [found EXCEPT ![s] = In("queued") \cup In("inserting")]
      BY StopFrame DEF Signal, CloseWeb, WebClosed, StopWorker, StopAgenda, CloseClient,
           WorkerStopped, CloseDashboard, StopRabbit, RabbitStopped, Flush, Flushed,
           Disconnected, Finish
    <3> QED
      BY <3>1 DEF In
  <2> QED
    BY <2>1, <2>2, <2>3
<1>10. /\ (link \in {"null", "open", "dead"})'
       /\ (restart \in {"idle", "stop", "connect", "pool", "cooldown", "spinning"})'
       /\ (closer \in Signals \cup {"nobody", "restart"})'
       /\ (failures \in 0..deployment.failures)'
  <2>0. deployment' = deployment /\ deployment.failures \in Nat
    BY StartFrame, BootstrapAssumption
  <2>1. CASE UNCHANGED <<link, restart, failures, closer>>
    BY <2>0, <2>1
  <2>2. CASE \E p \in Services \cup Servers : PartStarts(p)
    BY <2>0, <2>2 DEF PartStarts, stopVars, drainVars
  <2>3. CASE \E s \in Signals : StopRabbit(s) \/ RabbitStopped(s)
    BY <2>0, <2>3 DEF StopRabbit, RabbitStopped, serviceVars, rabbitVars
  <2>4. CASE RabbitNext
    <3>1. failures' = failures \/ (failures < deployment.failures /\ failures' = failures + 1)
      BY <2>4 DEF RabbitNext, LinkLost, RestartStopped, Reconnect, ConnectFails, PoolFills,
                  PoolEmpty, CooldownEnds, RebuildRejects, Failure, bootstrapVars, serviceVars,
                  rabbitVars
    <3>2. (failures \in 0..deployment.failures)'
      BY <2>0, <3>1
    <3>3. /\ link' \in {"null", "open", "dead"}
          /\ closer' \in Signals \cup {"nobody", "restart"}
          /\ restart' \in {"idle", "stop", "connect", "pool", "cooldown", "spinning"}
      <4>1. ASSUME NEW l \in {"null", "open", "dead"}, BeginRestart(l)
            PROVE  /\ closer' \in Signals \cup {"nobody", "restart"}
                   /\ restart' \in {"idle", "stop", "connect", "pool", "cooldown", "spinning"}
        BY <4>1 DEF BeginRestart
      <4> QED
        BY <2>4, <4>1 DEF RabbitNext, LinkLost, RestartStopped, Reconnect, ConnectFails,
             PoolFills, PoolEmpty, CooldownEnds, RebuildRejects, bootstrapVars, serviceVars,
             rabbitVars, stopVars, drainVars
    <3> QED
      BY <3>2, <3>3
  <2> QED
    BY <2>1, <2>2, <2>3, <2>4, RabbitFrame
<1> QED
  BY <1>1, <1>2, <1>3, <1>4, <1>5, <1>6, <1>7, <1>8, <1>9, <1>10, WebTypes, WorkerTypes

\* A place changes by a step of its own shutdown.
LEMMA Arrives ==
    ASSUME Typed, [Next]_vars, NEW s \in Signals, place'[s] # place[s]
    PROVE  /\ exit = "no" /\ elapsed < Timeout
           /\ \/ Signal(s) \/ CloseWeb(s) \/ WebClosed(s) \/ StopWorker(s) \/ StopAgenda(s)
              \/ CloseClient(s) \/ WorkerStopped(s) \/ CloseDashboard(s) \/ StopRabbit(s)
              \/ RabbitStopped(s) \/ Flush(s) \/ Flushed(s) \/ Disconnected(s) \/ Finish(s)
           /\ \/ place[s] = "none" /\ place'[s] = "web" /\ Signal(s) /\ Online
              \/ place[s] = "web" /\ place'[s] = "webClosing" /\ CloseWeb(s) /\ Has("server")
              \/ place[s] = "web" /\ place'[s] = "worker" /\ CloseWeb(s) /\ ~Has("server")
              \/ place[s] = "webClosing" /\ place'[s] = "worker" /\ WebClosed(s)
              \/ place[s] = "worker" /\ place'[s] = "agenda" /\ StopWorker(s) /\ Has("worker")
              \/ place[s] = "worker" /\ place'[s] = "dashboard" /\ StopWorker(s) /\ ~Has("worker")
              \/ place[s] = "agenda" /\ place'[s] = "agendaStopping" /\ StopAgenda(s)
              \/ place[s] = "agendaStopping" /\ place'[s] = "clientClosing" /\ CloseClient(s)
              \/ place[s] = "clientClosing" /\ place'[s] = "dashboard" /\ WorkerStopped(s)
              \/ place[s] = "dashboard" /\ place'[s] = "rabbit" /\ CloseDashboard(s)
              \/ place[s] = "rabbit" /\ place'[s] = "draining" /\ StopRabbit(s)
              \/ place[s] = "rabbit" /\ place'[s] = "flush" /\ StopRabbit(s)
              \/ place[s] = "draining" /\ place'[s] = "flush" /\ RabbitStopped(s)
              \/ place[s] = "flush" /\ place'[s] = "flushing" /\ Flush(s)
              \/ place[s] = "flush" /\ place'[s] = "cache" /\ Flush(s)
              \/ place[s] = "flushing" /\ place'[s] = "disconnect" /\ Flushed(s)
              \/ place[s] = "disconnect" /\ place'[s] = "cache" /\ Disconnected(s)
              \/ place[s] = "cache" /\ place'[s] = "exit" /\ Finish(s)
<1>0. place \in [Signals -> Places]
  BY DEF Typed, TypeOK
<1>1. ASSUME NEW t \in Signals,
             \/ Signal(t) \/ CloseWeb(t) \/ WebClosed(t) \/ StopWorker(t) \/ StopAgenda(t)
             \/ CloseClient(t) \/ WorkerStopped(t) \/ CloseDashboard(t) \/ StopRabbit(t)
             \/ RabbitStopped(t) \/ Flush(t) \/ Flushed(t) \/ Disconnected(t) \/ Finish(t)
      PROVE  t = s
  BY <1>0, <1>1 DEF Signal, CloseWeb, WebClosed, StopWorker, StopAgenda, CloseClient, WorkerStopped,
         CloseDashboard, StopRabbit, RabbitStopped, Flush, Flushed, Disconnected, Finish, GoesTo
<1>2. /\ exit = "no" /\ elapsed < Timeout
      /\ \/ Signal(s) \/ CloseWeb(s) \/ WebClosed(s) \/ StopWorker(s) \/ StopAgenda(s)
         \/ CloseClient(s) \/ WorkerStopped(s) \/ CloseDashboard(s) \/ StopRabbit(s)
         \/ RabbitStopped(s) \/ Flush(s) \/ Flushed(s) \/ Disconnected(s) \/ Finish(s)
  BY <1>1, StopFrame
<1> QED
  BY <1>0, <1>2 DEF Signal, CloseWeb, WebClosed, StopWorker, StopAgenda, CloseClient, WorkerStopped,
         CloseDashboard, StopRabbit, RabbitStopped, Flush, Flushed, Disconnected, Finish, GoesTo

-----------------------------------------------------------------------------
(* Startup.                                                                *)

LEMMA BootsStep == ASSUME Typed, Boots, [Next]_vars PROVE Boots'
<1>0. /\ Dirs = 1..Len(RouteFiles) /\ Len(RouteFiles) \in Nat \ {0} /\ plugged \in 0..Len(RouteFiles)
      /\ load \in [Dirs -> {"none", "importing", "done"}] /\ DOMAIN callbacks = Dirs
      /\ isStarted \in BOOLEAN
  BY RoutesAssumption DEF Typed, TypeOK, WebTypeOK, Dirs
<1>1. CASE UNCHANGED <<isStarted, isLoadingRoutes, load, callbacks, plugged, routed, listener>>
  BY <1>1 DEF Boots
<1>2. ASSUME NEW d \in Dirs, DirectoryLoaded(d) PROVE Boots'
  <2>1. /\ load[d] = "importing" /\ load' = [load EXCEPT ![d] = "done"]
        /\ \A e \in Dirs \ {d} : callbacks'[e] = callbacks[e]
        /\ isLoadingRoutes' = FALSE
        /\ UNCHANGED <<isStarted, plugged, routed, listener>>
    BY <1>0, <1>2 DEF DirectoryLoaded, bootVars
  <2>2. \A e \in Dirs : load[e] = "done" => e # d /\ load'[e] = "done"
    BY <1>0, <2>1
  <2> QED
    BY <1>0, <2>1, <2>2 DEF Boots
<1>3. CASE ImportServer
  <2>1. /\ \A d \in Dirs : load[d] = "none"
        /\ load' = [d \in Dirs |-> "importing"]
        /\ isLoadingRoutes' = TRUE
        /\ UNCHANGED <<isStarted, plugged, routed, listener>>
    BY <1>3 DEF ImportServer, LoadDirectories, bootVars
  <2>2. listener = "off" /\ 1 \in Dirs
    BY <1>0, <2>1 DEF Boots
  <2> QED
    BY <2>1, <2>2 DEF Boots
<1>4. CASE ServerOnline
  BY <1>0, <1>4 DEF ServerOnline, Listen, loadVars, Boots
<1>5. CASE Poll
  <2>1. /\ listener = "polling" /\ ~isLoadingRoutes /\ listener' = "booting"
        /\ UNCHANGED <<isStarted, isLoadingRoutes, load, callbacks, plugged, routed>>
    BY <1>5 DEF Poll, loadVars
  <2>2. PICK d \in Dirs : load[d] = "done"
    BY <1>0, <2>1 DEF Boots
  <2>3. plugged = 0 /\ ~(d <= plugged)
    BY <1>0, <2>1 DEF Boots
  <2> QED
    BY <2>1, <2>2, <2>3 DEF Boots
<1>6. CASE PluginRuns
  <2>1. /\ listener = "booting" /\ plugged < Len(RouteFiles) /\ plugged' = plugged + 1
        /\ routed' = routed \cup callbacks[plugged + 1]
        /\ UNCHANGED <<isStarted, isLoadingRoutes, load, callbacks, listener>>
    BY <1>6 DEF PluginRuns, loadVars
  <2>2. PICK d \in Dirs : load[d] = "done" /\ (d <= plugged => callbacks[d] \subseteq routed)
    BY <2>1 DEF Boots
  <2>3. d <= plugged' => callbacks'[d] \subseteq routed'
    BY <1>0, <2>1, <2>2
  <2> QED
    BY <2>1, <2>2, <2>3 DEF Boots
<1>7. CASE Ready
  BY <1>7 DEF Ready, loadVars, Boots
<1> QED
  BY <1>1, <1>2, <1>3, <1>4, <1>5, <1>6, <1>7, BootFrame

\* A shutdown begins once, and does not end before the process.
LEMMA StoppingStep ==
    ASSUME Typed, [Next]_vars
    PROVE  (Stopping => Stopping') /\ (Stopping' => Stopping \/ Online)
<1>1. ASSUME NEW s \in Signals, NEW p \in Places \ {"none"}, place' = [place EXCEPT ![s] = p],
             place[s] = "none" => Online
      PROVE  Stopping' /\ (Stopping \/ Online)
  BY <1>1 DEF Stopping, Typed, TypeOK
<1> QED
  BY <1>1, PlaceFrame DEF Stopping

\* What a shutdown step takes away is taken in a shutdown.
LEMMA UpStep ==
    ASSUME Typed, [Next]_vars
    PROVE  \/ up' = up
           \/ \E p \in Services \cup Servers : PartStarts(p)
           \/ Stopping /\ up' \subseteq up
BY ServiceFrame DEF CloseDashboard, Disconnected, Finish, Stopping

LEMMA PhasesStep == ASSUME Typed, Phases, [Next]_vars PROVE Phases'
<1>0. /\ deployment' = deployment /\ deployment.services \subseteq Services
      /\ deployment.servers \subseteq Servers
  BY StartFrame, BootstrapAssumption DEF Typed, TypeOK
<1>1. (Stopping => Stopping') /\ (Stopping' => Stopping \/ Online)
  BY StoppingStep
<1>2. CASE UNCHANGED <<phase, pending, up>>
  BY <1>0, <1>1, <1>2 DEF Phases, Online
<1>3. ASSUME Stopping, up' \subseteq up, UNCHANGED <<phase, pending>> PROVE Phases'
  BY <1>0, <1>1, <1>3 DEF Phases, Online
<1>4. ASSUME NEW p \in Services \cup Servers, PartStarts(p) PROVE Phases'
  <2>1. /\ p \in pending /\ p \in Services \cup {"consumer", "dashboard"}
        /\ up' = up \cup {p} /\ pending' = pending \ {p} /\ phase' = phase
    BY <1>4 DEF PartStarts
  <2>2. p \in Services => p \in deployment.services
    BY <1>0, <2>1 DEF Phases, Typed, TypeOK, Online, Services, Servers
  <2> QED
    BY <1>0, <1>1, <2>1, <2>2 DEF Phases, Online
<1>5. CASE NextPhase
  BY <1>0, <1>1, <1>5 DEF NextPhase, Awaited, Phases, Online, serviceVars
<1>6. CASE WorkersOnline \/ ServerOnline
  <2>1. /\ phase' = phase /\ up' = up
        /\ pending' = pending \ {"worker"} \/ pending' = pending \ {"server"}
        /\ "worker" \in pending \/ "server" \in pending
    BY <1>6 DEF WorkersOnline, ServerOnline, serviceVars
  <2>2. phase \notin {"mongo", "services"}
    BY <1>0, <1>6 DEF Phases, WorkersOnline, ServerOnline, Services
  <2> QED
    BY <1>0, <1>1, <2>1, <2>2 DEF Phases, Online
<1> QED
  BY <1>2, <1>3, <1>4, <1>5, <1>6, StartFrame, UpStep

\* restart() holds closing while its own stop() waits, and only where RabbitMQ is
\* a service.
LEMMA RestartsStep == ASSUME Typed, Phases, Restarts, Closes, [Next]_vars PROVE Restarts'
<1>0. /\ deployment' = deployment /\ deployment.servers \subseteq Servers
      /\ deployment.services \subseteq Services
      /\ "restart" \notin Signals \cup {"nobody"}
  BY StartFrame, BootstrapAssumption DEF Typed, TypeOK
<1>1. CASE UNCHANGED <<link, restart, failures, closer>>
  BY <1>0, <1>1 DEF Restarts
<1>2. ASSUME NEW p \in Services \cup Servers, PartStarts(p) PROVE Restarts'
  <2>1. /\ UNCHANGED <<restart, closer>>
        /\ link' = link \/ "rabbit" \in pending
    BY <1>2 DEF PartStarts, stopVars, drainVars
  <2>2. "rabbit" \in pending => "rabbit" \in deployment.services
    BY <1>0 DEF Phases, Typed, TypeOK, Online, Services, Servers
  <2> QED
    BY <1>0, <2>1, <2>2 DEF Restarts
<1>3. ASSUME NEW s \in Signals, StopRabbit(s) \/ RabbitStopped(s) PROVE Restarts'
  <2>1. /\ restart' = restart /\ link' \in {link, "null"}
        /\ \/ closer' = closer
           \/ closer = "nobody" /\ closer' = s
           \/ closer = s /\ closer' = "nobody"
    BY <1>3 DEF StopRabbit, RabbitStopped, serviceVars, rabbitVars, Closes
  <2> QED
    BY <1>0, <2>1 DEF Restarts
<1>4. CASE RabbitNext
  <2>1. CASE LinkLost \/ RestartStopped \/ Reconnect \/ PoolFills \/ CooldownEnds
    BY <1>0, <2>1 DEF LinkLost, RestartStopped, Reconnect, PoolFills, CooldownEnds, BeginRestart,
                      Restarts
  <2>2. CASE ConnectFails \/ PoolEmpty
    <3>1. /\ restart # "idle" /\ link' = link /\ restart # "stop"
          /\ BeginRestart("null") \/ BeginRestart(link)
      BY <2>2 DEF ConnectFails, PoolEmpty
    <3>2. link \in {"null", "open", "dead"}
      BY DEF Typed, TypeOK
    <3>3. \/ restart' = "stop" /\ closer' = "restart"
          \/ restart' \in {"connect", "pool", "spinning", "cooldown"} /\ closer' = closer
      BY <3>1, <3>2 DEF BeginRestart
    <3> QED
      BY <1>0, <3>1, <3>3 DEF Restarts
  <2>3. CASE RebuildRejects
    BY <1>0, <2>3 DEF RebuildRejects, bootstrapVars, serviceVars, rabbitVars, stopVars, drainVars,
                      Restarts
  <2> QED
    BY <1>4, <2>1, <2>2, <2>3 DEF RabbitNext
<1> QED
  BY <1>1, <1>2, <1>3, <1>4, RabbitFrame

\* A server begins when its phase waits for it.
LEMMA ServerBegins ==
    ASSUME Typed, Phases, [Next]_vars
    PROVE  /\ listener' = "off" => listener = "off"
           /\ listener # listener' /\ listener = "off" =>
                 phase = "servers" /\ UNCHANGED phase /\ Has("server")
           /\ manager # manager' => \/ NextPhase /\ phase = "services"
                                    \/ manager # "off" /\ manager' # "off"
           /\ phase' # phase => NextPhase
           /\ "consumer" \in up' => "consumer" \in up \/ (phase = "servers" /\ UNCHANGED phase)
<1>0. deployment.services \subseteq Services /\ deployment.servers \subseteq Servers
  BY BootstrapAssumption DEF Typed, TypeOK
<1>1. (listener' = "off") => (listener = "off")
  BY BootFrame DEF DirectoryLoaded, ImportServer, LoadDirectories, ServerOnline, Listen, Poll,
                   PluginRuns, Ready, bootVars
<1>2. ASSUME listener # listener', listener = "off"
      PROVE  phase = "servers" /\ UNCHANGED phase /\ Has("server")
  <2>1. ServerOnline
    BY <1>2, BootFrame DEF DirectoryLoaded, ImportServer, LoadDirectories, Poll, PluginRuns,
                           Ready, bootVars
  <2>2. "server" \in pending /\ UNCHANGED phase
    BY <2>1 DEF ServerOnline
  <2> QED
    BY <1>0, <2>2 DEF Phases, Online, Services, Has, Typed, TypeOK
<1>3. manager # manager' => \/ NextPhase /\ phase = "services"
                            \/ manager # "off" /\ manager' # "off"
  BY WorkerFrame DEF NextPhase, WorkerNext, TasksLoaded, AgendaConnects, AgendaFails, Scheduled,
       StartManager, StartFails, RunTask, TaskDone, StopWorker, StopAgenda, CloseClient,
       WorkerStopped, agendaVars
<1>4. phase' # phase => NextPhase
  BY StartFrame DEF PartStarts, WorkersOnline, ServerOnline
<1>5. ASSUME "consumer" \in up', "consumer" \notin up PROVE phase = "servers" /\ UNCHANGED phase
  <2>1. PICK p \in Services \cup Servers : PartStarts(p)
    BY <1>5, UpStep
  <2>2. "consumer" \in pending /\ UNCHANGED phase
    BY <1>5, <2>1 DEF PartStarts
  <2> QED
    BY <1>0, <2>2 DEF Phases, Online, Services, Typed, TypeOK
<1> QED
  BY <1>1, <1>2, <1>3, <1>4, <1>5

\* The workers' phase ends with a manager that has started, and so it stays.
LEMMA ManagerStep ==
    ASSUME Typed, Phases, Waiting, [Next]_vars
    PROVE  (Has("worker") /\ phase \in {"servers", "online"} /\ "worker" \notin pending =>
               manager = "started")'
<1>0. deployment' = deployment
  BY StartFrame
<1>1. manager = "started" => manager' = "started" \/ NextPhase
  BY WorkerFrame DEF WorkerNext, TasksLoaded, AgendaConnects, AgendaFails, Scheduled,
       StartManager, StartFails, RunTask, TaskDone, StopWorker, StopAgenda, CloseClient,
       WorkerStopped, agendaVars
<1>2. CASE NextPhase
  BY <1>0, <1>2 DEF NextPhase, Has, Waiting, Awaited
<1>3. CASE WorkersOnline
  BY <1>3 DEF WorkersOnline, Parts, workerVars
<1>4. ASSUME ~NextPhase, ~WorkersOnline
      PROVE  phase' = phase /\ ("worker" \in pending => "worker" \in pending')
  BY <1>4, StartFrame DEF ServerOnline, PartStarts, Services
<1> QED
  BY <1>0, <1>1, <1>2, <1>3, <1>4 DEF Has, Waiting

LEMMA WaitingStep ==
    ASSUME Typed, Phases, Restarts, Waiting, Boots, [Next]_vars
    PROVE  Waiting'
<1>0. deployment' = deployment
  BY StartFrame
<1>1. (phase \in {"mongo", "services"} => listener = "off" /\ manager = "off" /\ "consumer" \notin up)'
  <2>1. NextPhase => /\ phase = "mongo" => phase' = "services" /\ manager' = manager
                     /\ phase = "services" => phase' = "servers"
                     /\ phase = "servers" => phase' = "online"
                     /\ UNCHANGED <<listener, up>>
                     /\ phase \in {"mongo", "services", "servers"}
    BY DEF NextPhase, webVars, bootVars, serviceVars
  <2>2. CASE NextPhase
    BY <2>1, <2>2 DEF Waiting
  <2>3. CASE ~NextPhase
    BY <2>3, ServerBegins DEF Waiting
  <2> QED
    BY <2>2, <2>3
<1>2. (listener # "off" => Has("server"))'
  BY <1>0, ServerBegins DEF Waiting, Has
<1>3. (\A c \in Conns : socket[c] # "none" \/ request[c] # "none" => listener = "listening")'
  <2>1. listener = "listening" => listener' = "listening"
    BY BootFrame DEF DirectoryLoaded, ImportServer, LoadDirectories, ServerOnline, Listen, Poll,
                     PluginRuns, Ready, bootVars, Boots
  <2>2. ASSUME NEW c \in Conns, socket'[c] # "none" \/ request'[c] # "none"
        PROVE  listener = "listening"
    <3>1. socket \in [Conns -> {"none", "open", "ended", "closed"}]
          /\ request \in [Conns -> {"none", "running", "answered", "lost"}]
      BY DEF Typed, TypeOK, WebTypeOK
    <3>2. ASSUME NEW d \in Conns, Request(d) \/ Respond(d) \/ Disconnect(d) \/ Destroy(d)
          PROVE  listener = "listening"
      BY <3>2 DEF Request, Respond, Disconnect, Destroy, Overdue, Waiting
    <3>3. ASSUME NEW s \in Signals, CloseWeb(s)
          PROVE  socket[c] # "none" \/ request[c] # "none"
      BY <2>2, <3>1, <3>3 DEF CloseWeb, StartClose
    <3> QED
      BY <2>2, <3>2, <3>3, ConnFrame DEF Waiting
  <2> QED
    BY <2>1, <2>2
<1>4. (\A m \in Deliveries : delivery[m] # "waiting" =>
          "rabbit" \in deployment.services /\ phase \in {"servers", "online"})'
  <2>1. phase \in {"servers", "online"} => phase' \in {"servers", "online"}
    BY StartFrame DEF NextPhase, PartStarts, WorkersOnline, ServerOnline
  <2>2. ASSUME NEW m \in Deliveries, delivery'[m] # "waiting"
        PROVE  "rabbit" \in deployment.services /\ phase \in {"servers", "online"}
    <3>1. delivery \in [Deliveries -> {"waiting", "running", "done"}]
          /\ phase \in {"mongo", "services", "servers", "online"}
      BY DEF Typed, TypeOK
    <3>2. CASE delivery[m] # "waiting"
      BY <3>2 DEF Waiting
    <3>3. CASE delivery[m] = "waiting"
      <4>1. Deliver(m)
        BY <2>2, <3>1, <3>3, ServiceFrame DEF Deliver, Consumed
      <4>2. link = "open" /\ "consumer" \in up
        BY <4>1 DEF Deliver
      <4> QED
        BY <3>1, <4>2 DEF Restarts, Waiting
    <3> QED
      BY <3>2, <3>3
  <2> QED
    BY <1>0, <2>1, <2>2
<1> QED
  BY <1>1, <1>2, <1>3, <1>4, ManagerStep DEF Waiting

LEMMA TasksStep == ASSUME Typed, Phases, Waiting, Tasks, [Next]_vars PROVE Tasks'
<1>1. CASE UNCHANGED <<manager, agenda, clients, mongoClient, openClients, registration, defined,
                       polling, job>>
  BY <1>1, StartFrame DEF Tasks, Registered, Has
<1>2. CASE NextPhase
  <2>1. /\ manager' = manager \/ (manager = "off" /\ manager' = "loading" /\ Has("worker"))
        /\ UNCHANGED <<agenda, openClients, registration, polling, job, deployment>>
    BY <1>2 DEF NextPhase, agendaVars, Waiting, Has
  <2> QED
    BY <2>1 DEF Tasks, Registered, Has
<1>3. CASE WorkerNext
  <2>1. manager' # "off" => manager # "off"
    BY <1>3 DEF WorkerNext, TasksLoaded, AgendaConnects, AgendaFails, Scheduled, StartManager,
                StartFails, RunTask, TaskDone
  <2>2. agenda' # "none" \/ openClients' # {} => manager # "off"
    BY <1>3 DEF WorkerNext, TasksLoaded, AgendaConnects, AgendaFails, Scheduled, StartManager,
                StartFails, RunTask, TaskDone, agendaVars, GetAgenda, Tasks
  <2>3. \A w \in Workers : job'[w] # "idle" => manager # "off"
    BY <1>3 DEF WorkerNext, TasksLoaded, AgendaConnects, AgendaFails, Scheduled, StartManager,
                StartFails, RunTask, TaskDone, Tasks, Typed, TypeOK, WorkerTypeOK
  <2>4. manager # "off" => manager' # "off"
    BY <1>3 DEF WorkerNext, TasksLoaded, AgendaConnects, AgendaFails, Scheduled, StartManager,
                StartFails, RunTask, TaskDone
  <2>5. polling' => manager' = "started" /\ Registered'
    <3>1. CASE UNCHANGED <<manager, registration, polling>>
      BY <3>1 DEF Tasks, Registered
    <3>2. CASE TasksLoaded \/ AgendaFails \/ StartFails
      BY <3>2 DEF TasksLoaded, AgendaFails, StartFails, Tasks
    <3>3. CASE AgendaConnects
      BY <3>3 DEF AgendaConnects, Tasks, Registered
    <3>4. CASE StartManager
      BY <3>4 DEF StartManager, Registered
    <3>5. ASSUME NEW w \in Workers, Scheduled(w) PROVE ~polling'
      BY <3>5 DEF Scheduled, Tasks, Registered
    <3> QED
      BY <1>3, <3>1, <3>2, <3>3, <3>4, <3>5 DEF WorkerNext, RunTask, TaskDone
  <2> QED
    BY <2>1, <2>2, <2>3, <2>4, <2>5, StartFrame DEF Tasks, Has
<1>4. ASSUME NEW s \in Signals,
             StopWorker(s) \/ StopAgenda(s) \/ CloseClient(s) \/ WorkerStopped(s)
      PROVE  Tasks'
  <2>1. /\ UNCHANGED <<manager, registration, job, deployment>>
        /\ polling' = polling \/ polling' = FALSE
        /\ openClients' \subseteq openClients
        /\ agenda' # "none" => agenda # "none" \/ Has("worker")
    BY <1>4 DEF StopWorker, StopAgenda, CloseClient, WorkerStopped, GetAgenda, Stays, startVars,
                agendaVars
  <2>2. Stopping
    BY <1>4 DEF StopWorker, StopAgenda, CloseClient, WorkerStopped, Stopping
  <2>3. Has("worker") => manager = "started"
    BY <2>2 DEF Phases, Online, Waiting
  <2> QED
    BY <2>1, <2>3 DEF Tasks, Registered, Has
<1> QED
  BY <1>1, <1>2, <1>3, <1>4, WorkerFrame

-----------------------------------------------------------------------------
(* The log.                                                                *)

\* The end of a unit logs it, and only it.
LEMMA UnloggedStep == ASSUME Typed, Unlogged, [Next]_vars PROVE Unlogged'
<1>0. /\ document \in [Work -> {"none", "queued", "inserting", "settled"}]
      /\ request \in [Conns -> {"none", "running", "answered", "lost"}]
      /\ delivery \in [Deliveries -> {"waiting", "running", "done"}]
      /\ job \in [Workers -> {"idle", "running", "done"}]
      /\ socket \in [Conns -> {"none", "open", "ended", "closed"}]
      /\ Conns \subseteq Work /\ Deliveries \subseteq Work /\ Workers \subseteq Work
  BY DEF Typed, TypeOK, WebTypeOK, WorkerTypeOK, Work
<1>1. ASSUME NEW c \in Conns, request'[c] \in {"none", "running"} PROVE document'[c] = "none"
  <2>1. request[c] \in {"none", "running"} /\ document[c] = "none"
    <3>1. \/ request' = request
          \/ \E d \in Conns : \/ request[d] = "running" /\ \E a \in {"answered", "lost"} :
                                                    request' = [request EXCEPT ![d] = a]
                              \/ Request(d)
      BY ConnFrame DEF Respond, Disconnect, Destroy, CloseWeb
    <3>2. ASSUME NEW d \in Conns, Request(d) PROVE request[c] \in {"none", "running"}
      BY <1>0, <1>1, <3>2 DEF Request, Unlogged
    <3>3. request[c] \in {"none", "running"}
      BY <1>0, <1>1, <3>1, <3>2
    <3> QED
      BY <3>3 DEF Unlogged
  <2>2. ASSUME NEW d \in Conns, Respond(d) PROVE document'[c] = "none"
    BY <1>0, <1>1, <2>1, <2>2 DEF Respond, Log
  <2>3. ASSUME NEW m \in Deliveries, Consumed(m) PROVE document'[c] = "none"
    BY <1>0, <2>1, <2>3, WorkAssumption DEF Consumed, Log
  <2>4. ASSUME NEW w \in Workers, TaskDone(w) PROVE document'[c] = "none"
    BY <1>0, <2>1, <2>4, WorkAssumption DEF TaskDone, Log
  <2>5. CASE Buffers
    BY <1>0, <2>1, <2>5 DEF Buffers, InsertStarts, InsertSettles, MoveAll
  <2> QED
    BY <2>1, <2>2, <2>3, <2>4, <2>5, ProcessFrame
<1>2. ASSUME NEW m \in Deliveries, delivery'[m] \in {"waiting", "running"}
      PROVE  document'[m] = "none"
  <2>1. delivery[m] \in {"waiting", "running"} /\ document[m] = "none"
    BY <1>0, <1>2, ServiceFrame DEF Deliver, Consumed, Unlogged
  <2>2. ASSUME NEW d \in Conns, Respond(d) PROVE document'[m] = "none"
    BY <1>0, <2>1, <2>2, WorkAssumption DEF Respond, Log
  <2>3. ASSUME NEW n \in Deliveries, Consumed(n) PROVE document'[m] = "none"
    BY <1>0, <1>2, <2>1, <2>3 DEF Consumed, Log
  <2>4. ASSUME NEW w \in Workers, TaskDone(w) PROVE document'[m] = "none"
    BY <1>0, <2>1, <2>4, WorkAssumption DEF TaskDone, Log
  <2>5. CASE Buffers
    BY <1>0, <2>1, <2>5 DEF Buffers, InsertStarts, InsertSettles, MoveAll
  <2> QED
    BY <2>1, <2>2, <2>3, <2>4, <2>5, ProcessFrame
<1>3. ASSUME NEW w \in Workers, job'[w] \in {"idle", "running"} PROVE document'[w] = "none"
  <2>1. job[w] \in {"idle", "running"} /\ document[w] = "none"
    BY <1>0, <1>3, WorkerFrame DEF NextPhase, WorkerNext, TasksLoaded, AgendaConnects, AgendaFails,
         Scheduled, StartManager, StartFails, RunTask, TaskDone, StopWorker, StopAgenda,
         CloseClient, WorkerStopped, Unlogged
  <2>2. ASSUME NEW d \in Conns, Respond(d) PROVE document'[w] = "none"
    BY <1>0, <2>1, <2>2, WorkAssumption DEF Respond, Log
  <2>3. ASSUME NEW n \in Deliveries, Consumed(n) PROVE document'[w] = "none"
    BY <1>0, <2>1, <2>3, WorkAssumption DEF Consumed, Log
  <2>4. ASSUME NEW v \in Workers, TaskDone(v) PROVE document'[w] = "none"
    BY <1>0, <1>3, <2>1, <2>4 DEF TaskDone, Log
  <2>5. CASE Buffers
    BY <1>0, <2>1, <2>5 DEF Buffers, InsertStarts, InsertSettles, MoveAll
  <2> QED
    BY <2>1, <2>2, <2>3, <2>4, <2>5, ProcessFrame
<1>4. ASSUME NEW c \in Conns, socket'[c] = "none" PROVE request'[c] = "none"
  <2>1. socket[c] = "none" /\ (request'[c] = request[c] \/ request[c] = "running")
    <3>1. ASSUME NEW d \in Conns, Request(d) \/ Respond(d) \/ Disconnect(d) \/ Destroy(d)
          PROVE  socket[c] = "none" /\ (request'[c] = request[c] \/ request[c] = "running")
      BY <1>0, <1>4, <3>1 DEF Request, Respond, Disconnect, Destroy
    <3>2. ASSUME NEW s \in Signals, CloseWeb(s)
          PROVE  socket[c] = "none" /\ request'[c] = request[c]
      BY <1>0, <1>4, <3>2 DEF CloseWeb, StartClose
    <3> QED
      BY <1>4, <3>1, <3>2, ConnFrame
  <2> QED
    BY <2>1 DEF Unlogged
<1> QED
  BY <1>1, <1>2, <1>3, <1>4 DEF Unlogged

\* A document does not go, and the unit that ends has one.
LEMMA LoggedStep == ASSUME Typed, Logged, [Next]_vars PROVE Logged'
<1>0. /\ document \in [Work -> {"none", "queued", "inserting", "settled"}]
      /\ request \in [Conns -> {"none", "running", "answered", "lost"}]
      /\ delivery \in [Deliveries -> {"waiting", "running", "done"}]
      /\ Conns \subseteq Work /\ Deliveries \subseteq Work /\ Workers \subseteq Work
  BY DEF Typed, TypeOK, WebTypeOK, Work
<1>1. ASSUME NEW u \in Work, document[u] # "none" PROVE document'[u] # "none"
  BY <1>0, <1>1, ProcessFrame DEF Respond, Consumed, TaskDone, Log, Buffers, InsertStarts,
                                  InsertSettles, MoveAll
<1>2. ASSUME NEW c \in Conns, request'[c] = "answered" PROVE document'[c] # "none"
  <2>1. CASE request[c] = "answered"
    BY <1>0, <1>1, <2>1 DEF Logged
  <2>2. CASE request[c] # "answered"
    <3>1. Respond(c)
      BY <1>0, <1>2, <2>2, ConnFrame DEF Request, Respond, Disconnect, Destroy, CloseWeb
    <3> QED
      BY <1>0, <3>1 DEF Respond, Log
  <2> QED
    BY <2>1, <2>2
<1>3. ASSUME NEW m \in Deliveries, delivery'[m] = "done" PROVE document'[m] # "none"
  <2>1. CASE delivery[m] = "done"
    BY <1>0, <1>1, <2>1 DEF Logged
  <2>2. CASE delivery[m] # "done"
    <3>1. Consumed(m)
      BY <1>0, <1>3, <2>2, ServiceFrame DEF Deliver, Consumed
    <3> QED
      BY <1>0, <3>1 DEF Consumed, Log
  <2> QED
    BY <2>1, <2>2
<1> QED
  BY <1>2, <1>3 DEF Logged

\* A document that is stored stays stored: its unit does not end again.
LEMMA SettledStays == ASSUME Typed, Unlogged, [Next]_vars PROVE In("settled") \subseteq In("settled")'
<1>0. /\ document \in [Work -> {"none", "queued", "inserting", "settled"}]
      /\ Conns \subseteq Work /\ Deliveries \subseteq Work /\ Workers \subseteq Work
  BY DEF Typed, TypeOK, Work
<1>1. SUFFICES ASSUME NEW u \in Work, document[u] = "settled" PROVE document'[u] = "settled"
  BY DEF In
<1>2. ASSUME NEW c \in Conns, Respond(c) PROVE document'[u] = "settled"
  BY <1>0, <1>1, <1>2 DEF Respond, Log, Unlogged
<1>3. ASSUME NEW m \in Deliveries, Consumed(m) PROVE document'[u] = "settled"
  BY <1>0, <1>1, <1>3 DEF Consumed, Log, Unlogged
<1>4. ASSUME NEW w \in Workers, TaskDone(w) PROVE document'[u] = "settled"
  BY <1>0, <1>1, <1>4 DEF TaskDone, Log, Unlogged
<1>5. CASE Buffers
  BY <1>0, <1>1, <1>5 DEF Buffers, InsertStarts, InsertSettles, MoveAll
<1> QED
  BY <1>1, <1>2, <1>3, <1>4, <1>5, ProcessFrame

LEMMA FlushesStep == ASSUME Typed, Unlogged, Flushes, [Next]_vars PROVE Flushes'
<1>0. place \in [Signals -> Places] /\ found \in [Signals -> SUBSET Work]
  BY DEF Typed, TypeOK
<1>1. ASSUME NEW s \in Signals PROVE (place[s] = "flushing" \/ found[s] \subseteq In("settled"))'
  <2>1. CASE found[s] \subseteq In("settled") /\ found'[s] = found[s]
    BY <2>1, SettledStays
  <2>2. CASE found'[s] # found[s]
    BY <1>0, <2>2, StopFrame DEF Signal, CloseWeb, WebClosed, StopWorker, StopAgenda, CloseClient,
         WorkerStopped, CloseDashboard, StopRabbit, RabbitStopped, Flush, Flushed, Disconnected,
         Finish, GoesTo
  <2>3. CASE ~(found[s] \subseteq In("settled"))
    <3>1. place[s] = "flushing"
      BY <2>3 DEF Flushes
    <3>2. ~Flushed(s)
      BY <2>3 DEF Flushed
    <3>3. place'[s] = "flushing"
      BY <3>1, <3>2, Arrives
    <3> QED
      BY <3>3
  <2> QED
    BY <2>1, <2>2, <2>3
<1> QED
  BY <1>1 DEF Flushes

-----------------------------------------------------------------------------
(* The shutdown.                                                           *)

\* Nothing is added once the process is online.
LEMMA OnlineStays ==
    ASSUME Typed, Phases, Online, [Next]_vars
    PROVE  Online' /\ up' \subseteq up
<1>1. /\ Services \cup Servers \subseteq Services \cup Servers /\ pending = {}
  BY DEF Phases
<1>2. Online'
  BY <1>1, StartFrame DEF NextPhase, PartStarts, WorkersOnline, ServerOnline, Online, startVars
<1>3. up' \subseteq up
  BY <1>1, ServiceFrame DEF PartStarts, CloseDashboard, RabbitStopped, Disconnected, Finish
<1> QED
  BY <1>2, <1>3

\* close() ends what is open, and Fastify takes nothing more.
LEMMA WebCloses ==
    ASSUME Typed, Waiting, Waiting', Closes, [Next]_vars
    PROVE  /\ closing => closing'
           /\ (closing => Has("server") /\ \A c \in Conns : socket[c] # "open")'
           /\ \A s \in Signals :
                 (/\ place[s] = "webClosing" => closing
                  /\ place[s] \in PastWeb => /\ Has("server") => closing
                                             /\ \A c \in Conns : socket[c] \notin {"open", "ended"})'
<1>0. /\ socket \in [Conns -> {"none", "open", "ended", "closed"}] /\ closing \in BOOLEAN
      /\ place \in [Signals -> Places]
  BY DEF Typed, TypeOK, WebTypeOK
<1>d. deployment' = deployment
  BY StartFrame
<1>1. closing => closing'
  BY ConnFrame DEF Request, Respond, Disconnect, Destroy, CloseWeb, StartClose
<1>2. (closing => Has("server") /\ \A c \in Conns : socket[c] # "open")'
  BY <1>0, <1>d, ConnFrame
     DEF Request, Respond, Disconnect, Destroy, CloseWeb, StartClose, Closes, Has
<1>3. ASSUME NEW c \in Conns, socket[c] \notin {"open", "ended"}, closing
      PROVE  socket'[c] \notin {"open", "ended"}
  BY <1>0, <1>3, ConnFrame DEF Request, Respond, Disconnect, Destroy, CloseWeb, StartClose
<1>4. ASSUME NEW c \in Conns, ~Has("server") PROVE socket'[c] = "none"
  BY <1>d, <1>4 DEF Waiting, Has
<1>5. ASSUME NEW s \in Signals, place'[s] = "webClosing" PROVE closing'
  <2>1. CASE place'[s] = place[s]
    BY <1>1, <1>5, <2>1 DEF Closes
  <2>2. CASE place'[s] # place[s]
    BY <1>5, <2>2, Arrives DEF CloseWeb, StartClose
  <2> QED
    BY <2>1, <2>2
<1>6. ASSUME NEW s \in Signals, place'[s] \in PastWeb
      PROVE  /\ Has("server") => closing
             /\ closing => \A c \in Conns : socket[c] \notin {"open", "ended"}
  <2>1. CASE place[s] \in PastWeb
    BY <2>1 DEF Closes
  <2>2. CASE place[s] \notin PastWeb
    BY <1>6, <2>2, Arrives
    DEF WebClosed, Closed, Closes, PastWeb, PastWorker, PastDashboard, PastRabbit, PastFlush
  <2> QED
    BY <2>1, <2>2
<1>7. ASSUME NEW s \in Signals, place'[s] \in PastWeb
      PROVE  /\ Has("server")' => closing'
             /\ \A c \in Conns : socket'[c] \notin {"open", "ended"}
  <2>1. Has("server")' = Has("server")
    BY <1>d DEF Has
  <2> QED
    BY <1>1, <1>3, <1>4, <1>6, <1>7, <2>1
<1> QED
  BY <1>1, <1>2, <1>5, <1>7

LEMMA ClosesStep ==
    ASSUME Typed, Phases, Restarts, Waiting, Waiting', Closes, [Next]_vars
    PROVE  Closes'
<1>0. /\ place \in [Signals -> Places] /\ closer \in Signals \cup {"nobody", "restart"}
      /\ "nobody" \notin Signals /\ "restart" \notin Signals
      /\ up \subseteq Services \cup {"consumer", "dashboard"}
      /\ deployment' = deployment
  BY StartFrame, BootstrapAssumption DEF Typed, TypeOK
<1>u. ASSUME NEW s \in Signals, place[s] # "none" PROVE up' \subseteq up
  BY <1>u, OnlineStays DEF Phases, Stopping
<1>1. ASSUME NEW s \in Signals PROVE (place[s] = "draining" <=> closer = s)'
  <2>0. RabbitNext => UNCHANGED place
    BY DEF RabbitNext, LinkLost, RestartStopped, Reconnect, ConnectFails, PoolFills, PoolEmpty,
           CooldownEnds, RebuildRejects, RabbitStays, bootstrapVars, stopVars
  <2>1. CASE UNCHANGED place /\ (closer' = s <=> closer = s)
    BY <2>1 DEF Closes
  <2>5. RabbitNext => (closer' = s <=> closer = s)
    BY <1>0 DEF RabbitNext, LinkLost, RestartStopped, Reconnect, ConnectFails, PoolFills,
       PoolEmpty, CooldownEnds, RebuildRejects, BeginRestart, bootstrapVars, stopVars, drainVars,
       Restarts
  <2>6. ASSUME NEW p \in Services \cup Servers, PartStarts(p) PROVE UNCHANGED <<place, closer>>
    BY <2>6 DEF PartStarts, stopVars, drainVars
  <2>2. ASSUME NEW t \in Signals, StopRabbit(t) PROVE place'[s] = "draining" <=> closer' = s
    BY <1>0, <2>2, BootstrapAssumption DEF StopRabbit, GoesTo, Closes
  <2>3. ASSUME NEW t \in Signals, RabbitStopped(t) PROVE place'[s] = "draining" <=> closer' = s
    BY <1>0, <2>3, BootstrapAssumption DEF RabbitStopped, GoesTo, Closes
  <2>4. ASSUME NEW t \in Signals,
               \/ Signal(t) \/ CloseWeb(t) \/ WebClosed(t) \/ StopWorker(t) \/ StopAgenda(t)
               \/ CloseClient(t) \/ WorkerStopped(t) \/ CloseDashboard(t)
               \/ Flush(t) \/ Flushed(t) \/ Disconnected(t) \/ Finish(t)
        PROVE  place'[s] = "draining" <=> closer' = s
    <3>1. closer' = closer /\ (place'[s] = "draining" <=> place[s] = "draining")
      BY <1>0, <2>4 DEF Signal, CloseWeb, WebClosed, StopWorker, StopAgenda, CloseClient,
           WorkerStopped, CloseDashboard, Flush, Flushed, Disconnected, Finish, GoesTo, drainVars
    <3> QED
      BY <3>1 DEF Closes
  <2>7. CASE UNCHANGED <<closer, place>>
    BY <2>1, <2>7
  <2> QED
    BY <2>0, <2>1, <2>2, <2>3, <2>4, <2>5, <2>6, <2>7, StopFrame, RabbitFrame
<1>2. ASSUME NEW s \in Signals, place'[s] \in PastDashboard PROVE "dashboard" \notin up'
  <2>1. CASE place[s] \in PastDashboard
    BY <1>u, <2>1 DEF Closes, PastDashboard, PastRabbit, PastFlush
  <2>2. CASE place[s] \notin PastDashboard
    BY <1>2, <2>2, Arrives DEF CloseDashboard, PastDashboard, PastRabbit, PastFlush
  <2> QED
    BY <2>1, <2>2
<1>3. ASSUME NEW s \in Signals, place'[s] \in {"cache", "exit"} PROVE "mongo" \notin up'
  <2>1. CASE place[s] \in {"cache", "exit"}
    BY <1>u, <2>1 DEF Closes
  <2>2. CASE place[s] \notin {"cache", "exit"}
    <3>1. Disconnected(s) \/ (Flush(s) /\ place'[s] = "cache" /\ place[s] = "flush")
      BY <1>3, <2>2, Arrives
    <3>2. CASE Disconnected(s)
      BY <3>2 DEF Disconnected
    <3>3. CASE Flush(s) /\ place'[s] = "cache" /\ place[s] = "flush"
      <4>1. "mongo" \notin deployment.services /\ up' = up
        BY <1>0, <3>3 DEF Flush, serviceVars, GoesTo
      <4> QED
        BY <4>1 DEF Phases, Services
    <3> QED
      BY <3>1, <3>2, <3>3
  <2> QED
    BY <2>1, <2>2
<1>4. ASSUME NEW s \in Signals, place'[s] = "exit" PROVE exit' = "0" /\ "memcached" \notin up'
  <2>1. CASE place[s] = "exit"
    <3>1. exit' = exit
      BY <2>1 DEF Closes, Next, vars, processVars
    <3> QED
      BY <1>u, <2>1, <3>1 DEF Closes
  <2>2. CASE place[s] # "exit"
    BY <1>4, <2>2, Arrives DEF Finish
  <2> QED
    BY <2>1, <2>2
<1>5. ASSUME exit' = "0", deployment'.production PROVE \E s \in Signals : place'[s] = "exit"
  <2>1. CASE exit = "0"
    <3>1. place' = place
      BY <2>1 DEF Next, vars, bootstrapVars, stopVars
    <3> QED
      BY <1>0, <1>5, <2>1, <3>1 DEF Closes
  <2>2. CASE exit # "0"
    <3>1. PICK s \in Signals : Finish(s)
      BY <1>0, <1>5, <2>2, ProcessFrame DEF TimeIsUp, Signal
    <3> QED
      BY <1>0, <3>1 DEF Finish, GoesTo
  <2> QED
    BY <2>1, <2>2
<1> QED
  BY <1>1, <1>2, <1>3, <1>4, <1>5, WebCloses DEF Closes

-----------------------------------------------------------------------------
(* The shutdown of one signal.                                             *)

\* While a signal is the only one, only its shutdown moves.
LEMMA OneMoves ==
    ASSUME Typed, [Next]_vars, NEW s \in Signals, Alone(s)'
    PROVE  /\ Alone(s)
           /\ \A t \in Signals : place'[t] # place[t] => t = s
           /\ UNCHANGED place \/ place'[s] # place[s]
           /\ \A t \in Signals : place[t] # "none" => t = s
<1>0. place \in [Signals -> Places]
  BY DEF Typed, TypeOK
<1>1. ASSUME NEW t \in Signals, t # s PROVE place[t] = "none"
  <2>1. place'[t] = "none"
    BY <1>1 DEF Alone
  <2> QED
    BY <1>0, <2>1, PlaceFrame
<1>2. \A t \in Signals : place'[t] # place[t] => t = s
  BY <1>1 DEF Alone
<1>3. place' \in [Signals -> Places]
  BY TypedStep DEF Typed, TypeOK
<1>4. UNCHANGED place \/ place'[s] # place[s]
  BY <1>0, <1>2, <1>3
<1> QED
  BY <1>1, <1>2, <1>4 DEF Alone

LEMMA WorkersEndStep ==
    ASSUME Typed, Phases, Waiting, Tasks, WorkersEnd, [Next]_vars
    PROVE  WorkersEnd'
<1> DEFINE Ends(s) ==
      /\ openClients \subseteq {mongoClient}
      /\ agenda # "open" => openClients = {}
      /\ manager = "started" /\ place[s] \notin PastWorker => agenda = "open"
      /\ place[s] \in {"agendaStopping", "clientClosing"} \cup PastWorker => ~polling
      /\ place[s] \in {"clientClosing"} \cup PastWorker => openClients = {}
      /\ place[s] \in PastWorker => agenda = "none"
<1> SUFFICES ASSUME NEW s \in Signals, Alone(s)' PROVE Ends(s)'
  BY DEF WorkersEnd
<1>0. /\ Alone(s) /\ \A t \in Signals : place[t] # "none" => t = s
      /\ \A t \in Signals : place'[t] # place[t] => t = s
  BY OneMoves
<1>1. Ends(s) /\ place \in [Signals -> Places]
  BY <1>0 DEF WorkersEnd, Typed, TypeOK
<1>2. place[s] # "none" => (Has("worker") => manager = "started")
  BY DEF Phases, Online, Stopping, Waiting
<1>3. CASE place'[s] = place[s] /\ UNCHANGED <<manager, agenda, clients, mongoClient, openClients,
                                               registration, defined, polling, job>>
  BY <1>1, <1>3
<1>4. CASE place'[s] # place[s]
  <2>1. CASE StopWorker(s)
    BY <1>1, <1>2, <1>4, <2>1, Arrives
       DEF StopWorker, GetAgenda, Tasks, PastWorker, PastDashboard, PastRabbit, PastFlush
  <2>2. CASE StopAgenda(s) \/ CloseClient(s)
    <3>1. Stopping => (Has("worker") => manager = "started")
      BY DEF Phases, Online, Waiting
    <3>2. /\ agenda' = agenda /\ mongoClient' = mongoClient /\ manager' = manager
          /\ StopAgenda(s) => /\ ~polling' /\ openClients' = openClients
                              /\ place[s] = "agenda" /\ place'[s] = "agendaStopping"
          /\ CloseClient(s) => /\ openClients' = openClients \ {mongoClient} /\ polling' = polling
                               /\ place[s] = "agendaStopping" /\ place'[s] = "clientClosing"
      BY <1>1, <2>2 DEF StopAgenda, CloseClient, GoesTo, agendaVars
    <3> QED
      BY <1>1, <2>2, <3>2 DEF PastWorker, PastDashboard, PastRabbit, PastFlush
  <2>3. CASE WorkerStopped(s)
    BY <1>1, <2>3 DEF WorkerStopped, GoesTo, PastWorker, PastDashboard, PastRabbit, PastFlush
  <2>4. CASE ~(StopWorker(s) \/ StopAgenda(s) \/ CloseClient(s) \/ WorkerStopped(s))
    <3>1. /\ \/ place[s] \in PastWorker /\ place'[s] \in PastWorker
             \/ place[s] \in {"none", "web", "webClosing"} /\ place'[s] \in {"web", "webClosing", "worker"}
          /\ UNCHANGED <<manager, agenda, mongoClient, openClients, polling>>
      BY <1>4, <2>4, Arrives DEF Signal, CloseWeb, WebClosed, CloseDashboard, StopRabbit, RabbitStopped,
           Flush, Flushed, Disconnected, Finish, Parts, workerVars, agendaVars, PastWorker,
           PastDashboard, PastRabbit, PastFlush
    <3> QED
      BY <1>1, <3>1 DEF PastWorker, PastDashboard, PastRabbit, PastFlush
  <2> QED
    BY <2>1, <2>2, <2>3, <2>4
<1>5. CASE place'[s] = place[s] /\ NextPhase
  <2>1. manager' = manager \/ manager' = "loading"
    BY <1>5 DEF NextPhase
  <2>2. UNCHANGED <<agenda, mongoClient, openClients, polling>>
    BY <1>5 DEF NextPhase, agendaVars
  <2> QED
    BY <1>1, <1>5, <2>1, <2>2
<1>6. CASE place'[s] = place[s] /\ WorkerNext
  <2>0. place[s] # "none" => manager \in {"off", "started"}
    BY <1>2 DEF Tasks
  <2>1. CASE TasksLoaded
    BY <1>1, <1>6, <2>0, <2>1
       DEF TasksLoaded, GetAgenda, Typed, TypeOK, WorkerTypeOK, PastWorker, PastDashboard,
           PastRabbit, PastFlush
  <2>2. CASE AgendaConnects
    <3>1. /\ openClients' = {clients + 1} /\ mongoClient' = clients + 1 /\ agenda' = "open"
          /\ polling' = polling /\ manager' = manager
      BY <1>1, <2>2 DEF AgendaConnects
    <3>2. place[s] = "none" \/ agenda = "open"  \/ agenda = "none"
      BY <1>1, <2>0, <2>2 DEF Tasks, Typed, TypeOK, WorkerTypeOK, AgendaConnects
    <3>3. agenda = "connecting"
      BY <2>2 DEF AgendaConnects
    <3>4. place[s] = "none"
      BY <3>2, <3>3
    <3> QED
      BY <1>6, <3>1, <3>4 DEF PastWorker, PastDashboard, PastRabbit, PastFlush
  <2>3. CASE AgendaFails \/ StartManager \/ StartFails
    <3>1. manager = "starting" /\ place[s] = "none"
      BY <2>0, <2>3 DEF AgendaFails, StartManager, StartFails
    <3>2. /\ openClients' \subseteq {mongoClient'}
          /\ agenda' # "open" => openClients' = {}
          /\ manager' = "started" => agenda' = "open"
      BY <1>1, <2>3 DEF AgendaFails, StartManager, StartFails, GetAgenda
    <3> QED
      BY <1>6, <3>1, <3>2 DEF PastWorker, PastDashboard, PastRabbit, PastFlush
  <2>4. ASSUME NEW w \in Workers, Scheduled(w) \/ RunTask(w) \/ TaskDone(w) PROVE Ends(s)'
    BY <1>1, <1>6, <2>4 DEF Scheduled, RunTask, TaskDone, agendaVars
  <2> QED
    BY <1>6, <2>1, <2>2, <2>3, <2>4 DEF WorkerNext
<1>7. ASSUME NEW t \in Signals, StopWorker(t) \/ StopAgenda(t) \/ CloseClient(t) \/ WorkerStopped(t)
      PROVE  place'[s] # place[s]
  <2>1. place[t] # "none"
    BY <1>7 DEF StopWorker, StopAgenda, CloseClient, WorkerStopped
  <2>2. t = s
    BY <1>0, <2>1
  <2> QED
    BY <1>1, <1>7, <2>2 DEF StopWorker, StopAgenda, CloseClient, WorkerStopped, GoesTo
<1> QED
  BY <1>3, <1>4, <1>5, <1>6, <1>7, WorkerFrame

\* While a signal is the only one, only its stop() moves the drain.
LEMMA DrainMoves ==
    ASSUME Typed, [Next]_vars, NEW s \in Signals, Alone(s)', ~StopRabbit(s)
    PROVE  drainFrom' = drainFrom /\ overlapped' = overlapped
<1>0. \A t \in Signals : place[t] # "none" => t = s
  BY OneMoves
<1>1. ASSUME NEW t \in Signals, StopRabbit(t) PROVE FALSE
  BY <1>0, <1>1 DEF StopRabbit
<1> QED
  BY <1>1, StopFrame DEF Signal, CloseWeb, WebClosed, StopWorker, StopAgenda, CloseClient,
     WorkerStopped, CloseDashboard, RabbitStopped, Flush, Flushed, Disconnected, Finish, drainVars

\* A connection that is gone, with no restart() under way, stays away.
LEMMA LinkStays ==
    ASSUME Typed, Phases, Online, link = "null", restart \in {"idle", "cooldown"}, [Next]_vars
    PROVE  link' = "null" /\ restart' \in {"idle", "cooldown"} /\ (Drained => Drained')
<1>0. delivery \in [Deliveries -> {"waiting", "running", "done"}] /\ pending = {}
  BY DEF Typed, TypeOK, Phases
<1>1. Drained => Drained'
  BY <1>0, ServiceFrame DEF Deliver, Consumed, Drained
<1>2. ASSUME NEW p \in Services \cup Servers, PartStarts(p) PROVE FALSE
  BY <1>0, <1>2 DEF PartStarts
<1>3. CASE RabbitNext
  BY <1>1, <1>3 DEF RabbitNext, LinkLost, RestartStopped, Reconnect, ConnectFails, PoolFills, PoolEmpty,
              CooldownEnds, RebuildRejects, bootstrapVars, serviceVars, rabbitVars
<1>4. CASE \E s \in Signals : StopRabbit(s) \/ RabbitStopped(s)
  BY <1>1, <1>4 DEF StopRabbit, RabbitStopped, serviceVars, rabbitVars
<1> QED
  BY <1>1, <1>2, <1>3, <1>4, RabbitFrame

LEMMA MessagesEndStep ==
    ASSUME Typed, Phases, Restarts, Waiting, Closes, MessagesEnd, [Next]_vars
    PROVE  MessagesEnd'
<1> SUFFICES ASSUME NEW s \in Signals, Alone(s)'
             PROVE  /\ ~overlapped' /\ place'[s] = "draining" =>
                          restart' \in {"idle", "cooldown", "spinning"}
                    /\ ~overlapped' /\ place'[s] \in PastRabbit =>
                          link' = "null" /\ restart' \in {"idle", "cooldown"} /\ DrainOver'
                    /\ Online' /\ place'[s] \notin {"cache", "exit"} =>
                          {"mongo"} \cap deployment'.services \subseteq up'
  BY DEF MessagesEnd
<1>0. /\ Alone(s) /\ \A t \in Signals : place[t] # "none" => t = s
      /\ \A t \in Signals : place'[t] # place[t] => t = s
  BY OneMoves
<1>1. /\ place \in [Signals -> Places] /\ deployment' = deployment
      /\ delivery \in [Deliveries -> {"waiting", "running", "done"}]
      /\ closer \in Signals \cup {"nobody", "restart"}
      /\ elapsed \in Nat /\ drainFrom \in Nat
  BY StartFrame DEF Typed, TypeOK, Timeout
<1>2. elapsed' = elapsed \/ elapsed' = elapsed + 1 \/ elapsed' = Timeout
  BY ProcessFrame DEF Tick, Hang
<1>5. ASSUME ~overlapped', place'[s] = "draining"
      PROVE  restart' \in {"idle", "cooldown", "spinning"}
  <2>1. CASE place[s] = "draining"
    <3>1. closer = s /\ s # "nobody" /\ ~StopRabbit(s) /\ Online
      BY <2>1, BootstrapAssumption DEF Closes, StopRabbit, Phases, Stopping
    <3>2. ~overlapped
      BY <1>5, <3>1, DrainMoves
    <3>3. restart \in {"idle", "cooldown", "spinning"}
      BY <1>0, <2>1, <3>2 DEF MessagesEnd
    <3>4. CASE RabbitNext
      BY <3>1, <3>3, <3>4
         DEF RabbitNext, LinkLost, RestartStopped, Reconnect, ConnectFails, PoolFills, PoolEmpty,
             CooldownEnds, RebuildRejects, BeginRestart, bootstrapVars, serviceVars, rabbitVars
    <3>5. CASE ~RabbitNext
      BY <3>3, <3>5, RabbitFrame DEF PartStarts, StopRabbit, RabbitStopped, serviceVars, rabbitVars
    <3> QED
      BY <3>4, <3>5
  <2>2. CASE place[s] # "draining"
    <3>1. StopRabbit(s)
      BY <1>5, <2>2, Arrives
    <3> QED
      BY <1>5, <3>1 DEF StopRabbit, serviceVars, rabbitVars
  <2> QED
    BY <2>1, <2>2
<1>3. ASSUME ~overlapped', place'[s] \in PastRabbit
      PROVE  link' = "null" /\ restart' \in {"idle", "cooldown"} /\ DrainOver'
  <2>1. CASE place[s] \in PastRabbit
    <3>1. ~StopRabbit(s) /\ Online
      BY <2>1 DEF StopRabbit, PastRabbit, PastFlush, Phases, Stopping
    <3>2. drainFrom' = drainFrom /\ ~overlapped
      BY <1>3, <3>1, DrainMoves
    <3>3. link = "null" /\ restart \in {"idle", "cooldown"} /\ DrainOver
      BY <1>0, <2>1, <3>2 DEF MessagesEnd
    <3>4. link' = "null" /\ restart' \in {"idle", "cooldown"} /\ (Drained => Drained')
      BY <3>1, <3>3, LinkStays
    <3>6. elapsed' >= elapsed
      BY <1>1, <1>2, TypedStep DEF Typed, TypeOK, Timeout
    <3>7. elapsed >= drainFrom + DrainTimeout => elapsed' >= drainFrom' + DrainTimeout
      BY <1>1, <1>2, <3>2, <3>6 DEF DrainTimeout, Timeout
    <3> QED
      BY <3>3, <3>4, <3>7 DEF DrainOver
  <2>2. CASE place[s] = "rabbit" /\ StopRabbit(s)
    <3>1. restart \in {"idle", "cooldown"} /\ UNCHANGED <<link, restart, delivery>>
      BY <1>3, <2>2 DEF StopRabbit, serviceVars, rabbitVars
    <3>2. closer = "nobody"
      BY <1>0, <1>1, <2>2, <3>1 DEF Closes, Restarts
    <3>3. "rabbit" \notin deployment.services
      BY <1>1, <1>3, <2>2, <3>2 DEF StopRabbit, GoesTo, PastRabbit, PastFlush
    <3>4. link = "null" /\ Drained'
      BY <3>1, <3>3 DEF Drained, Waiting, Restarts
    <3> QED
      BY <3>1, <3>4 DEF DrainOver
  <2>3. CASE RabbitStopped(s)
    <3>1. /\ DrainOver /\ link' = "null"
          /\ UNCHANGED <<delivery, elapsed, drainFrom, restart, overlapped>>
      BY <2>3 DEF RabbitStopped, Stays, processVars
    <3>2. place[s] = "draining" /\ restart # "spinning"
      BY <1>1, <2>3, RabbitFrame DEF RabbitStopped, GoesTo, vars, bootstrapVars, stopVars
    <3>3. restart \in {"idle", "cooldown", "spinning"}
      BY <1>0, <1>3, <3>1, <3>2 DEF MessagesEnd
    <3> QED
      BY <3>1, <3>2, <3>3 DEF DrainOver, Drained
  <2> QED
    BY <1>3, <2>1, <2>2, <2>3, Arrives DEF PastRabbit, PastFlush
<1>4. ASSUME Online', place'[s] \notin {"cache", "exit"}
      PROVE  {"mongo"} \cap deployment.services \subseteq up'
  <2>1. CASE ~Online
    <3>1. NextPhase
      BY <1>4, <2>1, ServerBegins DEF Online
    <3>2. phase = "servers" /\ UNCHANGED up
      BY <1>4, <2>1, <3>1 DEF NextPhase, Online, serviceVars
    <3> QED
      BY <2>1, <3>2 DEF Phases
  <2>2. CASE Online
    <3>1. place[s] \notin {"cache", "exit"}
      BY <1>4, Arrives
    <3>2. {"mongo"} \cap deployment.services \subseteq up
      BY <1>0, <2>2, <3>1 DEF MessagesEnd
    <3>3. ASSUME NEW t \in Signals, Disconnected(t) \/ Finish(t) PROVE FALSE
      BY <1>0, <1>1, <1>4, <3>3 DEF Disconnected, Finish, GoesTo
    <3> QED
      BY <3>2, <3>3, ServiceFrame DEF PartStarts, CloseDashboard
  <2> QED
    BY <2>1, <2>2
<1> QED
  BY <1>1, <1>3, <1>4, <1>5

\* Nothing that a flush() owed the log ends after it has looked: no connection
\* is open to answer on, and no message is processed.
LEMMA StoredStep ==
    ASSUME Typed, Phases, Unlogged, Logged, Closes, MessagesEnd, Stored, [Next]_vars
    PROVE  Stored'
<1> SUFFICES ASSUME NEW s \in Signals, place'[s] \in PastFlush,
                    "mongo" \in deployment'.services
             PROVE  /\ \A c \in Conns : request'[c] = "answered" =>
                          c \in found'[s] \cup In("settled")'
                    /\ Alone(s)' /\ ~overlapped' /\ elapsed' < drainFrom' + DrainTimeout =>
                          \A m \in Deliveries : delivery'[m] = "done" =>
                              m \in found'[s] \cup In("settled")'
  BY DEF Stored
<1>0. /\ document \in [Work -> {"none", "queued", "inserting", "settled"}]
      /\ request \in [Conns -> {"none", "running", "answered", "lost"}]
      /\ delivery \in [Deliveries -> {"waiting", "running", "done"}]
      /\ place \in [Signals -> Places] /\ found \in [Signals -> SUBSET Work]
      /\ Conns \subseteq Work /\ Deliveries \subseteq Work
      /\ elapsed \in 0..6 /\ drainFrom \in 0..6
      /\ deployment' = deployment
  BY StartFrame DEF Typed, TypeOK, WebTypeOK, Work, Timeout
<1>1. CASE place[s] \in PastFlush
  <2>1. found'[s] = found[s]
    <3>1. ASSUME NEW t \in Signals, Flush(t) PROVE t # s
      BY <1>1, <3>1 DEF Flush, PastFlush
    <3>2. found' = found
          \/ \E t \in Signals : Flush(t) /\ \A u \in Signals \ {t} : found'[u] = found[u]
      BY <1>0, StopFrame DEF Signal, CloseWeb, WebClosed, StopWorker, StopAgenda, CloseClient,
         WorkerStopped, CloseDashboard, StopRabbit, RabbitStopped, Flush, Flushed, Disconnected,
         Finish
    <3> QED
      BY <3>1, <3>2
  <2>2. In("settled") \subseteq In("settled")'
    BY SettledStays
  <2>3. ASSUME NEW c \in Conns, request'[c] = "answered"
        PROVE  c \in found'[s] \cup In("settled")'
    <3>1. socket[c] # "open"
      BY <1>1 DEF Closes, PastFlush, PastRabbit, PastDashboard, PastWorker, PastWeb
    <3>2. request[c] = "answered"
      BY <1>0, <2>3, <3>1, ConnFrame DEF Request, Respond, Disconnect, Destroy, CloseWeb
    <3>3. c \in found[s] \cup In("settled")
      BY <1>0, <1>1, <3>2 DEF Stored
    <3> QED
      BY <2>1, <2>2, <3>3
  <2>4. ASSUME Alone(s)', ~overlapped', elapsed' < drainFrom' + DrainTimeout,
               NEW m \in Deliveries, delivery'[m] = "done"
        PROVE  m \in found'[s] \cup In("settled")'
    <3>1. ~StopRabbit(s) /\ place[s] \in PastRabbit
      BY <1>1 DEF StopRabbit, PastFlush, PastRabbit
    <3>2. Alone(s) /\ ~overlapped /\ drainFrom' = drainFrom
      BY <2>4, <3>1, OneMoves, DrainMoves
    <3>3. elapsed < drainFrom + DrainTimeout
      <4>1. elapsed' = elapsed \/ elapsed' = elapsed + 1 \/ elapsed' = Timeout
        BY ProcessFrame DEF Tick, Hang
      <4> QED
        BY <1>0, <2>4, <3>2, <4>1 DEF DrainTimeout, Timeout
    <3>4. Drained
      <4>1. DrainOver
        BY <3>1, <3>2 DEF MessagesEnd
      <4>2. ~(elapsed >= drainFrom + DrainTimeout)
        BY <1>0, <3>3 DEF DrainTimeout
      <4> QED
        BY <4>1, <4>2 DEF DrainOver
    <3>5. delivery[m] = "done"
      BY <1>0, <2>4, <3>4, ServiceFrame DEF Deliver, Consumed, Drained
    <3>6. m \in found[s] \cup In("settled")
      BY <1>0, <1>1, <3>2, <3>3, <3>5 DEF Stored
    <3> QED
      BY <2>1, <2>2, <3>6
  <2> QED
    BY <2>3, <2>4
<1>2. CASE place[s] \notin PastFlush
  <2>1. Flush(s)
    <3>1. place[s] \notin {"flushing", "disconnect", "cache", "exit"}
          /\ place'[s] \in {"flushing", "disconnect", "cache", "exit"}
      BY <1>2 DEF PastFlush
    <3> QED
      BY <3>1, Arrives
  <2>2. /\ found'[s] = In("queued") \cup In("inserting")
        /\ UNCHANGED <<document, request, delivery>>
    BY <1>0, <2>1 DEF Flush, Stays, processVars, Parts, webVars, connVars, serviceVars
  <2>3. ASSUME NEW u \in Work, document[u] # "none" PROVE u \in found'[s] \cup In("settled")'
    BY <1>0, <2>2, <2>3 DEF In
  <2> QED
    BY <1>0, <2>2, <2>3 DEF Logged
<1> QED
  BY <1>1, <1>2

LEMMA TimeEndsStep ==
    ASSUME Typed, Phases, Waiting, Waiting', Closes, TimeEnds, [Next]_vars
    PROVE  TimeEnds'
<1> DEFINE Ends(s) ==
      /\ place[s] \in {"none", "web"} => elapsed = 0 /\ ~closing
      /\ place[s] = "webClosing" => endedAt = 0 /\ elapsed <= 1
      /\ place[s] \in PastWeb \ ({"draining"} \cup PastRabbit) => elapsed <= 1
      /\ place[s] = "draining" =>
            /\ drainFrom <= 1 /\ elapsed <= drainFrom + DrainTimeout
            /\ elapsed = Timeout => ~Drained
      /\ place[s] \in PastRabbit => elapsed < Timeout
      /\ exit = "timer" => elapsed = Timeout
<1> SUFFICES ASSUME NEW s \in Signals, Alone(s)', ~hung' PROVE Ends(s)'
  BY DEF TimeEnds
<1>0. /\ Alone(s) /\ \A t \in Signals : place[t] # "none" => t = s
      /\ \A t \in Signals : place'[t] # place[t] => t = s
  BY OneMoves
<1>1. /\ place \in [Signals -> Places] /\ elapsed \in 0..6 /\ drainFrom \in 0..6 /\ endedAt \in Nat
      /\ closing \in BOOLEAN
      /\ delivery \in [Deliveries -> {"waiting", "running", "done"}]
  BY DEF Typed, TypeOK, WebTypeOK, Timeout
<1>h. ~hung /\ (UNCHANGED elapsed \/ Tick)
  <2>1. UNCHANGED elapsed \/ Tick
    BY ProcessFrame, Zenon DEF Hang
  <2>2. Tick => UNCHANGED hung
    BY Zenon DEF Tick, bootstrapVars
  <2>3. UNCHANGED hung
    BY <2>2, ProcessFrame, Zenon DEF Hang
  <2> QED
    BY <2>1, <2>3, Zenon
<1>2. Ends(s)
  BY <1>0, <1>h DEF TimeEnds
<1>e. exit' = "timer" => exit = "timer" \/ TimeIsUp
  BY ProcessFrame DEF Signal, Finish
<1>3. CASE TimeIsUp
  <2>1. /\ UNCHANGED <<elapsed, place, closing, endedAt, drainFrom, delivery>>
        /\ elapsed = Timeout
    BY <1>3 DEF TimeIsUp, Parts, webVars, connVars, bootstrapVars, stopVars, drainVars, serviceVars
  <2> QED
    BY <1>2, <2>1 DEF Drained
<1>4. CASE Tick
  <2>1. PICK t \in Signals : Waits(t)
    BY <1>4 DEF Tick
  <2>2. t = s
    BY <1>0, <2>1 DEF Waits
  <2>3. /\ elapsed' = elapsed + 1 /\ exit' = exit
        /\ UNCHANGED <<place, closing, endedAt, drainFrom, delivery, exit>>
    BY <1>4 DEF Tick, Parts, webVars, connVars, bootstrapVars, stopVars, drainVars, serviceVars
  <2>4. exit = "no" /\ elapsed < 6
    BY <1>4, <2>3 DEF Next, TimeIsUp, Timeout, vars, processVars
  <2>5. CASE place[s] = "webClosing"
    <3>1. PICK c \in Conns : socket[c] \in {"open", "ended"}
      BY <2>1, <2>2, <2>5 DEF Waits, Closed, Closes
    <3>2. socket[c] = "ended"
      BY <2>5, <3>1 DEF Closes
    <3>3. ~(elapsed > endedAt)
      BY <1>4, <3>2 DEF Tick, Overdue
    <3>4. endedAt = 0 /\ elapsed' <= 1
      BY <1>1, <1>2, <2>3, <2>5, <3>3
    <3> QED
      BY <2>3, <2>4, <2>5, <3>4 DEF PastWeb, PastWorker, PastDashboard, PastRabbit, PastFlush
  <2>6. CASE place[s] = "draining"
    <3>1. ~Drained /\ ~(elapsed >= drainFrom + DrainTimeout)
      BY <2>1, <2>2, <2>6 DEF Waits, DrainOver
    <3>2. drainFrom' <= 1 /\ elapsed' <= drainFrom' + DrainTimeout
      BY <1>1, <1>2, <2>3, <2>6, <3>1 DEF DrainTimeout
    <3>3. ~Drained'
      BY <2>3, <3>1 DEF Drained
    <3> QED
      BY <2>3, <2>4, <2>6, <3>2, <3>3 DEF PastWeb, PastWorker, PastDashboard, PastRabbit, PastFlush
  <2> QED
    BY <2>1, <2>2, <2>5, <2>6 DEF Waits
<1>5. CASE UNCHANGED vars
  <2>1. UNCHANGED <<elapsed, exit, place, closing, endedAt, drainFrom, delivery>>
    BY <1>5 DEF vars, processVars, webVars, connVars, bootstrapVars, stopVars, drainVars, serviceVars
  <2> QED
    BY <1>2, <2>1 DEF Drained
<1>6. CASE Next /\ ~TimeIsUp /\ ~Tick
  <2>0. elapsed < 6 /\ exit = "no" /\ exit' # "timer" /\ elapsed' = elapsed
    BY <1>1, <1>6, <1>h, <1>e DEF Next, Timeout
  <2>1. CASE place'[s] = place[s]
    <3>1. ASSUME NEW t \in Signals, CloseWeb(t) \/ StopRabbit(t) PROVE FALSE
      <4>1. place'[t] # place[t]
        BY <1>1, <3>1 DEF CloseWeb, StopRabbit, GoesTo
      <4> QED
        BY <1>0, <2>1, <4>1
    <3>2. UNCHANGED <<closing, endedAt>>
      BY <3>1, ConnFrame DEF Request, Respond, Disconnect, Destroy
    <3>3. UNCHANGED drainFrom
      BY <3>1, StopFrame DEF Signal, WebClosed, StopWorker, StopAgenda, CloseClient,
           WorkerStopped, CloseDashboard, RabbitStopped, Flush, Flushed, Disconnected, Finish,
           drainVars
    <3> QED
      BY <1>2, <2>0, <2>1, <3>2, <3>3 DEF Timeout
  <2>2. CASE place'[s] # place[s]
    <3>1. CASE Signal(s) \/ CloseWeb(s) \/ WebClosed(s)
      <4>1. \/ place[s] = "none" /\ place'[s] = "web" /\ Signal(s)
            \/ place[s] = "web" /\ place'[s] \in {"webClosing", "worker"} /\ CloseWeb(s)
            \/ place[s] = "webClosing" /\ place'[s] = "worker" /\ WebClosed(s)
        BY <2>2, <3>1, Arrives DEF Signal, CloseWeb, WebClosed
      <4>2. Signal(s) => UNCHANGED closing
        BY DEF Signal, Parts, webVars, connVars
      <4>3. CloseWeb(s) /\ place'[s] = "webClosing" => endedAt' = IF closing THEN endedAt ELSE elapsed
        BY <1>1 DEF CloseWeb, StartClose, GoesTo
      <4> QED
        BY <1>2, <2>0, <4>1, <4>2, <4>3 DEF PastWeb, PastWorker, PastDashboard, PastRabbit, PastFlush
    <3>2. CASE StopRabbit(s)
      <4>1. place[s] = "rabbit" /\ place'[s] \in {"draining", "flush"}
        BY <2>2, <3>2, Arrives DEF StopRabbit
      <4>2. place'[s] = "draining" => drainFrom' = elapsed
        BY <1>1, <3>2 DEF StopRabbit, GoesTo
      <4> QED
        BY <1>1, <1>2, <2>0, <4>1, <4>2
           DEF PastWeb, PastWorker, PastDashboard, PastRabbit, PastFlush, DrainTimeout, Timeout
    <3>3. CASE ~(Signal(s) \/ CloseWeb(s) \/ WebClosed(s) \/ StopRabbit(s))
      <4>1. \/ /\ place[s] \in PastWeb \ ({"draining"} \cup PastRabbit)
               /\ place'[s] \in PastWeb \ ({"draining"} \cup PastRabbit)
            \/ place'[s] \in PastRabbit
        BY <2>2, <3>3, Arrives DEF PastWeb, PastWorker, PastDashboard, PastRabbit, PastFlush
      <4> QED
        BY <1>1, <1>2, <2>0, <4>1 DEF PastWeb, PastWorker, PastDashboard, PastRabbit, PastFlush, Timeout
    <3> QED
      BY <3>1, <3>2, <3>3
  <2> QED
    BY <2>1, <2>2
<1> QED
  BY <1>3, <1>4, <1>5, <1>6

-----------------------------------------------------------------------------
(* The theorems.                                                           *)

LEMMA InitInv == Init => Inv
<1> SUFFICES ASSUME Init PROVE Inv
  OBVIOUS
<1> USE DEF Init, ProcessInit, WebInit, WorkerInit
<1>0. /\ Dirs = 1..Len(RouteFiles) /\ Len(RouteFiles) \in Nat \ {0}
      /\ deployment.services \subseteq Services
  BY RoutesAssumption, BootstrapAssumption DEF Dirs
<1>1. Typed
  <2>1. WebTypeOK
    <3>1. /\ isStarted = FALSE /\ isLoadingRoutes = FALSE /\ closing = FALSE
          /\ load = [d \in Dirs |-> "none"] /\ callbacks = [d \in Dirs |-> {}]
          /\ plugged = 0 /\ routed = {} /\ listener = "off" /\ endedAt = 0
          /\ socket = [c \in Conns |-> "none"] /\ request = [c \in Conns |-> "none"]
      OBVIOUS
    <3> HIDE DEF Init, WebInit, ProcessInit, WorkerInit
    <3>2. /\ load \in [Dirs -> {"none", "importing", "done"}]
          /\ \A d \in Dirs : callbacks[d] \subseteq RouteFiles[d]
          /\ socket \in [Conns -> {"none", "open", "ended", "closed"}]
          /\ request \in [Conns -> {"none", "running", "answered", "lost"}]
      BY <3>1
    <3>3. /\ plugged \in 0..Len(RouteFiles) /\ endedAt \in Nat
          /\ routed \subseteq UNION {RouteFiles[d] : d \in Dirs}
      BY <1>0, <3>1
    <3> QED
      BY <3>1, <3>2, <3>3 DEF WebTypeOK
  <2>2. WorkerTypeOK
    <3>1. /\ manager = "off" /\ agenda = "none" /\ clients = 0 /\ mongoClient = 0
          /\ openClients = {} /\ defined = {} /\ polling = FALSE
          /\ registration = [w \in Workers |-> "none"] /\ job = [w \in Workers |-> "idle"]
      OBVIOUS
    <3> HIDE DEF Init, WebInit, ProcessInit, WorkerInit
    <3>2. /\ registration \in [Workers -> {"none", "agenda", "every", "resolved", "rejected"}]
          /\ job \in [Workers -> {"idle", "running", "done"}]
      BY <3>1
    <3>3. clients \in Nat /\ mongoClient \in 0..clients /\ openClients \subseteq 1..clients
      BY <3>1
    <3>4. polling \in BOOLEAN
      BY <3>1
    <3> QED
      BY <3>1, <3>2, <3>3, <3>4, Zenon DEF WorkerTypeOK
  <2>3. callbacks = [d \in Dirs |-> callbacks[d]]
    OBVIOUS
  <2>4. document \in [Work -> {"none", "queued", "inserting", "settled"}]
    OBVIOUS
  <2>5. /\ deployment \in Deployments /\ pending \subseteq Services \cup Servers
        /\ delivery \in [Deliveries -> {"waiting", "running", "done"}]
        /\ elapsed \in 0..Timeout /\ drainFrom \in 0..Timeout
    BY <1>0 DEF Timeout
  <2>6. place \in [Signals -> Places] /\ found \in [Signals -> SUBSET Work]
    BY DEF Places
  <2> HIDE DEF Init, ProcessInit, WebInit, WorkerInit
  <2>7. /\ exit = "no" /\ phase = "mongo" /\ up = {} /\ closer = "nobody" /\ hung = FALSE
        /\ link = "null" /\ restart = "idle" /\ failures = 0 /\ overlapped = FALSE
    BY DEF Init, ProcessInit
  <2>8. failures \in 0..deployment.failures
    BY <2>5, <2>7, BootstrapAssumption
  <2> QED
    BY <2>1, <2>2, <2>3, <2>4, <2>5, <2>6, <2>7, <2>8 DEF Typed, TypeOK
<1>2. Boots /\ Phases /\ Restarts /\ Waiting /\ Tasks
  BY <1>0 DEF Boots, Phases, Restarts, Waiting, Tasks, Online, Stopping, Registered
<1>3. Unlogged /\ Logged /\ Flushes
  BY DEF Unlogged, Logged, Flushes, Work
<1>4. Closes
  BY BootstrapAssumption DEF Closes, PastWeb, PastWorker, PastDashboard, PastRabbit, PastFlush
<1>5. WorkersEnd /\ MessagesEnd /\ Stored /\ TimeEnds
  BY DEF WorkersEnd, MessagesEnd, Stored, TimeEnds, PastWeb, PastWorker, PastDashboard,
         PastRabbit, PastFlush, Online
<1> QED
  BY <1>1, <1>2, <1>3, <1>4, <1>5 DEF Inv

LEMMA NextInv == Inv /\ [Next]_vars => Inv'
BY TypedStep, BootsStep, PhasesStep, RestartsStep, WaitingStep, TasksStep, UnloggedStep, LoggedStep,
   FlushesStep, ClosesStep, WorkersEndStep, MessagesEndStep, StoredStep, TimeEndsStep DEF Inv

\* Nothing is served before what it needs (src/main/bootstrap.ts 138-159,
\* web-server.ts serverBootstrap(), worker-manager.ts start()), for every
\* deployment, set of route files and list of workers.
THEOREM StartupIsComplete == Spec => []StartsComplete
<1>1. Inv => StartsComplete
  <2> SUFFICES ASSUME Inv PROVE StartsComplete
    OBVIOUS
  <2>1. TypeOK /\ StartsWithEveryTask
    BY DEF Inv, Typed, Tasks, StartsWithEveryTask
  <2>2. SomeDirectoryIsComplete
    <3>1. ASSUME listener = "listening"
          PROVE  \E d \in Dirs : load[d] = "done" /\ callbacks[d] \subseteq routed
      BY <3>1, RoutesAssumption DEF Inv, Boots, Dirs
    <3> QED
      BY <3>1 DEF SomeDirectoryIsComplete
  <2>3. NothingRunsEarly
    <3>1. phase \in {"mongo", "services", "servers", "online"}
      BY <2>1 DEF TypeOK
    <3>2. ASSUME \/ \E w \in Conns : request[w] # "none"
                 \/ \E m \in Deliveries : delivery[m] # "waiting"
                 \/ \E w \in Workers : job[w] # "idle"
          PROVE  phase \in {"servers", "online"}
      BY <3>1, <3>2 DEF Inv, Waiting, Tasks
    <3> QED
      BY <3>2 DEF NothingRunsEarly, Inv, Phases
  <2> QED
    BY <2>1, <2>2, <2>3 DEF StartsComplete
<1> QED
  BY <1>1, InitInv, NextInv, PTL DEF Spec

\* A single signal's gracefulShutdown(), by place.
LEMMA TheSignal ==
    ASSUME OneSignal PROVE \E s \in Signals : Alone(s) /\ place[s] # "none"
<1> DEFINE S == {s \in Signals : place[s] # "none"}
<1>1. IsFiniteSet(S) /\ Cardinality(S) = 1
  BY BootstrapAssumption, FS_Subset DEF OneSignal
<1>2. PICK s : S = {s}
  BY <1>1, FS_Singleton
<1> QED
  BY <1>2 DEF Alone

\* What a graceful end owes the log in MongoDB (src/main/bootstrap.ts 176-213):
\* closing the server and the wait for the messages come before the flush(), so
\* that every answered request is stored with any number of signals, and with one
\* every processed message, but for the cases that WorkIsLogged names.
THEOREM LogsAreStored == Spec => []WorkIsLogged
<1>1. Inv => WorkIsLogged
  <2> SUFFICES ASSUME Inv, exit = "0", deployment.production, "mongo" \in deployment.services
               PROVE  /\ \A c \in Conns : request[c] = "answered" => document[c] = "settled"
                      /\ OneSignal /\ ~overlapped /\ elapsed < drainFrom + DrainTimeout
                            => \A m \in Deliveries : delivery[m] = "done" =>
                                   document[m] = "settled"
    BY DEF WorkIsLogged
  <2>1. PICK s \in Signals : place[s] = "exit"
    BY DEF Inv, Closes
  <2>2. found[s] \subseteq In("settled")
    BY <2>1 DEF Inv, Flushes
  <2>3. \A c \in Conns : request[c] = "answered" => c \in In("settled")
    BY <2>1, <2>2 DEF Inv, Stored, PastFlush
  <2>4. ASSUME OneSignal, ~overlapped, elapsed < drainFrom + DrainTimeout
        PROVE  \A m \in Deliveries : delivery[m] = "done" => m \in In("settled")
    <3>1. Alone(s)
      BY <2>1, <2>4, TheSignal DEF Alone
    <3> QED
      BY <2>1, <2>2, <2>4, <3>1 DEF Inv, Stored, PastFlush
  <2> QED
    BY <2>3, <2>4 DEF In
<1> QED
  BY <1>1, InitInv, NextInv, PTL DEF Spec

\* The shutdown of one signal closes MongoDB after the messages, leaves nothing
\* open, and misses its flush only if both waits are used up; a restart() that
\* its stop() met under way is the exception that EndsInOrder names.
THEOREM ShutdownEndsInOrder == Spec => []EndsInOrder
<1>2. ASSUME Inv, OneSignal PROVE MongoOutlivesMessages
  <2>1. PICK s \in Signals : Alone(s) /\ place[s] # "none"
    BY <1>2, TheSignal
  <2>2. Online
    BY <1>2, <2>1 DEF Inv, Phases, Stopping
  <2>3. "mongo" \in deployment.services \ up => place[s] \in {"cache", "exit"}
    BY <1>2, <2>1, <2>2 DEF Inv, MessagesEnd
  <2>4. ~overlapped /\ place[s] \in {"cache", "exit"} => DrainOver
    BY <1>2, <2>1 DEF Inv, MessagesEnd, PastRabbit, PastFlush
  <2> QED
    BY <2>3, <2>4 DEF MongoOutlivesMessages, DrainOver
<1>3. ASSUME Inv, OneSignal PROVE GracefulEndIsComplete
  <2> SUFFICES ASSUME exit = "0", deployment.production
               PROVE  /\ up \cap {"mongo", "memcached", "dashboard"} = {}
                      /\ ~overlapped => link = "null"
                      /\ openClients = {} /\ ~polling
                      /\ \A c \in Conns : socket[c] \notin {"open", "ended"}
    BY DEF GracefulEndIsComplete
  <2>1. PICK s \in Signals : place[s] = "exit"
    BY <1>3 DEF Inv, Closes
  <2>2. Alone(s)
    BY <1>3, <2>1, TheSignal DEF Alone
  <2>3. "mongo" \notin up /\ "memcached" \notin up /\ "dashboard" \notin up
        /\ \A c \in Conns : socket[c] \notin {"open", "ended"}
    BY <1>3, <2>1 DEF Inv, Closes, PastWeb, PastWorker, PastDashboard, PastRabbit, PastFlush
  <2>4. ~overlapped => link = "null"
    BY <1>3, <2>1, <2>2 DEF Inv, MessagesEnd, PastRabbit, PastFlush
  <2>5. openClients = {} /\ ~polling
    BY <1>3, <2>1, <2>2 DEF Inv, WorkersEnd, PastWorker, PastDashboard, PastRabbit, PastFlush
  <2> QED
    BY <2>3, <2>4, <2>5
<1>4. ASSUME Inv, OneSignal PROVE TimerCoversOneTimeout
  <2> SUFFICES ASSUME exit = "timer", ~hung PROVE drainFrom = 1 /\ ~Drained
    BY DEF TimerCoversOneTimeout
  <2>1. PICK s \in Signals : Alone(s) /\ place[s] # "none"
    BY <1>4, TheSignal
  <2>2. /\ elapsed = 6 /\ place[s] \in Places /\ drainFrom \in 0..6
        /\ place[s] \in {"none", "web"} => elapsed = 0
        /\ place[s] = "webClosing" => elapsed <= 1
        /\ place[s] \in PastWeb \ ({"draining"} \cup PastRabbit) => elapsed <= 1
        /\ place[s] \in PastRabbit => elapsed < 6
    BY <1>4, <2>1 DEF Inv, TimeEnds, Typed, TypeOK, Timeout
  <2>3. place[s] = "draining"
    BY <2>2 DEF Places, CallsOut, PastWeb, PastWorker, PastDashboard, PastRabbit, PastFlush
  <2>4. drainFrom <= 1 /\ elapsed <= drainFrom + 5 /\ ~Drained
    BY <1>4, <2>1, <2>2, <2>3 DEF Inv, TimeEnds, Timeout, DrainTimeout
  <2> QED
    BY <2>2, <2>4
<1>5. Inv => EndsInOrder
  BY <1>2, <1>3, <1>4
     DEF EndsInOrder, MongoOutlivesMessages, GracefulEndIsComplete, TimerCoversOneTimeout
<1> QED
  BY <1>5, InitInv, NextInv, PTL DEF Spec
=============================================================================
