----------------------------- MODULE WebServer -----------------------------
(***************************************************************************)
(* The HTTP server of src/infra/http/util/web-server as the program uses   *)
(* it: src/main/web-server.ts loads two directories of routes at once,     *)
(* listen() waits in serverBootstrap() for isLoadingRoutes to be false and *)
(* boots Fastify, close() ends it.                                         *)
(*                                                                         *)
(* A route file registers callbacks on the Route of its directory; the     *)
(* Route's plugin, which Fastify runs once while it boots, gives them to   *)
(* Fastify.  A file stands for the routes that it registers.               *)
(***************************************************************************)
EXTENDS Process

CONSTANTS RouteFiles,  \* the route files of each directory
          Broken       \* those that cannot be imported

\* src/main/web-server.ts loads one directory or more, in a fixed order.
ASSUME RoutesAssumption ==
    RouteFiles \in Seq(SUBSET UNION {RouteFiles[d] : d \in DOMAIN RouteFiles}) \ {<<>>}

VARIABLES isStarted, isLoadingRoutes,
          load,       \* of each routesDirectory(): none, importing, done
          callbacks,  \* of each directory's Route
          plugged,    \* how many of the Routes' plugins Fastify has run
          routed,     \* files whose routes Fastify knows
          listener,   \* off, polling, booting, listening
          closing,    \* Fastify is closing or closed
          endedAt,    \* when close() ended the connections
          socket,     \* of each connection: none, open, ended, closed
          request     \* its request: none, running, answered, lost

loadVars == <<isLoadingRoutes, load, callbacks>>
bootVars == <<isStarted, plugged, routed, listener>>
connVars == <<closing, endedAt, socket, request>>
webVars == <<loadVars, bootVars, connVars>>

Dirs == DOMAIN RouteFiles

WebTypeOK == /\ isStarted \in BOOLEAN
             /\ isLoadingRoutes \in BOOLEAN
             /\ load \in [Dirs -> {"none", "importing", "done"}]
             /\ \A d \in Dirs : callbacks[d] \subseteq RouteFiles[d]
             /\ plugged \in 0..Len(RouteFiles)
             /\ routed \subseteq UNION {RouteFiles[d] : d \in Dirs}
             /\ listener \in {"off", "polling", "booting", "listening"}
             /\ closing \in BOOLEAN
             /\ endedAt \in Nat
             /\ socket \in [Conns -> {"none", "open", "ended", "closed"}]
             /\ request \in [Conns -> {"none", "running", "answered", "lost"}]

WebInit == /\ isStarted = FALSE
           /\ isLoadingRoutes = FALSE
           /\ load = [d \in Dirs |-> "none"]
           /\ callbacks = [d \in Dirs |-> {}]
           /\ plugged = 0
           /\ routed = {}
           /\ listener = "off"
           /\ closing = FALSE
           /\ endedAt = 0
           /\ socket = [c \in Conns |-> "none"]
           /\ request = [c \in Conns |-> "none"]

-----------------------------------------------------------------------------
(* Loading.                                                                *)

\* The module src/main/web-server.ts is evaluated: both routesDirectory()
\* calls run up to their await.
LoadDirectories ==
    /\ \A d \in Dirs : load[d] = "none"
    /\ load' = [d \in Dirs |-> "importing"]
    /\ isLoadingRoutes' = TRUE
    /\ UNCHANGED <<callbacks, bootVars, connVars, processVars>>

\* The imports of a directory have settled: the files that could not be
\* imported are skipped, the others are set up.
DirectoryLoaded(d) ==
    /\ load[d] = "importing"
    /\ load' = [load EXCEPT ![d] = "done"]
    /\ callbacks' = [callbacks EXCEPT ![d] = RouteFiles[d] \ Broken]
    /\ isLoadingRoutes' = FALSE
    /\ UNCHANGED <<bootVars, connVars, processVars>>

\* A setup throws: nobody handles the rejection of routesDirectory().
SetupThrows(d) == /\ load[d] = "importing"
                  /\ Exit("crash")
                  /\ UNCHANGED webVars

-----------------------------------------------------------------------------
(* listen() and serverBootstrap().                                         *)

Listen == /\ IF isStarted THEN UNCHANGED <<isStarted, listener>>
                          ELSE isStarted' = TRUE /\ listener' = "polling"
          /\ UNCHANGED <<loadVars, plugged, routed, connVars, processVars>>

Poll_Blind == /\ listener = "polling"
              /\ listener' = "booting"
              /\ UNCHANGED <<loadVars, isStarted, plugged, routed, connVars, processVars>>

\* The interval of serverBootstrap() finds that no directory is loading.
Poll == /\ listener = "polling" /\ ~isLoadingRoutes
        /\ listener' = "booting"
        /\ UNCHANGED <<loadVars, isStarted, plugged, routed, connVars, processVars>>

\* Its timeout rejects a promise that nobody awaits.
RoutesTimeOut == /\ listener = "polling" /\ isLoadingRoutes
                 /\ Exit("crash")
                 /\ UNCHANGED webVars

\* Fastify boots: it runs the plugins of the Routes in order.
PluginRuns == /\ listener = "booting" /\ plugged < Len(RouteFiles)
              /\ plugged' = plugged + 1
              /\ routed' = routed \cup callbacks[plugged + 1]
              /\ UNCHANGED <<loadVars, isStarted, listener, connVars, processVars>>

\* The callback of ready(): server.listen().
Ready == /\ listener = "booting" /\ plugged = Len(RouteFiles)
         /\ listener' = "listening"
         /\ UNCHANGED <<loadVars, isStarted, plugged, routed, connVars, processVars>>

\* The port is taken: an error event without a listener.
ListenFails == /\ listener = "booting" /\ plugged = Len(RouteFiles)
               /\ Exit("crash")
               /\ UNCHANGED webVars

-----------------------------------------------------------------------------
(* Connections.                                                            *)

\* A request that arrives while Fastify closes is answered 503 and runs nothing.
Request(c) == /\ listener = "listening" /\ ~closing /\ socket[c] = "none"
              /\ socket' = [socket EXCEPT ![c] = "open"]
              /\ request' = [request EXCEPT ![c] = "running"]
              /\ UNCHANGED <<loadVars, bootVars, closing, endedAt, processVars>>

\* The route answers: the decorated send() logs the request, and the answer
\* goes out unless the connection was ended under it.
Respond(c) == /\ request[c] = "running"
              /\ request' = [request EXCEPT ![c] =
                               IF socket[c] = "open" THEN "answered" ELSE "lost"]
              /\ Log(c)
              /\ UNCHANGED <<loadVars, bootVars, closing, endedAt, socket>>

\* The other side closes.
Disconnect(c) == /\ socket[c] \in {"open", "ended"}
                 /\ socket' = [socket EXCEPT ![c] = "closed"]
                 /\ UNCHANGED <<loadVars, bootVars, closing, endedAt, request, processVars>>

\* close(): ends every connection and starts fastify.close().
StartClose ==
    /\ closing' = TRUE
    /\ endedAt' = IF closing THEN endedAt ELSE elapsed
    /\ socket' = [c \in Conns |-> IF socket[c] = "open" THEN "ended" ELSE socket[c]]

\* END_TIMEOUT after that: socket.destroy().
Overdue(c) == socket[c] = "ended" /\ elapsed > endedAt

Destroy(c) == /\ Overdue(c)
              /\ socket' = [socket EXCEPT ![c] = "closed"]
              /\ UNCHANGED <<loadVars, bootVars, closing, endedAt, request, processVars>>

\* fastify.close() resolves when no connection is left.
Closed == closing /\ \A c \in Conns : socket[c] \notin {"open", "ended"}

WebNext == \/ \E d \in Dirs : DirectoryLoaded(d) \/ SetupThrows(d)
           \/ Poll \/ RoutesTimeOut \/ PluginRuns \/ Ready \/ ListenFails
           \/ \E c \in Conns : Request(c) \/ Respond(c) \/ Disconnect(c) \/ Destroy(c)

-----------------------------------------------------------------------------
(* Properties.                                                             *)

\* The server waits for its routes: of what it listens with, at least one
\* directory is complete, whatever the order in which imports settle
\* happen and plugins run (serverBootstrap(), web-server.ts 240-255).
SomeDirectoryIsComplete ==
    listener = "listening" => \E d \in Dirs : load[d] = "done" /\ callbacks[d] \subseteq routed
=============================================================================
