------------------------- MODULE RabbitMqLifecycle -------------------------
(***************************************************************************)
(* The connection of RabbitMqServer (src/infra/mq/utils/rabbitmq-server/   *)
(* rabbitmq-server.ts): restart(), stop() and start(), the channel pool,   *)
(* the close listeners and the rebuilding of consumers, while the broker   *)
(* comes and goes and the process is asked to shut down.                   *)
(*                                                                         *)
(* One restart() is past its guard at a time (thereIsAPendingRestart), so  *)
(* its program counter is one variable, and so is that of the stop() that  *)
(* set this.closing.  amqplib and the broker are external: a connection    *)
(* that breaks emits 'close' on each channel and then on itself, and any   *)
(* use of a closed channel or connection is rejected.  A listener that     *)
(* throws, or whose promise rejects, ends the process: nothing in the      *)
(* repository handles an unhandled rejection.                              *)
(***************************************************************************)
EXTENDS Naturals, FiniteSets

CONSTANTS Queues,      \* queues with a consumer
          PoolLength,  \* this.channelPoolLength
          MaxFaults    \* bound: failures of the broker, the network, a channel

ASSUME LifecycleAssumption == PoolLength \in Nat \ {0} /\ MaxFaults \in Nat

VARIABLES connection,  \* this.connection: null, or a live or a dead connection
          listening,   \* the 'close' listener is on this.connection
          live,        \* open channels in this.channelPool
          ghosts,      \* entries whose channel closed before it was pooled
          refilling,   \* CHECK_CHANNEL_POOL awaits createChannelPool()
          restart,     \* where the running restart() is
          closer,      \* who runs the stop() body, "nobody" when not closing
          shutdown,    \* the shutdown's await of stop()
          consumer,    \* the consumer of each queue
          timer,       \* queues with a REBUILD_CONSUMER timer for their entry
          oldTimer,    \* a REBUILD_CONSUMER timer for a tag that was replaced
          broker,      \* the broker accepts connections
          faults,      \* failures so far
          upset,       \* a failure or a shutdown came during this restart
          crashed      \* the process ended on an unhandled rejection

poolVars == <<live, ghosts, refilling>>
vars == <<connection, listening, live, ghosts, refilling, restart, closer, shutdown,
          consumer, timer, oldTimer, broker, faults, upset, crashed>>

\* The types of the fields; createChannelPool() never overfills the pool.
TypeOK == /\ connection \in {"null", "open", "dead"}
          /\ listening \in BOOLEAN
          /\ live \in 0..PoolLength
          /\ ghosts \in Nat
          /\ refilling \in BOOLEAN
          /\ restart \in {"idle", "stop", "connect", "pool", "rebuild", "cooldown"}
          /\ closer \in {"nobody", "restart", "shutdown"}
          /\ shutdown \in {"no", "stop", "done"}
          /\ consumer \in [Queues -> {"online", "stale", "opening", "absent"}]
          /\ timer \in SUBSET Queues
          /\ oldTimer \in BOOLEAN
          /\ broker \in BOOLEAN
          /\ faults \in 0..MaxFaults
          /\ upset \in BOOLEAN
          /\ crashed \in BOOLEAN

\* The server as bootstrap leaves it: started, its consumers online.
Init == /\ connection = "open"
        /\ listening = TRUE
        /\ live = PoolLength
        /\ ghosts = 0
        /\ refilling = FALSE
        /\ restart = "idle"
        /\ closer = "nobody"
        /\ shutdown = "no"
        /\ consumer = [q \in Queues |-> "online"]
        /\ timer = {}
        /\ oldTimer = FALSE
        /\ broker = TRUE
        /\ faults = 0
        /\ upset = FALSE
        /\ crashed = FALSE

\* this.thereIsAPendingRestart
Pending == restart # "idle"

\* this.closing
Closing == closer # "nobody"

Running == ~crashed /\ shutdown # "done"

\* A failure, charged to the bound.
Fault == /\ faults < MaxFaults
         /\ faults' = faults + 1
         /\ upset' = TRUE

-----------------------------------------------------------------------------
(* Steps shared by the handlers.                                           *)

\* restart() up to its first await that waits.  Its stop() returns at once
\* when another stop() is closing, and then start() finds what is there.
BeginRestart ==
    IF Closing THEN restart' = "connect" /\ UNCHANGED closer
               ELSE restart' = "stop" /\ closer' = "restart"

\* Every channel of the connection closes: pooled ones leave the pool, and the
\* consumers' 'close' listeners each arm a REBUILD_CONSUMER timer.  A
\* createChannelPool() that was waiting ends: the channels it had opened go
\* into the pool after their 'close', and stay there.
ChannelsClose ==
    /\ live' = 0
    /\ refilling' = FALSE
    /\ \E n \in 0..PoolLength - 1 :
          ghosts' = ghosts + (IF refilling THEN n ELSE 0)
    /\ consumer' = [q \in Queues |-> IF consumer[q] = "online" THEN "stale"
                                                               ELSE consumer[q]]
    /\ timer' = timer \cup {q \in Queues : consumer[q] = "online"}

\* What publishInQueue() and publishInExchange() may come to: they refuse without
\* a connection and without a channel, and take any channel of the pool.
PublishOutcomes ==
    IF connection = "null" THEN {"ConnectionNotDefined"}
    ELSE IF live + ghosts = 0 THEN {"EmptyChannelPool"}
    ELSE {"sent" : n \in 1..live} \cup {"closed channel" : n \in 1..ghosts}

-----------------------------------------------------------------------------
(* The broker and the network.                                             *)

\* The guard of the connection's 'close' listener.
OnClose == ~Pending

\* The connection breaks.  CHECK_CHANNEL_POOL finds the pool empty and gets
\* nothing from the dead connection; the connection's own 'close' listener
\* emits RESTART unless a restart is pending.
ConnectionLost ==
    /\ Running
    /\ connection = "open"
    /\ Fault
    /\ connection' = "dead"
    /\ ChannelsClose
    /\ \/ /\ listening /\ OnClose
          /\ BeginRestart
       \/ /\ ~(listening /\ OnClose)
          /\ UNCHANGED <<restart, closer>>
    /\ UNCHANGED <<listening, shutdown, oldTimer, broker, crashed>>

BrokerDown ==
    /\ Running
    /\ broker
    /\ connection # "open"
    /\ Fault
    /\ broker' = FALSE
    /\ UNCHANGED <<connection, listening, poolVars, restart, closer, shutdown,
                   consumer, timer, oldTimer, crashed>>

BrokerUp ==
    /\ Running
    /\ ~broker
    /\ broker' = TRUE
    /\ UNCHANGED <<connection, listening, poolVars, restart, closer, shutdown,
                   consumer, timer, oldTimer, faults, upset, crashed>>

\* The broker closes the channel of one consumer.
ConsumerChannelClosed(q) ==
    /\ Running
    /\ consumer[q] = "online"
    /\ Fault
    /\ consumer' = [consumer EXCEPT ![q] = "stale"]
    /\ timer' = timer \cup {q}
    /\ UNCHANGED <<connection, listening, poolVars, restart, closer, shutdown,
                   oldTimer, broker, crashed>>

LeavesPoolEmpty_Unchecked == TRUE

\* The test of the CHECK_CHANNEL_POOL listener, as one entry leaves the pool.
LeavesPoolEmpty == live + ghosts = 1

\* The broker closes a pooled channel: it leaves the pool, and when the pool
\* is then empty CHECK_CHANNEL_POOL calls createChannelPool().
PoolChannelClosed ==
    /\ Running
    /\ connection = "open"
    /\ live > 0
    /\ Fault
    /\ live' = live - 1
    /\ refilling' = (refilling \/ LeavesPoolEmpty)
    /\ UNCHANGED <<connection, listening, ghosts, restart, closer, shutdown,
                   consumer, timer, oldTimer, broker, crashed>>

\* That createChannelPool() ends with n channels.
Refilled(n) ==
    /\ Running
    /\ refilling
    /\ refilling' = FALSE
    /\ live' = live + n
    /\ \/ n < PoolLength /\ Fault
       \/ n = PoolLength /\ UNCHANGED <<faults, upset>>
    /\ UNCHANGED <<connection, listening, ghosts, restart, closer, shutdown,
                   consumer, timer, oldTimer, broker, crashed>>

-----------------------------------------------------------------------------
(* stop().                                                                 *)

\* The shutdown calls stop(), which returns at once if it is closing already.
ShutdownStop ==
    /\ Running
    /\ shutdown = "no"
    /\ upset' = TRUE
    /\ \/ /\ Closing
          /\ shutdown' = "done"
          /\ UNCHANGED closer
       \/ /\ ~Closing
          /\ shutdown' = "stop"
          /\ closer' = "shutdown"
    /\ UNCHANGED <<connection, listening, poolVars, restart, consumer, timer,
                   oldTimer, broker, faults, crashed>>

\* The rest of stop(): the pending messages are done or timed out, the
\* connection is closed, or found dead, and forgotten.
StopBody(who) ==
    /\ Running
    /\ closer = who
    /\ connection' = "null"
    /\ listening' = FALSE
    /\ closer' = "nobody"
    /\ \/ /\ connection = "open"
          /\ ChannelsClose
       \/ /\ connection # "open"
          /\ UNCHANGED <<poolVars, consumer, timer>>

StopForShutdown ==
    /\ StopBody("shutdown")
    /\ shutdown' = "done"
    /\ UNCHANGED <<restart, oldTimer, broker, faults, upset, crashed>>

StopForRestart ==
    /\ StopBody("restart")
    /\ restart' = "connect"
    /\ upset' = FALSE
    /\ UNCHANGED <<shutdown, oldTimer, broker, faults, crashed>>

-----------------------------------------------------------------------------
(* start() and the rest of restart().                                      *)

\* connect() succeeds, or is skipped because there is a connection.
Connect ==
    /\ Running
    /\ restart = "connect"
    /\ \/ /\ connection = "null"
          /\ broker
          /\ connection' = "open"
       \/ /\ connection # "null"
          /\ UNCHANGED connection
    /\ restart' = "pool"
    /\ UNCHANGED <<listening, poolVars, closer, shutdown, consumer, timer,
                   oldTimer, broker, faults, upset, crashed>>

Retry_EmitFirst == restart' = "idle" /\ UNCHANGED closer

\* The catch block of restart(): pending is cleared and RESTART emitted, which
\* sets it again before anything else runs.
\* Under the shutdown's stop() nothing in it waits while the connection is dead,
\* so that the code gives stop() no turn; here they interleave, and Bootstrap
\* has that restart() spin.
Retry == BeginRestart

ConnectFails ==
    /\ Running
    /\ restart = "connect"
    /\ connection = "null"
    /\ ~broker
    /\ Retry
    /\ UNCHANGED <<connection, listening, poolVars, shutdown, consumer, timer,
                   oldTimer, broker, faults, upset, crashed>>

\* createChannelPool() has n more channels.  On a connection that died meanwhile
\* they are the ones opened before; their 'close' came before the listener that
\* would take them out of the pool.
PoolEntries(n) ==
    /\ UNCHANGED refilling
    /\ \/ /\ connection = "open"
          /\ live' = live + n
          /\ UNCHANGED ghosts
       \/ /\ connection # "open"
          /\ n < PoolLength
          /\ ghosts' = ghosts + n
          /\ UNCHANGED live

RebuildAll_Delete == [q \in Queues |-> "absent"]

\* rebuildConsumers(false) takes every entry out and calls consume() for it.
RebuildAll == [q \in Queues |-> IF consumer[q] \in {"online", "stale"}
                                THEN "opening" ELSE consumer[q]]

StartListening_Late == UNCHANGED listening

\* startConnectionListeners()
StartListening == listening' = (connection # "null")

\* start() ends and rebuildConsumers(false) begins.  Fewer than PoolLength
\* channels of an open connection are a fault of the broker.
PoolDone(n) ==
    /\ Running
    /\ restart = "pool"
    /\ live + ghosts + n > 0
    /\ PoolEntries(n)
    /\ \/ n < PoolLength /\ connection = "open" /\ Fault
       \/ /\ n = PoolLength \/ connection # "open"
          /\ UNCHANGED <<faults, upset>>
    /\ StartListening
    /\ restart' = "rebuild"
    /\ consumer' = RebuildAll
    /\ timer' = {}
    /\ oldTimer' = (oldTimer \/ timer # {})
    /\ UNCHANGED <<connection, closer, shutdown, broker, crashed>>

\* No channel at all: EmptyChannelPool is thrown and restart() starts over.
PoolEmpty ==
    /\ Running
    /\ restart = "pool"
    /\ live + ghosts = 0
    /\ \/ connection = "open" /\ Fault
       \/ connection # "open" /\ UNCHANGED <<faults, upset>>
    /\ Retry
    /\ UNCHANGED <<connection, listening, poolVars, shutdown, consumer, timer,
                   oldTimer, broker, crashed>>

\* consume() of a rebuilt consumer ends; it swallows its errors.
ConsumeDone(q) ==
    /\ Running
    /\ consumer[q] = "opening"
    /\ \/ /\ connection = "open"
          /\ consumer' = [consumer EXCEPT ![q] = "online"]
          /\ UNCHANGED <<faults, upset>>
       \/ /\ connection = "open" /\ Fault
          /\ consumer' = [consumer EXCEPT ![q] = "absent"]
       \/ /\ connection # "open"
          /\ consumer' = [consumer EXCEPT ![q] = "absent"]
          /\ UNCHANGED <<faults, upset>>
    /\ UNCHANGED <<connection, listening, poolVars, restart, closer, shutdown,
                   timer, oldTimer, broker, crashed>>

RebuildDone_Skip == restart = "rebuild"

\* Promise.allSettled() of the consume() calls.
RebuildDone == restart = "rebuild" /\ \A q \in Queues : consumer[q] # "opening"

Rebuilt ==
    /\ Running
    /\ RebuildDone
    /\ restart' = "cooldown"
    /\ UNCHANGED <<connection, listening, poolVars, closer, shutdown, consumer,
                   timer, oldTimer, broker, faults, upset, crashed>>

CooldownEnds_Forgets == restart' = restart

CooldownEnds == restart' = "idle"

\* The 1500 ms timer that clears thereIsAPendingRestart.
Cooldown ==
    /\ Running
    /\ restart = "cooldown"
    /\ CooldownEnds
    /\ UNCHANGED <<connection, listening, poolVars, closer, shutdown, consumer,
                   timer, oldTimer, broker, faults, upset, crashed>>

-----------------------------------------------------------------------------
(* REBUILD_CONSUMER.                                                       *)

\* rebuildConsumer(tag) for an entry whose channel closed: with no connection
\* it rejects; while a restart or a stop is under way it leaves the entry to
\* them; otherwise it deletes the entry and its channel.cancel() is rejected.
RebuildTimer(q) ==
    /\ Running
    /\ q \in timer
    /\ timer' = timer \ {q}
    /\ crashed' = (connection = "null")
    /\ consumer' = IF connection # "null" /\ ~Pending /\ ~Closing
                   THEN [consumer EXCEPT ![q] = "absent"]
                   ELSE consumer
    /\ UNCHANGED <<connection, listening, poolVars, restart, closer, shutdown,
                   oldTimer, broker, faults, upset>>

\* The same for a tag that is no longer in the map: nothing to rebuild.
OldRebuildTimer ==
    /\ Running
    /\ oldTimer
    /\ oldTimer' = FALSE
    /\ crashed' = (connection = "null")
    /\ UNCHANGED <<connection, listening, poolVars, restart, closer, shutdown,
                   consumer, timer, broker, faults, upset>>

Next == \/ ConnectionLost
        \/ BrokerDown
        \/ BrokerUp
        \/ PoolChannelClosed
        \/ ShutdownStop
        \/ StopForShutdown
        \/ StopForRestart
        \/ Connect
        \/ ConnectFails
        \/ \E n \in 0..PoolLength : Refilled(n) \/ PoolDone(n)
        \/ PoolEmpty
        \/ Rebuilt
        \/ Cooldown
        \/ OldRebuildTimer
        \/ \E q \in Queues : \/ ConsumerChannelClosed(q)
                             \/ ConsumeDone(q)
                             \/ RebuildTimer(q)

\* Calls settle and timers fire; a broker that is down comes back.  Failures
\* and the shutdown are never obliged to happen.
Fairness == /\ WF_vars(BrokerUp)
            /\ WF_vars(StopForShutdown)
            /\ WF_vars(StopForRestart)
            /\ WF_vars(Connect)
            /\ WF_vars(ConnectFails)
            /\ WF_vars(\E n \in 0..PoolLength : Refilled(n))
            /\ WF_vars(\E n \in 0..PoolLength : PoolDone(n))
            /\ WF_vars(PoolEmpty)
            /\ WF_vars(Rebuilt)
            /\ WF_vars(Cooldown)
            /\ WF_vars(OldRebuildTimer)
            /\ \A q \in Queues : WF_vars(ConsumeDone(q)) /\ WF_vars(RebuildTimer(q))

Spec == Init /\ [][Next]_vars /\ Fairness

-----------------------------------------------------------------------------
(* What the lifecycle guarantees.                                          *)

\* Once a restart is over, and no stop() is under way, a connection that is
\* open has the 'close' listener that will restart it: stop() takes it off with
\* removeAllListeners(), a later start() puts it back on the new connection.
WatchedWhenIdle ==
    (connection = "open" /\ ~Pending /\ ~Closing) => listening

\* A restart that no failure and no shutdown disturbed hands over a working
\* server: connected and watched, channels to publish on, and no consumer left
\* on a channel of the old connection or still being opened.
CleanRestart ==
    (restart = "cooldown" /\ ~upset) =>
        /\ connection = "open" /\ listening
        /\ "sent" \in PublishOutcomes
        /\ \A q \in Queues : consumer[q] \in {"online", "absent"}

\* A consumer is forgotten only through a failure: a consume() that failed, or
\* rebuildConsumer() after its channel closed.  stop(), start() and
\* rebuildConsumers(false) on a healthy broker keep every consumer.
ConsumersAreKept ==
    [][\A q \in Queues :
          (consumer[q] # "absent" /\ consumer'[q] = "absent") =>
              upset' \/ q \in timer]_vars

\* However often connect() or the pool fails, the retries of restart() go on
\* until the broker is back: an accepted restart reaches an open connection.
RestartReconnects ==
    (restart = "stop") ~> (connection = "open" \/ crashed \/ shutdown # "no")

\* thereIsAPendingRestart does not stay set: a restart ends, so that a later
\* loss of the connection can be answered again.
RestartSettles == Pending ~> (~Pending \/ crashed \/ shutdown # "no")

-----------------------------------------------------------------------------
(* What the repository says of it, and the code does not do.               *)

\* A consumer whose channel the broker closed is rebuilt by REBUILD_CONSUMER.
ConsumerIsRebuilt ==
    \A q \in Queues : (consumer[q] = "stale") ~>
        (consumer[q] = "online" \/ connection # "open" \/ crashed \/ shutdown # "no")
=============================================================================
