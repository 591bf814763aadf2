----------------------- MODULE RabbitMqLifecycleProofs -----------------------
(***************************************************************************)
(* Proofs about RabbitMqLifecycle, for every set of queues, every length   *)
(* of the pool and every number of failures.                               *)
(***************************************************************************)
EXTENDS RabbitMqLifecycle, TLAPS

\* The types, but for the bound of the pool and the Booleans.
Fields == /\ connection \in {"null", "open", "dead"}
          /\ live \in Nat
          /\ ghosts \in Nat
          /\ restart \in {"idle", "stop", "connect", "pool", "rebuild", "cooldown"}
          /\ closer \in {"nobody", "restart", "shutdown"}
          /\ shutdown \in {"no", "stop", "done"}
          /\ consumer \in [Queues -> {"online", "stale", "opening", "absent"}]
          /\ timer \in SUBSET Queues
          /\ faults \in 0..MaxFaults

Flags == /\ listening \in BOOLEAN
         /\ refilling \in BOOLEAN
         /\ oldTimer \in BOOLEAN
         /\ broker \in BOOLEAN
         /\ upset \in BOOLEAN
         /\ crashed \in BOOLEAN

\* createChannelPool() only runs when the pool has no open channel, and no two
\* of its calls overlap.
PoolIsFree == /\ live <= PoolLength
              /\ refilling => live = 0
              /\ connection # "open" => live = 0 /\ ~refilling
              /\ restart \in {"connect", "pool"} => live = 0 /\ ~refilling

\* Past the pool an open connection has its listener.
Watched == connection = "open" /\ restart \in {"rebuild", "cooldown", "idle"} => listening

\* The stop() of a restart runs exactly while the restart waits for it.
StopIsOwn == restart = "stop" <=> closer = "restart"

\* A restart that nothing disturbed since its stop() has closed no server, has
\* a new connection, a full pool behind it, and then only new consumers.
Calm == ~upset =>
            /\ closer # "shutdown"
            /\ restart = "connect" => connection = "null"
            /\ restart \in {"pool", "rebuild", "cooldown"} => connection = "open"
            /\ restart \in {"rebuild", "cooldown"} => listening /\ live > 0
            /\ restart = "rebuild" => \A q \in Queues : consumer[q] # "stale"
            /\ restart = "cooldown" =>
                   \A q \in Queues : consumer[q] \in {"online", "absent"}

IInv == Fields /\ PoolIsFree /\ Watched /\ StopIsOwn /\ Calm

-----------------------------------------------------------------------------

LEMMA FlagsStep == Flags /\ [Next]_vars => Flags'
<1> SUFFICES ASSUME Flags, [Next]_vars PROVE Flags'
  OBVIOUS
<1>1. CASE ConnectionLost
  BY <1>1, Zenon DEF ConnectionLost, Fault, ChannelsClose, Flags
<1>2. CASE BrokerDown \/ BrokerUp
  BY <1>2, Zenon DEF BrokerDown, BrokerUp, Fault, poolVars, Flags
<1>3. CASE PoolChannelClosed
  BY <1>3, Zenon DEF PoolChannelClosed, Fault, Flags
<1>4. CASE ShutdownStop
  BY <1>4, Zenon DEF ShutdownStop, poolVars, Flags
<1>5. CASE StopForShutdown
  BY <1>5, Zenon DEF StopForShutdown, StopBody, ChannelsClose, poolVars, Flags
<1>6. CASE StopForRestart
  BY <1>6, Zenon DEF StopForRestart, StopBody, ChannelsClose, poolVars, Flags
<1>7. CASE Connect \/ ConnectFails
  BY <1>7, Zenon DEF Connect, ConnectFails, poolVars, Flags
<1>8. CASE PoolEmpty
  BY <1>8, Zenon DEF PoolEmpty, Fault, poolVars, Flags
<1>9. ASSUME NEW n \in 0..PoolLength, Refilled(n) PROVE Flags'
  BY <1>9, Zenon DEF Refilled, Fault, Flags
<1>10. ASSUME NEW n \in 0..PoolLength, PoolDone(n) PROVE Flags'
  BY <1>10, Zenon DEF PoolDone, PoolEntries, StartListening, Fault, Flags
<1>11. CASE Rebuilt \/ Cooldown \/ OldRebuildTimer
  BY <1>11, Zenon DEF Rebuilt, Cooldown, OldRebuildTimer, poolVars, Flags
<1>12. ASSUME NEW q \in Queues,
              ConsumerChannelClosed(q) \/ ConsumeDone(q) \/ RebuildTimer(q)
       PROVE  Flags'
  BY <1>12, Zenon DEF ConsumerChannelClosed, ConsumeDone, RebuildTimer, Fault, poolVars, Flags
<1>13. CASE UNCHANGED vars
  BY <1>13, Zenon DEF vars, Flags
<1> QED
  BY <1>1, <1>2, <1>3, <1>4, <1>5, <1>6, <1>7, <1>8, <1>9, <1>10, <1>11, <1>12, <1>13
  DEF Next

\* A failure is counted within its bound.
LEMMA FaultCounts == Fields /\ Fault => faults' \in 0..MaxFaults /\ upset'
BY LifecycleAssumption DEF Fields, Fault

LEMMA InitIInv == Init => IInv
<1> SUFFICES ASSUME Init PROVE IInv
  OBVIOUS
<1>1. Fields
  BY LifecycleAssumption DEF Init, Fields
<1>2. PoolIsFree /\ Watched /\ StopIsOwn /\ Calm
  BY LifecycleAssumption DEF Init, PoolIsFree, Watched, StopIsOwn, Calm
<1> QED
  BY <1>1, <1>2 DEF IInv

\* The connection is lost, whoever notices.
LEMMA LostStep == IInv /\ ConnectionLost => IInv'
<1> SUFFICES ASSUME IInv, ConnectionLost PROVE IInv'
  OBVIOUS
<1> USE LifecycleAssumption DEF IInv, ConnectionLost, Fault
<1>1. /\ connection' = "dead" /\ live' = 0 /\ ~refilling' /\ upset'
      /\ ghosts' \in Nat /\ faults' \in 0..MaxFaults
      /\ consumer' \in [Queues -> {"online", "stale", "opening", "absent"}]
      /\ timer' \in SUBSET Queues
  BY DEF Fields, ChannelsClose
<1>2. \/ UNCHANGED <<restart, closer>>
      \/ Closing /\ restart = "idle" /\ restart' = "connect" /\ UNCHANGED closer
      \/ restart' = "stop" /\ closer' = "restart"
  BY DEF BeginRestart, OnClose, Pending
<1>3. StopIsOwn'
  BY <1>2 DEF StopIsOwn
<1>4. Fields'
  BY <1>1, <1>2 DEF Fields
<1>5. PoolIsFree' /\ Watched' /\ Calm'
  BY <1>1 DEF PoolIsFree, Watched, Calm
<1> QED
  BY <1>3, <1>4, <1>5

\* Failures that only count, and the pool's own channels.
LEMMA FaultStep ==
    IInv /\ (BrokerDown \/ BrokerUp \/ PoolChannelClosed
             \/ (\E q \in Queues : ConsumerChannelClosed(q))
             \/ (\E n \in 0..PoolLength : Refilled(n))) => IInv'
<1> SUFFICES ASSUME IInv, BrokerDown \/ BrokerUp \/ PoolChannelClosed
                          \/ (\E q \in Queues : ConsumerChannelClosed(q))
                          \/ (\E n \in 0..PoolLength : Refilled(n))
             PROVE  IInv'
  OBVIOUS
<1> USE LifecycleAssumption DEF IInv
<1>1. CASE BrokerDown \/ BrokerUp
  BY <1>1 DEF BrokerDown, BrokerUp, Fault, poolVars, Fields, PoolIsFree, Watched,
     StopIsOwn, Calm
<1>2. CASE PoolChannelClosed
  <2>1. /\ live > 0 /\ live' = live - 1 /\ upset' /\ connection = "open"
        /\ refilling' = (refilling \/ live + ghosts = 1)
        /\ faults' \in 0..MaxFaults
        /\ UNCHANGED <<connection, listening, ghosts, restart, closer, shutdown,
                       consumer, timer, oldTimer, broker, crashed>>
    BY <1>2 DEF PoolChannelClosed, LeavesPoolEmpty, Fault, Fields
  <2>2. Fields' /\ Watched' /\ StopIsOwn' /\ Calm'
    BY <2>1 DEF Fields, Watched, StopIsOwn, Calm
  <2>3. PoolIsFree'
    <3>1. refilling' => refilling \/ live + ghosts = 1
      BY <2>1, Zenon
    <3>2. refilling' => live' = 0
      BY <2>1, <3>1 DEF PoolIsFree, Fields
    <3>3. /\ restart \notin {"connect", "pool"} /\ live' <= PoolLength
          /\ connection' = "open" /\ restart' = restart
      BY <2>1 DEF PoolIsFree, Fields
    <3> QED
      BY <3>2, <3>3 DEF PoolIsFree
  <2> QED
    BY <2>2, <2>3
<1>3. ASSUME NEW q \in Queues, ConsumerChannelClosed(q) PROVE IInv'
  BY <1>3 DEF ConsumerChannelClosed, Fault, poolVars, Fields, PoolIsFree, Watched,
     StopIsOwn, Calm
<1>4. ASSUME NEW n \in 0..PoolLength, Refilled(n) PROVE IInv'
  <2>1. /\ refilling /\ ~refilling' /\ live = 0 /\ live' = n /\ n \in Nat /\ n <= PoolLength
        /\ faults' \in 0..MaxFaults /\ (upset => upset')
        /\ UNCHANGED <<connection, listening, ghosts, restart, closer, shutdown,
                       consumer, timer, oldTimer, broker, crashed>>
    BY <1>4 DEF Refilled, Fault, Fields, PoolIsFree
  <2>2. Fields' /\ Watched' /\ StopIsOwn'
    BY <2>1 DEF Fields, Watched, StopIsOwn
  <2>3. PoolIsFree' /\ Calm'
    BY <2>1 DEF PoolIsFree, Calm
  <2> QED
    BY <2>2, <2>3
<1> QED
  BY <1>1, <1>2, <1>3, <1>4

\* The stop() of a shutdown or of a restart.
LEMMA StopStep == IInv /\ (ShutdownStop \/ StopForShutdown \/ StopForRestart) => IInv'
<1> SUFFICES ASSUME IInv, ShutdownStop \/ StopForShutdown \/ StopForRestart
             PROVE  IInv'
  OBVIOUS
<1> USE LifecycleAssumption DEF IInv
<1>1. CASE ShutdownStop
  BY <1>1 DEF ShutdownStop, Closing, poolVars, Fields, PoolIsFree, Watched,
     StopIsOwn, Calm
<1>2. ASSUME NEW who, StopBody(who)
      PROVE  /\ connection' = "null" /\ ~listening' /\ closer' = "nobody" /\ closer = who
             /\ live' = 0 /\ ~refilling' /\ ghosts' \in Nat
             /\ consumer' \in [Queues -> {"online", "stale", "opening", "absent"}]
             /\ timer' \in SUBSET Queues
  <2>1. CASE connection = "open"
    BY <1>2, <2>1 DEF StopBody, ChannelsClose, Fields
  <2>2. CASE connection # "open"
    BY <1>2, <2>2 DEF StopBody, poolVars, Fields, PoolIsFree
  <2> QED
    BY <2>1, <2>2
<1>3. CASE StopForShutdown
  <2>1. /\ shutdown' = "done" /\ closer = "shutdown"
        /\ UNCHANGED <<restart, oldTimer, broker, faults, upset, crashed>>
    BY <1>2, <1>3 DEF StopForShutdown
  <2>2. upset
    BY <2>1 DEF Calm, Fields
  <2> QED
    BY <1>2, <1>3, <2>1, <2>2
    DEF StopForShutdown, Fields, PoolIsFree, Watched, StopIsOwn, Calm
<1>4. CASE StopForRestart
  BY <1>2, <1>4 DEF StopForRestart, Fields, PoolIsFree, Watched, StopIsOwn, Calm
<1> QED
  BY <1>1, <1>3, <1>4

\* A restart that begins again from its catch block.
LEMMA RetryStep ==
    ASSUME IInv, Retry, restart \in {"connect", "pool"},
           UNCHANGED <<connection, listening, poolVars, shutdown, consumer, timer,
                       oldTimer, broker, crashed>>,
           faults' \in 0..MaxFaults,
           upset' \/ ~Closing
    PROVE  IInv'
<1>1. \/ Closing /\ restart' = "connect" /\ closer' = closer /\ upset'
      \/ restart' = "stop" /\ closer' = "restart"
  BY DEF Retry, BeginRestart
<1>2. Fields'
  BY <1>1 DEF IInv, Fields, poolVars
<1>3. PoolIsFree' /\ Watched' /\ StopIsOwn'
  BY <1>1 DEF IInv, PoolIsFree, Watched, StopIsOwn, Closing, poolVars
<1>4. Calm'
  BY <1>1 DEF Calm
<1> QED
  BY <1>2, <1>3, <1>4 DEF IInv

\* connect() and createChannelPool() of a restart.
LEMMA StartStep ==
    IInv /\ (Connect \/ ConnectFails \/ PoolEmpty
             \/ \E n \in 0..PoolLength : PoolDone(n)) => IInv'
<1> SUFFICES ASSUME IInv, Connect \/ ConnectFails \/ PoolEmpty
                          \/ \E n \in 0..PoolLength : PoolDone(n)
             PROVE  IInv'
  OBVIOUS
<1> USE LifecycleAssumption
<1>1. CASE Connect
  BY <1>1 DEF Connect, poolVars, IInv, Fields, PoolIsFree, Watched, StopIsOwn, Calm
<1>2. CASE ConnectFails
  <2>1. upset \/ ~Closing
    BY <1>2 DEF ConnectFails, IInv, Fields, StopIsOwn, Calm, Closing
  <2> QED
    BY <1>2, <2>1, RetryStep DEF ConnectFails, IInv, Fields
<1>3. CASE PoolEmpty
  <2>1. upset' \/ ~Closing
    BY <1>3 DEF PoolEmpty, Fault, IInv, Fields, Calm, Closing
  <2>2. faults' \in 0..MaxFaults
    BY <1>3 DEF PoolEmpty, Fault, IInv, Fields
  <2> QED
    BY <1>3, <2>1, <2>2, RetryStep DEF PoolEmpty
<1>4. ASSUME NEW n \in 0..PoolLength, PoolDone(n) PROVE IInv'
  <2>1. /\ restart = "pool" /\ restart' = "rebuild" /\ live = 0 /\ ~refilling
        /\ listening' = (connection # "null") /\ timer' = {}
        /\ refilling' = refilling
        /\ UNCHANGED <<connection, closer, shutdown, broker, crashed>>
    BY <1>4 DEF PoolDone, PoolEntries, StartListening, IInv, Fields, PoolIsFree
  <2>2. /\ faults' \in 0..MaxFaults
        /\ ~upset' => ~upset /\ (connection = "open" => n = PoolLength)
    BY <1>4 DEF PoolDone, Fault, IInv, Fields
  <2>3. /\ live' \in Nat /\ ghosts' \in Nat /\ live' <= PoolLength
        /\ connection = "open" => live' = n
        /\ connection # "open" => live' = 0
    BY <1>4, <2>1 DEF PoolDone, PoolEntries, IInv, Fields
  <2>4. /\ consumer' \in [Queues -> {"online", "stale", "opening", "absent"}]
        /\ \A q \in Queues : consumer'[q] # "stale"
    BY <1>4 DEF PoolDone, RebuildAll, IInv, Fields
  <2>5. Fields'
    BY <2>1, <2>2, <2>3, <2>4 DEF IInv, Fields
  <2>6. PoolIsFree' /\ Watched' /\ StopIsOwn'
    BY <2>1, <2>3 DEF IInv, Fields, PoolIsFree, Watched, StopIsOwn
  <2>7. Calm'
    <3>1. connection = "open" => listening'
      BY <2>1, Zenon
    <3> QED
      BY <2>1, <2>2, <2>3, <2>4, <3>1 DEF IInv, Calm
  <2> QED
    BY <2>5, <2>6, <2>7 DEF IInv
<1> QED
  BY <1>1, <1>2, <1>3, <1>4

\* The consumers of a restart, its end, and the timers of REBUILD_CONSUMER.
LEMMA RebuildStep ==
    IInv /\ (Rebuilt \/ Cooldown \/ OldRebuildTimer
             \/ \E q \in Queues : ConsumeDone(q) \/ RebuildTimer(q)) => IInv'
<1> SUFFICES ASSUME IInv, Rebuilt \/ Cooldown \/ OldRebuildTimer
                          \/ \E q \in Queues : ConsumeDone(q) \/ RebuildTimer(q)
             PROVE  IInv'
  OBVIOUS
<1> USE LifecycleAssumption DEF IInv
<1>1. CASE Rebuilt
  <2>1. Calm'
    BY <1>1 DEF Rebuilt, RebuildDone, poolVars, Fields, Calm
  <2> QED
    BY <1>1, <2>1 DEF Rebuilt, RebuildDone, poolVars, Fields, PoolIsFree, Watched, StopIsOwn
<1>2. CASE Cooldown \/ OldRebuildTimer
  BY <1>2 DEF Cooldown, CooldownEnds, OldRebuildTimer, poolVars, Fields, PoolIsFree,
     Watched, StopIsOwn, Calm
<1>3. ASSUME NEW q \in Queues, ConsumeDone(q) \/ RebuildTimer(q) PROVE IInv'
  <2>1. /\ UNCHANGED <<connection, listening, poolVars, restart, closer, shutdown,
                       oldTimer, broker>>
        /\ faults' \in 0..MaxFaults /\ (upset => upset')
        /\ timer' \in SUBSET Queues
    BY <1>3 DEF ConsumeDone, RebuildTimer, Fault, Fields
  <2>2. /\ consumer' \in [Queues -> {"online", "stale", "opening", "absent"}]
        /\ \A p \in Queues : consumer'[p] = consumer[p] \/ consumer'[p] \in {"online", "absent"}
    BY <1>3 DEF ConsumeDone, RebuildTimer, Fields
  <2>3. Fields' /\ PoolIsFree' /\ Watched' /\ StopIsOwn'
    BY <2>1, <2>2 DEF Fields, PoolIsFree, Watched, StopIsOwn, poolVars
  <2>4. Calm'
    BY <2>1, <2>2 DEF Calm, Fields, poolVars
  <2> QED
    BY <2>3, <2>4
<1> QED
  BY <1>1, <1>2, <1>3

LEMMA NextIInv == IInv /\ [Next]_vars => IInv'
<1> SUFFICES ASSUME IInv, [Next]_vars PROVE IInv'
  OBVIOUS
<1>1. CASE UNCHANGED vars
  BY <1>1 DEF vars, IInv, Fields, PoolIsFree, Watched, StopIsOwn, Calm
<1> QED
  BY <1>1, LostStep, FaultStep, StopStep, StartStep, RebuildStep DEF Next

THEOREM LifecycleInvariant == Spec => []IInv
BY InitIInv, NextIInv, PTL DEF Spec

\* The fields keep their types, and createChannelPool() never overfills the pool.
THEOREM TypeCorrect == Spec => []TypeOK
<1>1. Init => Flags
  BY DEF Init, Flags
<1>2. IInv /\ Flags => TypeOK
  <2> SUFFICES ASSUME IInv, Flags PROVE TypeOK
    OBVIOUS
  <2>1. live \in 0..PoolLength
    BY LifecycleAssumption DEF IInv, Fields, PoolIsFree
  <2> QED
    BY <2>1, Zenon DEF IInv, Fields, Flags, TypeOK
<1> QED
  BY <1>1, <1>2, FlagsStep, LifecycleInvariant, PTL DEF Spec

\* An open connection that no restart and no stop works on has the listener that
\* answers its loss.
THEOREM WatchedAlways == Spec => []WatchedWhenIdle
<1>1. IInv => WatchedWhenIdle
  BY DEF IInv, Fields, Watched, WatchedWhenIdle, Pending
<1> QED
  BY <1>1, LifecycleInvariant, PTL

\* An undisturbed restart hands over a server that can publish and consume.
THEOREM CleanRestarts == Spec => []CleanRestart
<1>1. IInv => CleanRestart
  <2> SUFFICES ASSUME IInv, restart = "cooldown", ~upset
               PROVE  /\ connection = "open" /\ listening
                      /\ "sent" \in PublishOutcomes
                      /\ \A q \in Queues : consumer[q] \in {"online", "absent"}
    BY DEF CleanRestart
  <2>1. /\ connection = "open" /\ listening /\ live > 0 /\ live \in Nat /\ ghosts \in Nat
        /\ \A q \in Queues : consumer[q] \in {"online", "absent"}
    BY DEF IInv, Calm, Fields
  <2>2. 1 \in 1..live /\ connection # "null" /\ live + ghosts # 0
    BY <2>1
  <2>3. "sent" \in {"sent" : n \in 1..live}
    BY <2>2
  <2> QED
    BY <2>1, <2>2, <2>3 DEF PublishOutcomes
<1> QED
  BY <1>1, LifecycleInvariant, PTL

-----------------------------------------------------------------------------
\* consume() calls of a rebuild are under way only in the rebuild of a restart.
OpeningIsRebuild == restart = "rebuild" \/ \A q \in Queues : consumer[q] # "opening"

LEMMA OpeningStep == IInv /\ OpeningIsRebuild /\ [Next]_vars => OpeningIsRebuild'
<1> SUFFICES ASSUME Fields, StopIsOwn, OpeningIsRebuild, [Next]_vars PROVE OpeningIsRebuild'
  BY DEF IInv
<1>1. CASE UNCHANGED <<restart, consumer>>
  BY <1>1 DEF OpeningIsRebuild
<1>2. CASE ConnectionLost
  BY <1>2 DEF ConnectionLost, ChannelsClose, BeginRestart, OnClose, Pending, Fields,
     OpeningIsRebuild
<1>3. CASE StopForShutdown \/ StopForRestart
  BY <1>3 DEF StopForShutdown, StopForRestart, StopBody, ChannelsClose, StopIsOwn,
     Fields, OpeningIsRebuild
<1>4. CASE Connect \/ ConnectFails \/ PoolEmpty
  BY <1>4 DEF Connect, ConnectFails, PoolEmpty, Retry, OpeningIsRebuild
<1>5. CASE \E n \in 0..PoolLength : PoolDone(n)
  BY <1>5 DEF PoolDone, OpeningIsRebuild
<1>6. CASE Rebuilt \/ Cooldown
  BY <1>6 DEF Rebuilt, RebuildDone, Cooldown, CooldownEnds, OpeningIsRebuild
<1>7. ASSUME NEW q \in Queues, ConsumerChannelClosed(q) \/ ConsumeDone(q) \/ RebuildTimer(q)
      PROVE  OpeningIsRebuild'
  BY <1>7 DEF ConsumerChannelClosed, ConsumeDone, RebuildTimer, Fields, OpeningIsRebuild
<1>8. CASE BrokerDown \/ BrokerUp \/ PoolChannelClosed \/ ShutdownStop \/ OldRebuildTimer
           \/ \E n \in 0..PoolLength : Refilled(n)
  BY <1>8 DEF BrokerDown, BrokerUp, PoolChannelClosed, ShutdownStop, OldRebuildTimer, Refilled,
     OpeningIsRebuild
<1>9. UNCHANGED vars => UNCHANGED <<restart, consumer>>
  BY DEF vars
<1> QED
  BY <1>1, <1>2, <1>3, <1>4, <1>5, <1>6, <1>7, <1>8, <1>9 DEF Next

LEMMA OpeningAlways == Spec => []OpeningIsRebuild
<1>1. Init => OpeningIsRebuild
  BY DEF Init, OpeningIsRebuild
<1> QED
  BY <1>1, OpeningStep, LifecycleInvariant, PTL DEF Spec

\* A step that forgets a consumer is one of REBUILD_CONSUMER, or comes with a
\* failure.
LEMMA KeepsStep ==
    IInv /\ OpeningIsRebuild /\ [Next]_vars =>
        \A q \in Queues : consumer[q] # "absent" /\ consumer'[q] = "absent" =>
                              upset' \/ q \in timer
<1> SUFFICES ASSUME Fields, Calm, OpeningIsRebuild, [Next]_vars,
                    NEW q \in Queues, consumer[q] # "absent", consumer'[q] = "absent"
             PROVE  upset' \/ q \in timer
  BY DEF IInv
<1>1. CASE ConnectionLost \/ StopForShutdown \/ StopForRestart
  BY <1>1 DEF ConnectionLost, StopForShutdown, StopForRestart, StopBody, ChannelsClose, Fields
<1>2. CASE \E n \in 0..PoolLength : PoolDone(n)
  BY <1>2 DEF PoolDone, RebuildAll, Fields
<1>3. CASE \E p \in Queues : ConsumerChannelClosed(p)
  BY <1>3 DEF ConsumerChannelClosed, Fields
<1>4. ASSUME NEW p \in Queues, ConsumeDone(p) PROVE upset' \/ q \in timer
  BY <1>4 DEF ConsumeDone, Fault, Fields, Calm, OpeningIsRebuild
<1>5. ASSUME NEW p \in Queues, RebuildTimer(p) PROVE upset' \/ q \in timer
  BY <1>5 DEF RebuildTimer, Fields
<1>6. CASE UNCHANGED consumer
  BY <1>6
<1>7. BrokerDown \/ BrokerUp \/ PoolChannelClosed \/ ShutdownStop \/ Connect \/ ConnectFails
      \/ PoolEmpty \/ Rebuilt \/ Cooldown \/ OldRebuildTimer \/ UNCHANGED vars
      \/ (\E n \in 0..PoolLength : Refilled(n)) => UNCHANGED consumer
  BY DEF BrokerDown, BrokerUp, PoolChannelClosed, ShutdownStop, Connect, ConnectFails, PoolEmpty,
     Rebuilt, Cooldown, OldRebuildTimer, Refilled, vars
<1> QED
  BY <1>1, <1>2, <1>3, <1>4, <1>5, <1>6, <1>7 DEF Next

\* Stops, starts and rebuilds on a healthy broker keep every consumer.
THEOREM ConsumersStay == Spec => ConsumersAreKept
BY KeepsStep, OpeningAlways, LifecycleInvariant, PTL DEF Spec, ConsumersAreKept
=============================================================================
