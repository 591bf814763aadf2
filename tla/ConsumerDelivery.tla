-------------------------- MODULE ConsumerDelivery --------------------------
(***************************************************************************)
(* How RabbitMqServer (src/infra/mq/utils/rabbitmq-server/                 *)
(* rabbitmq-server.ts) settles the messages its consumers receive: the     *)
(* consume() callback, ack(), reject(), the consumers map, the set of      *)
(* pending messages and the stop() that waits for it.                      *)
(*                                                                         *)
(* Each consume() opens a channel of its own and gets a fresh consumer     *)
(* tag, so a tag stands for its channel.  A delivery is one Message object *)
(* handed to the callback; a message that goes back to its queue and comes *)
(* again is a new delivery of the same message.  The broker and amqplib    *)
(* are external: a closed channel or connection puts what it had           *)
(* unacknowledged back in the queue, and any use of a closed channel       *)
(* throws.                                                                 *)
(***************************************************************************)
EXTENDS Naturals, FiniteSets

CONSTANTS Messages,       \* messages in the queue
          NoMessage,      \* the message of a delivery not made yet
          Unparsable,     \* the ones whose content is not JSON
          MaxTags,        \* bound: calls of consume()
          MaxDeliveries,  \* bound: deliveries over the whole run
          Prefetch        \* options.prefetch of the consumers

ASSUME DeliveryAssumption == /\ NoMessage \notin Messages
                             /\ Unparsable \subseteq Messages
                             /\ MaxTags \in Nat
                             /\ MaxDeliveries \in Nat
                             /\ Prefetch \in Nat \ {0}

VARIABLES connection,   \* this.connection: null, or a live or a dead connection
          stop,         \* where the stop() that set this.closing is
          timedOut,     \* the last stop() gave up waiting for pending messages
          channel,      \* the channel behind each tag
          consumers,    \* keys of this.consumers
          registering,  \* tag whose consume() awaits its continuation, or 0
          count,        \* deliveries made so far
          message,      \* the message of each delivery
          tag,          \* message.fields.consumerTag
          phase,        \* the callback of each delivery
          flags,        \* message.customProperties; {} is undefined
          messages,     \* this.messages
          unacked,      \* deliveries the broker waits to see settled
          settlements,  \* acks and rejects sent for each delivery
          removed,      \* messages the broker no longer has
          \* For the invariants only:
          early,        \* deliveries that came before their consume() continued
          cut           \* deliveries that lost their entry or channel on the way

history == <<early, cut>>

serverVars == <<connection, stop, timedOut, consumers, registering>>
deliveryVars == <<count, message, tag>>
vars == <<connection, stop, timedOut, channel, consumers, registering, count,
          message, tag, phase, flags, messages, unacked, settlements, removed,
          history>>

Tags == 1..MaxTags
Deliveries == 1..MaxDeliveries
Flag == {"defined", "rejected", "acked"}

\* The types of the fields.
TypeOK == /\ connection \in {"null", "open", "dead"}
          /\ stop \in {"idle", "waiting", "closing"}
          /\ timedOut \in BOOLEAN
          /\ channel \in [Tags -> {"none", "open", "cancelled", "closed"}]
          /\ consumers \in SUBSET Tags
          /\ registering \in Tags \cup {0}
          /\ count \in 0..MaxDeliveries
          /\ message \in [Deliveries -> Messages \cup {NoMessage}]
          /\ tag \in [Deliveries -> Tags \cup {0}]
          /\ phase \in [Deliveries -> {"none", "running", "done"}]
          /\ flags \in [Deliveries -> SUBSET Flag]
          /\ messages \in SUBSET Deliveries
          /\ unacked \in SUBSET Deliveries
          /\ settlements \in [Deliveries -> Nat]
          /\ removed \in SUBSET Messages
          /\ early \in SUBSET Deliveries
          /\ cut \in SUBSET Deliveries

\* A started server without consumers.
Init == /\ connection = "open"
        /\ stop = "idle"
        /\ timedOut = FALSE
        /\ channel = [t \in Tags |-> "none"]
        /\ consumers = {}
        /\ registering = 0
        /\ count = 0
        /\ message = [d \in Deliveries |-> NoMessage]
        /\ tag = [d \in Deliveries |-> 0]
        /\ phase = [d \in Deliveries |-> "none"]
        /\ flags = [d \in Deliveries |-> {}]
        /\ messages = {}
        /\ unacked = {}
        /\ settlements = [d \in Deliveries |-> 0]
        /\ removed = {}
        /\ early = {}
        /\ cut = {}

\* this.closing
Closing == stop # "idle"

Usable(t) == channel[t] \in {"open", "cancelled"}

Running == {d \in Deliveries : phase[d] = "running"}

\* The running jobs among ds lose what their ack() goes through.
Cuts(ds) == /\ cut' = cut \cup (Running \cap ds)
            /\ UNCHANGED early

\* A delivery on a channel whose entry is gone already is cut from the start;
\* one whose consume() has not continued yet is early.
Arrives(d, t) ==
    /\ early' = IF registering = t THEN early \cup {d} ELSE early
    /\ cut' = IF t \in consumers \cup {registering} THEN cut ELSE cut \cup {d}

\* Messages the broker can deliver.
Ready == (Messages \ removed) \ {message[d] : d \in unacked}

-----------------------------------------------------------------------------
(* ack() and reject() of one message.  A definition whose name has an      *)
(* underscore is a deliberately wrong variant of the one that follows it.  *)

MaySettle_AckAfterReject(f) == connection # "null" /\ f # {} /\ "acked" \notin f

\* The test both begin with.  Reading customProperties when it is undefined
\* throws; the catch logs it and nothing is settled.
MaySettle(f) == /\ connection # "null"
                /\ f # {}
                /\ f \cap {"rejected", "acked"} = {}

\* this.consumers.get(consumerTag)?.channel.ack(...) gets to the broker.
Reaches(t) == t \in consumers /\ Usable(t)

\* ack() ("ack") or reject(), with or without requeue, of delivery d of
\* message m through tag t, when its customProperties are f and the broker
\* has u unacknowledged.
Settle(d, t, m, f, u, verb) ==
    LET sent == MaySettle(f) /\ Reaches(t)
        mark == IF verb = "ack" THEN "acked" ELSE "rejected"
    IN  /\ flags' = [flags EXCEPT ![d] = IF MaySettle(f) THEN f \cup {mark}
                                                         ELSE f]
        /\ settlements' = [settlements EXCEPT ![d] = IF sent THEN @ + 1 ELSE @]
        /\ unacked' = IF sent THEN u \ {d} ELSE u
        /\ removed' = IF sent /\ verb # "requeue" THEN removed \cup {m}
                                                  ELSE removed

-----------------------------------------------------------------------------
(* Consumers.                                                              *)

\* channel.consume() is answered.  amqplib registers the callback at once, so
\* deliveries read from the socket together with the answer reach it before
\* the continuation of consume() has run.  Tags are numbered by the calls.
ConsumeOk(t) ==
    /\ connection = "open"
    /\ stop # "closing"
    /\ registering = 0
    /\ channel[t] = "none" /\ \A s \in 1..(t - 1) : channel[s] # "none"
    /\ channel' = [channel EXCEPT ![t] = "open"]
    /\ registering' = t
    /\ UNCHANGED <<connection, stop, timedOut, consumers, deliveryVars, phase,
                   flags, messages, unacked, settlements, removed, history>>

Register_NoConsumer ==
    /\ consumers' = consumers \cup {registering}
    /\ registering' = 0
    /\ UNCHANGED <<connection, stop, timedOut, channel, deliveryVars, phase,
                   flags, messages, unacked, settlements, removed, history>>

\* The continuation of consume(): this.consumers.set(consumerTag, ...).
Register ==
    /\ registering # 0
    /\ consumers' = consumers \cup {registering}
    /\ registering' = 0
    /\ UNCHANGED <<connection, stop, timedOut, channel, deliveryVars, phase,
                   flags, messages, unacked, settlements, removed, history>>

\* cancelConsumers(), rebuildConsumers() and rebuildConsumer() take the entry
\* out of the map before they await anything.
DeleteConsumer(t) ==
    /\ registering = 0
    /\ t \in consumers
    /\ consumers' = consumers \ {t}
    /\ Cuts({d \in Deliveries : tag[d] = t})
    /\ UNCHANGED <<connection, stop, timedOut, channel, registering,
                   deliveryVars, phase, flags, messages, unacked, settlements,
                   removed>>

\* Their channel.cancel(): the broker sends nothing more on the channel.
Cancel(t) ==
    /\ registering = 0
    /\ t \notin consumers
    /\ channel[t] = "open"
    /\ channel' = [channel EXCEPT ![t] = "cancelled"]
    /\ UNCHANGED <<serverVars, deliveryVars, phase, flags, messages, unacked,
                   settlements, removed, history>>

\* A channel closes: after their channel.close(), or because the broker closed
\* it.  What it had unacknowledged goes back to the queue.
CloseChannel(t) ==
    /\ registering = 0
    /\ Usable(t)
    /\ channel' = [channel EXCEPT ![t] = "closed"]
    /\ unacked' = {d \in unacked : tag[d] # t}
    /\ Cuts({d \in Deliveries : tag[d] = t})
    /\ UNCHANGED <<serverVars, deliveryVars, phase, flags, messages,
                   settlements, removed>>

CloseAllChannels ==
    /\ channel' = [t \in Tags |-> IF Usable(t) THEN "closed" ELSE channel[t]]
    /\ unacked' = {}

\* The connection breaks; this.connection keeps pointing at it.
ConnectionLost ==
    /\ registering = 0
    /\ connection = "open"
    /\ connection' = "dead"
    /\ CloseAllChannels
    /\ Cuts(Deliveries)
    /\ UNCHANGED <<stop, timedOut, consumers, registering, deliveryVars, phase,
                   flags, messages, settlements, removed>>

-----------------------------------------------------------------------------
(* The callback of consume().                                              *)

Receives(d, t, m) ==
    /\ channel[t] = "open"
    /\ registering \in {0, t}
    /\ m \in Ready
    /\ Cardinality({x \in unacked : tag[x] = t}) < Prefetch
    /\ d = count + 1
    /\ d \in Deliveries
    /\ count' = d
    /\ message' = [message EXCEPT ![d] = m]
    /\ tag' = [tag EXCEPT ![d] = t]

\* A delivery while closing: reject() and then the finally's ack() both trip
\* over the missing customProperties and settle nothing.
ReceiveClosing(d, t, m) ==
    /\ Closing
    /\ Receives(d, t, m)
    /\ Arrives(d, t)
    /\ Settle(d, t, m, {}, unacked \cup {d}, "requeue")
    /\ phase' = [phase EXCEPT ![d] = "done"]
    /\ UNCHANGED <<serverVars, channel, messages>>

\* Content that is not JSON: the parse throws, the catch logs and the finally
\* acknowledges, all before the callback first awaits.
ReceiveUnparsable(d, t, m) ==
    /\ ~Closing
    /\ m \in Unparsable
    /\ Receives(d, t, m)
    /\ Arrives(d, t)
    /\ Settle(d, t, m, {"defined"}, unacked \cup {d}, "ack")
    /\ phase' = [phase EXCEPT ![d] = "done"]
    /\ UNCHANGED <<serverVars, channel, messages>>

\* this.messages.add(message)
Track(d) == messages' = messages \cup {d}

Hold_NoAck(d, m) == removed' = removed \cup {m} /\ UNCHANGED unacked

\* channel.consume() without the noAck option: the broker keeps the message
\* until it is settled.
Hold(d, m) == unacked' = unacked \cup {d} /\ UNCHANGED removed

\* Anything else starts its job.
ReceiveJob(d, t, m) ==
    /\ ~Closing
    /\ m \notin Unparsable
    /\ Receives(d, t, m)
    /\ Arrives(d, t)
    /\ Track(d)
    /\ flags' = [flags EXCEPT ![d] = {"defined"}]
    /\ phase' = [phase EXCEPT ![d] = "running"]
    /\ Hold(d, m)
    /\ UNCHANGED <<serverVars, channel, settlements>>

\* The job calls payload.reject(requeue ?? true), possibly more than once and
\* possibly after its promise has settled.
JobReject(d, verb) ==
    /\ flags[d] # {}
    /\ phase[d] = "running" \/ registering = 0
    /\ Settle(d, tag[d], message[d], flags[d], unacked, verb)
    /\ UNCHANGED <<serverVars, channel, deliveryVars, phase, messages, history>>

Continued_Awaiting == TRUE

\* The continuation of a consume() that was answered was queued before the
\* jobs of the deliveries read with the answer; it reaches consumers.set
\* without another await.
Continued == registering = 0

\* The job's promise settles, either way: the finally acknowledges.
JobDone(d) ==
    /\ Continued
    /\ phase[d] = "running"
    /\ Settle(d, tag[d], message[d], flags[d], unacked, "ack")
    /\ messages' = messages \ {d}
    /\ phase' = [phase EXCEPT ![d] = "done"]
    /\ UNCHANGED <<serverVars, channel, deliveryVars, history>>

-----------------------------------------------------------------------------
(* stop() and start().                                                     *)

\* stop() returns at once when closing; otherwise it sets closing and waits.
Stop ==
    /\ registering = 0
    /\ ~Closing
    /\ stop' = "waiting"
    /\ timedOut' = FALSE
    /\ UNCHANGED <<connection, channel, consumers, registering, deliveryVars,
                   phase, flags, messages, unacked, settlements, removed,
                   history>>

Drained_NotPolled == TRUE

\* What waitForPendingProcessing() polls.
Drained == messages = {}

\* The wait is over and connection.close() is called: from here on amqplib
\* neither delivers nor sends.
StopClose ==
    /\ registering = 0
    /\ stop = "waiting"
    /\ stop' = "closing"
    /\ \/ /\ Drained
          /\ UNCHANGED <<timedOut, history>>
       \/ /\ messages # {}
          /\ timedOut' = TRUE
          /\ Cuts(Deliveries)
    /\ CloseAllChannels
    /\ UNCHANGED <<connection, consumers, registering, deliveryVars, phase,
                   flags, messages, settlements, removed>>

\* close() settled: this.connection = null, this.closing = false.
StopDone ==
    /\ stop = "closing"
    /\ stop' = "idle"
    /\ connection' = "null"
    /\ UNCHANGED <<timedOut, channel, consumers, registering, deliveryVars,
                   phase, flags, messages, unacked, settlements, removed,
                   history>>

\* start(): connects when there is no connection.
Start ==
    /\ connection = "null"
    /\ stop # "closing"
    /\ connection' = "open"
    /\ UNCHANGED <<stop, timedOut, channel, consumers, registering,
                   deliveryVars, phase, flags, messages, unacked, settlements,
                   removed, history>>

Callback(d) ==
    \/ \E t \in Tags, m \in Messages : \/ ReceiveClosing(d, t, m)
                                       \/ ReceiveUnparsable(d, t, m)
                                       \/ ReceiveJob(d, t, m)
    \/ \E verb \in {"requeue", "drop"} : JobReject(d, verb)
    \/ JobDone(d)

Next == \/ \E d \in Deliveries : Callback(d)
        \/ \E t \in Tags : \/ ConsumeOk(t)
                           \/ DeleteConsumer(t)
                           \/ Cancel(t)
                           \/ CloseChannel(t)
        \/ Register
        \/ ConnectionLost
        \/ Stop
        \/ StopClose
        \/ StopDone
        \/ Start

Spec == Init /\ [][Next]_vars

-----------------------------------------------------------------------------
(* Properties.                                                             *)

\* The broker sees at most one ack or reject of a delivery, however the job's
\* own rejects, the finally's ack, cancelled consumers and restarts fall: a
\* second one is an unknown delivery tag and closes the channel (the tests at
\* lines 599-604 and 625-630).
SettledAtMostOnce == \A d \in Deliveries : settlements[d] <= 1

\* this.messages is exactly the deliveries whose job is running: what stop()
\* waits for is the work in progress.
PendingIsRunning == messages = {d \in Deliveries : phase[d] = "running"}

\* A stop() that did not time out closes the connection under no running job,
\* although deliveries keep arriving while it waits.
GracefulStopDrains ==
    stop = "closing" /\ ~timedOut => \A d \in Deliveries : phase[d] # "running"

\* A delivery whose callback has ended was acknowledged or rejected at the
\* broker, exactly once, and will not come again.  All the code's exceptions:
\* it came while closing (flags {}, line 376); it lost its channel, its
\* connection or the wait of stop() while its job ran, or its entry was deleted
\* (cut: ack() finds no entry at line 637 and drops the call); or it came
\* before consume() continued (early), and then only if its content is not
\* JSON or its job rejected it: both are marked before consumers.set (line 442)
\* and sent nowhere, and the mark keeps any later ack() from settling them.
HandledIsSettled ==
    \A d \in Deliveries :
        phase[d] = "done" /\ flags[d] # {} /\ d \notin cut =>
            \/ settlements[d] = 1 /\ d \notin unacked
            \/ /\ d \in early
               /\ message[d] \in Unparsable \/ "rejected" \in flags[d]

\* A message leaves the broker for good only after its callback has ended, or
\* its job gave it up with reject(false), or it could not be parsed.
RemovedIsHandled ==
    \A m \in removed : \E d \in Deliveries :
        /\ message[d] = m
        /\ phase[d] = "done" \/ "rejected" \in flags[d]
=============================================================================
