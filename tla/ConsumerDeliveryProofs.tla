----------------------- MODULE ConsumerDeliveryProofs -----------------------
(***************************************************************************)
(* Proofs about ConsumerDelivery, for every set of messages and every      *)
(* number of consumers and deliveries, and about ConsumerLoading, for      *)
(* every CONSUMER_LIST, RABBIT_OPTIONS and directory of consumers.         *)
(***************************************************************************)
EXTENDS ConsumerDelivery, ConsumerLoading, WellFoundedInduction, TLAPS

\* A delivery that was settled at the broker is marked, and the mark is what
\* keeps ack() and reject() from settling it again.
Marked == \A d \in Deliveries :
             /\ settlements[d] <= 1
             /\ settlements[d] = 1 => flags[d] \cap {"rejected", "acked"} # {}

\* Nothing has happened yet to a delivery that was not made.
Untouched == \A d \in Deliveries :
                d > count => /\ settlements[d] = 0
                             /\ phase[d] = "none"
                             /\ flags[d] = {}

\* A delivery that was made has a message.
Made == \A d \in Deliveries : d <= count => message[d] \in Messages

\* The inductive invariant.
IInv == /\ TypeOK
        /\ Marked
        /\ Untouched
        /\ Made
        /\ PendingIsRunning
        /\ GracefulStopDrains

\* Settling a delivery keeps the types.
LEMMA SettleTypes ==
    ASSUME TypeOK, NEW d \in Deliveries, NEW t, NEW m \in Messages,
           NEW f \in SUBSET Flag, NEW u \in SUBSET Deliveries, NEW verb,
           Settle(d, t, m, f, u, verb)
    PROVE  /\ flags' \in [Deliveries -> SUBSET Flag]
           /\ settlements' \in [Deliveries -> Nat]
           /\ unacked' \in SUBSET Deliveries
           /\ removed' \in SUBSET Messages
BY DEF TypeOK, Settle, Flag

\* Every step keeps the types.
LEMMA NextTypeOK == IInv /\ [Next]_vars => TypeOK'
<1> SUFFICES ASSUME IInv, [Next]_vars PROVE TypeOK'
  OBVIOUS
<1> USE DeliveryAssumption
<1>0. TypeOK
  BY DEF IInv
<1>1. ASSUME NEW d \in Deliveries, NEW t \in Tags, NEW m \in Messages,
             Receives(d, t, m)
      PROVE  /\ count' \in 0..MaxDeliveries
             /\ message' \in [Deliveries -> Messages \cup {NoMessage}]
             /\ tag' \in [Deliveries -> Tags \cup {0}]
  BY <1>0, <1>1 DEF TypeOK, Receives, Deliveries, Tags
<1>2. ASSUME NEW d \in Deliveries, NEW t \in Tags, NEW m \in Messages,
             ReceiveClosing(d, t, m) \/ ReceiveUnparsable(d, t, m)
      PROVE  TypeOK'
  <2>1. PICK f \in SUBSET Flag, verb \in {"ack", "requeue"} :
            Settle(d, t, m, f, unacked \cup {d}, verb)
    <3>1. {} \in SUBSET Flag /\ {"defined"} \in SUBSET Flag
      BY DEF Flag
    <3> QED
      BY <1>2, <3>1, Zenon DEF ReceiveClosing, ReceiveUnparsable
  <2>2. unacked \cup {d} \in SUBSET Deliveries
    BY <1>0 DEF TypeOK
  <2>3. /\ flags' \in [Deliveries -> SUBSET Flag]
        /\ settlements' \in [Deliveries -> Nat]
        /\ unacked' \in SUBSET Deliveries
        /\ removed' \in SUBSET Messages
    BY <1>0, <2>1, <2>2, SettleTypes
  <2>4. /\ Receives(d, t, m)
        /\ phase' = [phase EXCEPT ![d] = "done"]
        /\ Arrives(d, t)
        /\ UNCHANGED <<serverVars, channel, messages>>
    BY <1>2 DEF ReceiveClosing, ReceiveUnparsable
  <2> QED
    BY <1>0, <1>1, <2>3, <2>4 DEF TypeOK, serverVars, Arrives
<1>3. ASSUME NEW d \in Deliveries, NEW t \in Tags, NEW m \in Messages,
             ReceiveJob(d, t, m)
      PROVE  TypeOK'
  BY <1>0, <1>1, <1>3 DEF TypeOK, ReceiveJob, Track, Hold, Flag, serverVars, Arrives
<1>4. ASSUME NEW d \in Deliveries, message[d] \in Messages,
             JobDone(d) \/ \E verb \in {"requeue", "drop"} : JobReject(d, verb)
      PROVE  TypeOK'
  <2>1. PICK verb : Settle(d, tag[d], message[d], flags[d], unacked, verb)
    BY <1>4, Zenon DEF JobDone, JobReject
  <2>2. /\ flags' \in [Deliveries -> SUBSET Flag]
        /\ settlements' \in [Deliveries -> Nat]
        /\ unacked' \in SUBSET Deliveries
        /\ removed' \in SUBSET Messages
    <3>1. flags[d] \in SUBSET Flag /\ unacked \in SUBSET Deliveries
      BY <1>0 DEF TypeOK
    <3> QED
      BY <1>0, <1>4, <2>1, <3>1, SettleTypes
  <2>3. /\ phase' \in [Deliveries -> {"none", "running", "done"}]
        /\ messages' \in SUBSET Deliveries
        /\ UNCHANGED <<serverVars, channel, deliveryVars, history>>
    BY <1>0, <1>4 DEF TypeOK, JobDone, JobReject
  <2> QED
    BY <1>0, <2>2, <2>3 DEF TypeOK, serverVars, deliveryVars, history
<1>5. ASSUME NEW t \in Tags,
             ConsumeOk(t) \/ DeleteConsumer(t) \/ Cancel(t) \/ CloseChannel(t)
      PROVE  TypeOK'
  BY <1>0, <1>5 DEF TypeOK, ConsumeOk, DeleteConsumer, Cancel, CloseChannel,
     serverVars, deliveryVars, Cuts, history
<1>6. CASE Register \/ Stop \/ StopDone \/ Start
  BY <1>0, <1>6 DEF TypeOK, Register, Stop, StopDone, Start, deliveryVars, history
<1>7. CASE ConnectionLost \/ StopClose
  BY <1>0, <1>7 DEF TypeOK, ConnectionLost, StopClose, CloseAllChannels,
     deliveryVars, Cuts, history
<1>8. CASE UNCHANGED vars
  BY <1>0, <1>8 DEF TypeOK, vars, history
<1>9. ASSUME NEW d \in Deliveries,
             JobDone(d) \/ \E verb \in {"requeue", "drop"} : JobReject(d, verb)
      PROVE  message[d] \in Messages
  <2>1. phase[d] = "running" \/ flags[d] # {}
    BY <1>9 DEF JobDone, JobReject
  <2>2. ~(d > count)
    BY <2>1 DEF IInv, Untouched
  <2>3. d <= count
    BY <1>0, <2>2 DEF TypeOK, Deliveries
  <2> QED
    BY <2>3 DEF IInv, Made
<1> QED
  BY <1>2, <1>3, <1>4, <1>5, <1>6, <1>7, <1>8, <1>9 DEF Next, Callback

\* What one ack() or reject() does to the marks, whoever calls it: on a message
\* with its own customProperties, or on one that was just received.
LEMMA SettleStep ==
    ASSUME TypeOK, Marked,
           NEW d \in Deliveries, NEW t, NEW m, NEW f \in SUBSET Flag, NEW u,
           NEW verb \in {"ack", "requeue", "drop"},
           f = flags[d] \/ settlements[d] = 0,
           Settle(d, t, m, f, u, verb)
    PROVE  /\ flags' \in [Deliveries -> SUBSET Flag]
           /\ settlements' \in [Deliveries -> Nat]
           /\ Marked'
           /\ \A e \in Deliveries : e # d => /\ settlements'[e] = settlements[e]
                                             /\ flags'[e] = flags[e]
<1> DEFINE mark == IF verb = "ack" THEN "acked" ELSE "rejected"
           sent == MaySettle(f) /\ Reaches(t)
<1>1. /\ flags' = [flags EXCEPT ![d] = IF MaySettle(f) THEN f \cup {mark} ELSE f]
      /\ settlements' = [settlements EXCEPT ![d] = IF sent THEN @ + 1 ELSE @]
  BY DEF Settle
<1>2. mark \in Flag /\ mark \in {"rejected", "acked"}
  BY DEF Flag
<1> HIDE DEF mark
<1>3. /\ flags' \in [Deliveries -> SUBSET Flag]
      /\ settlements' \in [Deliveries -> Nat]
      /\ \A e \in Deliveries : e # d => /\ settlements'[e] = settlements[e]
                                        /\ flags'[e] = flags[e]
  BY <1>1, <1>2 DEF TypeOK
<1>4. CASE MaySettle(f)
  <2>1. f \cap {"rejected", "acked"} = {}
    BY <1>4 DEF MaySettle
  <2>2. settlements[d] = 0
    BY <2>1 DEF Marked, TypeOK
  <2>3. flags'[d] = f \cup {mark}
    BY <1>1, <1>4 DEF TypeOK
  <2>4. flags'[d] \cap {"rejected", "acked"} # {}
    BY <2>3, <1>2
  <2>5. settlements'[d] \in {0, 1}
    BY <1>1, <2>2 DEF TypeOK
  <2> QED
    BY <1>3, <2>4, <2>5 DEF Marked
<1>5. CASE ~MaySettle(f)
  <2>1. settlements'[d] = settlements[d] /\ flags'[d] = f
    BY <1>1, <1>5 DEF TypeOK
  <2> QED
    BY <1>3, <2>1 DEF Marked
<1> QED
  BY <1>3, <1>4, <1>5

\* The server starts with nothing received.
LEMMA InitIInv == Init => IInv
<1> SUFFICES ASSUME Init PROVE IInv
  OBVIOUS
<1>1. TypeOK
  <2>1. count \in 0..MaxDeliveries
    BY DeliveryAssumption DEF Init
  <2>2. /\ message \in [Deliveries -> Messages \cup {NoMessage}]
        /\ tag \in [Deliveries -> Tags \cup {0}]
        /\ flags \in [Deliveries -> SUBSET Flag]
        /\ phase \in [Deliveries -> {"none", "running", "done"}]
        /\ channel \in [Tags -> {"none", "open", "cancelled", "closed"}]
    BY DEF Init
  <2>3. /\ settlements \in [Deliveries -> Nat]
        /\ registering \in Tags \cup {0}
    BY DEF Init
  <2> QED
    BY <2>1, <2>2, <2>3 DEF Init, TypeOK
<1>2. Marked /\ Untouched
  BY DEF Init, Marked, Untouched
<1>3. Made
  BY DeliveryAssumption DEF Init, Made, Deliveries
<1>4. PendingIsRunning /\ GracefulStopDrains
  BY DEF Init, PendingIsRunning, GracefulStopDrains
<1> QED
  BY <1>1, <1>2, <1>3, <1>4 DEF IInv

\* A step that touches no delivery keeps the invariant, if a stop that begins
\* to close without timing out finds nothing pending.
LEMMA ServerStep ==
    ASSUME IInv, TypeOK',
           UNCHANGED <<count, message, phase, flags, messages, settlements>>,
           stop' = "closing" /\ ~timedOut' =>
               (stop = "closing" /\ ~timedOut) \/ messages = {}
    PROVE  IInv'
<1>1. Marked' /\ Untouched' /\ Made' /\ PendingIsRunning'
  BY DEF IInv, Marked, Untouched, Made, PendingIsRunning
<1>2. GracefulStopDrains'
  BY DEF IInv, PendingIsRunning, GracefulStopDrains
<1> QED
  BY <1>1, <1>2 DEF IInv

\* A delivery that arrives: its number is new.
LEMMA ReceivesFresh ==
    ASSUME IInv, NEW d, NEW t, NEW m \in Messages, Receives(d, t, m)
    PROVE  /\ d \in Deliveries /\ d = count + 1 /\ count' = d
           /\ settlements[d] = 0 /\ phase[d] = "none"
           /\ Made'
<1>1. /\ d \in Deliveries /\ d = count + 1 /\ count' = d
      /\ message' = [message EXCEPT ![d] = m]
  BY DEF Receives
<1>2. settlements[d] = 0 /\ phase[d] = "none"
  BY <1>1, DeliveryAssumption DEF IInv, TypeOK, Untouched, Deliveries
<1>3. Made'
  BY <1>1, DeliveryAssumption DEF IInv, TypeOK, Made, Deliveries
<1> QED
  BY <1>1, <1>2, <1>3

\* A delivery that arrives and ends at once, settled or not.
LEMMA ReceivedAndDone ==
    ASSUME IInv, TypeOK',
           NEW d, NEW t, NEW m \in Messages, Receives(d, t, m),
           NEW f \in SUBSET Flag, NEW u, NEW verb \in {"ack", "requeue", "drop"},
           Settle(d, t, m, f, u, verb),
           phase' = [phase EXCEPT ![d] = "done"],
           UNCHANGED <<messages, stop, timedOut>>
    PROVE  IInv'
<1>1. /\ d \in Deliveries /\ d = count + 1 /\ count' = d
      /\ settlements[d] = 0 /\ phase[d] = "none" /\ Made'
  BY ReceivesFresh
<1>2. TypeOK /\ Marked
  BY DEF IInv
<1>3. /\ flags' \in [Deliveries -> SUBSET Flag]
      /\ settlements' \in [Deliveries -> Nat]
      /\ Marked'
      /\ \A e \in Deliveries : e # d => /\ settlements'[e] = settlements[e]
                                        /\ flags'[e] = flags[e]
  BY <1>1, <1>2, SettleStep
<1>5. Untouched'
  BY <1>1, <1>2, <1>3 DEF IInv, Untouched, TypeOK, Deliveries
<1>6. PendingIsRunning'
  BY <1>1, <1>2 DEF IInv, PendingIsRunning, TypeOK
<1>7. GracefulStopDrains'
  BY <1>1, <1>2 DEF IInv, GracefulStopDrains, TypeOK
<1> QED
  BY <1>1, <1>3, <1>5, <1>6, <1>7 DEF IInv

\* Every step keeps the invariant.
LEMMA NextIInv == IInv /\ [Next]_vars => IInv'
<1> SUFFICES ASSUME IInv, [Next]_vars PROVE IInv'
  OBVIOUS
<1> USE DeliveryAssumption
<1>0. /\ TypeOK /\ Marked /\ Untouched /\ Made
      /\ PendingIsRunning /\ GracefulStopDrains
  BY DEF IInv
<1>t. TypeOK'
  BY NextTypeOK
<1>1. ASSUME NEW d \in Deliveries, NEW t \in Tags, NEW m \in Messages,
             ReceiveClosing(d, t, m)
      PROVE  IInv'
  <2>1. {} \in SUBSET Flag
    OBVIOUS
  <2> QED
    BY <1>t, <1>1, <2>1, ReceivedAndDone, Zenon DEF ReceiveClosing, serverVars
<1>2. ASSUME NEW d \in Deliveries, NEW t \in Tags, NEW m \in Messages,
             ReceiveUnparsable(d, t, m)
      PROVE  IInv'
  <2>1. {"defined"} \in SUBSET Flag
    BY DEF Flag
  <2> QED
    BY <1>t, <1>2, <2>1, ReceivedAndDone, Zenon DEF ReceiveUnparsable, serverVars
<1>3. ASSUME NEW d \in Deliveries, NEW t \in Tags, NEW m \in Messages,
             ReceiveJob(d, t, m)
      PROVE  IInv'
  <2>1. /\ d = count + 1 /\ count' = d
        /\ settlements[d] = 0 /\ phase[d] = "none" /\ Made'
    BY <1>3, ReceivesFresh DEF ReceiveJob
  <2>2. /\ stop = "idle" /\ stop' = stop
        /\ messages' = messages \cup {d}
        /\ flags' = [flags EXCEPT ![d] = {"defined"}]
        /\ phase' = [phase EXCEPT ![d] = "running"]
        /\ settlements' = settlements
    BY <1>3 DEF ReceiveJob, Closing, Track, serverVars
  <2>4. Marked'
    BY <1>0, <2>1, <2>2 DEF TypeOK, Marked
  <2>5. Untouched'
    BY <1>0, <2>1, <2>2 DEF TypeOK, Untouched, Deliveries
  <2>6. PendingIsRunning'
    BY <1>0, <2>1, <2>2 DEF TypeOK, PendingIsRunning
  <2>7. GracefulStopDrains'
    BY <2>2 DEF GracefulStopDrains
  <2> QED
    BY <1>t, <2>1, <2>4, <2>5, <2>6, <2>7 DEF IInv
<1>4. ASSUME NEW d \in Deliveries, NEW verb \in {"requeue", "drop"},
             JobReject(d, verb)
      PROVE  IInv'
  <2>1. /\ Settle(d, tag[d], message[d], flags[d], unacked, verb)
        /\ flags[d] # {}
        /\ UNCHANGED <<count, message, phase, messages, stop, timedOut>>
    BY <1>4 DEF JobReject, serverVars, deliveryVars
  <2>2. flags[d] \in SUBSET Flag
    BY <1>0 DEF TypeOK
  <2>3. /\ flags' \in [Deliveries -> SUBSET Flag]
        /\ settlements' \in [Deliveries -> Nat]
        /\ Marked'
        /\ \A e \in Deliveries : e # d => /\ settlements'[e] = settlements[e]
                                        /\ flags'[e] = flags[e]
    BY <1>0, <2>1, <2>2, SettleStep
  <2>4. Made' /\ PendingIsRunning' /\ GracefulStopDrains'
    BY <1>0, <2>1 DEF TypeOK, Made, PendingIsRunning, GracefulStopDrains
  <2>5. d <= count
    BY <1>0, <2>1 DEF Untouched, TypeOK, Deliveries
  <2>6. Untouched'
    BY <1>0, <2>1, <2>3, <2>5 DEF Untouched, TypeOK, Deliveries
  <2> QED
    BY <1>t, <2>3, <2>4, <2>6 DEF IInv
<1>5. ASSUME NEW d \in Deliveries, JobDone(d) PROVE IInv'
  <2>1. /\ Settle(d, tag[d], message[d], flags[d], unacked, "ack")
        /\ phase[d] = "running"
        /\ messages' = messages \ {d}
        /\ phase' = [phase EXCEPT ![d] = "done"]
        /\ UNCHANGED <<count, message, stop, timedOut>>
    BY <1>5 DEF JobDone, serverVars, deliveryVars
  <2>2. flags[d] \in SUBSET Flag
    BY <1>0 DEF TypeOK
  <2>3. /\ flags' \in [Deliveries -> SUBSET Flag]
        /\ settlements' \in [Deliveries -> Nat]
        /\ Marked'
        /\ \A e \in Deliveries : e # d => /\ settlements'[e] = settlements[e]
                                        /\ flags'[e] = flags[e]
    BY <1>0, <2>1, <2>2, SettleStep
  <2>4. Made' /\ PendingIsRunning' /\ GracefulStopDrains'
    BY <1>0, <2>1 DEF TypeOK, Made, PendingIsRunning, GracefulStopDrains
  <2>5. d <= count
    BY <1>0, <2>1 DEF Untouched, TypeOK, Deliveries
  <2>6. Untouched'
    BY <1>0, <2>1, <2>3, <2>5 DEF Untouched, TypeOK, Deliveries
  <2> QED
    BY <1>t, <2>3, <2>4, <2>6 DEF IInv
<1>6. CASE StopClose
  <2>1. stop' = "closing" /\ ~timedOut' =>
            (stop = "closing" /\ ~timedOut) \/ messages = {}
    BY <1>6 DEF StopClose, Drained
  <2> QED
    BY <1>t, <1>6, <2>1, ServerStep DEF StopClose, deliveryVars
<1>7. CASE \/ Register \/ ConnectionLost \/ Stop \/ StopDone \/ Start
           \/ \E t \in Tags : \/ ConsumeOk(t) \/ DeleteConsumer(t)
                              \/ Cancel(t) \/ CloseChannel(t)
  <2>a. /\ UNCHANGED <<count, message, phase, flags, messages, settlements>>
        /\ UNCHANGED <<stop, timedOut>> \/ stop' # "closing"
    BY <1>7, Zenon DEF Register, ConnectionLost, Stop, StopDone, Start, ConsumeOk,
       DeleteConsumer, Cancel, CloseChannel, deliveryVars, serverVars
  <2>1. /\ UNCHANGED <<count, message, phase, flags, messages, settlements>>
        /\ stop' = "closing" /\ ~timedOut' => stop = "closing" /\ ~timedOut
    BY <2>a
  <2> QED
    BY <1>t, <2>1, ServerStep
<1>8. CASE UNCHANGED vars
  <2>1. /\ UNCHANGED <<count, message, phase, flags, messages, settlements>>
        /\ UNCHANGED <<stop, timedOut>>
    BY <1>8 DEF vars
  <2> QED
    BY <1>t, <2>1, ServerStep
<1> QED
  BY <1>1, <1>2, <1>3, <1>4, <1>5, <1>6, <1>7, <1>8 DEF Next, Callback

\* The inductive invariant holds in every behaviour.
THEOREM DeliveryInvariant == Spec => []IInv
BY InitIInv, NextIInv, PTL DEF Spec

\* The server's fields keep their types.
THEOREM TypeCorrect == Spec => []TypeOK
<1>1. IInv => TypeOK
  BY DEF IInv
<1> QED
  BY <1>1, DeliveryInvariant, PTL

\* No delivery is acknowledged or rejected twice at the broker, for every
\* interleaving of jobs, rejects, rebuilds and stops (ack() and reject(), lines
\* 597-647).
THEOREM SettledOnce == Spec => []SettledAtMostOnce
<1>1. IInv => SettledAtMostOnce
  BY DEF IInv, Marked, SettledAtMostOnce
<1> QED
  BY <1>1, DeliveryInvariant, PTL

\* this.messages is exactly the set of running jobs (lines 378 and 425).
THEOREM PendingIsAlwaysRunning == Spec => []PendingIsRunning
<1>1. IInv => PendingIsRunning
  BY DEF IInv
<1> QED
  BY <1>1, DeliveryInvariant, PTL

\* A stop() that did not time out closes the connection under no running job
\* (lines 165-206).
THEOREM StopDrains == Spec => []GracefulStopDrains
<1>1. IInv => GracefulStopDrains
  BY DEF IInv
<1> QED
  BY <1>1, DeliveryInvariant, PTL

-----------------------------------------------------------------------------
(* What the broker loses and what it keeps.                                *)

\* Only the end of a callback marks its delivery acked.
AckedIsDone == \A d \in Deliveries : "acked" \in flags[d] => phase[d] = "done"

\* A channel is usable on an open connection that nothing closes.
ChannelsAreLive ==
    \A t \in Tags : Usable(t) => connection = "open" /\ stop # "closing"

\* What the broker knows of a delivery that was settled.
IsSettled(d) == settlements[d] = 1 /\ d \notin unacked

\* A running job that was not cut can still be acknowledged: its channel is
\* open and has its entry, or its consume() is about to make the entry; and a
\* reject() of it was sent, unless it came before the entry was made.
CanSettle(d) ==
    /\ tag[d] \in Tags
    /\ channel[tag[d]] = "open"
    /\ tag[d] \in consumers \/ (tag[d] = registering /\ d \in early)
    /\ "defined" \in flags[d]
    /\ "rejected" \in flags[d] => IsSettled(d) \/ d \in early

RunningCanSettle ==
    \A d \in Deliveries : phase[d] = "running" /\ d \notin cut => CanSettle(d)

History == /\ AckedIsDone
           /\ ChannelsAreLive
           /\ RunningCanSettle
           /\ HandledIsSettled
           /\ RemovedIsHandled

\* What one ack() or reject() adds to the marks and takes from the broker.
LEMMA SettleRemoves ==
    ASSUME TypeOK, NEW d \in Deliveries, NEW t, NEW m, NEW f \in SUBSET Flag, NEW u,
           NEW verb \in {"ack", "requeue", "drop"}, Settle(d, t, m, f, u, verb)
    PROVE  /\ removed \subseteq removed' /\ removed' \subseteq removed \cup {m}
           /\ verb = "requeue" => removed' = removed
           /\ f \subseteq flags'[d]
           /\ \A e \in Deliveries \ {d} : flags'[e] = flags[e]
           /\ verb = "drop" /\ removed' # removed => "rejected" \in flags'[d]
           /\ verb # "ack" => ("acked" \in flags'[d] <=> "acked" \in f)
           /\ f = {} => flags'[d] = {}
<1>1. /\ flags' = [flags EXCEPT ![d] =
            IF MaySettle(f) THEN f \cup {IF verb = "ack" THEN "acked" ELSE "rejected"} ELSE f]
      /\ removed' = IF MaySettle(f) /\ Reaches(t) /\ verb # "requeue" THEN removed \cup {m} ELSE removed
  BY DEF Settle
<1>2. /\ flags'[d] = IF MaySettle(f) THEN f \cup {IF verb = "ack" THEN "acked" ELSE "rejected"} ELSE f
      /\ \A e \in Deliveries \ {d} : flags'[e] = flags[e]
  BY <1>1 DEF TypeOK
<1>3. f = {} => ~MaySettle(f)
  BY DEF MaySettle
<1> HIDE DEF MaySettle, Reaches
<1> QED
  BY <1>1, <1>2, <1>3

\* What it does to what the broker knows: the first one on a live entry
\* settles the delivery, and a settled delivery stays settled.
LEMMA SettleSettles ==
    ASSUME TypeOK, Marked, NEW d \in Deliveries, NEW t, NEW m, NEW f \in SUBSET Flag,
           NEW u \in SUBSET Deliveries, NEW verb \in {"ack", "requeue", "drop"},
           f = flags[d] \/ settlements[d] = 0,
           Settle(d, t, m, f, u, verb)
    PROVE  /\ \A e \in Deliveries \ {d} : /\ settlements'[e] = settlements[e]
                                          /\ e \in unacked' <=> e \in u
           /\ MaySettle(f) /\ Reaches(t) => IsSettled(d)'
           /\ settlements[d] = 1 /\ d \notin u => IsSettled(d)'
           /\ verb # "ack" /\ "rejected" \in flags'[d] /\ "rejected" \notin f => MaySettle(f)
<1>1. /\ flags' = [flags EXCEPT ![d] =
            IF MaySettle(f) THEN f \cup {IF verb = "ack" THEN "acked" ELSE "rejected"} ELSE f]
      /\ settlements' = [settlements EXCEPT ![d] = IF MaySettle(f) /\ Reaches(t) THEN @ + 1 ELSE @]
      /\ unacked' = IF MaySettle(f) /\ Reaches(t) THEN u \ {d} ELSE u
  BY DEF Settle
<1>2. /\ settlements'[d] = IF MaySettle(f) /\ Reaches(t) THEN settlements[d] + 1 ELSE settlements[d]
      /\ \A e \in Deliveries \ {d} : settlements'[e] = settlements[e]
      /\ flags'[d] = IF MaySettle(f) THEN f \cup {IF verb = "ack" THEN "acked" ELSE "rejected"} ELSE f
  BY <1>1 DEF TypeOK
<1>3. MaySettle(f) => settlements[d] = 0
  <2>1. settlements[d] \in Nat /\ settlements[d] <= 1
    BY DEF TypeOK, Marked
  <2>2. settlements[d] = 1 /\ f = flags[d] => ~MaySettle(f)
    BY DEF Marked, MaySettle
  <2> QED
    BY <2>1, <2>2
<1> HIDE DEF MaySettle, Reaches
<1>4. \A e \in Deliveries \ {d} : e \in unacked' <=> e \in u
  BY <1>1
<1>5. MaySettle(f) /\ Reaches(t) => settlements'[d] = 1 /\ d \notin unacked'
  BY <1>1, <1>2, <1>3
<1>6. settlements[d] = 1 /\ d \notin u => settlements'[d] = 1 /\ d \notin unacked'
  BY <1>1, <1>2, <1>3
<1>7. verb # "ack" /\ "rejected" \in flags'[d] /\ "rejected" \notin f => MaySettle(f)
  BY <1>2
<1> QED
  BY <1>2, <1>4, <1>5, <1>6, <1>7 DEF IsSettled

\* The same of a delivery that was made before.
LEMMA SettleOwn ==
    ASSUME TypeOK, NEW d \in Deliveries, NEW verb \in {"ack", "requeue", "drop"},
           Settle(d, tag[d], message[d], flags[d], unacked, verb)
    PROVE  /\ removed \subseteq removed' /\ removed' \subseteq removed \cup {message[d]}
           /\ verb = "requeue" => removed' = removed
           /\ flags[d] \subseteq flags'[d]
           /\ \A e \in Deliveries \ {d} : flags'[e] = flags[e]
           /\ verb = "drop" /\ removed' # removed => "rejected" \in flags'[d]
           /\ verb # "ack" => ("acked" \in flags'[d] <=> "acked" \in flags[d])
<1>1. PICK f, m, mark, may : /\ f = flags[d] /\ m = message[d] /\ may = MaySettle(f)
                             /\ mark = IF verb = "ack" THEN "acked" ELSE "rejected"
  OBVIOUS
<1>2. /\ flags' = [flags EXCEPT ![d] = IF may THEN f \cup {mark} ELSE f]
      /\ removed' = IF may /\ Reaches(tag[d]) /\ verb # "requeue" THEN removed \cup {m} ELSE removed
  BY <1>1, Zenon DEF Settle
<1>3. /\ flags'[d] = IF may THEN f \cup {mark} ELSE f
      /\ \A e \in Deliveries \ {d} : flags'[e] = flags[e]
  BY <1>2 DEF TypeOK
<1> HIDE DEF Reaches
<1>4. /\ removed \subseteq removed' /\ removed' \subseteq removed \cup {m}
      /\ verb = "requeue" => removed' = removed
      /\ f \subseteq flags'[d]
      /\ verb = "drop" /\ removed' # removed => "rejected" \in flags'[d]
      /\ verb # "ack" => ("acked" \in flags'[d] <=> "acked" \in f)
  BY <1>1, <1>2, <1>3
<1> QED
  BY <1>1, <1>3, <1>4, Zenon

LEMMA InitHistory == Init => History
<1> SUFFICES ASSUME Init PROVE History
  OBVIOUS
<1>1. AckedIsDone /\ ChannelsAreLive /\ RunningCanSettle
  BY DEF Init, AckedIsDone, ChannelsAreLive, Usable, RunningCanSettle
<1>2. HandledIsSettled /\ RemovedIsHandled
  BY DEF Init, HandledIsSettled, RemovedIsHandled
<1> QED
  BY <1>1, <1>2 DEF History

\* A step that settles nothing and lets no job begin or end keeps what is said
\* of the deliveries that are over; what was unacknowledged may go back.
LEMMA HistoryStays ==
    ASSUME History, UNCHANGED <<message, phase, flags, settlements, removed>>,
           unacked' \subseteq unacked, early \subseteq early', cut \subseteq cut'
    PROVE  AckedIsDone' /\ HandledIsSettled' /\ RemovedIsHandled'
<1>1. AckedIsDone' /\ RemovedIsHandled'
  BY DEF History, AckedIsDone, RemovedIsHandled
<1>2. HandledIsSettled'
  BY DEF History, HandledIsSettled
<1> QED
  BY <1>1, <1>2

\* A channel that is open or cancelled stays on a live connection.
LEMMA LiveStays ==
    ASSUME History, UNCHANGED <<connection, stop, channel>>
    PROVE  ChannelsAreLive'
BY DEF History, ChannelsAreLive, Usable

\* A delivery that arrives is new to all that is said of the others.
LEMMA HistoryReceives ==
    ASSUME IInv, History, NEW d, NEW t \in Tags, NEW m \in Messages, Receives(d, t, m),
           Arrives(d, t),
           removed \subseteq removed', removed' \subseteq removed \cup {m},
           \A e \in Deliveries \ {d} : /\ flags'[e] = flags[e]
                                       /\ settlements'[e] = settlements[e]
                                       /\ e \in unacked' <=> e \in unacked,
           UNCHANGED <<connection, stop, channel, consumers, registering>>,
           \/ /\ phase' = [phase EXCEPT ![d] = "done"]
              /\ \/ flags'[d] = {}
                 \/ m \in Unparsable /\ (t \in consumers => IsSettled(d)')
           \/ /\ phase' = [phase EXCEPT ![d] = "running"]
              /\ flags'[d] = {"defined"} /\ removed' = removed
    PROVE  History'
<1>1. /\ d \in Deliveries /\ d = count + 1 /\ TypeOK
      /\ channel[t] = "open" /\ registering \in {0, t}
      /\ message' = [message EXCEPT ![d] = m] /\ tag' = [tag EXCEPT ![d] = t]
  BY DEF IInv, Receives
<1>2. phase[d] = "none" /\ flags[d] = {}
  BY <1>1, DeliveryAssumption DEF IInv, TypeOK, Untouched, Deliveries
<1>3. /\ message'[d] = m /\ tag'[d] = t /\ phase'[d] \in {"running", "done"}
      /\ \A e \in Deliveries \ {d} : /\ message'[e] = message[e] /\ tag'[e] = tag[e]
                                     /\ phase'[e] = phase[e]
  BY <1>1 DEF TypeOK
<1>a. /\ registering = t => d \in early'
      /\ t \notin consumers /\ registering # t => d \in cut'
      /\ \A e \in Deliveries \ {d} : /\ e \in early' <=> e \in early
                                     /\ e \in cut' <=> e \in cut
  BY DEF Arrives
<1>4. ChannelsAreLive'
  BY LiveStays
<1>5. AckedIsDone'
  <2>1. "acked" \in flags'[d] => phase'[d] = "done"
    BY <1>1 DEF TypeOK
  <2> QED
    BY <1>3, <2>1 DEF History, AckedIsDone
<1>6. RunningCanSettle'
  <2>1. ASSUME phase'[d] = "running", d \notin cut' PROVE CanSettle(d)'
    <3>1. flags'[d] = {"defined"}
      BY <1>1, <2>1 DEF TypeOK
    <3>2. t \in consumers \/ (t = registering /\ d \in early')
      BY <1>a, <2>1
    <3> QED
      BY <1>1, <1>3, <3>1, <3>2 DEF CanSettle
  <2>2. ASSUME NEW e \in Deliveries \ {d}, phase'[e] = "running", e \notin cut'
        PROVE  CanSettle(e)'
    <3>1. CanSettle(e)
      BY <1>3, <1>a, <2>2 DEF History, RunningCanSettle
    <3> QED
      BY <1>3, <1>a, <3>1 DEF CanSettle, IsSettled
  <2> QED
    BY <2>1, <2>2 DEF RunningCanSettle
<1>7. HandledIsSettled'
  <2>1. ASSUME phase'[d] = "done", flags'[d] # {}, d \notin cut'
        PROVE  \/ settlements'[d] = 1 /\ d \notin unacked'
               \/ d \in early' /\ (message'[d] \in Unparsable \/ "rejected" \in flags'[d])
    <3>1. m \in Unparsable /\ (t \in consumers => IsSettled(d)')
      BY <1>1, <2>1 DEF TypeOK
    <3> QED
      BY <1>3, <1>a, <2>1, <3>1 DEF IsSettled
  <2>2. ASSUME NEW e \in Deliveries \ {d}, phase'[e] = "done", flags'[e] # {}, e \notin cut'
        PROVE  \/ settlements'[e] = 1 /\ e \notin unacked'
               \/ e \in early' /\ (message'[e] \in Unparsable \/ "rejected" \in flags'[e])
    <3>1. phase[e] = "done" /\ flags[e] # {} /\ e \notin cut
      BY <1>3, <1>a, <2>2
    <3>2. \/ settlements[e] = 1 /\ e \notin unacked
          \/ e \in early /\ (message[e] \in Unparsable \/ "rejected" \in flags[e])
      BY <3>1 DEF History, HandledIsSettled
    <3> QED
      BY <1>3, <1>a, <3>2
  <2> QED
    BY <2>1, <2>2 DEF HandledIsSettled
<1>8. RemovedIsHandled'
  <2>1. ASSUME NEW r \in removed
        PROVE  \E e \in Deliveries : message'[e] = r /\ (phase'[e] = "done" \/ "rejected" \in flags'[e])
    <3>1. PICK e \in Deliveries : message[e] = r /\ (phase[e] = "done" \/ "rejected" \in flags[e])
      BY DEF History, RemovedIsHandled
    <3>2. e # d
      BY <1>2, <3>1
    <3> QED
      BY <1>3, <3>1, <3>2
  <2>2. removed' # removed => phase'[d] = "done"
    BY <1>1 DEF TypeOK
  <2>3. ASSUME NEW r \in removed'
        PROVE  \E e \in Deliveries : message'[e] = r /\ (phase'[e] = "done" \/ "rejected" \in flags'[e])
    <3>1. CASE r \in removed
      BY <2>1, <3>1
    <3>2. CASE r \notin removed
      <4>1. r = m /\ phase'[d] = "done"
        BY <2>2, <3>2
      <4> QED
        BY <1>1, <1>3, <4>1
    <3> QED
      BY <3>1, <3>2
  <2> QED
    BY <2>3 DEF RemovedIsHandled
<1> QED
  BY <1>4, <1>5, <1>6, <1>7, <1>8 DEF History

\* An ack() or reject() of a delivery that was made before.
LEMMA HistorySettles ==
    ASSUME IInv, History, NEW d \in Deliveries, NEW verb \in {"ack", "requeue", "drop"},
           Settle(d, tag[d], message[d], flags[d], unacked, verb),
           UNCHANGED <<connection, stop, channel, consumers, registering, history,
                       message, tag>>,
           \/ verb # "ack" /\ phase' = phase
           \/ /\ verb = "ack" /\ phase[d] = "running" /\ registering = 0
              /\ phase' = [phase EXCEPT ![d] = "done"]
    PROVE  History'
<1>1. TypeOK /\ flags[d] \in SUBSET Flag
  BY DEF IInv, TypeOK
<1>t. Marked /\ unacked \in SUBSET Deliveries
  BY DEF IInv, TypeOK
<1>2. /\ removed \subseteq removed' /\ removed' \subseteq removed \cup {message[d]}
      /\ verb = "requeue" => removed' = removed
      /\ flags[d] \subseteq flags'[d]
      /\ \A e \in Deliveries \ {d} : flags'[e] = flags[e]
      /\ verb = "drop" /\ removed' # removed => "rejected" \in flags'[d]
      /\ verb # "ack" => ("acked" \in flags'[d] <=> "acked" \in flags[d])
  BY <1>1, SettleOwn
<1>e. flags[d] = {} => flags'[d] = {}
  BY <1>1 DEF Settle, MaySettle, TypeOK
<1>s. /\ \A e \in Deliveries \ {d} : /\ settlements'[e] = settlements[e]
                                     /\ e \in unacked' <=> e \in unacked
      /\ MaySettle(flags[d]) /\ Reaches(tag[d]) => IsSettled(d)'
      /\ settlements[d] = 1 /\ d \notin unacked => IsSettled(d)'
      /\ verb # "ack" /\ "rejected" \in flags'[d] /\ "rejected" \notin flags[d] => MaySettle(flags[d])
  BY <1>1, <1>t, SettleSettles
<1>3. /\ \A e \in Deliveries \ {d} : phase'[e] = phase[e]
      /\ verb = "ack" => phase'[d] = "done"
      /\ verb # "ack" => phase'[d] = phase[d]
  BY <1>1 DEF TypeOK
<1>a. early' = early /\ cut' = cut
  BY DEF history
<1>4. ChannelsAreLive'
  BY LiveStays
<1>5. AckedIsDone'
  BY <1>2, <1>3 DEF History, AckedIsDone
\* A running job that can settle and is not rejected yet settles now.
<1>c. ASSUME CanSettle(d), phase[d] = "running", "rejected" \notin flags[d],
             tag[d] \in consumers
      PROVE  IsSettled(d)'
  <2>1. "acked" \notin flags[d]
    BY <1>c DEF History, AckedIsDone
  <2>2. connection = "open" /\ Reaches(tag[d])
    BY <1>c DEF CanSettle, History, ChannelsAreLive, Reaches, Usable
  <2>3. MaySettle(flags[d])
    BY <1>c, <2>1, <2>2 DEF MaySettle, CanSettle
  <2> QED
    BY <1>s, <2>2, <2>3
<1>6. RunningCanSettle'
  <2>1. ASSUME phase'[d] = "running", d \notin cut' PROVE CanSettle(d)'
    <3>1. verb # "ack" /\ phase[d] = "running" /\ CanSettle(d)
      BY <1>3, <1>a, <2>1 DEF History, RunningCanSettle
    <3>2. "rejected" \in flags'[d] => IsSettled(d)' \/ d \in early
      <4>1. CASE "rejected" \in flags[d]
        BY <1>s, <3>1, <4>1 DEF CanSettle, IsSettled
      <4>2. CASE "rejected" \notin flags[d]
        BY <1>c, <3>1, <4>2 DEF CanSettle
      <4> QED
        BY <4>1, <4>2
    <3> QED
      BY <1>2, <1>a, <3>1, <3>2 DEF CanSettle
  <2>2. ASSUME NEW e \in Deliveries \ {d}, phase'[e] = "running", e \notin cut'
        PROVE  CanSettle(e)'
    <3>1. CanSettle(e)
      BY <1>3, <1>a, <2>2 DEF History, RunningCanSettle
    <3> QED
      BY <1>2, <1>s, <1>a, <3>1 DEF CanSettle, IsSettled
  <2> QED
    BY <2>1, <2>2 DEF RunningCanSettle
<1>7. HandledIsSettled'
  <2>1. ASSUME phase'[d] = "done", flags'[d] # {}, d \notin cut'
        PROVE  \/ settlements'[d] = 1 /\ d \notin unacked'
               \/ d \in early' /\ (message'[d] \in Unparsable \/ "rejected" \in flags'[d])
    <3>1. CASE verb = "ack"
      <4>1. phase[d] = "running" /\ registering = 0 /\ CanSettle(d)
        BY <1>a, <2>1, <3>1 DEF History, RunningCanSettle
      <4>2. tag[d] \in consumers
        BY <4>1 DEF CanSettle, Tags
      <4>3. "rejected" \in flags[d] => IsSettled(d)' \/ d \in early
        BY <1>s, <4>1 DEF CanSettle, IsSettled
      <4>4. "rejected" \notin flags[d] => IsSettled(d)'
        BY <1>c, <4>1, <4>2
      <4> QED
        BY <1>2, <1>a, <4>3, <4>4 DEF IsSettled
    <3>2. CASE verb # "ack"
      <4>1. phase[d] = "done" /\ flags[d] # {} /\ d \notin cut
        BY <1>e, <1>3, <1>a, <2>1, <3>2
      <4>2. \/ settlements[d] = 1 /\ d \notin unacked
            \/ d \in early /\ (message[d] \in Unparsable \/ "rejected" \in flags[d])
        BY <4>1 DEF History, HandledIsSettled
      <4> QED
        BY <1>2, <1>s, <1>a, <4>2 DEF IsSettled
    <3> QED
      BY <3>1, <3>2
  <2>2. ASSUME NEW e \in Deliveries \ {d}, phase'[e] = "done", flags'[e] # {}, e \notin cut'
        PROVE  \/ settlements'[e] = 1 /\ e \notin unacked'
               \/ e \in early' /\ (message'[e] \in Unparsable \/ "rejected" \in flags'[e])
    <3>1. phase[e] = "done" /\ flags[e] # {} /\ e \notin cut
      BY <1>2, <1>3, <1>a, <2>2
    <3>2. \/ settlements[e] = 1 /\ e \notin unacked
          \/ e \in early /\ (message[e] \in Unparsable \/ "rejected" \in flags[e])
      BY <3>1 DEF History, HandledIsSettled
    <3> QED
      BY <1>2, <1>s, <1>a, <3>2
  <2> QED
    BY <2>1, <2>2 DEF HandledIsSettled
<1>8. RemovedIsHandled'
  <2>1. ASSUME NEW e \in Deliveries, phase[e] = "done" \/ "rejected" \in flags[e]
        PROVE  phase'[e] = "done" \/ "rejected" \in flags'[e]
    BY <1>2, <1>3, <2>1
  <2>2. removed' # removed => phase'[d] = "done" \/ "rejected" \in flags'[d]
    BY <1>2, <1>3
  <2> QED
    BY <1>2, <2>1, <2>2 DEF History, RemovedIsHandled
<1> QED
  BY <1>4, <1>5, <1>6, <1>7, <1>8 DEF History

\* Jobs that lose their entry, their channel or their connection are cut; the
\* others keep what they are settled through.
LEMMA HistoryCuts ==
    ASSUME TypeOK, History, NEW ds \in SUBSET Deliveries, Cuts(ds),
           UNCHANGED <<message, tag, phase, flags, settlements, removed>>,
           unacked' \subseteq unacked,
           \A e \in Deliveries \ ds : tag[e] \in Tags =>
               /\ channel'[tag[e]] = channel[tag[e]]
               /\ tag[e] \in consumers' <=> tag[e] \in consumers,
           registering' = registering,
           ChannelsAreLive'
    PROVE  History'
<1>1. /\ early' = early /\ cut \subseteq cut'
      /\ \A e \in Deliveries : phase[e] = "running" /\ e \notin cut' => e \notin ds /\ e \notin cut
  BY DEF Cuts, Running
<1>2. AckedIsDone' /\ HandledIsSettled' /\ RemovedIsHandled'
  BY <1>1, HistoryStays
<1>3. RunningCanSettle'
  <2> SUFFICES ASSUME NEW e \in Deliveries, phase[e] = "running", e \notin cut'
               PROVE  CanSettle(e)'
    BY DEF RunningCanSettle
  <2>1. CanSettle(e) /\ e \notin ds
    BY <1>1 DEF History, RunningCanSettle
  <2> QED
    BY <1>1, <2>1 DEF CanSettle, IsSettled
<1> QED
  BY <1>2, <1>3 DEF History

\* Every step keeps what is said of the broker's messages.
LEMMA NextHistory == IInv /\ History /\ [Next]_vars => History'
<1> SUFFICES ASSUME IInv, History, [Next]_vars PROVE History'
  OBVIOUS
<1>0. /\ TypeOK /\ Marked /\ PendingIsRunning
      /\ {} \in SUBSET Flag /\ {"defined"} \in SUBSET Flag
  BY DEF IInv, Flag
<1>1. ASSUME NEW d \in Deliveries, NEW t \in Tags, NEW m \in Messages,
             ReceiveClosing(d, t, m)
      PROVE  History'
  <2>1. /\ Receives(d, t, m) /\ Settle(d, t, m, {}, unacked \cup {d}, "requeue")
        /\ phase' = [phase EXCEPT ![d] = "done"] /\ Arrives(d, t)
        /\ UNCHANGED <<connection, stop, channel, consumers, registering>>
    BY <1>1 DEF ReceiveClosing, serverVars
  <2>2. /\ removed' = removed /\ flags'[d] = {}
        /\ \A e \in Deliveries \ {d} : flags'[e] = flags[e]
    <3>1. ASSUME NEW f \in SUBSET Flag, f = {},
                 Settle(d, t, m, f, unacked \cup {d}, "requeue")
          PROVE  /\ removed' = removed /\ flags'[d] = {}
                 /\ \A e \in Deliveries \ {d} : flags'[e] = flags[e]
      BY <1>0, <3>1, SettleRemoves
    <3> QED
      BY <1>0, <2>1, <3>1, Zenon
  <2>3. \A e \in Deliveries \ {d} : /\ settlements'[e] = settlements[e]
                                    /\ e \in unacked' <=> e \in unacked
    BY <2>1 DEF Settle, TypeOK, MaySettle, IInv
  <2> QED
    BY <2>1, <2>2, <2>3, HistoryReceives
<1>2. ASSUME NEW d \in Deliveries, NEW t \in Tags, NEW m \in Messages,
             ReceiveUnparsable(d, t, m)
      PROVE  History'
  <2>1. /\ Receives(d, t, m) /\ Settle(d, t, m, {"defined"}, unacked \cup {d}, "ack")
        /\ phase' = [phase EXCEPT ![d] = "done"] /\ m \in Unparsable /\ Arrives(d, t)
        /\ UNCHANGED <<connection, stop, channel, consumers, registering>>
    BY <1>2 DEF ReceiveUnparsable, serverVars
  <2>2. /\ removed \subseteq removed' /\ removed' \subseteq removed \cup {m}
        /\ \A e \in Deliveries \ {d} : flags'[e] = flags[e]
    BY <1>0, <2>1, SettleRemoves
  <2>3. settlements[d] = 0 /\ unacked \cup {d} \in SUBSET Deliveries
    BY <1>0, <2>1, ReceivesFresh DEF TypeOK
  <2>4. /\ \A e \in Deliveries \ {d} : /\ settlements'[e] = settlements[e]
                                       /\ e \in unacked' <=> e \in unacked \cup {d}
        /\ MaySettle({"defined"}) /\ Reaches(t) => IsSettled(d)'
    BY <1>0, <2>1, <2>3, SettleSettles
  <2>5. t \in consumers => IsSettled(d)'
    <3>1. channel[t] = "open"
      BY <2>1 DEF Receives
    <3>2. connection = "open"
      BY <3>1 DEF History, ChannelsAreLive, Usable
    <3> QED
      BY <2>4, <3>1, <3>2 DEF MaySettle, Reaches, Usable
  <2> QED
    BY <2>1, <2>2, <2>4, <2>5, HistoryReceives
<1>3. ASSUME NEW d \in Deliveries, NEW t \in Tags, NEW m \in Messages,
             ReceiveJob(d, t, m)
      PROVE  History'
  <2>1. /\ Receives(d, t, m) /\ removed' = removed /\ Arrives(d, t)
        /\ flags' = [flags EXCEPT ![d] = {"defined"}]
        /\ phase' = [phase EXCEPT ![d] = "running"]
        /\ settlements' = settlements /\ unacked' = unacked \cup {d}
        /\ UNCHANGED <<connection, stop, channel, consumers, registering>>
    BY <1>3 DEF ReceiveJob, Hold, serverVars
  <2>2. flags'[d] = {"defined"} /\ \A e \in Deliveries \ {d} : flags'[e] = flags[e]
    BY <1>0, <2>1 DEF TypeOK
  <2> QED
    BY <2>1, <2>2, HistoryReceives
<1>4. ASSUME NEW d \in Deliveries, NEW verb \in {"requeue", "drop"}, JobReject(d, verb)
      PROVE  History'
  BY <1>4, HistorySettles DEF JobReject, serverVars, deliveryVars
<1>5. ASSUME NEW d \in Deliveries, JobDone(d) PROVE History'
  BY <1>5, HistorySettles DEF JobDone, Continued, serverVars, deliveryVars
<1>6. CASE Stop \/ StopDone \/ Start \/ Register \/ UNCHANGED vars
  <2>1. /\ UNCHANGED <<message, tag, phase, flags, settlements, removed, unacked, channel>>
        /\ early' = early /\ cut' = cut
    BY <1>6 DEF Stop, StopDone, Start, Register, vars, deliveryVars, history
  <2>2. AckedIsDone' /\ HandledIsSettled' /\ RemovedIsHandled'
    BY <2>1, HistoryStays
  <2>3. ChannelsAreLive'
    BY <1>6, <2>1 DEF History, ChannelsAreLive, Usable, Stop, StopDone, Start, Register, vars
  <2>4. ASSUME NEW x \in Tags, x \in consumers \/ x = registering
        PROVE  x \in consumers' \/ (x = registering' /\ x \notin consumers)
    BY <1>6, <2>4 DEF Stop, StopDone, Start, Register, vars
  <2>5. RunningCanSettle'
    <3> SUFFICES ASSUME NEW e \in Deliveries, phase[e] = "running", e \notin cut
                 PROVE  CanSettle(e)'
      BY <2>1 DEF RunningCanSettle
    <3>1. CanSettle(e)
      BY DEF History, RunningCanSettle
    <3>2. tag[e] \in consumers' \/ (tag[e] = registering' /\ e \in early)
      BY <2>4, <3>1 DEF CanSettle
    <3> QED
      BY <2>1, <3>1, <3>2 DEF CanSettle, IsSettled
  <2> QED
    BY <2>2, <2>3, <2>5 DEF History
<1>7. ASSUME NEW t \in Tags, ConsumeOk(t) \/ Cancel(t) PROVE History'
  <2>1. /\ UNCHANGED <<connection, stop, consumers, message, tag, phase, flags, settlements,
                       removed, unacked>>
        /\ early' = early /\ cut' = cut
        /\ registering = 0 /\ registering' \in {0, t} /\ channel[t] # "closed"
        /\ channel' = [channel EXCEPT ![t] = "open"] \/ channel' = [channel EXCEPT ![t] = "cancelled"]
        /\ channel[t] = "open" => t \notin consumers
        /\ channel[t] # "open" => connection = "open" /\ stop # "closing"
    BY <1>7 DEF ConsumeOk, Cancel, serverVars, deliveryVars, history
  <2>2. AckedIsDone' /\ HandledIsSettled' /\ RemovedIsHandled'
    BY <2>1, HistoryStays
  <2>3. \A x \in Tags \ {t} : channel'[x] = channel[x]
    BY <1>0, <2>1 DEF TypeOK
  <2>4. ChannelsAreLive'
    BY <2>1, <2>3 DEF History, ChannelsAreLive, Usable
  <2>5. RunningCanSettle'
    <3> SUFFICES ASSUME NEW e \in Deliveries, phase[e] = "running", e \notin cut
                 PROVE  CanSettle(e)'
      BY <2>1 DEF RunningCanSettle
    <3>1. CanSettle(e)
      BY DEF History, RunningCanSettle
    <3>2. tag[e] \in consumers /\ tag[e] # t
      BY <2>1, <3>1 DEF CanSettle, Tags
    <3> QED
      BY <2>1, <2>3, <3>1, <3>2 DEF CanSettle, IsSettled
  <2> QED
    BY <2>2, <2>4, <2>5 DEF History
<1>8. ASSUME NEW t \in Tags, DeleteConsumer(t) \/ CloseChannel(t) PROVE History'
  <2> DEFINE ds == {e \in Deliveries : tag[e] = t}
  <2>1. /\ UNCHANGED <<connection, stop, registering, message, tag, phase, flags, settlements,
                       removed>>
        /\ Cuts(ds) /\ unacked' \subseteq unacked
        /\ channel' = channel \/ channel' = [channel EXCEPT ![t] = "closed"]
        /\ consumers' = consumers \/ consumers' = consumers \ {t}
    BY <1>8 DEF DeleteConsumer, CloseChannel, serverVars, deliveryVars
  <2>2. /\ \A x \in Tags \ {t} : channel'[x] = channel[x] /\ (x \in consumers' <=> x \in consumers)
        /\ channel'[t] \in {channel[t], "closed"}
    BY <1>0, <2>1 DEF TypeOK
  <2>3. ChannelsAreLive'
    BY <2>1, <2>2 DEF History, ChannelsAreLive, Usable
  <2>4. \A e \in Deliveries \ ds : tag[e] \in Tags =>
               /\ channel'[tag[e]] = channel[tag[e]]
               /\ tag[e] \in consumers' <=> tag[e] \in consumers
    BY <2>2
  <2>5. ds \in SUBSET Deliveries
    OBVIOUS
  <2> HIDE DEF ds
  <2> QED
    BY <1>0, <2>1, <2>3, <2>4, <2>5, HistoryCuts
<1>9. CASE ConnectionLost \/ StopClose
  <2>1. /\ UNCHANGED <<registering, consumers, message, tag, phase, flags, settlements, removed>>
        /\ CloseAllChannels
        /\ Cuts(Deliveries) \/ (messages = {} /\ UNCHANGED history)
    BY <1>9 DEF ConnectionLost, StopClose, Drained, deliveryVars
  <2>2. Cuts(Deliveries)
    <3>1. messages = {} => Running = {}
      BY <1>0 DEF PendingIsRunning, Running
    <3> QED
      BY <2>1, <3>1 DEF Cuts, history
  <2>3. ChannelsAreLive'
    BY <2>1 DEF ChannelsAreLive, CloseAllChannels, Usable
  <2>4. unacked' \subseteq unacked /\ Deliveries \in SUBSET Deliveries
    BY <2>1 DEF CloseAllChannels
  <2> QED
    BY <1>0, <2>1, <2>2, <2>3, <2>4, HistoryCuts
<1> QED
  BY <1>1, <1>2, <1>3, <1>4, <1>5, <1>6, <1>7, <1>8, <1>9 DEF Next, Callback

LEMMA HistoryAlways == Spec => []History
BY InitHistory, NextHistory, DeliveryInvariant, PTL DEF Spec

\* A delivery whose callback has ended was settled at the broker exactly once.
\* The exceptions are the code's: it came while closing; it lost its entry, its
\* channel or the wait of stop() on the way; or it came before consume()
\* continued, with content that is not JSON or a job that rejects.
THEOREM HandledAreSettled == Spec => []HandledIsSettled
<1>1. History => HandledIsSettled
  BY DEF History
<1> QED
  BY <1>1, HistoryAlways, PTL

\* The broker loses a message only after the callback ended, or gave it up.
THEOREM RemovalsAreHandled == Spec => []RemovedIsHandled
<1>1. History => RemovedIsHandled
  BY DEF History
<1> QED
  BY <1>1, HistoryAlways, PTL

-----------------------------------------------------------------------------
(* Which consumers are loaded (ConsumerLoading).                           *)

\* Induction over the natural numbers, for the elements of a set.
LEMMA SetInduction ==
    ASSUME NEW T, 0 \in T, \A n \in Nat : n \in T => n + 1 \in T
    PROVE Nat \subseteq T
<1>1. PICK R : R = OpToRel(<, Nat)
  OBVIOUS
<1>2. IsWellFoundedOn(R, Nat)
  BY <1>1, NatLessThanWellFounded
<1>3. \A x, y \in Nat : <<x, y>> \in R <=> x < y
  BY <1>1 DEF OpToRel
<1>4. SUFFICES ASSUME Nat \ T # {} PROVE FALSE
  OBVIOUS
<1>5. PICK m \in Nat \ T : \A y \in Nat \ T : ~ (<<y, m>> \in R)
  BY <1>2, <1>4, WFMin
<1>6. m - 1 \in Nat /\ m = (m - 1) + 1 /\ m - 1 < m
  OBVIOUS
<1>7. m - 1 \notin T
  BY <1>6
<1> QED
  BY <1>3, <1>5, <1>6, <1>7

\* A bounded set of numbers that is not empty has its maximum.
LEMMA MaxExists ==
    ASSUME NEW n \in Nat, NEW S \in SUBSET (1..n), S # {}
    PROVE  Max(S) \in S /\ \A j \in S : j <= Max(S)
<1> DEFINE Bounded == {m \in Nat : \A U \in SUBSET (1..m) :
                          U # {} => \E i \in U : \A j \in U : j <= i}
<1>1. 0 \in Bounded
  <2>1. 1..0 = {}
    OBVIOUS
  <2> QED
    BY <2>1
<1>2. ASSUME NEW m \in Nat, m \in Bounded PROVE m + 1 \in Bounded
  <2> SUFFICES ASSUME NEW U \in SUBSET (1..(m + 1)), U # {}
               PROVE  \E i \in U : \A j \in U : j <= i
    OBVIOUS
  <2>1. CASE m + 1 \in U
    BY <2>1
  <2>2. CASE m + 1 \notin U
    <3>1. U \in SUBSET (1..m)
      BY <2>2
    <3> QED
      BY <1>2, <3>1
  <2> QED
    BY <2>1, <2>2
<1>3. n \in Bounded
  <2> HIDE DEF Bounded
  <2> QED
    BY <1>1, <1>2, SetInduction
<1>4. \E i \in S : \A j \in S : j <= i
  BY <1>3
<1>5. \E i \in S : \A j \in S : i >= j
  BY <1>4
<1>6. PICK m : m = CHOOSE x \in S : \A y \in S : x >= y
  OBVIOUS
<1>7. m \in S /\ \A j \in S : m >= j
  BY <1>5, <1>6
<1>8. Max(S) = m
  BY <1>6 DEF Max
<1> QED
  BY <1>7, <1>8

\* The entries of CONSUMER_LIST.
IsList(l) ==
    /\ Len(l) \in Nat /\ DOMAIN l = 1..Len(l)
    /\ \A i \in 1..Len(l) : /\ l[i].deny \in BOOLEAN
                            /\ l[i] = [deny |-> l[i].deny, name |-> l[i].name]

\* What the first n entries of a list say.
WildIn(l, n) == {i \in 1..n : l[i].name = "*"}
NamedIn(l, n, deny) == {l[i].name : i \in {j \in (1..n) \ WildIn(l, n) : l[j].deny = deny}}
LastDenies(l, n) == l[Max(WildIn(l, n))].deny
AllowsAll(l, n) == WildIn(l, n) # {} /\ ~LastDenies(l, n)
DeniesAll(l, n) == WildIn(l, n) # {} /\ LastDenies(l, n)
OptionsIn(l, n) ==
    [allowAll |-> AllowsAll(l, n), denyAll |-> DeniesAll(l, n),
     allow |-> NamedIn(l, n, FALSE), deny |-> NamedIn(l, n, TRUE)]

\* The options o are these four.
Holds(o, a, d, A, D) == o = [allowAll |-> a, denyAll |-> d, allow |-> A, deny |-> D]

\* What a turn of the loop makes of the four options.
LEMMA EntryChanges ==
    ASSUME NEW o, NEW a, NEW d, NEW A, NEW D, Holds(o, a, d, A, D), NEW e
    PROVE  /\ e.name = "*" =>
                  WithEntry(o, e) =
                      [allowAll |-> ~e.deny, denyAll |-> e.deny, allow |-> A, deny |-> D]
           /\ e.name # "*" /\ e.deny =>
                  WithEntry(o, e) =
                      [allowAll |-> a, denyAll |-> d, allow |-> A, deny |-> D \cup {e.name}]
           /\ e.name # "*" /\ ~e.deny =>
                  WithEntry(o, e) =
                      [allowAll |-> a, denyAll |-> d, allow |-> A \cup {e.name}, deny |-> D]
<1>0. o = [allowAll |-> a, denyAll |-> d, allow |-> A, deny |-> D]
  BY DEF Holds
<1>1. ASSUME NEW x, NEW y
      PROVE  [o EXCEPT !.allowAll = x, !.denyAll = y] =
                 [allowAll |-> x, denyAll |-> y, allow |-> A, deny |-> D]
  <2>1. PICK p : p = [o EXCEPT !.allowAll = x]
    OBVIOUS
  <2>2. p = [allowAll |-> x, denyAll |-> d, allow |-> A, deny |-> D]
    BY <1>0, <2>1
  <2>3. [p EXCEPT !.denyAll = y] = [allowAll |-> x, denyAll |-> y, allow |-> A, deny |-> D]
    BY <2>2
  <2>4. [o EXCEPT !.allowAll = x, !.denyAll = y] = [p EXCEPT !.denyAll = y]
    BY <2>1
  <2> QED
    BY <2>3, <2>4
<1>2. [o EXCEPT !.deny = @ \cup {e.name}] =
          [allowAll |-> a, denyAll |-> d, allow |-> A, deny |-> D \cup {e.name}]
  BY <1>0
<1>3. [o EXCEPT !.allow = @ \cup {e.name}] =
          [allowAll |-> a, denyAll |-> d, allow |-> A \cup {e.name}, deny |-> D]
  BY <1>0
<1>4. CASE e.name = "*"
  <2>1. WithEntry(o, e) = [o EXCEPT !.allowAll = ~e.deny, !.denyAll = e.deny]
    BY <1>4, Zenon DEF WithEntry
  <2> QED
    BY <1>1, <1>4, <2>1, Zenon
<1>5. CASE e.name # "*" /\ e.deny
  <2>1. WithEntry(o, e) = [o EXCEPT !.deny = @ \cup {e.name}]
    BY <1>5 DEF WithEntry
  <2> QED
    BY <1>2, <1>5, <2>1, Zenon
<1>6. CASE e.name # "*" /\ ~e.deny
  <2>1. WithEntry(o, e) = [o EXCEPT !.allow = @ \cup {e.name}]
    BY <1>6 DEF WithEntry
  <2> QED
    BY <1>3, <1>6, <2>1, Zenon
<1> QED
  BY <1>4, <1>5, <1>6, Zenon

\* A turn of the loop of extractQueueOptions() adds what its entry says.
LEMMA EntryAdds ==
    ASSUME NEW l, IsList(l), NEW n \in Nat, n + 1 <= Len(l)
    PROVE  WithEntry(OptionsIn(l, n), l[n + 1]) = OptionsIn(l, n + 1)
<1>1. n + 1 \in 1..Len(l) /\ 1..(n + 1) = (1..n) \cup {n + 1} /\ n + 1 \notin 1..n
  BY DEF IsList
<1>2. PICK e : e = l[n + 1]
  OBVIOUS
<1>3. e.deny \in BOOLEAN
  BY <1>1, <1>2 DEF IsList
<1>4. PICK W : W = WildIn(l, n)
  OBVIOUS
<1>5. W \subseteq 1..n
  BY <1>4 DEF WildIn
<1>6. PICK A : A = NamedIn(l, n, FALSE)
  OBVIOUS
<1>7. PICK D : D = NamedIn(l, n, TRUE)
  OBVIOUS
<1>10. PICK a, d : /\ a = AllowsAll(l, n) /\ d = DeniesAll(l, n)
                   /\ OptionsIn(l, n) = [allowAll |-> a, denyAll |-> d, allow |-> A, deny |-> D]
  BY <1>6, <1>7, Zenon DEF OptionsIn
<1>11. PICK o : o = OptionsIn(l, n)
  OBVIOUS
<1>12. Holds(o, a, d, A, D)
  BY <1>10, <1>11, Zenon DEF Holds
<1>13. /\ e.name = "*" =>
              WithEntry(o, e) =
                  [allowAll |-> ~e.deny, denyAll |-> e.deny, allow |-> A, deny |-> D]
       /\ e.name # "*" /\ e.deny =>
              WithEntry(o, e) =
                  [allowAll |-> a, denyAll |-> d, allow |-> A, deny |-> D \cup {e.name}]
       /\ e.name # "*" /\ ~e.deny =>
              WithEntry(o, e) =
                  [allowAll |-> a, denyAll |-> d, allow |-> A \cup {e.name}, deny |-> D]
  BY <1>12, EntryChanges
<1>8. CASE e.name = "*"
  <2>1. WildIn(l, n + 1) = W \cup {n + 1}
    BY <1>1, <1>2, <1>4, <1>8 DEF WildIn
  <2>2. Max(WildIn(l, n + 1)) = n + 1
    <3>1. PICK m : m = Max(WildIn(l, n + 1))
      OBVIOUS
    <3>2. WildIn(l, n + 1) \in SUBSET (1..(n + 1)) /\ n + 1 \in Nat /\ WildIn(l, n + 1) # {}
      <4>1. WildIn(l, n + 1) \subseteq 1..(n + 1)
        BY DEF WildIn
      <4> QED
        BY <2>1, <4>1
    <3>3. m \in WildIn(l, n + 1) /\ \A j \in WildIn(l, n + 1) : j <= m
      BY <3>1, <3>2, MaxExists
    <3>4. m \in 1..(n + 1) /\ n + 1 <= m
      BY <2>1, <3>2, <3>3
    <3> QED
      BY <3>1, <3>4
  <2>3. NamedIn(l, n + 1, FALSE) = A /\ NamedIn(l, n + 1, TRUE) = D
    <3>1. (1..(n + 1)) \ WildIn(l, n + 1) = (1..n) \ WildIn(l, n)
      BY <1>1, <1>4, <2>1
    <3> QED
      BY <1>6, <1>7, <3>1 DEF NamedIn
  <2>4. LastDenies(l, n + 1) = e.deny
    BY <1>2, <2>2 DEF LastDenies
  <2>5. OptionsIn(l, n + 1) = [allowAll |-> ~e.deny, denyAll |-> e.deny, allow |-> A, deny |-> D]
    <3>1. WildIn(l, n + 1) # {}
      BY <2>1
    <3>2. AllowsAll(l, n + 1) = ~e.deny /\ DeniesAll(l, n + 1) = e.deny
      BY <1>3, <2>4, <3>1 DEF AllowsAll, DeniesAll
    <3> QED
      BY <2>3, <3>2, Zenon DEF OptionsIn
  <2>6. WithEntry(OptionsIn(l, n), e) =
            [allowAll |-> ~e.deny, denyAll |-> e.deny, allow |-> A, deny |-> D]
    BY <1>8, <1>11, <1>13, Zenon
  <2> QED
    BY <1>2, <2>5, <2>6
<1>9. CASE e.name # "*"
  <2>1. WildIn(l, n + 1) = W
    BY <1>1, <1>2, <1>4, <1>9 DEF WildIn
  <2>2. AllowsAll(l, n + 1) = AllowsAll(l, n) /\ DeniesAll(l, n + 1) = DeniesAll(l, n)
    BY <1>4, <2>1, Zenon DEF AllowsAll, DeniesAll, LastDenies
  <2>3. (1..(n + 1)) \ WildIn(l, n + 1) = ((1..n) \ WildIn(l, n)) \cup {n + 1}
    BY <1>1, <1>4, <1>5, <2>1
  <2>4. CASE e.deny
    <3>1. NamedIn(l, n + 1, FALSE) = A /\ NamedIn(l, n + 1, TRUE) = D \cup {e.name}
      BY <1>2, <1>3, <1>6, <1>7, <2>3, <2>4 DEF NamedIn
    <3>2. OptionsIn(l, n + 1) = [allowAll |-> a, denyAll |-> d, allow |-> A, deny |-> D \cup {e.name}]
      BY <1>10, <2>2, <3>1, Zenon DEF OptionsIn
    <3> QED
      BY <1>2, <1>9, <1>11, <1>13, <2>4, <3>2, Zenon
  <2>5. CASE ~e.deny
    <3>1. NamedIn(l, n + 1, FALSE) = A \cup {e.name} /\ NamedIn(l, n + 1, TRUE) = D
      BY <1>2, <1>3, <1>6, <1>7, <2>3, <2>5 DEF NamedIn
    <3>2. OptionsIn(l, n + 1) = [allowAll |-> a, denyAll |-> d, allow |-> A \cup {e.name}, deny |-> D]
      BY <1>10, <2>2, <3>1, Zenon DEF OptionsIn
    <3> QED
      BY <1>2, <1>9, <1>11, <1>13, <2>5, <3>2, Zenon
  <2> QED
    BY <2>4, <2>5
<1> QED
  BY <1>8, <1>9

\* The two readings of a list are one.
LEMMA ListsReadAlike ==
    ASSUME NEW l, IsList(l)
    PROVE  QueueOptions(l) = LoaderOptions(l)
<1> DEFINE Loops(f) == f = [i \in 0..Len(l) |-> IF i = 0 THEN NoOptions
                                                 ELSE WithEntry(f[i - 1], l[i])]
<1>1. Len(l) \in Nat /\ DOMAIN l = 1..Len(l)
  BY DEF IsList
<1>2. OptionsIn(l, 0) = NoOptions
  <2>1. 1..0 = {}
    OBVIOUS
  <2>2. WildIn(l, 0) = {}
    BY <2>1 DEF WildIn
  <2>3. NamedIn(l, 0, TRUE) = {} /\ NamedIn(l, 0, FALSE) = {}
    BY <2>1 DEF NamedIn
  <2>4. AllowsAll(l, 0) = FALSE /\ DeniesAll(l, 0) = FALSE
    BY <2>2, Zenon DEF AllowsAll, DeniesAll
  <2> QED
    BY <2>3, <2>4, Zenon DEF OptionsIn, NoOptions
<1>3. \A i \in 1..Len(l) : OptionsIn(l, i) = WithEntry(OptionsIn(l, i - 1), l[i])
  <2> SUFFICES ASSUME NEW i \in 1..Len(l)
               PROVE  OptionsIn(l, i) = WithEntry(OptionsIn(l, i - 1), l[i])
    OBVIOUS
  <2>1. PICK n \in Nat : n = i - 1
    BY <1>1
  <2>2. n + 1 = i /\ n + 1 <= Len(l)
    BY <1>1, <2>1
  <2> QED
    BY <2>1, <2>2, EntryAdds
<1>4. \E f : Loops(f)
  <2>1. PICK h : h = [i \in 0..Len(l) |-> OptionsIn(l, i)]
    OBVIOUS
  <2>2. Loops(h)
    <3>1. \A i \in 1..Len(l) : i - 1 \in 0..Len(l) /\ i # 0
      BY <1>1
    <3>2. \A i \in 0..Len(l) : OptionsIn(l, i) = IF i = 0 THEN NoOptions
                                                 ELSE WithEntry(h[i - 1], l[i])
      BY <1>1, <1>2, <1>3, <2>1, <3>1
    <3> QED
      BY <2>1, <3>2
  <2> QED
    BY <2>2
<1>5. PICK g : g = CHOOSE f : Loops(f)
  OBVIOUS
<1>6. Loops(g)
  BY <1>4, <1>5
<1> DEFINE Agrees == {m \in Nat : m <= Len(l) => g[m] = OptionsIn(l, m)}
<1>7. 0 \in Agrees
  BY <1>1, <1>2, <1>6
<1>8. ASSUME NEW m \in Nat, m \in Agrees PROVE m + 1 \in Agrees
  <2> SUFFICES ASSUME m + 1 <= Len(l) PROVE g[m + 1] = OptionsIn(l, m + 1)
    OBVIOUS
  <2>1. m + 1 \in 0..Len(l) /\ m + 1 # 0 /\ m <= Len(l) /\ (m + 1) - 1 = m
    BY <1>1
  <2>2. g[m + 1] = WithEntry(g[m], l[m + 1])
    BY <1>6, <2>1
  <2> QED
    BY <1>8, <2>1, <2>2, EntryAdds
<1>9. Len(l) \in Agrees
  <2> HIDE DEF Agrees
  <2> QED
    BY <1>1, <1>7, <1>8, SetInduction
<1>10. QueueOptions(l) = g[Len(l)]
  BY <1>5 DEF QueueOptions
<1>11. LoaderOptions(l) = OptionsIn(l, Len(l))
  BY <1>1 DEF LoaderOptions, OptionsIn, AllowsAll, DeniesAll, WildIn, NamedIn, LastDenies
<1> QED
  BY <1>1, <1>9, <1>10, <1>11

-----------------------------------------------------------------------------
(* The inductive invariant of the loading.                                 *)

\* The startup reads one list, one value of RABBIT_OPTIONS and one directory.
OneScenario == list \in Lists /\ setting \in Settings /\ files \in Directories

\* A pair without a value ends the startup in the constructor.
PairsHaveValues == loading \in {"built", "loaded"} =>
                      \A i \in DOMAIN setting : setting[i].text # "missing"

Selects(q) == \E i \in RunFiles \cap FileOf(q) : Selected(files[i])

\* The consumers are those that the list and the options select.
AreSelected == loading = "loaded" => \A q \in Queues : (consumer[q] # "none") <=> Selects(q)

PrefetchOf(q) == PrefetchFor(Definition(q))

\* A consumer that may have deliveries has the limit of its prefetch.
AreLimited == \A q \in Queues :
    consumer[q] \in {"consume", "online"} /\ Limits(PrefetchOf(q)) =>
        /\ ~Invalid(PrefetchOf(q))
        /\ limit[q] = Number(PrefetchOf(q))

LoadingInv == /\ LoadingTypeOK
              /\ OneScenario
              /\ PairsHaveValues
              /\ AreSelected
              /\ AreLimited
              /\ HeldIsBounded

\* The entries of a sequence are of its type.
LEMMA EntriesAreTyped ==
    ASSUME NEW S, NEW s \in Seq(S)
    PROVE  Len(s) \in Nat /\ DOMAIN s = 1..Len(s) /\ \A i \in DOMAIN s : s[i] \in S
OBVIOUS

\* What the assumptions say of a scenario.
LEMMA ScenarioTypes ==
    ASSUME OneScenario
    PROVE  /\ IsList(list)
           /\ Len(setting) \in Nat /\ DOMAIN setting = 1..Len(setting)
           /\ \A i \in DOMAIN setting :
                 setting[i].text \in {"True", "False", "no", "", "0", "1", "3", "missing"}
           /\ \A i \in DOMAIN files :
                 /\ files[i].queue \in Queues
                 /\ files[i].form \in {"options", "string"}
                 /\ files[i].enabled \in {"undefined", "true", "false"}
                 /\ files[i].prefetch \in {"undefined", "0", "1", "3"}
           /\ \A i, j \in DOMAIN files : files[i].queue = files[j].queue => i = j
<1>1. IsList(list)
  <2>1. PICK N : list \in Seq([deny : BOOLEAN, name : N])
    BY LoadingAssumption DEF OneScenario
  <2>2. /\ Len(list) \in Nat /\ DOMAIN list = 1..Len(list)
        /\ \A i \in DOMAIN list : list[i] \in [deny : BOOLEAN, name : N]
    BY <2>1, EntriesAreTyped, Zenon
  <2>3. \A i \in DOMAIN list : /\ list[i].deny \in BOOLEAN
                               /\ list[i] = [deny |-> list[i].deny, name |-> list[i].name]
    BY <2>2
  <2> QED
    BY <2>2, <2>3, Zenon DEF IsList
<1>2. /\ Len(setting) \in Nat /\ DOMAIN setting = 1..Len(setting)
      /\ \A i \in DOMAIN setting :
            setting[i].text \in {"True", "False", "no", "", "0", "1", "3", "missing"}
  <2>1. PICK N : setting \in Seq([queue : N, field : {"enabled", "prefetch"},
                     text : {"True", "False", "no", "", "0", "1", "3", "missing"}])
    BY LoadingAssumption DEF OneScenario
  <2>2. /\ Len(setting) \in Nat /\ DOMAIN setting = 1..Len(setting)
        /\ \A i \in DOMAIN setting :
              setting[i] \in [queue : N, field : {"enabled", "prefetch"},
                     text : {"True", "False", "no", "", "0", "1", "3", "missing"}]
    BY <2>1, EntriesAreTyped, Zenon
  <2> QED
    BY <2>2
<1>3. /\ files \in Seq([kind : {"setup", "broken", "noFunction", "throws"}, queue : Queues,
                        form : {"options", "string"}, enabled : {"undefined", "true", "false"},
                        prefetch : {"undefined", "0", "1", "3"}])
      /\ \A i, j \in DOMAIN files : files[i].queue = files[j].queue => i = j
  BY DirectoriesAssumption DEF OneScenario
<1>4. \A i \in DOMAIN files :
         files[i] \in [kind : {"setup", "broken", "noFunction", "throws"}, queue : Queues,
                       form : {"options", "string"}, enabled : {"undefined", "true", "false"},
                       prefetch : {"undefined", "0", "1", "3"}]
  BY <1>3, EntriesAreTyped, Zenon
<1> QED
  BY <1>1, <1>2, <1>3, <1>4

\* What RABBIT_OPTIONS may say, once the constructor has read it.
LEMMA EnvValues ==
    ASSUME OneScenario,
           NEW q, NEW field
    PROVE  FromEnv(q, field) = "undefined" \/
           \E i \in DOMAIN setting : FromEnv(q, field) = Value(setting[i].text)
<1> DEFINE pairs == {i \in DOMAIN setting : setting[i].queue = q /\ setting[i].field = field}
<1>1. PICK P : P = pairs
  OBVIOUS
<1>2. P \in SUBSET (1..Len(setting)) /\ Len(setting) \in Nat /\ DOMAIN setting = 1..Len(setting)
  BY <1>1, ScenarioTypes
<1>3. CASE P = {}
  BY <1>1, <1>3, Zenon DEF FromEnv
<1>4. CASE P # {}
  <2>1. Max(P) \in P
    BY <1>2, <1>4, MaxExists
  <2>2. FromEnv(q, field) = Value(setting[Max(P)].text)
    BY <1>1, <1>4, Zenon DEF FromEnv
  <2> QED
    BY <1>2, <2>1, <2>2
<1> QED
  BY <1>3, <1>4

\* A prefetch that limits, and is a number, is at least 1.
LEMMA PrefetchIsPositive ==
    ASSUME OneScenario,
           \A i \in DOMAIN setting : setting[i].text # "missing",
           NEW i \in DOMAIN files,
           Limits(PrefetchFor(files[i])), ~Invalid(PrefetchFor(files[i]))
    PROVE  Number(PrefetchFor(files[i])) > 0
<1>1. PICK v : v = PrefetchFor(files[i])
  OBVIOUS
<1>2. PICK w : w = FromEnv(files[i].queue, "prefetch")
  OBVIOUS
<1>3. w \in {"undefined", "true", "false", "no", "0", "1", "3"}
  <2>1. w = "undefined" \/ \E j \in DOMAIN setting : w = Value(setting[j].text)
    BY <1>2, EnvValues
  <2>2. \A j \in DOMAIN setting : setting[j].text \in {"True", "False", "no", "", "0", "1", "3"}
    BY ScenarioTypes
  <2> QED
    BY <2>1, <2>2 DEF Value
<1>4. files[i].prefetch \in {"undefined", "0", "1", "3"}
  BY ScenarioTypes
<1>5. v \in {"true", "false", "no", "0", "1", "3", "default"}
  BY <1>1, <1>2, <1>3, <1>4 DEF PrefetchFor, Option, FirstDefined
<1>6. ~(v \in {"0", "false"}) /\ ~(v \in {"true", "no"})
  BY <1>1 DEF Limits, Invalid
<1>7. DefaultPrefetch \in Nat \ {0}
  BY LoadingAssumption
<1>8. v \in {"1", "3", "default"}
  BY <1>5, <1>6
<1>9. PICK n : n = Number(v)
  OBVIOUS
<1>10. n = DefaultPrefetch \/ n = 1 \/ n = 3
  BY <1>8, <1>9, Zenon DEF Number
<1>11. n > 0
  BY <1>7, <1>10
<1> QED
  BY <1>1, <1>9, <1>11, Zenon

\* What is read of the scenario stays as it is.
LEMMA ScenarioStays ==
    ASSUME UNCHANGED scenario
    PROVE  /\ OneScenario' = OneScenario
           /\ \A q : PrefetchOf(q)' = PrefetchOf(q)
           /\ \A q : Selects(q)' = Selects(q)
<1>1. list' = list /\ setting' = setting /\ files' = files
  BY DEF scenario
<1>2. ASSUME NEW i PROVE Selected(files[i])' = Selected(files[i])
  BY <1>1, Zenon DEF Selected, Option, FromEnv
<1>3. ASSUME NEW q PROVE FileOf(q)' = FileOf(q)
  BY <1>1, Zenon DEF FileOf
<1>4. RunFiles' = RunFiles
  BY <1>1, Zenon DEF RunFiles
<1>5. OneScenario' = OneScenario
  BY <1>1, Zenon DEF OneScenario
<1>6. ASSUME NEW q PROVE PrefetchOf(q)' = PrefetchOf(q)
  BY <1>1 DEF PrefetchOf, PrefetchFor, Option, FromEnv,
              Definition, FileOf
<1>7. ASSUME NEW q PROVE Selects(q)' = Selects(q)
  BY <1>2, <1>3, <1>4, Zenon DEF Selects
<1> QED
  BY <1>5, <1>6, <1>7

\* A consumer that is there has its definition among the files.
LEMMA ConsumersHaveFiles ==
    ASSUME LoadingInv, loading = "loaded", NEW q \in Queues, consumer[q] # "none"
    PROVE  \E i \in DOMAIN files : Definition(q) = files[i]
<1>1. PICK i \in FileOf(q) : TRUE
  BY DEF LoadingInv, AreSelected, Selects
<1>2. PICK c : c = CHOOSE j \in FileOf(q) : TRUE
  OBVIOUS
<1>3. c \in FileOf(q)
  BY <1>1, <1>2
<1>4. c \in DOMAIN files
  BY <1>3 DEF FileOf
<1>5. Definition(q) = files[c]
  BY <1>2 DEF Definition
<1> QED
  BY <1>4, <1>5

\* The limit of a consumer that may have deliveries is at least 1.
LEMMA LimitsArePositive ==
    ASSUME LoadingInv, loading = "loaded", NEW q \in Queues,
           consumer[q] \in {"consume", "online"}, Limits(PrefetchOf(q))
    PROVE  limit[q] = Number(PrefetchOf(q)) /\ limit[q] > 0
<1>1. PICK i \in DOMAIN files : Definition(q) = files[i]
  BY ConsumersHaveFiles
<1>2. ~Invalid(PrefetchOf(q)) /\ limit[q] = Number(PrefetchOf(q))
  BY DEF LoadingInv, AreLimited
<1>3. PrefetchOf(q) = PrefetchFor(files[i])
  BY <1>1, Zenon DEF PrefetchOf
<1>4. \A j \in DOMAIN setting : setting[j].text # "missing"
  BY DEF LoadingInv, PairsHaveValues
<1>5. OneScenario
  BY DEF LoadingInv
<1>6. Number(PrefetchFor(files[i])) > 0
  BY <1>2, <1>3, <1>4, <1>5, PrefetchIsPositive
<1> QED
  BY <1>2, <1>3, <1>6

\* The invariant without its types, for a step of the consumer of q.
LEMMA ConsumingKeeps ==
    ASSUME LoadingInv, NEW q \in Queues, NEW from, NEW to, from # "none", to # "none",
           Consuming(q, from, to)
    PROVE  /\ OneScenario'
           /\ PairsHaveValues'
           /\ AreSelected'
           /\ loading' = loading /\ loading = "loaded"
           /\ consumer' = [consumer EXCEPT ![q] = to]
           /\ \A p : PrefetchOf(p)' = PrefetchOf(p)
<1>1. /\ UNCHANGED scenario /\ loading' = loading /\ loading = "loaded"
      /\ consumer[q] = from /\ consumer' = [consumer EXCEPT ![q] = to]
  BY DEF Consuming
<1>2. OneScenario'
  BY <1>1, ScenarioStays DEF LoadingInv
<1>3. PairsHaveValues'
  BY <1>1 DEF LoadingInv, PairsHaveValues, scenario
<1>4. AreSelected'
  <2>1. \A p \in Queues : Selects(p)' = Selects(p)
    BY <1>1, ScenarioStays
  <2>2. \A p \in Queues : (consumer[p] # "none") <=> Selects(p)
    BY <1>1 DEF LoadingInv, AreSelected
  <2>3. consumer \in [Queues -> {"none", "channel", "prefetch", "consume", "online", "failed"}]
    BY DEF LoadingInv, LoadingTypeOK
  <2>4. \A p \in Queues : (consumer'[p] # "none") <=> (consumer[p] # "none")
    BY <1>1, <2>3
  <2> QED
    BY <2>1, <2>2, <2>4 DEF AreSelected
<1> QED
  BY <1>1, <1>2, <1>3, <1>4, ScenarioStays

LEMMA LoadingStarts == ASSUME LoadingInit PROVE LoadingInv
<1>1. /\ list \in Lists /\ setting \in Settings /\ files \in Directories /\ loading = "new"
      /\ consumer = [q \in Queues |-> "none"]
      /\ limit = [q \in Queues |-> 0]
      /\ held = [q \in Queues |-> 0]
  BY DEF LoadingInit
<1>2. MaxHeld \in Nat
  BY LoadingAssumption
<1>3. LoadingTypeOK
  BY <1>1, <1>2 DEF LoadingTypeOK
<1>4. HeldIsBounded
  BY <1>1 DEF HeldIsBounded
<1>5. AreLimited
  BY <1>1 DEF AreLimited
<1> QED
  BY <1>1, <1>3, <1>4, <1>5 DEF LoadingInv, OneScenario, PairsHaveValues, AreSelected

\* HeldIsBounded, with the prefetch by its name.
LEMMA HeldByPrefetch ==
    HeldIsBounded <=>
        \A q \in Queues : held[q] > 0 /\ Limits(PrefetchOf(q)) =>
            held[q] <= Number(PrefetchOf(q))
BY Zenon DEF HeldIsBounded, PrefetchOf

\* The same of the next state.
LEMMA HeldByPrefetchNext ==
    ASSUME \A q : PrefetchOf(q)' = PrefetchOf(q)
    PROVE  HeldIsBounded' <=>
        \A q \in Queues : held'[q] > 0 /\ Limits(PrefetchOf(q)) =>
            held'[q] <= Number(PrefetchOf(q))
<1>1. HeldIsBounded' <=>
        \A q \in Queues : held'[q] > 0 /\ Limits(PrefetchOf(q)') =>
            held'[q] <= Number(PrefetchOf(q)')
  BY Zenon DEF HeldIsBounded, PrefetchOf
<1> QED
  BY <1>1, Zenon

\* The constructor reads the options.
LEMMA ConstructKeeps == ASSUME LoadingInv, Construct PROVE LoadingInv'
<1>1. /\ loading' = IF \E i \in DOMAIN setting : setting[i].text = "missing"
                    THEN "failed" ELSE "built"
      /\ UNCHANGED scenario /\ UNCHANGED <<consumer, limit, held>>
  BY DEF Construct
<1>2. OneScenario' /\ \A q : PrefetchOf(q)' = PrefetchOf(q)
  BY <1>1, ScenarioStays DEF LoadingInv
<1>3. LoadingTypeOK'
  BY <1>1 DEF LoadingInv, LoadingTypeOK
<1>4. PairsHaveValues'
  BY <1>1 DEF PairsHaveValues, scenario
<1>5. AreSelected'
  BY <1>1 DEF AreSelected
<1>6. AreLimited'
  BY <1>1, <1>2 DEF LoadingInv, AreLimited
<1>7. HeldIsBounded'
  BY <1>1, <1>2, HeldByPrefetch, HeldByPrefetchNext DEF LoadingInv
<1> QED
  BY <1>2, <1>3, <1>4, <1>5, <1>6, <1>7 DEF LoadingInv

\* The directory is read; the selected consumers ask for a channel.
LEMMA LoadConsumersKeeps == ASSUME LoadingInv, LoadConsumers PROVE LoadingInv'
<1>1. /\ loading = "built" /\ loading' \in {"failed", "loaded"}
      /\ UNCHANGED scenario /\ UNCHANGED <<limit, held>>
      /\ consumer' = [q \in Queues |-> IF Selects(q) THEN "channel" ELSE "none"]
  BY DEF LoadConsumers, Selects
<1>2. OneScenario' /\ \A q : PrefetchOf(q)' = PrefetchOf(q) /\ Selects(q)' = Selects(q)
  BY <1>1, ScenarioStays DEF LoadingInv
<1>3. LoadingTypeOK'
  BY <1>1 DEF LoadingInv, LoadingTypeOK
<1>4. PairsHaveValues'
  BY <1>1 DEF LoadingInv, PairsHaveValues, scenario
<1>5. \A q \in Queues : /\ consumer'[q] # "none" <=> Selects(q)
                        /\ consumer'[q] \notin {"consume", "online"}
  BY <1>1
<1>6. AreSelected'
  BY <1>2, <1>5 DEF AreSelected
<1>7. AreLimited'
  BY <1>5 DEF AreLimited
<1>8. HeldIsBounded'
  BY <1>1, <1>2, HeldByPrefetch, HeldByPrefetchNext DEF LoadingInv
<1> QED
  BY <1>2, <1>3, <1>4, <1>6, <1>7, <1>8 DEF LoadingInv

\* A step of consume() that leaves the limits and the deliveries alone.
LEMMA CallSettles ==
    ASSUME LoadingInv, NEW q \in Queues, NEW from \in {"channel", "prefetch", "consume"},
           NEW to \in {"prefetch", "consume", "online", "failed"},
           Consuming(q, from, to), UNCHANGED <<limit, held>>,
           to = "consume" => ~Limits(PrefetchOf(q)),
           to = "online" => from = "consume"
    PROVE  LoadingInv'
<1>1. /\ OneScenario' /\ PairsHaveValues' /\ AreSelected'
      /\ loading' = loading /\ loading = "loaded"
      /\ consumer' = [consumer EXCEPT ![q] = to]
      /\ \A p : PrefetchOf(p)' = PrefetchOf(p)
  <2>1. from # "none" /\ to # "none"
    OBVIOUS
  <2> QED
    BY <2>1, ConsumingKeeps
<1>2. consumer[q] = from
  BY DEF Consuming
<1>3. LoadingTypeOK'
  BY <1>1 DEF LoadingInv, LoadingTypeOK
<1>4. \A p \in Queues : consumer'[p] \in {"consume", "online"} =>
          consumer[p] \in {"consume", "online"} \/ (p = q /\ ~Limits(PrefetchOf(q)))
  BY <1>1, <1>2 DEF LoadingInv, LoadingTypeOK
<1>5. AreLimited'
  <2> SUFFICES ASSUME NEW p \in Queues,
                      consumer'[p] \in {"consume", "online"}, Limits(PrefetchOf(p)')
               PROVE  /\ ~Invalid(PrefetchOf(p)')
                      /\ limit'[p] = Number(PrefetchOf(p)')
    BY Zenon DEF AreLimited
  <2>1. Limits(PrefetchOf(p)) /\ PrefetchOf(p)' = PrefetchOf(p)
    BY <1>1
  <2>2. consumer[p] \in {"consume", "online"}
    BY <1>4, <2>1
  <2> QED
    BY <2>1, <2>2 DEF LoadingInv, AreLimited
<1>6. HeldIsBounded'
  BY <1>1, HeldByPrefetch, HeldByPrefetchNext DEF LoadingInv
<1> QED
  BY <1>1, <1>3, <1>5, <1>6 DEF LoadingInv

LEMMA ChannelOpensKeeps ==
    ASSUME LoadingInv, NEW q \in Queues, ChannelOpens(q) PROVE LoadingInv'
<1>1. PICK to : to = AfterChannel(q)
  OBVIOUS
<1>2. Consuming(q, "channel", to) /\ UNCHANGED <<limit, held>>
  BY <1>1 DEF ChannelOpens
<1>3. /\ to \in {"prefetch", "consume", "online", "failed"} /\ to # "online"
      /\ to = "consume" => ~Limits(PrefetchOf(q))
  BY <1>1 DEF AfterChannel, PrefetchOf
<1> QED
  BY <1>2, <1>3, CallSettles

LEMMA ConsumeOkKeeps ==
    ASSUME LoadingInv, NEW q \in Queues, ConsumeAnswers(q) PROVE LoadingInv'
BY CallSettles DEF ConsumeAnswers

LEMMA ConsumeFailsKeeps ==
    ASSUME LoadingInv, NEW q \in Queues, ConsumeFails(q) PROVE LoadingInv'
<1>1. PICK from \in {"channel", "prefetch", "consume"} : Consuming(q, from, "failed")
  BY DEF ConsumeFails
<1>2. UNCHANGED <<limit, held>>
  BY DEF ConsumeFails
<1> QED
  BY <1>1, <1>2, CallSettles

LEMMA NumberIsNatural ==
    ASSUME NEW v PROVE Number(v) \in Nat
<1>1. DefaultPrefetch \in Nat
  BY LoadingAssumption
<1>2. PICK n : n = Number(v)
  OBVIOUS
<1>3. n = DefaultPrefetch \/ n = 1 \/ n = 3 \/ n = 0
  BY <1>2, Zenon DEF Number
<1>4. n \in Nat
  BY <1>1, <1>3
<1> QED
  BY <1>2, <1>4, Zenon

\* The channel is limited: the consumer may have deliveries now.
LEMMA PrefetchSetKeeps ==
    ASSUME LoadingInv, NEW q \in Queues, PrefetchSet(q)
    PROVE  LoadingInv'
<1>1. PICK v : v = PrefetchOf(q)
  OBVIOUS
<1>2. PICK n : n = Number(v)
  OBVIOUS
<1>3. /\ ~Invalid(v) /\ Consuming(q, "prefetch", "consume")
      /\ limit' = [limit EXCEPT ![q] = n] /\ held' = held
  BY <1>1, <1>2, Zenon DEF PrefetchSet, PrefetchOf
<1>4. /\ OneScenario' /\ PairsHaveValues' /\ AreSelected'
      /\ loading' = loading /\ loading = "loaded"
      /\ consumer' = [consumer EXCEPT ![q] = "consume"]
      /\ \A p : PrefetchOf(p)' = PrefetchOf(p)
  BY <1>3, ConsumingKeeps
<1>5. n \in Nat
  BY <1>2, NumberIsNatural
<1>6. LoadingTypeOK'
  BY <1>3, <1>4, <1>5 DEF LoadingInv, LoadingTypeOK
<1>7. AreLimited'
  <2> SUFFICES ASSUME NEW p \in Queues,
                      consumer'[p] \in {"consume", "online"}, Limits(PrefetchOf(p)')
               PROVE  /\ ~Invalid(PrefetchOf(p)')
                      /\ limit'[p] = Number(PrefetchOf(p)')
    BY Zenon DEF AreLimited
  <2>1. Limits(PrefetchOf(p)) /\ PrefetchOf(p)' = PrefetchOf(p)
    BY <1>4
  <2>2. limit \in [Queues -> Nat] /\ DOMAIN consumer = Queues
    BY DEF LoadingInv, LoadingTypeOK
  <2>3. CASE p = q
    BY <1>1, <1>2, <1>3, <2>1, <2>2, <2>3
  <2>4. CASE p # q
    <3>1. limit'[p] = limit[p] /\ consumer'[p] = consumer[p]
      BY <1>3, <1>4, <2>2, <2>4
    <3> QED
      BY <2>1, <3>1 DEF LoadingInv, AreLimited
  <2> QED
    BY <2>3, <2>4
<1>8. HeldIsBounded'
  BY <1>3, <1>4, HeldByPrefetch, HeldByPrefetchNext DEF LoadingInv
<1> QED
  BY <1>4, <1>6, <1>7, <1>8 DEF LoadingInv

\* The deliveries change alone.
LEMMA HeldChanges ==
    ASSUME LoadingInv, NEW q \in Queues, UNCHANGED <<scenario, loading, consumer, limit>>,
           NEW n \in 0..MaxHeld, held' = [held EXCEPT ![q] = n],
           n > 0 /\ Limits(PrefetchOf(q)) => n <= Number(PrefetchOf(q))
    PROVE  LoadingInv'
<1>1. /\ OneScenario' /\ \A p : PrefetchOf(p)' = PrefetchOf(p) /\ Selects(p)' = Selects(p)
  BY ScenarioStays DEF LoadingInv
<1>2. LoadingTypeOK'
  BY DEF LoadingInv, LoadingTypeOK
<1>3. PairsHaveValues'
  BY DEF LoadingInv, PairsHaveValues, scenario
<1>4. AreSelected'
  BY <1>1 DEF LoadingInv, AreSelected
<1>5. AreLimited'
  BY <1>1 DEF LoadingInv, AreLimited
<1>6. HeldIsBounded'
  <2>1. DOMAIN held = Queues
    BY DEF LoadingInv, LoadingTypeOK
  <2>2. ASSUME NEW p \in Queues, held'[p] > 0, Limits(PrefetchOf(p))
        PROVE  held'[p] <= Number(PrefetchOf(p))
    <3>1. CASE p = q
      BY <2>1, <2>2, <3>1
    <3>2. CASE p # q
      <4>1. held'[p] = held[p]
        BY <2>1, <3>2
      <4> QED
        BY <2>2, <4>1, HeldByPrefetch DEF LoadingInv
    <3> QED
      BY <3>1, <3>2
  <2> QED
    BY <1>1, <2>2, HeldByPrefetchNext
<1> QED
  BY <1>1, <1>2, <1>3, <1>4, <1>5, <1>6 DEF LoadingInv

\* A delivery within the limit of the channel.
LEMMA DeliverKeeps ==
    ASSUME LoadingInv, NEW q \in Queues, Deliver(q)
    PROVE  LoadingInv'
<1>1. /\ loading = "loaded" /\ consumer[q] \in {"consume", "online"}
      /\ held[q] < MaxHeld /\ (limit[q] > 0 => held[q] < limit[q])
      /\ held' = [held EXCEPT ![q] = held[q] + 1]
      /\ UNCHANGED <<scenario, loading, consumer, limit>>
  BY DEF Deliver
<1>2. PICK n : n = held[q] + 1
  OBVIOUS
<1>3. held[q] \in 0..MaxHeld /\ limit[q] \in Nat
  BY DEF LoadingInv, LoadingTypeOK
<1>4. MaxHeld \in Nat
  BY LoadingAssumption
<1>5. n \in 0..MaxHeld
  BY <1>1, <1>2, <1>3, <1>4
<1>6. ASSUME Limits(PrefetchOf(q)) PROVE n <= Number(PrefetchOf(q))
  <2>1. limit[q] = Number(PrefetchOf(q)) /\ limit[q] > 0
    BY <1>1, <1>6, LimitsArePositive
  <2>2. n <= limit[q]
    BY <1>1, <1>2, <1>3, <2>1
  <2> QED
    BY <2>1, <2>2, Zenon
<1> QED
  BY <1>1, <1>2, <1>5, <1>6, HeldChanges

LEMMA AckKeeps == ASSUME LoadingInv, NEW q \in Queues, Ack(q)
                  PROVE  LoadingInv'
<1>1. /\ held[q] > 0 /\ held' = [held EXCEPT ![q] = held[q] - 1]
      /\ UNCHANGED <<scenario, loading, consumer, limit>>
  BY DEF Ack
<1>2. PICK n : n = held[q] - 1
  OBVIOUS
<1>3. held[q] \in 0..MaxHeld /\ MaxHeld \in Nat
  BY LoadingAssumption DEF LoadingInv, LoadingTypeOK
<1>4. n \in 0..MaxHeld /\ n <= held[q]
  BY <1>1, <1>2, <1>3
<1>5. PICK m : m = Number(PrefetchOf(q))
  OBVIOUS
<1>6. m \in Nat
  BY <1>5, NumberIsNatural
<1>7. Limits(PrefetchOf(q)) => held[q] <= m
  BY <1>1, <1>5, HeldByPrefetch DEF LoadingInv
<1>8. Limits(PrefetchOf(q)) => n <= Number(PrefetchOf(q))
  BY <1>3, <1>4, <1>5, <1>6, <1>7
<1> QED
  BY <1>1, <1>2, <1>4, <1>8, HeldChanges

LEMMA LoadingStutter == ASSUME LoadingInv, UNCHANGED loadingVars PROVE LoadingInv'
<1>1. UNCHANGED scenario /\ UNCHANGED <<loading, consumer, limit, held>>
  BY DEF loadingVars
<1>2. /\ OneScenario' /\ \A p : PrefetchOf(p)' = PrefetchOf(p) /\ Selects(p)' = Selects(p)
  BY <1>1, ScenarioStays DEF LoadingInv
<1>3. LoadingTypeOK'
  BY <1>1 DEF LoadingInv, LoadingTypeOK
<1>4. PairsHaveValues'
  BY <1>1 DEF LoadingInv, PairsHaveValues, scenario
<1>5. AreSelected' /\ AreLimited'
  BY <1>1, <1>2 DEF LoadingInv, AreSelected, AreLimited
<1>6. HeldIsBounded'
  BY <1>1, <1>2, HeldByPrefetch, HeldByPrefetchNext DEF LoadingInv
<1> QED
  BY <1>2, <1>3, <1>4, <1>5, <1>6 DEF LoadingInv

\* Every step of the loading keeps the invariant.
LEMMA LoadingStep ==
    ASSUME LoadingInv, [LoadingNext]_loadingVars PROVE LoadingInv'
<1>1. CASE Construct
  BY <1>1, ConstructKeeps
<1>2. CASE LoadConsumers
  BY <1>2, LoadConsumersKeeps
<1>3. ASSUME NEW q \in Queues,
             \/ ChannelOpens(q) \/ PrefetchSet(q) \/ ConsumeAnswers(q)
             \/ ConsumeFails(q) \/ Deliver(q) \/ Ack(q)
      PROVE  LoadingInv'
  BY <1>3, ChannelOpensKeeps, PrefetchSetKeeps, ConsumeOkKeeps, ConsumeFailsKeeps,
     DeliverKeeps, AckKeeps
<1>4. CASE UNCHANGED loadingVars
  BY <1>4, LoadingStutter
<1> QED
  BY <1>1, <1>2, <1>3, <1>4, Zenon DEF LoadingNext

-----------------------------------------------------------------------------
\* A consumer holds no more messages than its prefetch, or the default,
\* allows: consume() limits the channel before it consumes.
THEOREM HeldStaysBounded == LoadingSpec => []HeldIsBounded
<1>1. LoadingInit => LoadingInv
  BY LoadingStarts
<1>2. LoadingInv /\ [LoadingNext]_loadingVars => LoadingInv'
  BY LoadingStep
<1>3. LoadingInv => HeldIsBounded
  BY DEF LoadingInv
<1> QED
  BY <1>1, <1>2, <1>3, PTL DEF LoadingSpec

\* What a list says of a queue.
LEMMA ListSays ==
    ASSUME NEW q, q # "*", IsList(list)
    PROVE  /\ q \in LoaderOptions(list).deny <=> Mentions(q, TRUE)
           /\ q \in LoaderOptions(list).allow <=> Mentions(q, FALSE)
           /\ LoaderOptions(list).allowAll <=> LastWildcard = "allow"
           /\ LoaderOptions(list).denyAll <=> LastWildcard = "deny"
           /\ LastWildcard \in {"none", "allow", "deny"}
<1>1. PICK n : n = Len(list)
  OBVIOUS
<1>2. n \in Nat /\ DOMAIN list = 1..n
  BY <1>1 DEF IsList
<1>3. LoaderOptions(list) = OptionsIn(list, n)
  BY <1>2 DEF LoaderOptions, OptionsIn, AllowsAll, DeniesAll, WildIn, NamedIn, LastDenies
<1>4. /\ LoaderOptions(list).deny = NamedIn(list, n, TRUE)
      /\ LoaderOptions(list).allow = NamedIn(list, n, FALSE)
      /\ LoaderOptions(list).allowAll = AllowsAll(list, n)
      /\ LoaderOptions(list).denyAll = DeniesAll(list, n)
  BY <1>3 DEF OptionsIn
<1>5. ASSUME NEW deny \in BOOLEAN
      PROVE  q \in NamedIn(list, n, deny) <=> Mentions(q, deny)
  <2>1. ASSUME NEW i \in 1..n
        PROVE  list[i] = [deny |-> deny, name |-> q] <=> list[i].deny = deny /\ list[i].name = q
    BY <1>1, <2>1 DEF IsList
  <2>2. Mentions(q, deny) <=> \E i \in 1..n : list[i].deny = deny /\ list[i].name = q
    BY <1>2, <2>1 DEF Mentions
  <2> QED
    BY <2>2 DEF NamedIn, WildIn
<1>6. PICK W : W = WildIn(list, n)
  OBVIOUS
<1>7. LastWildcard = IF W = {} THEN "none"
                             ELSE IF list[Max(W)].deny THEN "deny" ELSE "allow"
  BY <1>2, <1>6, Zenon DEF LastWildcard, WildIn
<1>8. /\ AllowsAll(list, n) <=> W # {} /\ ~list[Max(W)].deny
      /\ DeniesAll(list, n) <=> W # {} /\ list[Max(W)].deny
  BY <1>6, Zenon DEF AllowsAll, DeniesAll, LastDenies
<1>9. PICK w, d : w = LastWildcard /\ d = list[Max(W)].deny
  OBVIOUS
<1>10. w = IF W = {} THEN "none" ELSE IF d THEN "deny" ELSE "allow"
  BY <1>7, <1>9, Zenon
<1>11. /\ (W # {} /\ ~d) <=> w = "allow"
       /\ (W # {} /\ d) <=> w = "deny"
       /\ w \in {"none", "allow", "deny"}
  BY <1>10
<1> QED
  BY <1>4, <1>5, <1>8, <1>9, <1>11, Zenon

\* A file is selected exactly if a worker of its name would be registered.
LEMMA SelectedAsWorker ==
    ASSUME IsList(list), NEW file
    PROVE  Selected(file) <=>
              Registers(list, file.queue,
                  IsEnabled(Option(file, "enabled", "true")))
BY ListsReadAlike, Zenon DEF Selected, Consumes, Registers

\* The options of a file that is not disabled.
LEMMA EnabledUnlessDisabled ==
    ASSUME OneScenario, NEW i \in DOMAIN files
    PROVE  IsEnabled(Option(files[i], "enabled", "true")) <=>
              (files[i].form = "options" =>
                  ~ \/ FromEnv(files[i].queue, "enabled") \in {"false", "0"}
                    \/ /\ FromEnv(files[i].queue, "enabled") = "undefined"
                       /\ files[i].enabled = "false")
<1>1. PICK w : w = FromEnv(files[i].queue, "enabled")
  OBVIOUS
<1>2. /\ files[i].form \in {"options", "string"}
      /\ files[i].enabled \in {"undefined", "true", "false"}
  BY ScenarioTypes
<1>3. PICK o : o = Option(files[i], "enabled", "true")
  OBVIOUS
<1>4. o = IF files[i].form = "string" THEN "true"
          ELSE FirstDefined(w, files[i].enabled, "true")
  BY <1>1, <1>3 DEF Option
<1>5. o = IF files[i].form = "string" THEN "true"
          ELSE IF w # "undefined" THEN w
          ELSE IF files[i].enabled # "undefined" THEN files[i].enabled ELSE "true"
  BY <1>4 DEF FirstDefined
<1>6. o \notin {"false", "0"} <=>
         (files[i].form = "options" =>
             ~ \/ w \in {"false", "0"}
               \/ w = "undefined" /\ files[i].enabled = "false")
  BY <1>2, <1>5
<1> QED
  BY <1>1, <1>3, <1>6, Zenon DEF IsEnabled

\* What the invariant says of a file that was run.
LEMMA RunFileDecides ==
    ASSUME LoadingInv, loading = "loaded", NEW i \in RunFiles
    PROVE  /\ i \in DOMAIN files /\ files[i].queue \in Queues
           /\ (consumer[files[i].queue] # "none") <=> Selected(files[i])
<1>1. i \in DOMAIN files
  BY DEF RunFiles
<1>2. OneScenario
  BY DEF LoadingInv
<1>3. /\ files[i].queue \in Queues
      /\ \A j \in DOMAIN files : files[i].queue = files[j].queue => i = j
  BY <1>1, <1>2, ScenarioTypes
<1>4. (consumer[files[i].queue] # "none") <=> Selects(files[i].queue)
  BY <1>3 DEF LoadingInv, AreSelected
<1>5. FileOf(files[i].queue) = {i}
  BY <1>1, <1>3 DEF FileOf
<1>6. Selects(files[i].queue) <=> Selected(files[i])
  BY <1>5 DEF Selects
<1> QED
  BY <1>1, <1>3, <1>4, <1>6

LEMMA InvDecides ==
    ASSUME LoadingInv PROVE ListDecides /\ SameSemantics
<1>1. OneScenario
  BY DEF LoadingInv
<1>2. IsList(list)
  BY <1>1, ScenarioTypes
<1>3. ASSUME loading = "loaded", NEW i \in RunFiles
      PROVE  (consumer[files[i].queue] # "none") <=>
                Registers(list, files[i].queue,
                    IsEnabled(Option(files[i], "enabled", "true")))
  BY <1>2, <1>3, RunFileDecides, SelectedAsWorker, Zenon
<1>4. SameSemantics
  BY <1>3, Zenon DEF SameSemantics
<1>5. ASSUME loading = "loaded", NEW i \in RunFiles
      PROVE  LET q == files[i].queue
                 disabled == FromEnv(q, "enabled") \in {"false", "0"}
                             \/ /\ FromEnv(q, "enabled") = "undefined"
                                /\ files[i].enabled = "false"
             IN  (consumer[q] # "none") <=>
                    /\ ~Mentions(q, TRUE)
                    /\ \/ Mentions(q, FALSE)
                       \/ LastWildcard = "allow"
                       \/ /\ LastWildcard = "none"
                          /\ files[i].form = "options" => ~disabled
  <2>1. PICK q, e : /\ q = files[i].queue
                    /\ e = IsEnabled(Option(files[i], "enabled", "true"))
    OBVIOUS
  <2>2. q \in Queues /\ i \in DOMAIN files
    BY <1>5, <2>1, RunFileDecides
  <2>3. q # "*"
    BY <2>2, LoadingAssumption
  <2>4. (consumer[q] # "none") <=> Registers(list, q, e)
    BY <1>3, <1>5, <2>1, Zenon
  <2>5. PICK o : o = LoaderOptions(list)
    OBVIOUS
  <2>6. /\ q \in o.deny <=> Mentions(q, TRUE)
        /\ q \in o.allow <=> Mentions(q, FALSE)
        /\ o.allowAll <=> LastWildcard = "allow"
        /\ o.denyAll <=> LastWildcard = "deny"
        /\ LastWildcard \in {"none", "allow", "deny"}
    BY <1>2, <2>3, <2>5, ListSays, Zenon
  <2>7. Registers(list, q, e) <=>
           q \notin o.deny /\ (o.denyAll => q \in o.allow) /\ (e \/ o.allowAll \/ q \in o.allow)
    BY <2>5, Zenon DEF Registers
  <2>8. e <=> (files[i].form = "options" =>
                  ~ \/ FromEnv(q, "enabled") \in {"false", "0"}
                    \/ /\ FromEnv(q, "enabled") = "undefined"
                       /\ files[i].enabled = "false")
    BY <1>1, <2>1, <2>2, EnabledUnlessDisabled, Zenon
  <2>9. Registers(list, q, e) <=>
           /\ ~Mentions(q, TRUE)
           /\ \/ Mentions(q, FALSE)
              \/ LastWildcard = "allow"
              \/ LastWildcard = "none" /\ e
    BY <2>6, <2>7
  <2> QED
    BY <2>1, <2>4, <2>8, <2>9, Zenon
<1>6. ListDecides
  BY <1>5, Zenon DEF ListDecides
<1> QED
  BY <1>4, <1>6

\* A consumer is started exactly if CONSUMER_LIST, and else its options, say
\* so, as a worker of its name would be.
THEOREM StartedAsListed == LoadingSpec => []StartsAsListed
<1>1. LoadingInit => LoadingInv
  BY LoadingStarts
<1>2. LoadingInv /\ [LoadingNext]_loadingVars => LoadingInv'
  BY LoadingStep
<1>3. LoadingInv => StartsAsListed
  BY InvDecides DEF LoadingInv, StartsAsListed
<1> QED
  BY <1>1, <1>2, <1>3, PTL DEF LoadingSpec
=============================================================================
