----------------------- MODULE BulkInsertBufferProofs -----------------------
(***************************************************************************)
(* What the log buffer guarantees for every batch size, queue size, number *)
(* of documents and number of flush() calls; and that the buffer           *)
(* implements DocumentLog.                                                 *)
(***************************************************************************)
EXTENDS BulkInsertBuffer, SequenceTheorems, FiniteSetTheorems, TLAPS

\* enqueue's shift() and push(): the new document is last and the others keep
\* their order, moved one place to the front when the queue was full.
LEMMA PushedFacts ==
    ASSUME TypeOK, created < MaxDocs
    PROVE  LET q == Pushed(created + 1)
           IN  /\ q \in Seq(Docs)
               /\ q # <<>>
               /\ Full => /\ Len(q) = Len(queue)
                          /\ \A i \in 1..(Len(q) - 1) : q[i] = queue[i + 1]
               /\ ~Full => /\ Len(q) = Len(queue) + 1
                           /\ \A i \in 1..(Len(q) - 1) : q[i] = queue[i]
               /\ q[Len(q)] = created + 1
<1>1. created + 1 \in Docs
  BY SizeAssumption DEF TypeOK, Docs
<1>q. queue \in Seq(Docs) /\ Len(queue) \in Nat
  BY DEF TypeOK
<1>2. CASE Full
  <2>1. queue # <<>>
    BY <1>2, <1>q, EmptySeq, SizeAssumption DEF Full
  <2>2. /\ Tail(queue) \in Seq(Docs)
        /\ Len(Tail(queue)) = Len(queue) - 1
        /\ \A i \in 1..Len(Tail(queue)) : Tail(queue)[i] = queue[i + 1]
    BY <1>q, <2>1, HeadTailProperties
  <2> DEFINE t == Tail(queue)
             q == Pushed(created + 1)
  <2>3. q = Append(t, created + 1)
    BY <1>2 DEF Pushed
  <2> HIDE DEF q, t
  <2>4. /\ q \in Seq(Docs) /\ q # <<>> /\ Len(q) = Len(t) + 1
        /\ \A i \in 1..Len(t) : q[i] = t[i]
        /\ q[Len(t) + 1] = created + 1
    <3>1. t \in Seq(Docs)
      BY <2>2 DEF t
    <3>2. QED
      BY <1>1, <2>3, <3>1, AppendProperties
  <2>5. Len(t) = Len(queue) - 1 /\ \A i \in 1..Len(t) : t[i] = queue[i + 1]
    BY <2>2 DEF t
  <2>6. /\ Len(q) = Len(queue)
        /\ \A i \in 1..(Len(q) - 1) : q[i] = queue[i + 1]
        /\ q[Len(q)] = created + 1
    BY <1>q, <2>4, <2>5
  <2>7. QED
    BY <1>2, <2>4, <2>6, Zenon DEF q
<1>3. CASE ~Full
  <2> DEFINE q == Pushed(created + 1)
  <2>1. q = Append(queue, created + 1)
    BY <1>3 DEF Pushed
  <2> HIDE DEF q
  <2>2. /\ q \in Seq(Docs) /\ q # <<>> /\ Len(q) = Len(queue) + 1
        /\ \A i \in 1..Len(queue) : q[i] = queue[i]
        /\ q[Len(queue) + 1] = created + 1
    BY <1>1, <1>q, <2>1, AppendProperties
  <2>3. /\ \A i \in 1..(Len(q) - 1) : q[i] = queue[i]
        /\ q[Len(q)] = created + 1
    BY <1>q, <2>2
  <2>4. QED
    BY <1>3, <2>2, <2>3, Zenon DEF q
<1>4. QED
  BY <1>2, <1>3

\* The variables keep their types, and queue and batch their bound, through
\* every operation of the buffer.
THEOREM TypeCorrect == Spec => []TypeOK
<1>1. Init => TypeOK
  BY SizeAssumption DEF Init, TypeOK, CallerState
<1>2. TypeOK /\ [Next]_vars => TypeOK'
  <2> SUFFICES ASSUME TypeOK, [Next]_vars
               PROVE  TypeOK'
    OBVIOUS
  <2>1. CASE Enqueue
    <3> DEFINE q == Pushed(created + 1)
    <3>1. q \in Seq(Docs) /\ Len(q) <= MaxQueueSize
      <4>1. /\ Len(queue) \in Nat
            /\ Len(queue) <= MaxQueueSize
        BY DEF TypeOK
      <4>2. /\ q \in Seq(Docs)
            /\ Full => Len(q) = Len(queue)
            /\ ~Full => Len(q) = Len(queue) + 1
        BY <2>1, PushedFacts DEF Enqueue
      <4>3. QED
        BY <4>1, <4>2, SizeAssumption DEF Full
    <3>2. created' \in 0..MaxDocs /\ dropped' \in Nat
      BY <2>1, SizeAssumption DEF Enqueue, CountDrop, TypeOK
    <3>3. /\ queue' \in Seq(Docs) /\ flushing' \in Seq(Docs)
          /\ Len(queue') <= MaxQueueSize /\ Len(flushing') <= MaxQueueSize
          /\ timer' \in {"none", "armed", "stale"} /\ bgWaiting' \in Nat
      <4> HIDE DEF q
      <4>1. CASE Len(q) >= MaxSize /\ FlushInBackground(q)
        BY <4>1, <3>1 DEF FlushInBackground, AwaitInsert, TakeBatch, TypeOK
      <4>2. CASE ScheduleFlush(q) /\ queue' = q /\ UNCHANGED <<flushing, bgWaiting>>
        BY <4>2, <3>1 DEF ScheduleFlush, TypeOK
      <4>3. QED
        BY <2>1, <4>1, <4>2 DEF Enqueue, q
    <3>4. QED
      BY <2>1, <3>2, <3>3 DEF Enqueue, TypeOK
  <2>2. CASE TimerFire
    BY <2>2 DEF TimerFire, AwaitInsert, TakeBatch, TypeOK
  <2>3. CASE Settle
    <3>1. caller' \in [Callers -> CallerState]
      BY <2>3 DEF Settle, TypeOK, CallerState
    <3>2. settled' \in SUBSET Docs
      BY <2>3 DEF Settle, TypeOK, ToSet
    <3>3. /\ queue' \in Seq(Docs) /\ flushing' \in Seq(Docs)
          /\ Len(queue') <= MaxQueueSize /\ Len(flushing') <= MaxQueueSize
          /\ timer' \in {"none", "armed", "stale"}
      <4>1. CASE TakeBatch(queue)
        <5>1. queue' = <<>> /\ flushing' = queue /\ timer' = "none"
          BY <4>1 DEF TakeBatch
        <5>2. Len(<<>>) <= MaxQueueSize
          BY SizeAssumption
        <5>3. QED
          BY <5>1, <5>2 DEF TypeOK
      <4>2. CASE ScheduleFlush(queue) /\ flushing' = <<>> /\ UNCHANGED queue
        <5>1. Len(<<>>) <= MaxQueueSize
          BY SizeAssumption
        <5>2. QED
          BY <4>2, <5>1 DEF ScheduleFlush, TypeOK
      <4>3. QED
        BY <2>3, <4>1, <4>2 DEF Settle, AfterInsert
    <3>4. QED
      BY <2>3, <3>1, <3>2, <3>3 DEF Settle, TypeOK
  <2>4. CASE ResumeBackground
    BY <2>4 DEF ResumeBackground, FlushInBackground, AwaitInsert, TakeBatch,
                TypeOK
  <2>5. ASSUME NEW c \in Callers, Flush(c)
        PROVE  TypeOK'
    <3>1. Held \in SUBSET Docs
      BY DEF Held, ToSet, TypeOK
    <3>2. QED
      BY <2>5, <3>1 DEF Flush, FlushBody, TakeBatch, TypeOK, CallerState
  <2>6. ASSUME NEW c \in Callers, ResumeFlush(c)
        PROVE  TypeOK'
    BY <2>6 DEF ResumeFlush, FlushBody, TakeBatch, TypeOK, CallerState
  <2>7. CASE UNCHANGED vars
    BY <2>7 DEF vars, TypeOK
  <2>8. QED
    BY <2>1, <2>2, <2>3, <2>4, <2>5, <2>6, <2>7 DEF Next
<1>3. QED
  BY <1>1, <1>2, PTL DEF Spec

-----------------------------------------------------------------------------
(* No queued document is forgotten.                                        *)

\* NeverStranded is not inductive alone: an insert settles with a stale timer
\* left in this.timer, so scheduleFlush does nothing, and only the background
\* flush that the fired timer started saves the queue.
Covered == /\ NeverStranded
           /\ TimerIsCovered
           /\ bgWaiting > 0 => flushing # <<>>

\* Every step of the buffer keeps the queue covered.
LEMMA CoveredStep == TypeOK /\ Covered /\ [Next]_vars => Covered'
<1> SUFFICES ASSUME TypeOK, Covered, [Next]_vars
             PROVE  Covered'
  OBVIOUS
<1> USE DEF Covered, NeverStranded, TimerIsCovered
<1>1. CASE Enqueue
  <2> DEFINE q == Pushed(created + 1)
  <2>1. q \in Seq(Docs) /\ q # <<>>
    BY <1>1, PushedFacts DEF Enqueue
  <2>2. bgResumed' = bgResumed
    BY <1>1 DEF Enqueue
  <2> HIDE DEF q
  <2>3. CASE FlushInBackground(q)
    BY <2>1, <2>2, <2>3 DEF FlushInBackground, AwaitInsert, TakeBatch, TypeOK
  <2>4. CASE ScheduleFlush(q) /\ queue' = q /\ UNCHANGED <<flushing, bgWaiting>>
    BY <2>1, <2>2, <2>4 DEF ScheduleFlush, TypeOK
  <2>5. QED
    BY <1>1, <2>3, <2>4 DEF Enqueue, q
<1>2. CASE TimerFire
  BY <1>2 DEF TimerFire, AwaitInsert, TakeBatch, TypeOK
<1>3. CASE Settle
  <2>1. /\ bgResumed' = bgResumed + bgWaiting
        /\ bgWaiting' = 0
    BY <1>3 DEF Settle
  <2>2. CASE TakeBatch(queue)
    BY <2>1, <2>2 DEF TakeBatch, TypeOK
  <2>3. CASE ScheduleFlush(queue) /\ UNCHANGED queue
    BY <2>1, <2>3 DEF ScheduleFlush, TypeOK
  <2>4. QED
    BY <1>3, <2>2, <2>3 DEF Settle, AfterInsert
<1>4. CASE ResumeBackground
  <2>1. bgResumed > 0 /\ bgResumed' = bgResumed - 1
    BY <1>4 DEF ResumeBackground
  <2>2. CASE queue = <<>> /\ UNCHANGED <<queue, timer, flushing, bgWaiting>>
    BY <2>1, <2>2 DEF TypeOK
  <2>3. CASE queue # <<>> /\ AwaitInsert /\ queue' = queue /\ UNCHANGED timer
    BY <2>1, <2>3 DEF AwaitInsert, TypeOK
  <2>4. CASE flushing = <<>> /\ TakeBatch(queue) /\ UNCHANGED bgWaiting
    BY <2>1, <2>4 DEF TakeBatch, TypeOK
  <2>5. QED
    BY <1>4, <2>2, <2>3, <2>4 DEF ResumeBackground, Retake, FlushInBackground
<1>5. ASSUME NEW c \in Callers, Flush(c)
      PROVE  Covered'
  BY <1>5 DEF Flush, FlushBody, TakeBatch, TypeOK
<1>6. ASSUME NEW c \in Callers, ResumeFlush(c)
      PROVE  Covered'
  BY <1>6 DEF ResumeFlush, Retake, FlushBody, TakeBatch, TypeOK
<1>7. CASE UNCHANGED vars
  BY <1>7 DEF vars
<1>8. QED
  BY <1>1, <1>2, <1>3, <1>4, <1>5, <1>6, <1>7 DEF Next

\* A queued document always has a live timer, a running insert or a resuming
\* flush that will take it: the buffer cannot go to sleep on a full queue.
THEOREM BufferNeverStrands == Spec => []NeverStranded
<1>1. Init => Covered
  BY DEF Init, Covered, NeverStranded, TimerIsCovered
<1>2. Covered => NeverStranded
  BY DEF Covered
<1>3. QED
  BY <1>1, <1>2, CoveredStep, TypeCorrect, PTL DEF Spec

\* A timer is only set for a non-empty queue, and a fired timer still in
\* this.timer is always backed by a pending flush.
THEOREM TimersAreCovered == Spec => []TimerIsCovered
<1>1. Init => Covered
  BY DEF Init, Covered, NeverStranded, TimerIsCovered
<1>2. Covered => TimerIsCovered
  BY DEF Covered
<1>3. QED
  BY <1>1, <1>2, CoveredStep, TypeCorrect, PTL DEF Spec

-----------------------------------------------------------------------------
(* The order of the documents.                                             *)

\* The queue that enqueue leaves behind, before any flush, is the newest
\* documents again, and it grew by at most one.
LEMMA PushedNewest ==
    ASSUME TypeOK, QueueIsNewest, created < MaxDocs
    PROVE  LET q == Pushed(created + 1)
           IN  /\ q \in Seq(Docs)
               /\ q # <<>>
               /\ Len(q) \in Nat
               /\ Len(q) <= MaxQueueSize
               /\ Len(q) <= Len(queue) + 1
               /\ \A i \in 1..Len(q) : q[i] = (created + 1) - Len(q) + i
<1> DEFINE q == Pushed(created + 1)
<1>1. q \in Seq(Docs) /\ q # <<>> /\ q[Len(q)] = created + 1
  BY PushedFacts
<1>2. ASSUME Full
      PROVE  /\ Len(q) = Len(queue)
             /\ \A i \in 1..(Len(q) - 1) : q[i] = queue[i + 1]
  BY <1>2, PushedFacts
<1>3. ASSUME ~Full
      PROVE  /\ Len(q) = Len(queue) + 1
             /\ \A i \in 1..(Len(q) - 1) : q[i] = queue[i]
  BY <1>3, PushedFacts
<1> HIDE DEF q
<1>4. Len(q) \in Nat /\ Len(queue) \in Nat /\ created \in Nat
  BY <1>1, SizeAssumption DEF TypeOK
<1>5. Len(q) <= MaxQueueSize /\ Len(q) <= Len(queue) + 1
  BY <1>2, <1>3, <1>4, SizeAssumption DEF Full, QueueIsNewest
<1>6. ASSUME NEW i \in 1..Len(q)
      PROVE  q[i] = (created + 1) - Len(q) + i
  <2>1. CASE i = Len(q)
    BY <1>1, <1>4, <2>1
  <2>2. CASE i # Len(q) /\ Full
    <3>1. i + 1 \in 1..Len(queue) /\ q[i] = queue[i + 1]
      BY <1>2, <1>4, <2>2
    <3>2. queue[i + 1] = created - Len(queue) + (i + 1)
      BY <3>1 DEF QueueIsNewest
    <3>3. Len(q) = Len(queue)
      BY <1>2, <2>2
    <3>4. QED
      BY <1>4, <3>1, <3>2, <3>3
  <2>3. CASE i # Len(q) /\ ~Full
    <3>1. i \in 1..Len(queue) /\ q[i] = queue[i]
      BY <1>3, <1>4, <2>3
    <3>2. queue[i] = created - Len(queue) + i
      BY <3>1 DEF QueueIsNewest
    <3>3. Len(q) = Len(queue) + 1
      BY <1>3, <2>3
    <3>4. QED
      BY <1>4, <3>1, <3>2, <3>3
  <2>4. QED
    BY <2>1, <2>2, <2>3
<1>7. QED
  BY <1>1, <1>4, <1>5, <1>6 DEF q

\* Every step leaves the newest documents in the queue, in order.
LEMMA NewestStep == TypeOK /\ QueueIsNewest /\ [Next]_vars => QueueIsNewest'
<1> SUFFICES ASSUME TypeOK, QueueIsNewest, [Next]_vars
             PROVE  QueueIsNewest'
  OBVIOUS
<1>e. ASSUME queue' = <<>>
      PROVE  QueueIsNewest'
  BY <1>e, SizeAssumption DEF QueueIsNewest
<1>u. ASSUME UNCHANGED <<queue, created>>
      PROVE  QueueIsNewest'
  BY <1>u DEF QueueIsNewest
<1>1. CASE Enqueue
  <2> DEFINE q == Pushed(created + 1)
  <2>1. /\ Len(q) <= MaxQueueSize
        /\ \A i \in 1..Len(q) : q[i] = (created + 1) - Len(q) + i
    BY <1>1, PushedNewest DEF Enqueue
  <2>2. queue' = q \/ queue' = <<>>
    BY <1>1 DEF Enqueue, FlushInBackground, TakeBatch
  <2>3. created' = created + 1
    BY <1>1 DEF Enqueue
  <2> HIDE DEF q
  <2>4. CASE queue' = q
    BY <2>1, <2>3, <2>4 DEF QueueIsNewest
  <2>5. QED
    BY <1>e, <2>2, <2>4
<1>2. CASE TimerFire
  BY <1>2, <1>e, <1>u DEF TimerFire, TakeBatch
<1>3. CASE Settle
  BY <1>3, <1>e, <1>u DEF Settle, AfterInsert, TakeBatch
<1>4. CASE ResumeBackground
  BY <1>4, <1>e, <1>u DEF ResumeBackground, FlushInBackground, TakeBatch
<1>5. ASSUME NEW c \in Callers, Flush(c) \/ ResumeFlush(c)
      PROVE  QueueIsNewest'
  BY <1>5, <1>e, <1>u DEF Flush, ResumeFlush, FlushBody, TakeBatch
<1>6. CASE UNCHANGED vars
  BY <1>6, <1>u DEF vars
<1>7. QED
  BY <1>1, <1>2, <1>3, <1>4, <1>5, <1>6 DEF Next

\* The queue is bounded by maxQueueSize and holds exactly the newest documents
\* in the order they were enqueued.
THEOREM QueueHoldsNewest == Spec => []QueueIsNewest
<1>1. Init => QueueIsNewest
  BY SizeAssumption DEF Init, QueueIsNewest
<1>2. QED
  BY <1>1, NewestStep, TypeCorrect, PTL DEF Spec

\* InsertOrder made inductive: everything that has left the queue is at most
\* the number just below the oldest queued document.
Left == created - Len(queue)
Ordered == /\ \A i \in 1..Len(flushing) : flushing[i] <= Left
           /\ \A i, j \in 1..Len(flushing) : i < j => flushing[i] < flushing[j]
           /\ \A s \in settled : s <= Left
           /\ \A s \in settled, i \in 1..Len(flushing) : s < flushing[i]

\* Every step hands the documents on in order.
LEMMA OrderedStep ==
    TypeOK /\ QueueIsNewest /\ Ordered /\ [Next]_vars => Ordered'
<1> SUFFICES ASSUME TypeOK, QueueIsNewest, Ordered, [Next]_vars
             PROVE  Ordered'
  OBVIOUS
<1>n. /\ created \in Nat /\ Len(queue) \in Nat /\ Left \in Int
      /\ Len(flushing) \in Nat
      /\ \A i \in 1..Len(flushing) : flushing[i] \in Nat
      /\ \A s \in settled : s \in Nat
  BY SizeAssumption DEF TypeOK, Docs, Left
<1>t. ASSUME NEW q, q \in Seq(Docs), TakeBatch(q), created' \in Nat,
             \A i \in 1..Len(q) : q[i] = created' - Len(q) + i,
             \A s \in settled' : s \in Nat /\ s <= created' - Len(q)
      PROVE  Ordered'
  <2>1. flushing' = q /\ queue' = <<>> /\ Len(q) \in Nat
    BY <1>t DEF TakeBatch
  <2>2. Left' = created'
    <3>1. Len(queue') = 0
      BY <2>1
    <3>2. Left' = created' - Len(queue')
      BY DEF Left
    <3>3. created' \in Nat
      BY <1>t
    <3>4. \A n \in Nat : n - 0 = n
      OBVIOUS
    <3>5. QED
      BY <3>1, <3>2, <3>3, <3>4, Zenon
  <2>3. QED
    BY <1>t, <2>1, <2>2 DEF Ordered
<1>b. ASSUME TakeBatch(queue), UNCHANGED <<created, settled>>
      PROVE  Ordered'
  BY <1>b, <1>t, <1>n DEF QueueIsNewest, Ordered, Left, TypeOK
<1>u. ASSUME UNCHANGED <<queue, flushing, created, settled>>
      PROVE  Ordered'
  BY <1>u DEF Ordered, Left
<1>1. CASE Enqueue
  <2> DEFINE q == Pushed(created + 1)
  <2>1. /\ q \in Seq(Docs) /\ Len(q) \in Nat
        /\ Len(q) <= Len(queue) + 1
        /\ \A i \in 1..Len(q) : q[i] = (created + 1) - Len(q) + i
    BY <1>1, PushedNewest DEF Enqueue
  <2>2. created' = created + 1 /\ settled' = settled
    BY <1>1 DEF Enqueue
  <2>3. TakeBatch(q) \/ (queue' = q /\ flushing' = flushing)
    BY <1>1 DEF Enqueue, FlushInBackground, AwaitInsert
  <2> HIDE DEF q
  <2>4. Left <= (created + 1) - Len(q)
    BY <1>n, <2>1 DEF Left
  <2>5. CASE TakeBatch(q)
    <3>1. \A s \in settled' : s \in Nat /\ s <= created' - Len(q)
      BY <1>n, <2>1, <2>2, <2>4 DEF Ordered
    <3>2. QED
      BY <1>t, <1>n, <2>1, <2>2, <2>5, <3>1
  <2>6. CASE queue' = q /\ flushing' = flushing
    <3>1. Left' = (created + 1) - Len(q)
      BY <2>2, <2>6 DEF Left
    <3>2. Left' \in Int /\ Left <= Left'
      BY <1>n, <2>1, <2>4, <3>1
    <3>3. QED
      BY <1>n, <2>2, <2>6, <3>2 DEF Ordered
  <2>7. QED
    BY <2>3, <2>5, <2>6
<1>2. CASE TimerFire
  BY <1>2, <1>b, <1>u DEF TimerFire, AwaitInsert
<1>3. CASE Settle
  <2>1. settled' = settled \cup ToSet(flushing) /\ created' = created
    BY <1>3 DEF Settle
  <2>2. \A s \in ToSet(flushing) : s \in Nat /\ s <= Left
    <3>1. DOMAIN flushing = 1..Len(flushing)
      BY LenProperties DEF TypeOK
    <3>2. QED
      BY <1>n, <3>1 DEF ToSet, Ordered
  <2>3. \A s \in settled' : s \in Nat /\ s <= created' - Len(queue)
    BY <1>n, <2>1, <2>2 DEF Ordered, Left
  <2>4. CASE TakeBatch(queue)
    BY <1>t, <1>n, <2>1, <2>3, <2>4 DEF QueueIsNewest, TypeOK
  <2>5. CASE flushing' = <<>> /\ UNCHANGED queue
    BY <2>1, <2>3, <2>5 DEF Ordered, Left
  <2>6. QED
    BY <1>3, <2>4, <2>5 DEF Settle, AfterInsert
<1>4. CASE ResumeBackground
  BY <1>4, <1>b, <1>u DEF ResumeBackground, FlushInBackground, AwaitInsert
<1>5. ASSUME NEW c \in Callers, Flush(c) \/ ResumeFlush(c)
      PROVE  Ordered'
  BY <1>5, <1>b, <1>u DEF Flush, ResumeFlush, FlushBody
<1>6. CASE UNCHANGED vars
  BY <1>6, <1>u DEF vars
<1>7. QED
  BY <1>1, <1>2, <1>3, <1>4, <1>5, <1>6 DEF Next

\* What a flush() call holds against the queue: once it owns a batch or has
\* returned, none of the documents it saw is queued.
HandedOver ==
    \A c \in Callers :
        /\ \A d \in seen[c] : d <= created
        /\ caller[c] \in {"owner", "done"} => seen[c] \cap ToSet(queue) = {}

\* Every step keeps HandedOver: an enqueued document is newer than what any call
\* saw, and a call returns only past an empty queue or a batch it took.
LEMMA HandedOverStep ==
    TypeOK /\ QueueIsNewest /\ Ordered /\ HandedOver /\ [Next]_vars
        => HandedOver'
<1> SUFFICES ASSUME TypeOK, QueueIsNewest, Ordered, HandedOver, [Next]_vars
             PROVE  HandedOver'
  OBVIOUS
<1>n. /\ created \in Nat
      /\ \A d \in Docs : d \in Nat
  BY SizeAssumption DEF TypeOK, Docs
<1>h. \A d \in Held : d <= created
  <2>1. /\ DOMAIN queue = 1..Len(queue) /\ Len(queue) \in Nat
        /\ DOMAIN flushing = 1..Len(flushing)
        /\ \A i \in 1..Len(flushing) : flushing[i] \in Docs
    BY LenProperties DEF TypeOK
  <2>2. \A d \in ToSet(queue) : d <= created
    BY <1>n, <2>1 DEF ToSet, QueueIsNewest
  <2>3. \A d \in ToSet(flushing) : d <= created
    BY <1>n, <2>1 DEF ToSet, Ordered, Left
  <2>4. QED
    BY <2>2, <2>3 DEF Held
<1>0. ToSet(<<>>) = {}
  BY DEF ToSet
<1>1. CASE Enqueue
  <2> DEFINE q == Pushed(created + 1)
  <2>1. q \in Seq(Docs) /\ q[Len(q)] = created + 1
    BY <1>1, PushedFacts DEF Enqueue
  <2>f. ASSUME Full
        PROVE  /\ Len(q) = Len(queue)
               /\ \A i \in 1..(Len(q) - 1) : q[i] = queue[i + 1]
    BY <1>1, <2>f, PushedFacts DEF Enqueue
  <2>g. ASSUME ~Full
        PROVE  /\ Len(q) = Len(queue) + 1
               /\ \A i \in 1..(Len(q) - 1) : q[i] = queue[i]
    BY <1>1, <2>g, PushedFacts DEF Enqueue
  <2>2. queue' = q \/ queue' = <<>>
    BY <1>1 DEF Enqueue, FlushInBackground, TakeBatch
  <2>3. created' = created + 1 /\ UNCHANGED <<caller, seen>>
    BY <1>1 DEF Enqueue
  <2> HIDE DEF q
  <2>4. Len(q) \in Nat /\ Len(queue) \in Nat /\ DOMAIN queue = 1..Len(queue)
        /\ DOMAIN q = 1..Len(q)
    BY <2>1, LenProperties DEF TypeOK
  <2>5. ToSet(q) \subseteq ToSet(queue) \cup {created + 1}
    <3>1. SUFFICES ASSUME NEW i \in 1..Len(q), i # Len(q)
                   PROVE  \E j \in 1..Len(queue) : q[i] = queue[j]
      <4>1. ASSUME NEW d \in ToSet(q), d # created + 1
            PROVE  d \in ToSet(queue)
        <5>1. PICK k \in 1..Len(q) : q[k] = d
          BY <2>4 DEF ToSet
        <5>2. k # Len(q)
          BY <2>1, <4>1, <5>1
        <5>3. PICK j \in 1..Len(queue) : q[k] = queue[j]
          BY <3>1, <5>2
        <5>4. QED
          BY <2>4, <5>1, <5>3 DEF ToSet
      <4>2. QED
        BY <4>1
    <3>2. CASE Full
      <4>1. Len(q) = Len(queue) /\ i \in 1..(Len(q) - 1)
        <5>1. Len(q) = Len(queue)
          BY <2>f, <3>2
        <5>2. Len(q) \in Nat
          BY <2>4
        <5>3. QED
          BY <3>1, <5>1, <5>2
      <4>2. q[i] = queue[i + 1]
        BY <2>f, <3>2, <4>1
      <4>3. i + 1 \in 1..Len(queue)
        BY <2>4, <4>1
      <4>4. QED
        BY <4>2, <4>3
    <3>3. CASE ~Full
      <4>1. i \in 1..Len(queue) /\ q[i] = queue[i]
        BY <2>g, <2>4, <3>1, <3>3
      <4>2. QED
        BY <4>1
    <3>4. QED
      BY <3>2, <3>3
  <2>6. ASSUME NEW c \in Callers
        PROVE  /\ \A d \in seen[c] : d <= created + 1
               /\ created + 1 \notin seen[c]
    <3>1. seen[c] \subseteq Docs
      BY DEF TypeOK
    <3>2. QED
      BY <1>n, <3>1 DEF HandedOver
  <2>7. CASE queue' = q
    BY <2>3, <2>5, <2>6, <2>7 DEF HandedOver
  <2>8. CASE queue' = <<>>
    BY <1>0, <2>3, <2>6, <2>8 DEF HandedOver
  <2>9. QED
    BY <2>2, <2>7, <2>8
<1>2. ASSUME UNCHANGED <<created, caller, seen>>,
             queue' = queue \/ queue' = <<>>
      PROVE  HandedOver'
  BY <1>2, <1>0 DEF HandedOver
<1>3. CASE TimerFire
  BY <1>2, <1>3 DEF TimerFire, TakeBatch
<1>4. CASE ResumeBackground
  BY <1>2, <1>4 DEF ResumeBackground, FlushInBackground, TakeBatch
<1>5. CASE Settle
  <2>1. \A c \in Callers : caller'[c] \in {"owner", "done"}
                             => caller[c] \in {"owner", "done"}
    BY <1>5 DEF Settle, TypeOK
  <2>2. UNCHANGED <<created, seen>> /\ (queue' = queue \/ queue' = <<>>)
    BY <1>5 DEF Settle, AfterInsert, TakeBatch
  <2>3. QED
    BY <1>0, <2>1, <2>2 DEF HandedOver
<1>6. ASSUME NEW c \in Callers, FlushBody(c), UNCHANGED created,
             \A b \in Callers : \A d \in seen'[b] : d <= created,
             \A b \in Callers \ {c} : seen'[b] = seen[b]
      PROVE  HandedOver'
  <2>1. \A b \in Callers \ {c} : caller'[b] = caller[b]
    BY <1>6 DEF FlushBody, TypeOK
  <2>2. queue' = <<>> \/ (queue' = queue /\ caller'[c] = "waiting")
    BY <1>6 DEF FlushBody, TakeBatch, TypeOK
  <2>3. QED
    BY <1>0, <1>6, <2>1, <2>2 DEF HandedOver
<1>7. ASSUME NEW c \in Callers, Flush(c)
      PROVE  HandedOver'
  <2>1. \A b \in Callers \ {c} : seen'[b] = seen[b]
    BY <1>7 DEF Flush, TypeOK
  <2>2. \A d \in seen'[c] : d <= created
    BY <1>7, <1>h DEF Flush, TypeOK
  <2>3. QED
    BY <1>6, <1>7, <2>1, <2>2 DEF Flush, HandedOver
<1>8. ASSUME NEW c \in Callers, ResumeFlush(c)
      PROVE  HandedOver'
  <2>1. CASE queue = <<>> /\ UNCHANGED queue
    <3>1. /\ UNCHANGED <<created, seen>>
          /\ \A b \in Callers \ {c} : caller'[b] = caller[b]
      BY <1>8, <2>1 DEF ResumeFlush, Retake, TypeOK
    <3>2. QED
      BY <1>0, <2>1, <3>1 DEF HandedOver
  <2>2. CASE FlushBody(c)
    BY <1>6, <1>8, <2>2 DEF ResumeFlush, HandedOver
  <2>3. QED
    BY <1>8, <2>1, <2>2 DEF ResumeFlush, Retake
<1>9. CASE UNCHANGED vars
  BY <1>2, <1>9 DEF vars
<1>10. QED
  BY <1>1, <1>3, <1>4, <1>5, <1>7, <1>8, <1>9 DEF Next

\* No document is inserted twice or out of order.
THEOREM InsertsAreOrdered == Spec => []InsertOrder
<1>1. Init => Ordered
  BY DEF Init, Ordered, Left
<1>2. TypeOK /\ QueueIsNewest /\ Ordered => InsertOrder
  <2> SUFFICES ASSUME TypeOK, QueueIsNewest, Ordered
               PROVE  InsertOrder
    OBVIOUS
  <2>1. /\ DOMAIN queue = 1..Len(queue) /\ Len(queue) \in Nat
        /\ DOMAIN flushing = 1..Len(flushing) /\ created \in Nat
        /\ \A i \in 1..Len(flushing) : flushing[i] \in Nat
        /\ \A s \in settled : s \in Nat
    BY LenProperties, SizeAssumption DEF TypeOK, Docs
  <2>2. \A d \in ToSet(queue) : d \in Int /\ Left < d
    BY <2>1 DEF ToSet, QueueIsNewest, Left
  <2>3. \A d \in ToSet(flushing) : d \in Nat /\ d <= Left /\ \A s \in settled : s < d
    BY <2>1 DEF ToSet, Ordered
  <2>4. Left \in Int
    BY <2>1 DEF Left
  <2>5. \A d \in ToSet(flushing), q \in ToSet(queue) : d < q
    BY <2>2, <2>3, <2>4
  <2>6. \A s \in settled, q \in ToSet(queue) : s < q
    BY <2>1, <2>2, <2>4 DEF Ordered
  <2>7. QED
    BY <2>3, <2>5, <2>6 DEF InsertOrder, Ordered
<1>3. QED
  BY <1>1, <1>2, OrderedStep, QueueHoldsNewest, TypeCorrect, PTL DEF Spec

\* When flush() returns, no document that the buffer held at the call is still
\* queued: each was handed to insertMany or dropped.
THEOREM FlushHandsOverAlways == Spec => []FlushHandsOver
<1>1. Init => Ordered /\ HandedOver
  BY DEF Init, Ordered, Left, HandedOver
<1>2. HandedOver => FlushHandsOver
  BY DEF HandedOver, FlushHandsOver
<1>3. QED
  BY <1>1, <1>2, OrderedStep, HandedOverStep, QueueHoldsNewest, TypeCorrect,
     PTL DEF Spec
-----------------------------------------------------------------------------
(* The buffer implements DocumentLog: each operation is a step of the log  *)
(* or changes nothing that the log knows.                                  *)

\* enqueue()'s shift() and push() keep the newest documents, and count what
\* they drop.
LEMMA PushedIsNewest ==
    ASSUME TypeOK, Len(queue) <= MaxQueueSize, created < MaxDocs
    PROVE  LET all == Append(queue, created + 1)
           IN  /\ Log!Newest(all) = Pushed(created + 1)
               /\ Len(all) - Len(Log!Newest(all)) = IF Full THEN 1 ELSE 0
<1> DEFINE all == Append(queue, created + 1)
           p == Pushed(created + 1)
<1>1. created + 1 \in Docs
  BY SizeAssumption DEF TypeOK, Docs
<1>2. queue \in Seq(Docs) /\ Len(queue) \in Nat /\ MaxQueueSize \in Nat \ {0}
  BY SizeAssumption DEF TypeOK
<1>3. /\ all \in Seq(Docs)
      /\ Len(all) = Len(queue) + 1
      /\ \A i \in 1..Len(queue) : all[i] = queue[i]
      /\ all[Len(queue) + 1] = created + 1
  BY <1>1, <1>2, AppendProperties
<1>4. CASE ~Full
  <2>1. p = all
    BY <1>4 DEF Pushed
  <2>2. Len(all) <= MaxQueueSize
    BY <1>2, <1>3, <1>4 DEF Full
  <2> HIDE DEF all, p
  <2>3. Log!Newest(all) = all
    BY <2>2 DEF Log!Newest
  <2>4. Len(all) - Len(Log!Newest(all)) = 0
    BY <1>2, <1>3, <2>3
  <2>5. QED
    BY <1>4, <2>1, <2>3, <2>4 DEF all, p
<1>5. CASE Full
  <2>1. Len(queue) = MaxQueueSize
    BY <1>2, <1>5 DEF Full
  <2>2. /\ p \in Seq(Docs)
        /\ Len(p) = Len(queue)
        /\ \A i \in 1..(Len(p) - 1) : p[i] = queue[i + 1]
        /\ p[Len(p)] = created + 1
    BY <1>5, PushedFacts
  <2> HIDE DEF all, p
  <2>3. Log!Newest(all) = SubSeq(all, 2, Len(all))
    BY <1>2, <1>3, <2>1 DEF Log!Newest
  <2> DEFINE n == SubSeq(all, 2, Len(all))
  <2>4. /\ n \in Seq(Docs)
        /\ Len(n) = Len(queue)
        /\ \A i \in 1..Len(n) : n[i] = all[i + 1]
    BY <1>2, <1>3, <2>1, SubSeqProperties
  <2> HIDE DEF n
  <2>5. ASSUME NEW i \in 1..Len(n) PROVE n[i] = p[i]
    <3>1. CASE i < Len(queue)
      BY <1>2, <1>3, <2>2, <2>4, <3>1
    <3>2. CASE i = Len(queue)
      BY <1>2, <1>3, <2>2, <2>4, <3>2
    <3>3. QED
      BY <1>2, <2>4, <3>1, <3>2
  <2>6. n = p
    BY <2>2, <2>4, <2>5, SeqEqual
  <2>7. Len(all) - Len(n) = 1
    BY <1>2, <1>3, <2>4
  <2>8. QED
    BY <1>5, <2>3, <2>6, <2>7 DEF all, p, n
<1>6. QED
  BY <1>4, <1>5

\* An enqueue() is an Accept, whether its document waits or leaves at once.
LEMMA EnqueueAccepts == TypeOK /\ QueueIsNewest /\ Enqueue => Log!Accept
<1> SUFFICES ASSUME TypeOK, QueueIsNewest, Enqueue
             PROVE  Log!Accept
  OBVIOUS
<1> DEFINE all == Append(queue, created + 1)
           p == Pushed(created + 1)
<1>1. created < MaxDocs /\ created' = created + 1 /\ UNCHANGED settled
  BY DEF Enqueue
<1>2. /\ Log!Newest(all) = p
      /\ Len(all) - Len(Log!Newest(all)) = IF Full THEN 1 ELSE 0
  BY <1>1, PushedIsNewest DEF QueueIsNewest
<1> HIDE DEF all, p
<1>3. dropped' = dropped + (Len(all) - Len(Log!Newest(all)))
  <2>1. dropped \in Nat /\ dropped' = IF Full THEN dropped + 1 ELSE dropped
    BY DEF Enqueue, CountDrop, TypeOK
  <2> DEFINE n == Len(all) - Len(Log!Newest(all))
  <2>2. n = IF Full THEN 1 ELSE 0
    BY <1>2
  <2> HIDE DEF n
  <2>3. dropped' = dropped + n
    BY <2>1, <2>2
  <2>4. QED
    BY <2>3 DEF n
<1>4. Log!WaitOrLeave(p, flushing)
  <2>1. \/ FlushInBackground(p)
        \/ queue' = p /\ UNCHANGED flushing
    BY DEF Enqueue, p
  <2>2. CASE FlushInBackground(p)
    BY <2>2, Zenon DEF FlushInBackground, AwaitInsert, TakeBatch, Log!WaitOrLeave
  <2>3. QED
    BY <2>1, <2>2, Zenon DEF Log!WaitOrLeave
<1>5. QED
  BY <1>1, <1>2, <1>3, <1>4, Zenon DEF Log!Accept, all

\* A flush() that takes the queue is a Leave, or finds nothing to take.
LEMMA TakingLeaves ==
    ASSUME flushing = <<>>, TakeBatch(queue), UNCHANGED <<settled, dropped, created>>
    PROVE  Log!Leave \/ UNCHANGED Log!logVars
<1>1. CASE queue = <<>>
  BY <1>1, Zenon DEF TakeBatch, Log!logVars
<1>2. CASE queue # <<>>
  BY <1>2, Zenon DEF TakeBatch, Log!Leave
<1>3. QED
  BY <1>1, <1>2

\* Every step of the buffer is one of the log.
LEMMA LogStep ==
    TypeOK /\ QueueIsNewest /\ [Next]_vars => [Log!Next]_(Log!logVars)
<1> SUFFICES ASSUME TypeOK, QueueIsNewest, [Next]_vars
             PROVE  Log!Next \/ UNCHANGED Log!logVars
  OBVIOUS
<1>1. CASE Enqueue
  BY <1>1, EnqueueAccepts DEF Log!Next
<1>2. CASE TimerFire
  <2>1. UNCHANGED <<settled, dropped, created>>
    BY <1>2 DEF TimerFire
  <2>2. \/ UNCHANGED <<queue, flushing>>
        \/ flushing = <<>> /\ TakeBatch(queue)
    BY <1>2 DEF TimerFire, AwaitInsert
  <2>3. QED
    BY <2>1, <2>2, TakingLeaves, Zenon DEF Log!Next, Log!logVars
<1>3. CASE Settle
  <2>1. flushing # <<>> /\ settled' = settled \cup ToSet(flushing)
    BY <1>3 DEF Settle
  <2>t. ToSet(flushing) = Log!ToSet(flushing)
    BY DEF ToSet, Log!ToSet
  <2>2. UNCHANGED <<dropped, created>>
    BY <1>3 DEF Settle
  <2>3. Log!WaitOrLeave(queue, <<>>)
    BY <1>3, Zenon DEF Settle, AfterInsert, TakeBatch, Log!WaitOrLeave
  <2>4. QED
    BY <2>1, <2>t, <2>2, <2>3, Zenon DEF Log!Store, Log!Next
<1>4. CASE ResumeBackground
  <2>1. UNCHANGED <<settled, dropped, created>>
    BY <1>4 DEF ResumeBackground
  <2>2. \/ UNCHANGED <<queue, flushing>>
        \/ flushing = <<>> /\ TakeBatch(queue)
        \/ flushing # <<>> /\ UNCHANGED flushing /\ queue' = queue
    BY <1>4, Zenon DEF ResumeBackground, FlushInBackground, AwaitInsert
  <2>3. QED
    BY <2>1, <2>2, TakingLeaves, Zenon DEF Log!Next, Log!logVars
<1>5. ASSUME NEW c \in Callers, Flush(c) \/ ResumeFlush(c)
      PROVE  Log!Next \/ UNCHANGED Log!logVars
  <2>1. UNCHANGED <<settled, dropped, created>>
    BY <1>5 DEF Flush, ResumeFlush
  <2>2. \/ UNCHANGED <<queue, flushing>>
        \/ flushing = <<>> /\ TakeBatch(queue)
    BY <1>5, Zenon DEF Flush, ResumeFlush, FlushBody
  <2>3. QED
    BY <2>1, <2>2, TakingLeaves, Zenon DEF Log!Next, Log!logVars
<1>6. CASE UNCHANGED vars
  BY <1>6 DEF vars, Log!logVars
<1>7. QED
  BY <1>1, <1>2, <1>3, <1>4, <1>5, <1>6 DEF Next

\* The buffer is a bounded log: what its operations do is what DocumentLog
\* allows (its fairness, which ImplementsLog adds, is left to TLC).
THEOREM BufferIsLog == Spec => Log!SafeSpec
<1>1. Init => Log!Init
  BY DEF Init, Log!Init
<1>2. QED
  BY <1>1, LogStep, TypeCorrect, QueueHoldsNewest, PTL DEF Spec, Log!SafeSpec

-----------------------------------------------------------------------------
(* What the log loses.                                                     *)

Gone == settled \cup ToSet(flushing)

\* What waits is the newest documents, and what has left is older.
LEMMA GoneAndWaiting ==
    ASSUME TypeOK, QueueIsNewest, Ordered
    PROVE  /\ created \in Nat /\ Len(queue) \in Nat /\ Left \in Int
           /\ ToSet(queue) = (Left + 1)..created
           /\ \A d \in Gone : d \in 1..created /\ d <= Left
<1>1. /\ DOMAIN queue = 1..Len(queue) /\ Len(queue) \in Nat /\ created \in Nat
      /\ DOMAIN flushing = 1..Len(flushing)
      /\ \A i \in 1..Len(flushing) : flushing[i] \in Nat \ {0}
      /\ \A d \in settled : d \in Nat \ {0}
  BY LenProperties, SizeAssumption DEF TypeOK, Docs
<1>2. Left \in Int /\ Left <= created
  BY <1>1 DEF Left
<1>3. ToSet(queue) = (Left + 1)..created
  <2>1. \A d \in ToSet(queue) : d \in (Left + 1)..created
    BY <1>1 DEF ToSet, QueueIsNewest, Left
  <2>2. ASSUME NEW d \in (Left + 1)..created PROVE d \in ToSet(queue)
    <3>1. d - Left \in 1..Len(queue)
      BY <1>1, <1>2 DEF Left
    <3>2. queue[d - Left] = d
      BY <1>1, <1>2, <3>1 DEF QueueIsNewest, Left
    <3> QED
      BY <1>1, <3>1, <3>2, Zenon DEF ToSet
  <2> QED
    BY <2>1, <2>2
<1>4. ASSUME NEW d \in Gone PROVE d \in 1..created /\ d <= Left
  <2>1. CASE d \in settled
    BY <1>1, <1>2, <2>1 DEF Ordered
  <2>2. CASE d \in ToSet(flushing)
    BY <1>1, <1>2, <2>2 DEF Ordered, ToSet
  <2> QED
    BY <2>1, <2>2 DEF Gone
<1> QED
  BY <1>1, <1>2, <1>3, <1>4

\* An accepted document is added to what the buffer ever kept, and replaces the
\* oldest that waited if the queue was full.
LEMMA AcceptCounts ==
    ASSUME TypeOK, TypeOK', QueueIsNewest, Ordered, DroppedIsExact, Log!Accept
    PROVE  DroppedIsExact'
<1> DEFINE all == Append(queue, created + 1)
           p == Pushed(created + 1)
           reached == Gone \cup ToSet(queue)
<1>1. /\ created \in Nat /\ Len(queue) \in Nat /\ Left \in Int
      /\ ToSet(queue) = (Left + 1)..created
      /\ \A d \in Gone : d \in 1..created /\ d <= Left
  BY GoneAndWaiting
<1>2. created' = created + 1 /\ settled' = settled /\ created < MaxDocs
  BY <1>1, SizeAssumption DEF Log!Accept, TypeOK
<1>3. /\ Log!Newest(all) = p
      /\ Len(all) - Len(Log!Newest(all)) = IF Full THEN 1 ELSE 0
  BY <1>2, PushedIsNewest DEF QueueIsNewest
<1>4. /\ p \in Seq(Docs) /\ Len(p) \in Nat
      /\ \A i \in 1..Len(p) : p[i] = (created + 1) - Len(p) + i
      /\ Full => Len(p) = Len(queue)
      /\ ~Full => Len(p) = Len(queue) + 1
  BY <1>2, PushedNewest, PushedFacts
<1> HIDE DEF p, all
<1>5. ToSet(p) = (created + 2 - Len(p))..(created + 1)
  <2>1. DOMAIN p = 1..Len(p)
    BY <1>4, LenProperties
  <2>2. ASSUME NEW d \in ToSet(p) PROVE d \in (created + 2 - Len(p))..(created + 1)
    <3>1. PICK i \in 1..Len(p) : d = p[i]
      BY <2>1, Zenon DEF ToSet
    <3> QED
      BY <1>1, <1>4, <3>1
  <2>3. ASSUME NEW d \in (created + 2 - Len(p))..(created + 1) PROVE d \in ToSet(p)
    <3>1. d - (created + 1 - Len(p)) \in 1..Len(p)
      BY <1>1, <1>4
    <3>2. p[d - (created + 1 - Len(p))] = d
      BY <1>1, <1>4, <3>1
    <3> QED
      BY <2>1, <3>1, <3>2, Zenon DEF ToSet
  <2> QED
    BY <2>2, <2>3
<1>6. settled' \cup Held' = Gone \cup ToSet(p)
  <2>1. \/ queue' = p /\ flushing' = flushing
        \/ flushing = <<>> /\ queue' = <<>> /\ flushing' = p
    BY <1>3, Zenon DEF Log!Accept, Log!WaitOrLeave, all
  <2>2. ToSet(<<>>) = {}
    BY DEF ToSet
  <2>3. CASE queue' = p /\ flushing' = flushing
    BY <1>2, <2>3 DEF Held, Gone
  <2>4. CASE flushing = <<>> /\ queue' = <<>> /\ flushing' = p
    BY <1>2, <2>2, <2>4 DEF Held, Gone
  <2> QED
    BY <2>1, <2>3, <2>4
<1>7. reached = settled \cup Held /\ IsFiniteSet(reached) /\ reached \subseteq 1..created
  <2>1. reached = settled \cup Held
    BY DEF Gone, Held
  <2>2. reached \subseteq 1..created
    <3>1. Left + 1 >= 1
      <4>1. CASE Len(queue) = 0
        BY <1>1, <4>1 DEF Left
      <4>2. CASE Len(queue) # 0
        <5>1. 1 \in 1..Len(queue)
          BY <1>1, <4>2
        <5>2. queue[1] \in Docs /\ queue[1] = created - Len(queue) + 1
          BY <1>1, <5>1, ElementOfSeq DEF TypeOK, QueueIsNewest
        <5> QED
          BY <5>2, SizeAssumption DEF Docs, Left
      <4> QED
        BY <4>1, <4>2
    <3> QED
      BY <1>1, <3>1
  <2>3. IsFiniteSet(1..created)
    BY <1>1, FS_Interval
  <2> QED
    BY <2>1, <2>2, <2>3, FS_Subset
<1>8. /\ Cardinality(1..created) = created /\ Cardinality(1..(created + 1)) = created + 1
      /\ Cardinality(reached) \in Nat
  BY <1>1, <1>7, FS_Interval, FS_CardinalityType
<1>9. dropped = created - Cardinality(reached)
  BY <1>7, <1>8 DEF DroppedIsExact
<1>10. dropped' = dropped + (IF Full THEN 1 ELSE 0)
  BY <1>3, Zenon DEF Log!Accept, all
<1>11. created + 1 \notin reached
  BY <1>1, <1>7
<1>12. Cardinality(settled' \cup Held') = Cardinality(reached) + (IF Full THEN 0 ELSE 1)
  <2>1. CASE ~Full
    <3>1. Gone \cup ToSet(p) = reached \cup {created + 1}
      BY <1>1, <1>4, <1>5, <2>1 DEF Left
    <3> QED
      BY <1>6, <1>7, <1>11, <2>1, <3>1, FS_AddElement
  <2>2. CASE Full
    <3>1. Left + 1 \in reached /\ Left + 1 <= created
      BY <1>1, <2>2, SizeAssumption DEF Full, Left
    <3>2. Gone \cup ToSet(p) = (reached \ {Left + 1}) \cup {created + 1}
      BY <1>1, <1>4, <1>5, <2>2, <3>1 DEF Left
    <3>3. /\ IsFiniteSet(reached \ {Left + 1})
          /\ Cardinality(reached \ {Left + 1}) = Cardinality(reached) - 1
      BY <1>7, <3>1, FS_RemoveElement
    <3>4. Cardinality((reached \ {Left + 1}) \cup {created + 1}) = Cardinality(reached)
      <4> DEFINE rest == reached \ {Left + 1}
      <4>1. created + 1 \notin rest
        BY <1>11
      <4> HIDE DEF rest, reached
      <4>2. IsFiniteSet(rest) /\ Cardinality(rest) = Cardinality(reached) - 1
        BY <3>3 DEF rest
      <4>3. Cardinality(rest \cup {created + 1}) = Cardinality(rest) + 1
        BY <4>1, <4>2, FS_AddElement
      <4> QED
        BY <1>8, <4>2, <4>3 DEF rest
    <3> HIDE DEF reached
    <3>5. Cardinality(settled' \cup Held') = Cardinality(reached)
      BY <1>6, <3>2, <3>4, Zenon
    <3> QED
      BY <1>8, <2>2, <3>5
  <2> QED
    BY <2>1, <2>2
<1> HIDE DEF reached
<1>13. DroppedIsExact' <=>
           dropped' = Cardinality(1..(created + 1)) - Cardinality(settled' \cup Held')
  BY <1>2 DEF DroppedIsExact
<1> QED
  <2>1. CASE Full
    BY <1>1, <1>8, <1>9, <1>10, <1>12, <1>13, <2>1
  <2>2. CASE ~Full
    BY <1>1, <1>8, <1>9, <1>10, <1>12, <1>13, <2>2
  <2> QED
    BY <2>1, <2>2

\* A batch that leaves or is stored loses nothing.
LEMMA CountStep ==
    ASSUME TypeOK, TypeOK', QueueIsNewest, Ordered, DroppedIsExact,
           [Log!Next]_(Log!logVars)
    PROVE  DroppedIsExact'
<1>e. ToSet(<<>>) = {} /\ ToSet(flushing) = Log!ToSet(flushing)
  BY DEF ToSet, Log!ToSet
<1>1. CASE Log!Accept
  BY <1>1, AcceptCounts
<1>2. CASE ~Log!Accept
  <2>1. UNCHANGED <<dropped, created>>
    BY <1>2 DEF Log!Next, Log!Leave, Log!Store, Log!logVars
  <2>2. settled' \cup Held' = settled \cup Held
    <3>1. CASE Log!Leave
      BY <1>e, <3>1 DEF Log!Leave, Held
    <3>2. CASE Log!Store
      <4>1. settled' = settled \cup ToSet(flushing)
        BY <1>e, <3>2 DEF Log!Store
      <4>2. \/ queue' = queue /\ flushing' = <<>>
            \/ queue' = <<>> /\ flushing' = queue
        BY <3>2 DEF Log!Store, Log!WaitOrLeave
      <4> QED
        BY <1>e, <4>1, <4>2 DEF Held
    <3>3. CASE UNCHANGED Log!logVars
      BY <3>3 DEF Log!logVars, Held
    <3> QED
      BY <1>2, <3>1, <3>2, <3>3 DEF Log!Next
  <2> QED
    BY <2>1, <2>2 DEF DroppedIsExact
<1> QED
  BY <1>1, <1>2

\* getDroppedCount() is exactly the number of documents that never reached
\* insertMany and are no longer queued.
THEOREM DropsAreExact == Spec => []DroppedIsExact
<1>1. Init => Ordered /\ DroppedIsExact
  <2> SUFFICES ASSUME Init PROVE Ordered /\ DroppedIsExact
    OBVIOUS
  <2>1. Ordered
    BY DEF Init, Ordered, Left
  <2>2. settled \cup Held = {} /\ 1..created = {}
    BY DEF Init, Held, ToSet
  <2>3. Cardinality({}) = 0 /\ dropped = 0
    BY FS_EmptySet DEF Init
  <2>4. Cardinality({}) - Cardinality({}) = 0
    BY <2>3
  <2> QED
    BY <2>1, <2>2, <2>3, <2>4, Zenon DEF DroppedIsExact
<1>2. QED
  BY <1>1, LogStep, OrderedStep, CountStep, TypeCorrect, QueueHoldsNewest, PTL DEF Spec
=============================================================================
