-------------------------- MODULE BulkInsertBuffer --------------------------
(***************************************************************************)
(* The log buffer of src/infra/db/mongodb/util/bulk-insert-buffer.ts.      *)
(*                                                                         *)
(* Callers enqueue documents; the buffer hands them to insertMany in       *)
(* batches, when maxSize of them are queued, when the interval timer       *)
(* fires, or when somebody calls flush().  One insertMany is in flight at  *)
(* a time: a flush() that finds one running awaits it and looks again.     *)
(*                                                                         *)
(* A document is the number of the enqueue call that brought it.  The two  *)
(* fields whose truth value the code tests keep what is behind them:       *)
(* "flushing" is the batch in flight (<<>> is the code's null) and "timer" *)
(* tells a timer that will fire from one that fired and was not cleared.   *)
(***************************************************************************)
EXTENDS Naturals, Sequences, SequencesExt, FiniteSets

CONSTANTS MaxSize,       \* options.maxSize after the constructor's default
          MaxQueueSize,  \* options.maxQueueSize after the default
          Callers,       \* calls of the public flush(), made by the shutdown
          MaxDocs        \* bound: how many documents are ever enqueued

ASSUME SizeAssumption == /\ MaxSize \in Nat \ {0}
                         /\ MaxQueueSize \in Nat \ {0}
                         /\ MaxDocs \in Nat

VARIABLES queue,      \* this.queue
          timer,      \* this.timer
          flushing,   \* the batch behind this.flushing
          dropped,    \* this.dropped
          bgWaiting,  \* background flush() calls that await this.flushing
          bgResumed,  \* background calls whose awaited promise has settled
          caller,     \* where each public flush() call is
          created,    \* how many documents were enqueued so far
          settled,    \* documents whose insertMany has settled
          seen        \* documents the buffer held when the call was made

vars == <<queue, timer, flushing, dropped, bgWaiting, bgResumed, caller,
          created, settled, seen>>

Docs == 1..MaxDocs
CallerState == {"idle", "owner", "waiting", "resumed", "done"}

\* The types of the fields; and neither the queue nor the batch taken from it
\* is ever longer than maxQueueSize, however long an insert is in flight while
\* documents keep coming (enqueue, lines 50-57).
TypeOK == /\ queue \in Seq(Docs)
          /\ Len(queue) <= MaxQueueSize
          /\ timer \in {"none", "armed", "stale"}
          /\ flushing \in Seq(Docs)
          /\ Len(flushing) <= MaxQueueSize
          /\ dropped \in Nat
          /\ bgWaiting \in Nat
          /\ bgResumed \in Nat
          /\ caller \in [Callers -> CallerState]
          /\ created \in 0..MaxDocs
          /\ settled \in SUBSET Docs
          /\ seen \in [Callers -> SUBSET Docs]

Init == /\ queue = <<>>
        /\ timer = "none"
        /\ flushing = <<>>
        /\ dropped = 0
        /\ bgWaiting = 0
        /\ bgResumed = 0
        /\ caller = [c \in Callers |-> "idle"]
        /\ created = 0
        /\ settled = {}
        /\ seen = [c \in Callers |-> {}]

Held == ToSet(queue) \cup ToSet(flushing)

-----------------------------------------------------------------------------
(* The steps below are shared by the operations.  Each takes the queue as  *)
(* the code has it at that point of the call.  A definition whose name has *)
(* an underscore is a deliberately wrong variant of the one that follows   *)
(* it: the properties must tell the two apart.                             *)

\* scheduleFlush(): keeps a timer that is set, even one that fired already.
ScheduleFlush(q) ==
    timer' = IF timer # "none" \/ q = <<>> THEN timer ELSE "armed"

TakeBatch_Slice(q) == /\ timer' = "none"
                      /\ flushing' = q
                      /\ queue' = q

\* flush() with no insert running: clears the timer and takes the whole queue.
TakeBatch(q) == /\ timer' = "none"
                /\ flushing' = q
                /\ queue' = <<>>

AwaitInsert_GiveUp == /\ flushing # <<>>
                      /\ UNCHANGED <<flushing, bgWaiting>>

\* A background flush() that finds an insert running awaits it.
AwaitInsert == /\ flushing # <<>>
               /\ bgWaiting' = bgWaiting + 1
               /\ UNCHANGED flushing

\* flushInBackground() on a non-empty queue.
FlushInBackground(q) ==
    \/ /\ AwaitInsert
       /\ queue' = q
       /\ UNCHANGED timer
    \/ /\ flushing = <<>>
       /\ TakeBatch(q)
       /\ UNCHANGED bgWaiting

\* Continuations of a settled promise run before the next timer or I/O event.
MicrotasksDone == bgResumed = 0 /\ \A c \in Callers : caller[c] # "resumed"

-----------------------------------------------------------------------------
Full == Len(queue) >= MaxQueueSize

Pushed_NoShift(d) == Append(queue, d)

Pushed_DropNewest(d) == IF Full THEN queue ELSE Append(queue, d)

\* The queue after enqueue's shift() and push().
Pushed(d) == Append(IF Full THEN Tail(queue) ELSE queue, d)

CountDrop_Late == dropped' = IF Len(queue) > MaxQueueSize THEN dropped + 1
                                                          ELSE dropped

CountDrop == dropped' = IF Full THEN dropped + 1 ELSE dropped

\* enqueue(document)
Enqueue ==
    /\ created < MaxDocs
    /\ created' = created + 1
    /\ CountDrop
    /\ LET q == Pushed(created + 1)
       IN  \/ /\ Len(q) >= MaxSize
              /\ FlushInBackground(q)
           \/ /\ Len(q) < MaxSize
              /\ ScheduleFlush(q)
              /\ queue' = q
              /\ UNCHANGED <<flushing, bgWaiting>>
    /\ UNCHANGED <<bgResumed, caller, settled, seen>>

\* The interval timer fires: flushInBackground().  this.timer keeps pointing
\* at the fired timer until a flush gets as far as clearTimer().
TimerFire ==
    /\ timer = "armed"
    /\ MicrotasksDone
    /\ \/ /\ AwaitInsert
          /\ timer' = "stale"
          /\ UNCHANGED queue
       \/ /\ flushing = <<>>
          /\ TakeBatch(queue)
          /\ UNCHANGED bgWaiting
    /\ UNCHANGED <<dropped, bgResumed, caller, created, settled, seen>>

\* The finally() of the insert: this.flushing = null, then the next flush is
\* started or scheduled.
AfterInsert ==
    \/ /\ Len(queue) >= MaxSize
       /\ TakeBatch(queue)
    \/ /\ Len(queue) < MaxSize
       /\ ScheduleFlush(queue)
       /\ flushing' = <<>>
       /\ UNCHANGED queue

\* insertMany settles, well or with an error that onError reports; the calls
\* that await the promise are resumed after its finally().
Settle ==
    /\ flushing # <<>>
    /\ MicrotasksDone
    /\ settled' = settled \cup ToSet(flushing)
    /\ bgResumed' = bgResumed + bgWaiting
    /\ bgWaiting' = 0
    /\ caller' = [c \in Callers |-> CASE caller[c] = "waiting" -> "resumed"
                                      [] caller[c] = "owner"   -> "done"
                                      [] OTHER                 -> caller[c]]
    /\ AfterInsert
    /\ UNCHANGED <<dropped, created, seen>>

Retake_Never == FALSE

\* What a flush() tests after its await: if (this.queue.length).
Retake == queue # <<>>

\* A background flush() continues after its await: done if the queue is empty,
\* otherwise flush() again.
ResumeBackground ==
    /\ bgResumed > 0
    /\ bgResumed' = bgResumed - 1
    /\ \/ /\ ~Retake
          /\ UNCHANGED <<queue, timer, flushing, bgWaiting>>
       \/ /\ Retake
          /\ FlushInBackground(queue)
    /\ UNCHANGED <<dropped, caller, created, settled, seen>>

\* The body of a public flush(): await the running insert, or take the queue.
FlushBody(c) ==
    \/ /\ flushing # <<>>
       /\ caller' = [caller EXCEPT ![c] = "waiting"]
       /\ UNCHANGED <<queue, timer, flushing>>
    \/ /\ flushing = <<>>
       /\ TakeBatch(queue)
       /\ caller' = [caller EXCEPT ![c] = IF queue = <<>> THEN "done"
                                                          ELSE "owner"]

\* flush(), called by the static flush() of the two log repositories.
Flush(c) ==
    /\ caller[c] = "idle"
    /\ FlushBody(c)
    /\ seen' = [seen EXCEPT ![c] = Held]
    /\ UNCHANGED <<dropped, bgWaiting, bgResumed, created, settled>>

\* A public flush() continues after its await.
ResumeFlush(c) ==
    /\ caller[c] = "resumed"
    /\ \/ /\ ~Retake
          /\ caller' = [caller EXCEPT ![c] = "done"]
          /\ UNCHANGED <<queue, timer, flushing>>
       \/ /\ Retake
          /\ FlushBody(c)
    /\ UNCHANGED <<dropped, bgWaiting, bgResumed, created, settled, seen>>

Next == \/ Enqueue
        \/ TimerFire
        \/ Settle
        \/ ResumeBackground
        \/ \E c \in Callers : Flush(c) \/ ResumeFlush(c)

\* Timers fire, insertMany settles (the driver has its own timeouts) and
\* continuations run; nobody is obliged to enqueue or to call flush().
Fairness == /\ WF_vars(TimerFire)
            /\ WF_vars(Settle)
            /\ WF_vars(ResumeBackground)
            /\ \A c \in Callers : WF_vars(ResumeFlush(c))

Spec == Init /\ [][Next]_vars /\ Fairness

-----------------------------------------------------------------------------
(* Properties.                                                             *)

\* A queued document always has somebody who will come for it: a timer that
\* will still fire, an insert whose finally() looks at the queue, or a flush
\* about to resume (scheduleFlush, lines 101-109, and the finally at 89-96).
NeverStranded ==
    queue # <<>> => \/ timer = "armed"
                    \/ flushing # <<>>
                    \/ bgResumed > 0

\* A timer is set only while something is queued, and one that fired but was
\* left in this.timer, where it blocks scheduleFlush, is backed by a background
\* flush that will clear it (clearTimer is reached only past line 76).
TimerIsCovered ==
    /\ timer # "none" => queue # <<>>
    /\ timer = "stale" => bgWaiting > 0 \/ bgResumed > 0

\* What is queued is the most recent documents in the order they came, never
\* more than maxQueueSize of them: enqueue drops from the old end only.
QueueIsNewest ==
    /\ Len(queue) <= MaxQueueSize
    /\ \A i \in 1..Len(queue) : queue[i] = created - Len(queue) + i

\* No document is inserted twice or out of order: what settled is older than
\* what is in flight, which is older than what is queued.
InsertOrder ==
    /\ \A i, j \in 1..Len(flushing) : i < j => flushing[i] < flushing[j]
    /\ \A d \in ToSet(flushing), s \in settled : s < d
    /\ \A d \in ToSet(flushing), q \in ToSet(queue) : d < q
    /\ \A s \in settled, q \in ToSet(queue) : s < q

\* getDroppedCount() counts exactly the documents that never reached insertMany
\* and are no longer queued.
DroppedIsExact ==
    dropped = Cardinality(1..created) - Cardinality(settled \cup Held)

\* When a flush() call returns, every document the buffer held at the call has
\* been handed to insertMany or dropped: none is left in the queue.
FlushHandsOver ==
    \A c \in Callers : caller[c] = "done" => seen[c] \cap ToSet(queue) = {}

-----------------------------------------------------------------------------
Log == INSTANCE DocumentLog WITH Capacity <- MaxQueueSize, waiting <- queue,
          batch <- flushing, stored <- settled, lost <- dropped, accepted <- created

\* The timers, the background flushes and the calls of flush() together are no
\* more and no less than the log that the repositories are promised (the class
\* as a whole, bulk-insert-buffer.ts 23-123).
ImplementsLog == Log!Spec
=============================================================================
