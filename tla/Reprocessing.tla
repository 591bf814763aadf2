---------------------------- MODULE Reprocessing ----------------------------
(***************************************************************************)
(* The reprocessing of messages whose job failed: the @reprocessing()      *)
(* decorator (src/job/util/reprocessing.ts) around each job of a chain,    *)
(* MqSendReprocessing (src/data/usecases/mq/mq-send-reprocessing.ts), the  *)
(* repository of given-up messages and the POST /reprocessings route that  *)
(* publishes them again, with REPROCESSING_ENABLED set.                    *)
(*                                                                         *)
(* A copy is one message in the broker: an original, or an envelope with   *)
(* the job that failed, the tries so far and the state at the failure.     *)
(* Of the state a chain of jobs shares, the model keeps for each job the   *)
(* attempt in which its key was last written; 0 is undefined.              *)
(***************************************************************************)
EXTENDS Naturals, Sequences, FiniteSets

CONSTANTS JobCount,     \* jobs in the chain, each decorated
          EarlyWriters, \* the jobs that write their key before they can fail
          MaxTries,     \* options.maxTries of each job's decorator
          Delays,       \* REPROCESSING.DELAYS as configured
          Originals,    \* how many original messages there are
          Requests,     \* calls of POST /reprocessings
          MaxCopies,    \* bound: messages ever in the broker
          MaxCrashes    \* bound: restarts of the process

Jobs == 1..JobCount
Ids == 1..MaxCopies

ASSUME ReprocessingAssumption ==
    /\ JobCount \in Nat \ {0}
    /\ EarlyWriters \subseteq Jobs
    /\ MaxTries \in [Jobs -> Nat \ {0}]
    /\ Delays \in Seq(Nat \ {0}) /\ Delays # <<>>
    /\ Originals \in 1..MaxCopies
    /\ MaxCopies \in Nat
    /\ MaxCrashes \in Nat

VARIABLES copies,   \* the messages published so far
          place,    \* of each copy: in the queue, with its chain, or acked
          job,      \* the job its chain is at
          step,     \* before, in, or past that job
          state,    \* the chain's state, without state.reprocessing
          meta,     \* state.reprocessing
          delays,   \* REPROCESSING.DELAYS, which MqSendReprocessing extends
          records,  \* documents of the repository
          request,  \* where each call of the route is
          asked,    \* the records it got
          crashes,  \* restarts so far
          outcome,  \* of each original: how its last chain ended
          done      \* of each copy: jobs that succeeded in it or before it

runVars == <<place, job, step, state, meta, done>>
routeVars == <<request, asked>>
vars == <<copies, place, job, step, state, meta, delays, records, request,
          asked, crashes, outcome, done>>

Blank == [j \in Jobs |-> 0]
NoTries == [current |-> 0, max |-> 0, delays |-> <<>>]
NoMeta == [defined |-> FALSE, middleware |-> 0, tries |-> NoTries]

\* body.reprocessing of an original message is undefined: middleware is 0.
Original(o) == [origin |-> o, depth |-> 0, replays |-> 0, exchange |-> TRUE,
                delay |-> 0, middleware |-> 0, tries |-> NoTries, state |-> Blank, done |-> {}]

\* The types of the state.
TypeOK == /\ Len(copies) \in 0..MaxCopies
          /\ \A c \in 1..Len(copies) :
                /\ copies[c].origin \in 1..Originals
                /\ copies[c].middleware \in Jobs \cup {0}
                /\ copies[c].delay \in Nat
                /\ copies[c].state \in [Jobs -> Nat]
          /\ place \in [Ids -> {"queued", "running", "acked"}]
          /\ job \in [Ids -> Jobs]
          /\ step \in [Ids -> {"enter", "handler", "failed", "resolved"}]
          /\ state \in [Ids -> [Jobs -> Nat]]
          /\ \A c \in Ids : meta[c].middleware \in Jobs \cup {0}
          /\ delays \in Seq(Nat)
          /\ \A r \in 1..Len(records) : records[r].deleted \in BOOLEAN
          /\ request \in [Requests -> {"idle", "got", "published", "done"}]
          /\ \A r \in Requests : asked[r] \subseteq 1..Len(records)
          /\ crashes \in 0..MaxCrashes
          /\ outcome \in [1..Originals -> {"none", "completed", "unsent"}]
          /\ done \in [Ids -> SUBSET Jobs]

Init == /\ copies = [o \in 1..Originals |-> Original(o)]
        /\ place = [c \in Ids |-> "queued"]
        /\ job = [c \in Ids |-> 1]
        /\ step = [c \in Ids |-> "enter"]
        /\ state = [c \in Ids |-> Blank]
        /\ meta = [c \in Ids |-> NoMeta]
        /\ delays = Delays
        /\ records = <<>>
        /\ request = [r \in Requests |-> "idle"]
        /\ asked = [r \in Requests |-> {}]
        /\ crashes = 0
        /\ outcome = [o \in 1..Originals |-> "none"]
        /\ done = [c \in Ids |-> {}]

Exists(c) == c <= Len(copies)
At(c, s) == Exists(c) /\ place[c] = "running" /\ step[c] = s

-----------------------------------------------------------------------------
(* The chain of jobs.                                                      *)

\* The consumer's callback starts the chain with an empty state.
Deliver(c) ==
    /\ Exists(c)
    /\ place[c] = "queued"
    /\ place' = [place EXCEPT ![c] = "running"]
    /\ done' = [done EXCEPT ![c] = copies[c].done]
    /\ UNCHANGED <<copies, job, step, state, meta, delays, records,
                   routeVars, crashes, outcome>>

\* The chains of the copies in C are over, with their state.
Forget(C) == /\ job' = [c \in Ids |-> IF c \in C THEN 1 ELSE job[c]]
             /\ step' = [c \in Ids |-> IF c \in C THEN "enter" ELSE step[c]]
             /\ state' = [c \in Ids |-> IF c \in C THEN Blank ELSE state[c]]
             /\ meta' = [c \in Ids |-> IF c \in C THEN NoMeta ELSE meta[c]]
             /\ done' = [c \in Ids |-> IF c \in C THEN {} ELSE done[c]]

\* normalizeReprocessingPayload(): each job gets its own copy of the payload,
\* so the body is still the envelope for every job of the chain.
IsEnvelope(c) == copies[c].middleware # 0
NormalizedMeta(c) == IF IsEnvelope(c) /\ ~meta[c].defined
                     THEN [defined |-> TRUE, middleware |-> copies[c].middleware,
                           tries |-> copies[c].tries]
                     ELSE meta[c]
OverriddenState_Fresh(c) == state[c]

\* overrideState(): the keys of the saved state are put back over the chain's.
OverriddenState(c) == [j \in Jobs |-> IF copies[c].state[j] # 0
                                      THEN copies[c].state[j] ELSE state[c][j]]

SkipMiddleware_Never(m, j) == FALSE

\* skipMiddleware(), in the mode STOPPED_MIDDLEWARE.
SkipMiddleware(m, j) == m.middleware # 0 /\ m.middleware # j

\* The flow goes on with the next job, or resolves after the last one.
Advance(c) ==
    \/ /\ job[c] < JobCount
       /\ job' = [job EXCEPT ![c] = @ + 1]
       /\ step' = [step EXCEPT ![c] = "enter"]
       /\ UNCHANGED outcome
    \/ /\ job[c] = JobCount
       /\ step' = [step EXCEPT ![c] = "resolved"]
       /\ outcome' = [outcome EXCEPT ![copies[c].origin] = "completed"]
       /\ UNCHANGED job

\* The decorator before the job's own handler, when it skips the job.
EnterSkip(c) ==
    /\ At(c, "enter")
    /\ SkipMiddleware(NormalizedMeta(c), job[c])
    /\ meta' = [meta EXCEPT ![c] = NormalizedMeta(c)]
    /\ state' = [state EXCEPT ![c] = OverriddenState(c)]
    /\ Advance(c)
    /\ UNCHANGED <<copies, place, delays, records, routeVars, crashes, done>>

ClearMiddleware_Keep(m) == [m EXCEPT !.defined = TRUE]

\* setState({ reprocessing: { ...state.reprocessing, middleware: null } })
ClearMiddleware(m) == [m EXCEPT !.defined = TRUE, !.middleware = 0]

\* The decorator before the job's own handler, when it calls it.
EnterRun(c) ==
    /\ At(c, "enter")
    /\ ~SkipMiddleware(NormalizedMeta(c), job[c])
    /\ meta' = [meta EXCEPT ![c] = ClearMiddleware(NormalizedMeta(c))]
    /\ state' = [state EXCEPT ![c] = OverriddenState(c)]
    /\ step' = [step EXCEPT ![c] = "handler"]
    /\ UNCHANGED <<copies, place, job, delays, records, routeVars, crashes,
                   outcome, done>>

\* What a handler writes under its key: the number of this attempt.
Written(c) == [state[c] EXCEPT ![job[c]] = copies[c].depth + 1]

\* The handler writes its key and calls next().
HandlerSucceeds(c) ==
    /\ At(c, "handler")
    /\ state' = [state EXCEPT ![c] = Written(c)]
    /\ done' = [done EXCEPT ![c] = @ \cup {job[c]}]
    /\ Advance(c)
    /\ UNCHANGED <<copies, place, meta, delays, records, routeVars, crashes>>

-----------------------------------------------------------------------------
(* MqSendReprocessing.reprocess(), from the decorator's catch.             *)

Padded_Skip(d, n) == d

\* The shared array is extended to n delays, each twice the one before.
Padded(d, n) ==
    LET grown[i \in 1..n] == IF i <= Len(d) THEN d[i] ELSE 2 * grown[i - 1]
    IN  IF Len(d) < n THEN [i \in 1..n |-> grown[i]] ELSE d

First(m) == m.tries = NoTries

GivesUp_Early(t) == t.current >= t.max

\* The test after current was counted up.
GivesUp(t) == t.current > t.max

\* tries, counted up unless this is the message's first failure.
Counted(c) ==
    IF First(meta[c])
    THEN [current |-> 1, max |-> MaxTries[job[c]],
          delays |-> Padded(delays, MaxTries[job[c]])]
    ELSE [meta[c].tries EXCEPT !.current = @ + 1]

\* 'x-delay' of the publication; 0 when there is none or it is undefined.
Delay(c, t) ==
    LET d == IF First(meta[c]) THEN Padded(delays, MaxTries[job[c]]) ELSE t.delays
    IN  IF copies[c].exchange /\ t.current <= Len(d) THEN d[t.current] ELSE 0

Envelope(c) ==
    [copies[c] EXCEPT !.depth = @ + 1, !.middleware = job[c],
                      !.tries = Counted(c), !.done = done[c],
                      !.state = IF job[c] \in EarlyWriters THEN Written(c)
                                                            ELSE state[c],
                      !.delay = Delay(c, Counted(c))]

\* The handler throws and reprocess() publishes an envelope in the message's
\* exchange or queue.
HandlerFailsPublish(c) ==
    /\ At(c, "handler")
    /\ First(meta[c]) \/ ~GivesUp(Counted(c))
    /\ Len(copies) < MaxCopies
    /\ copies' = Append(copies, Envelope(c))
    /\ delays' = Padded(delays, MaxTries[job[c]])
    /\ step' = [step EXCEPT ![c] = "failed"]
    /\ UNCHANGED <<place, job, state, meta, records, routeVars, crashes, outcome,
                   done>>

\* The tries are used up: the envelope is saved in the repository.
HandlerFailsSave(c) ==
    /\ At(c, "handler")
    /\ ~First(meta[c]) /\ GivesUp(Counted(c))
    /\ records' = Append(records, [envelope |-> Envelope(c), deleted |-> FALSE])
    /\ delays' = Padded(delays, MaxTries[job[c]])
    /\ step' = [step EXCEPT ![c] = "failed"]
    /\ UNCHANGED <<copies, place, job, state, meta, routeVars, crashes, outcome,
                   done>>

\* The publication or the save fails: the decorator rejects, the consumer's
\* callback logs it and goes on to acknowledge the message.
SendFails(c) ==
    /\ At(c, "handler")
    /\ delays' = Padded(delays, MaxTries[job[c]])
    /\ step' = [step EXCEPT ![c] = "failed"]
    /\ outcome' = [outcome EXCEPT ![copies[c].origin] = "unsent"]
    /\ UNCHANGED <<copies, place, job, state, meta, records, routeVars, crashes,
                   done>>

\* The finally of the consumer's callback.
Ack(c) ==
    /\ At(c, "failed") \/ At(c, "resolved")
    /\ place' = [place EXCEPT ![c] = "acked"]
    /\ Forget({c})
    /\ UNCHANGED <<copies, delays, records, routeVars, crashes, outcome>>

\* The process restarts: the broker redelivers what was not acknowledged.
Crash ==
    /\ crashes < MaxCrashes
    /\ crashes' = crashes + 1
    /\ place' = [c \in Ids |-> IF place[c] = "running" THEN "queued" ELSE place[c]]
    /\ Forget({c \in Ids : place[c] = "running"})
    /\ delays' = Delays
    /\ request' = [r \in Requests |-> IF request[r] = "idle" THEN "idle" ELSE "done"]
    /\ asked' = [r \in Requests |-> {}]
    /\ UNCHANGED <<copies, records, outcome>>

-----------------------------------------------------------------------------
(* POST /reprocessings: get by identifier, publish, delete.                *)

RouteGet_Claim(r, ids) ==
    /\ request[r] = "idle"
    /\ ids # {}
    /\ request' = [request EXCEPT ![r] = "got"]
    /\ asked' = [asked EXCEPT ![r] = ids]
    /\ records' = [i \in DOMAIN records |-> [records[i] EXCEPT
                                              !.deleted = @ \/ i \in ids]]
    /\ UNCHANGED <<copies, runVars, delays, crashes, outcome>>

\* getByIdentifier(): the query does not look at deleted_at.
RouteGet(r, ids) ==
    /\ request[r] = "idle"
    /\ ids # {}
    /\ request' = [request EXCEPT ![r] = "got"]
    /\ asked' = [asked EXCEPT ![r] = ids]
    /\ UNCHANGED <<copies, runVars, delays, records, crashes, outcome>>

\* What the route publishes of a record: in the queue, so without an exchange;
\* the tries are the ones of the record.
Replayed(i) == [records[i].envelope EXCEPT !.exchange = FALSE, !.delay = 0,
                                           !.replays = @ + 1]

Orders(set) == {f \in [1..Cardinality(set) -> set] : {f[k] : k \in DOMAIN f} = set}

\* Promise.all() of the publications: some or all of them reach the broker.
RoutePublish(r, sent) ==
    /\ request[r] = "got"
    /\ sent \subseteq asked[r]
    /\ Len(copies) + Cardinality(sent) <= MaxCopies
    /\ \E order \in Orders(sent) :
          copies' = copies \o [k \in DOMAIN order |-> Replayed(order[k])]
    /\ request' = [request EXCEPT ![r] = IF sent = asked[r] THEN "published"
                                                            ELSE "done"]
    /\ UNCHANGED <<runVars, delays, records, asked, crashes, outcome>>

\* updateMany() of deleted_at; if it fails the records stay.
RouteDelete(r) ==
    /\ request[r] = "published"
    /\ request' = [request EXCEPT ![r] = "done"]
    /\ \/ records' = [i \in DOMAIN records |-> [records[i] EXCEPT
                                                !.deleted = @ \/ i \in asked[r]]]
       \/ UNCHANGED records
    /\ UNCHANGED <<copies, runVars, delays, asked, crashes, outcome>>

Chain(c) == \/ Deliver(c)
            \/ EnterSkip(c)
            \/ EnterRun(c)
            \/ HandlerSucceeds(c)
            \/ HandlerFailsPublish(c)
            \/ HandlerFailsSave(c)
            \/ SendFails(c)
            \/ Ack(c)

Next == \/ \E c \in Ids : Chain(c)
        \/ \E r \in Requests : \/ \E ids \in SUBSET DOMAIN records : RouteGet(r, ids)
                              \/ \E sent \in SUBSET asked[r] : RoutePublish(r, sent)
                              \/ RouteDelete(r)
        \/ Crash

Spec == Init /\ [][Next]_vars

-----------------------------------------------------------------------------
(* Properties.                                                             *)

\* A message is retried exactly as often as the decorator of the job that
\* failed first says: no copy is sent beyond that, and none is stored before,
\* a replayed one being stored again at its first failure.
RetriesAreExact ==
    /\ \A c \in DOMAIN copies : IsEnvelope(c) =>
          copies[c].depth <= copies[c].tries.max + copies[c].replays
    /\ \A i \in DOMAIN records : LET e == records[i].envelope
                                 IN  e.depth = e.tries.max + 1 + e.replays

\* Every retry through an exchange waits: the 'x-delay' it carries exists,
\* although the array of delays is shared and extended by whichever decorator
\* fails first, and the tries travel with the message.
RetryIsDelayed ==
    TypeOK /\ \A c \in DOMAIN copies :
        IsEnvelope(c) /\ copies[c].exchange => copies[c].delay > 0

\* In the mode STOPPED_MIDDLEWARE a job that succeeded for a message is not run
\* again when a later job of the chain fails and the message is reprocessed.
NoRepeatedStep == \A c \in Ids : At(c, "handler") => job[c] \notin done[c]

\* A chain that resolves without a failure has, with the attempts before it,
\* run every job: reprocessing skips none that still has to be done.
ResolvedIsComplete ==
    \A c \in Ids : Exists(c) /\ step[c] = "resolved" => done[c] = Jobs

\* A job finds what the jobs that succeeded before it wrote, in its own delivery
\* or in an earlier one: the state travels in the envelope and is put back.
StateIsCarried == \A c \in Ids : At(c, "handler") => \A j \in done[c] : state[c][j] # 0

\* Whatever crashes and however the route fails halfway, a message is still in
\* the broker, kept in the repository, or was completed; the only way to lose
\* it is a publication or save that fails in the decorator's catch.
NothingLost ==
    \A o \in 1..Originals :
        \/ outcome[o] # "none"
        \/ \E c \in DOMAIN copies : copies[c].origin = o /\ place[c] # "acked"
        \/ \E i \in DOMAIN records : /\ records[i].envelope.origin = o
                                     /\ ~records[i].deleted

\* The attempts of a message add up to one run of the chain: no step twice,
\* none left out, each on what the ones before it wrote.
ResumesExactly == NoRepeatedStep /\ ResolvedIsComplete /\ StateIsCarried
=============================================================================
