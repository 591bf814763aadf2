-------------------------- MODULE ReprocessingProofs --------------------------
(***************************************************************************)
(* Proofs about Reprocessing: the tries are counted exactly, a chain that  *)
(* is resumed runs every job once on the state of the ones before, and no  *)
(* message is lost, for every chain, every number of messages, tries,      *)
(* requests and crashes; and every retry through an exchange waits.        *)
(*                                                                         *)
(* Padded() is a recursive function: what it returns is proved by          *)
(* induction on how many delays are missing (SetInduction, PaddedDelays).  *)
(***************************************************************************)
EXTENDS Reprocessing, FiniteSetTheorems, WellFoundedInduction, TLAPS

-----------------------------------------------------------------------------
(* The inductive invariant.                                                *)

IsSequence(s) == \E S : s \in Seq(S)

\* The types, without the ones of envelopes.
Typed == /\ IsSequence(copies) /\ IsSequence(records)
         /\ place \in [Ids -> {"queued", "running", "acked"}]
         /\ job \in [Ids -> Jobs]
         /\ step \in [Ids -> {"enter", "handler", "failed", "resolved"}]
         /\ state \in [Ids -> [Jobs -> Nat]]
         /\ meta = [c \in Ids |-> meta[c]]
         /\ done \in [Ids -> SUBSET Jobs]
         /\ outcome \in [1..Originals -> {"none", "completed", "unsent"}]
         /\ request \in [Requests -> {"idle", "got", "published", "done"}]
         /\ asked \in [Requests -> SUBSET (1..Len(records))]

IsTries(t) == t = [current |-> t.current, max |-> t.max, delays |-> t.delays]

\* A message says where its chain stopped and what was done before.
IsMessage(e) ==
    /\ e = [origin |-> e.origin, depth |-> e.depth, replays |-> e.replays,
            exchange |-> e.exchange, delay |-> e.delay, middleware |-> e.middleware,
            tries |-> e.tries, state |-> e.state, done |-> e.done]
    /\ e.origin \in 1..Originals
    /\ e.depth \in Nat /\ e.replays \in Nat
    /\ e.state \in [Jobs -> Nat]
    /\ e.middleware = 0 =>
          e.tries = NoTries /\ e.depth = 0 /\ e.replays = 0 /\ e.done = {}
    /\ e.middleware # 0 =>
          /\ e.middleware \in Jobs
          /\ e.done = 1..(e.middleware - 1)
          /\ \A j \in e.done : e.state[j] # 0
          /\ IsTries(e.tries)
          /\ e.tries.current \in Nat /\ e.tries.max \in Nat \ {0}

\* The tries of a message that was sent: used up only after a replay.
IsSent(e) ==
    e.middleware # 0 =>
        \/ e.tries.current <= e.tries.max /\ e.depth = e.tries.current + e.replays
        \/ e.tries.current > e.tries.max /\ e.depth = e.tries.max + e.replays

\* The tries of a message that was given up.
IsStored(e) == /\ e.middleware # 0
               /\ e.tries.current > e.tries.max
               /\ e.depth = e.tries.max + 1 + e.replays

Sent == \A c \in 1..Len(copies) : IsMessage(copies[c]) /\ IsSent(copies[c])
Stored == \A i \in 1..Len(records) :
             /\ records[i] = [envelope |-> records[i].envelope, deleted |-> records[i].deleted]
             /\ records[i].deleted \in BOOLEAN
             /\ IsMessage(records[i].envelope) /\ IsStored(records[i].envelope)

\* Before the decorator of a job: how far the chain still has to skip, and
\* where the state of the jobs that are done is.
Entering(c) ==
    LET m == NormalizedMeta(c).middleware
    IN  /\ m = 0 => done[c] = 1..(job[c] - 1)
        /\ m # 0 => m = copies[c].middleware /\ job[c] <= m /\ done[c] = 1..(m - 1)
        /\ \A j \in done[c] : state[c][j] # 0 \/ copies[c].state[j] # 0

\* In a job: all the jobs before it are done and their state is there.
Handling(c) == /\ meta[c] = [defined |-> TRUE, middleware |-> 0, tries |-> copies[c].tries]
               /\ done[c] = 1..(job[c] - 1)
               /\ \A j \in done[c] : state[c][j] # 0

MetaOf(c) == \/ meta[c] = NoMeta
             \/ \E m \in Jobs \cup {0} :
                   meta[c] = [defined |-> TRUE, middleware |-> m, tries |-> copies[c].tries]

\* The chain of a copy.
ChainOf(c) ==
    /\ place[c] # "running" => /\ step[c] = "enter" /\ job[c] = 1 /\ state[c] = Blank
                               /\ meta[c] = NoMeta
    /\ place[c] # "queued" => c <= Len(copies)
    /\ place[c] = "running" => /\ MetaOf(c)
                               /\ step[c] = "enter" => Entering(c)
                               /\ step[c] = "handler" => Handling(c)
                               /\ step[c] = "resolved" => done[c] = Jobs
Chains == \A c \in Ids : ChainOf(c)

\* A message is kept by a copy that will be delivered or whose chain goes on, or
\* by a record that no request is about to delete.
Live(c) == place[c] # "acked" /\ step[c] \in {"enter", "handler"}
Doomed(i) == \E r \in Requests : request[r] = "published" /\ i \in asked[r]
Keeps(o) == \/ outcome[o] # "none"
            \/ \E c \in Ids : Exists(c) /\ copies[c].origin = o /\ Live(c)
            \/ \E i \in 1..Len(records) : /\ records[i].envelope.origin = o
                                          /\ ~records[i].deleted /\ ~Doomed(i)
Kept == \A o \in 1..Originals : Keeps(o)

Inv == Typed /\ Sent /\ Stored /\ Chains

-----------------------------------------------------------------------------
(* Facts about sequences of anything.                                      *)

LEMMA LengthOfSequence ==
    ASSUME NEW s, IsSequence(s)
    PROVE  Len(s) \in Nat /\ DOMAIN s = 1..Len(s)
BY DEF IsSequence

LEMMA AppendToSequence ==
    ASSUME NEW s, IsSequence(s), NEW e
    PROVE  /\ IsSequence(Append(s, e))
           /\ Len(Append(s, e)) = Len(s) + 1
           /\ Append(s, e)[Len(s) + 1] = e
           /\ \A i \in 1..Len(s) : Append(s, e)[i] = s[i]
<1>1. PICK S : s \in Seq(S)
  BY DEF IsSequence
<1>2. s \in Seq(S \cup {e}) /\ e \in S \cup {e}
  BY <1>1
<1>3. Append(s, e) \in Seq(S \cup {e})
  BY <1>2
<1> QED
  BY <1>2, <1>3 DEF IsSequence

LEMMA FunctionIsSequence ==
    ASSUME NEW n \in Nat, NEW T, NEW f \in [1..n -> T]
    PROVE  IsSequence(f) /\ Len(f) = n
<1>1. f \in Seq(T) /\ Len(f) = n
  OBVIOUS
<1> QED
  BY <1>1 DEF IsSequence

-----------------------------------------------------------------------------
(* What a step leaves alone.                                               *)

LEMMA MessagesStay ==
    ASSUME copies' = copies, records' = records
    PROVE  (Sent => Sent') /\ (Stored => Stored')
BY DEF Sent, Stored

Grows == /\ Len(copies') \in Nat /\ Len(copies) <= Len(copies')
         /\ \A d \in 1..Len(copies) : copies'[d] = copies[d]

\* A chain that a step does not touch keeps its facts when messages are sent.
LEMMA ChainStays ==
    ASSUME Typed, Grows, NEW c \in Ids, ChainOf(c),
           place'[c] = place[c], job'[c] = job[c], step'[c] = step[c],
           state'[c] = state[c], meta'[c] = meta[c], done'[c] = done[c]
    PROVE  ChainOf(c)'
<1>0. Len(copies) \in Nat /\ c \in Nat /\ c > 0
  BY LengthOfSequence, ReprocessingAssumption DEF Typed, Ids
<1>1. CASE place[c] # "queued"
  <2>1. c \in 1..Len(copies)
    BY <1>0, <1>1 DEF ChainOf
  <2>2. copies'[c] = copies[c] /\ c <= Len(copies')
    BY <1>0, <2>1 DEF Grows
  <2>3. (Entering(c) => Entering(c)') /\ (Handling(c) => Handling(c)') /\ (MetaOf(c) => MetaOf(c)')
    BY <2>2 DEF Entering, Handling, MetaOf, NormalizedMeta, IsEnvelope
  <2> QED
    BY <1>1, <2>2, <2>3 DEF ChainOf
<1>2. CASE place[c] = "queued"
  BY <1>2 DEF ChainOf
<1> QED
  BY <1>1, <1>2

LEMMA SameCopiesGrow == ASSUME Typed, copies' = copies PROVE Grows
BY LengthOfSequence DEF Typed, Grows

\* Jobs and the jobs before one.
LEMMA JobsBefore ==
    ASSUME NEW m \in Jobs
    PROVE  1..(m - 1) \in SUBSET Jobs /\ (m = JobCount => 1..m = Jobs)
           /\ (m < JobCount => m + 1 \in Jobs) /\ m \notin 1..(m - 1)
           /\ 1..(m - 1) \cup {m} = 1..m /\ (m + 1) - 1 = m /\ m \in Nat /\ m # 0
BY ReprocessingAssumption DEF Jobs

LEMMA JobNumbers ==
    Jobs \subseteq Nat /\ JobCount \in Nat /\ \A j \in Jobs : 1 <= j /\ j <= JobCount
BY ReprocessingAssumption DEF Jobs

LEMMA DoneOfMessage ==
    ASSUME NEW e, IsMessage(e)
    PROVE  e.done \in SUBSET Jobs /\ e.middleware \in Jobs \cup {0}
BY JobsBefore DEF IsMessage

-----------------------------------------------------------------------------
(* The steps of a chain.                                                   *)

\* The step changes the chain of c alone.
Only(c) == \A d \in Ids \ {c} :
              /\ place'[d] = place[d] /\ job'[d] = job[d] /\ step'[d] = step[d]
              /\ state'[d] = state[d] /\ meta'[d] = meta[d] /\ done'[d] = done[d]

LEMMA OneChain ==
    ASSUME Typed, Chains, Grows, NEW c \in Ids, Only(c), ChainOf(c)'
    PROVE  Chains'
<1> SUFFICES ASSUME NEW d \in Ids PROVE ChainOf(d)'
  BY DEF Chains
<1>1. CASE d = c
  BY <1>1
<1>2. CASE d # c
  BY <1>2, ChainStays DEF Only, Chains
<1> QED
  BY <1>1, <1>2

LEMMA Existing ==
    ASSUME Inv, NEW c \in Ids, Exists(c)
    PROVE  /\ c \in 1..Len(copies) /\ IsMessage(copies[c]) /\ IsSent(copies[c])
           /\ ChainOf(c) /\ job[c] \in Jobs /\ state[c] \in [Jobs -> Nat]
           /\ done[c] \in SUBSET Jobs
BY LengthOfSequence, ReprocessingAssumption DEF Inv, Typed, Sent, Chains, Exists, Ids

LEMMA DeliverStep == ASSUME Inv, NEW c \in Ids, Deliver(c) PROVE Inv'
<1>1. Typed /\ Sent /\ Stored /\ Chains /\ Exists(c) /\ place[c] = "queued"
  BY DEF Inv, Deliver
<1>2. IsMessage(copies[c]) /\ ChainOf(c) /\ c <= Len(copies) /\ job[c] \in Jobs
  BY <1>1, Existing DEF Exists
<1>3. copies[c].done \in SUBSET Jobs /\ copies[c].middleware \in Jobs \cup {0}
  BY <1>2, DoneOfMessage
<1>4. Typed'
  BY <1>1, <1>3 DEF Typed, Deliver, routeVars
<1>5. Sent' /\ Stored'
  BY <1>1, MessagesStay DEF Deliver
<1>6. Only(c) /\ Grows
  BY <1>1, SameCopiesGrow DEF Deliver, Typed, Only
<1>7. /\ place'[c] = "running" /\ step'[c] = "enter" /\ job'[c] = 1 /\ meta'[c] = NoMeta
      /\ done'[c] = copies[c].done /\ state'[c] = state[c] /\ copies'[c] = copies[c]
      /\ copies' = copies
  BY <1>1, <1>2 DEF Deliver, Typed, ChainOf
<1>8. Entering(c)'
  <2>1. NormalizedMeta(c)'.middleware = copies[c].middleware
    BY <1>7 DEF NormalizedMeta, IsEnvelope, NoMeta
  <2>2. CASE copies[c].middleware = 0
    BY <1>2, <1>7, <2>1, <2>2 DEF Entering, IsMessage
  <2>3. CASE copies[c].middleware # 0
    <3>1. copies[c].middleware \in Jobs /\ 1 <= copies[c].middleware
      BY <1>3, <2>3 DEF Jobs
    <3> QED
      BY <1>2, <1>7, <2>1, <2>3, <3>1 DEF Entering, IsMessage
  <2> QED
    BY <2>2, <2>3
<1>9. ChainOf(c)'
  BY <1>2, <1>7, <1>8 DEF ChainOf, MetaOf
<1> QED
  BY <1>1, <1>4, <1>5, <1>6, <1>9, OneChain DEF Inv

\* Before a job the decorator normalises the payload and puts the state back.
LEMMA BeforeJob ==
    ASSUME Inv, NEW c \in Ids, At(c, "enter")
    PROVE  /\ \E m \in Jobs \cup {0} : \E d \in BOOLEAN :
                 NormalizedMeta(c) = [defined |-> d, middleware |-> m, tries |-> copies[c].tries]
           /\ Entering(c)
           /\ OverriddenState(c) \in [Jobs -> Nat]
           /\ \A j \in done[c] : OverriddenState(c)[j] # 0
<1>1. /\ IsMessage(copies[c]) /\ ChainOf(c) /\ state[c] \in [Jobs -> Nat]
      /\ done[c] \in SUBSET Jobs /\ place[c] = "running" /\ step[c] = "enter"
  BY Existing DEF At
<1>2. MetaOf(c) /\ Entering(c)
  BY <1>1 DEF ChainOf
<1>3. copies[c].middleware \in Jobs \cup {0} /\ copies[c].state \in [Jobs -> Nat]
  BY <1>1, DoneOfMessage DEF IsMessage
<1>4. OverriddenState(c) \in [Jobs -> Nat]
  BY <1>1, <1>3 DEF OverriddenState
<1>5. \A j \in done[c] : OverriddenState(c)[j] # 0
  BY <1>1, <1>2, <1>3 DEF OverriddenState, Entering
<1>6. CASE meta[c] = NoMeta /\ IsEnvelope(c)
  <2>1. NormalizedMeta(c) = [defined |-> TRUE, middleware |-> copies[c].middleware,
                             tries |-> copies[c].tries]
    BY <1>6 DEF NormalizedMeta, NoMeta
  <2> QED
    BY <1>2, <1>3, <1>4, <1>5, <2>1
<1>7. CASE meta[c] = NoMeta /\ ~IsEnvelope(c)
  <2>1. NormalizedMeta(c) = NoMeta /\ copies[c].tries = NoTries
    BY <1>1, <1>7 DEF NormalizedMeta, IsEnvelope, IsMessage
  <2>2. NormalizedMeta(c) = [defined |-> FALSE, middleware |-> 0, tries |-> copies[c].tries]
    BY <2>1 DEF NoMeta
  <2> QED
    BY <1>2, <1>4, <1>5, <2>2
<1>8. CASE meta[c] # NoMeta
  <2>1. PICK m \in Jobs \cup {0} :
          meta[c] = [defined |-> TRUE, middleware |-> m, tries |-> copies[c].tries]
    BY <1>2, <1>8 DEF MetaOf
  <2>2. NormalizedMeta(c) = [defined |-> TRUE, middleware |-> m, tries |-> copies[c].tries]
    BY <2>1 DEF NormalizedMeta
  <2> QED
    BY <1>2, <1>4, <1>5, <2>2
<1> QED
  BY <1>6, <1>7, <1>8

LEMMA EnterSkipStep == ASSUME Inv, NEW c \in Ids, EnterSkip(c) PROVE Inv'
<1>1. Typed /\ Sent /\ Stored /\ Chains /\ At(c, "enter")
  BY DEF Inv, EnterSkip
<1>2. IsMessage(copies[c]) /\ ChainOf(c) /\ c <= Len(copies) /\ job[c] \in Jobs
      /\ place[c] = "running"
  BY <1>1, Existing DEF Exists, At
<1>3. PICK m \in Jobs \cup {0}, d \in BOOLEAN :
        NormalizedMeta(c) = [defined |-> d, middleware |-> m, tries |-> copies[c].tries]
  BY <1>1, BeforeJob
<1>4. Entering(c) /\ OverriddenState(c) \in [Jobs -> Nat]
      /\ \A j \in done[c] : OverriddenState(c)[j] # 0
  BY <1>1, BeforeJob
<1>5. m # 0 /\ m # job[c] /\ m = copies[c].middleware /\ job[c] <= m /\ done[c] = 1..(m - 1)
  BY <1>3, <1>4 DEF EnterSkip, SkipMiddleware, Entering
<1>6. job[c] < m /\ m \in Jobs /\ job[c] < JobCount /\ job[c] + 1 \in Jobs /\ job[c] + 1 <= m
  <2>1. m \in Jobs /\ job[c] \in Jobs /\ job[c] <= m /\ m # job[c]
    BY <1>2, <1>5
  <2>2. m \in Nat /\ job[c] \in Nat /\ m <= JobCount /\ JobCount \in Nat
    BY <2>1, JobNumbers
  <2>3. job[c] < m /\ job[c] < JobCount /\ job[c] + 1 <= m
    BY <2>1, <2>2
  <2> QED
    BY <2>1, <2>3, JobsBefore
<1>7. /\ job' = [job EXCEPT ![c] = @ + 1] /\ step' = [step EXCEPT ![c] = "enter"]
      /\ UNCHANGED outcome
  BY <1>2, <1>6, ReprocessingAssumption DEF EnterSkip, Advance, Jobs
<1>8. Typed'
  BY <1>1, <1>4, <1>6, <1>7 DEF Typed, EnterSkip, routeVars
<1>9. Sent' /\ Stored'
  BY <1>1, MessagesStay DEF EnterSkip
<1>10. Only(c) /\ Grows
  BY <1>1, <1>7, SameCopiesGrow DEF EnterSkip, Typed, Only
<1>11. d = TRUE
  <2>1. IsEnvelope(c)
    BY <1>5 DEF IsEnvelope
  <2>2. NormalizedMeta(c).defined = TRUE
    <3>1. CASE ~meta[c].defined
      BY <2>1, <3>1 DEF NormalizedMeta
    <3>2. CASE meta[c].defined
      <4>1. MetaOf(c)
        BY <1>1, <1>2 DEF ChainOf
      <4> QED
        BY <3>2, <4>1 DEF NormalizedMeta, MetaOf, NoMeta
    <3> QED
      BY <3>1, <3>2
  <2> QED
    BY <1>3, <2>2
<1>12. /\ meta'[c] = [defined |-> TRUE, middleware |-> m, tries |-> copies[c].tries]
       /\ state'[c] = OverriddenState(c) /\ job'[c] = job[c] + 1 /\ step'[c] = "enter"
       /\ done'[c] = done[c] /\ place'[c] = "running" /\ copies' = copies
  BY <1>1, <1>2, <1>3, <1>7, <1>11 DEF EnterSkip, Typed
<1>13. NormalizedMeta(c)' = meta'[c]
  BY <1>12 DEF NormalizedMeta
<1>14. NormalizedMeta(c)'.middleware = m
  BY <1>12, <1>13
<1>16. Entering(c)'
  BY <1>4, <1>5, <1>6, <1>12, <1>14 DEF Entering
<1>17. MetaOf(c)'
  BY <1>12 DEF MetaOf
<1>15. ChainOf(c)'
  BY <1>2, <1>12, <1>16, <1>17 DEF ChainOf
<1> QED
  BY <1>1, <1>8, <1>9, <1>10, <1>15, OneChain DEF Inv

LEMMA ClearedMeta ==
    ASSUME NEW d, NEW m, NEW t
    PROVE  ClearMiddleware([defined |-> d, middleware |-> m, tries |-> t])
              = [defined |-> TRUE, middleware |-> 0, tries |-> t]
<1>1. ClearMiddleware([defined |-> d, middleware |-> m, tries |-> t])
         \in [defined : {TRUE}, middleware : {0}, tries : {t}]
  BY DEF ClearMiddleware
<1> QED
  BY <1>1

LEMMA EnterRunStep == ASSUME Inv, NEW c \in Ids, EnterRun(c) PROVE Inv'
<1>1. Typed /\ Sent /\ Stored /\ Chains /\ At(c, "enter")
  BY DEF Inv, EnterRun
<1>2. IsMessage(copies[c]) /\ ChainOf(c) /\ c <= Len(copies) /\ job[c] \in Jobs
      /\ place[c] = "running"
  BY <1>1, Existing DEF Exists, At
<1>3. PICK m \in Jobs \cup {0}, d \in BOOLEAN :
        NormalizedMeta(c) = [defined |-> d, middleware |-> m, tries |-> copies[c].tries]
  BY <1>1, BeforeJob
<1>4. Entering(c) /\ OverriddenState(c) \in [Jobs -> Nat]
      /\ \A j \in done[c] : OverriddenState(c)[j] # 0
  BY <1>1, BeforeJob
<1>5. m = 0 \/ m = job[c]
  BY <1>3 DEF EnterRun, SkipMiddleware
<1>6. done[c] = 1..(job[c] - 1)
  BY <1>3, <1>4, <1>5 DEF Entering
<1>7. Typed'
  BY <1>1, <1>4 DEF Typed, EnterRun, routeVars
<1>8. Sent' /\ Stored'
  BY <1>1, MessagesStay DEF EnterRun
<1>9. Only(c) /\ Grows
  BY <1>1, SameCopiesGrow DEF EnterRun, Typed, Only
<1>10. /\ meta'[c] = [defined |-> TRUE, middleware |-> 0, tries |-> copies[c].tries]
       /\ state'[c] = OverriddenState(c) /\ job'[c] = job[c] /\ step'[c] = "handler"
       /\ done'[c] = done[c] /\ place'[c] = "running" /\ copies' = copies
  <2>1. ClearMiddleware(NormalizedMeta(c)) =
          [defined |-> TRUE, middleware |-> 0, tries |-> copies[c].tries]
    BY <1>3, ClearedMeta
  <2>2. meta'[c] = ClearMiddleware(NormalizedMeta(c))
    BY <1>1 DEF EnterRun, Typed
  <2>3. /\ state'[c] = OverriddenState(c) /\ job'[c] = job[c] /\ step'[c] = "handler"
        /\ done'[c] = done[c] /\ place'[c] = "running" /\ copies' = copies
    BY <1>1, <1>2 DEF EnterRun, Typed
  <2> QED
    BY <2>1, <2>2, <2>3
<1>11. Handling(c)' /\ MetaOf(c)'
  BY <1>4, <1>6, <1>10 DEF Handling, MetaOf
<1>12. ChainOf(c)'
  BY <1>2, <1>10, <1>11 DEF ChainOf
<1> QED
  BY <1>1, <1>7, <1>8, <1>9, <1>12, OneChain DEF Inv

\* What a job writes under its key is there for the jobs behind it.
LEMMA WrittenState ==
    ASSUME NEW c \in Ids, IsMessage(copies[c]), job[c] \in Jobs,
           state[c] \in [Jobs -> Nat], Handling(c)
    PROVE  Written(c) \in [Jobs -> Nat] /\ \A j \in 1..job[c] : Written(c)[j] # 0
<1>1. PICK n : n = copies[c].depth + 1
  OBVIOUS
<1>2. n \in Nat /\ n # 0
  <2>1. copies[c].depth \in Nat
    BY DEF IsMessage
  <2> QED
    BY <1>1, <2>1
<1>3. Written(c) = [state[c] EXCEPT ![job[c]] = n]
  BY <1>1 DEF Written
<1>4. ASSUME NEW j \in 1..job[c] PROVE Written(c)[j] # 0
  <2>1. j \in Jobs /\ (j = job[c] \/ j \in 1..(job[c] - 1))
    BY JobNumbers DEF Jobs
  <2>2. CASE j = job[c]
    BY <1>2, <1>3, <2>2
  <2>3. CASE j # job[c]
    <3>1. Written(c)[j] = state[c][j]
      BY <1>3, <2>1, <2>3
    <3> QED
      BY <2>1, <2>3, <3>1 DEF Handling
  <2> QED
    BY <2>2, <2>3
<1> QED
  BY <1>2, <1>3, <1>4

LEMMA HandlerSucceedsStep == ASSUME Inv, NEW c \in Ids, HandlerSucceeds(c) PROVE Inv'
<1>1. Typed /\ Sent /\ Stored /\ Chains /\ At(c, "handler")
  BY DEF Inv, HandlerSucceeds
<1>2. /\ IsMessage(copies[c]) /\ ChainOf(c) /\ c <= Len(copies) /\ job[c] \in Jobs
      /\ place[c] = "running" /\ step[c] = "handler" /\ state[c] \in [Jobs -> Nat]
  BY <1>1, Existing DEF Exists, At
<1>3. Handling(c)
  BY <1>2 DEF ChainOf
<1>4. Written(c) \in [Jobs -> Nat] /\ \A j \in 1..job[c] : Written(c)[j] # 0
  BY <1>2, <1>3, WrittenState
<1>5. done[c] \cup {job[c]} = 1..job[c] /\ 1..job[c] \in SUBSET Jobs
  <2>1. 1..(job[c] - 1) \in SUBSET Jobs /\ 1..(job[c] - 1) \cup {job[c]} = 1..job[c]
    BY <1>2, JobsBefore
  <2>2. done[c] = 1..(job[c] - 1)
    BY <1>3 DEF Handling
  <2> QED
    BY <1>2, <2>1, <2>2, Zenon
<1>6. /\ job' \in [Ids -> Jobs] /\ step' \in [Ids -> {"enter", "handler", "failed", "resolved"}]
      /\ outcome' \in [1..Originals -> {"none", "completed", "unsent"}]
      /\ \A d \in Ids \ {c} : job'[d] = job[d] /\ step'[d] = step[d]
      /\ \/ job'[c] = job[c] + 1 /\ step'[c] = "enter"
         \/ job[c] = JobCount /\ step'[c] = "resolved" /\ job'[c] = job[c]
  <2>0. /\ job \in [Ids -> Jobs] /\ step \in [Ids -> {"enter", "handler", "failed", "resolved"}]
        /\ outcome \in [1..Originals -> {"none", "completed", "unsent"}]
        /\ Advance(c)
    BY <1>1 DEF Typed, HandlerSucceeds
  <2>1. CASE job[c] < JobCount /\ job' = [job EXCEPT ![c] = @ + 1]
             /\ step' = [step EXCEPT ![c] = "enter"] /\ UNCHANGED outcome
    <3>1. job[c] + 1 \in Jobs
      BY <1>2, <2>1, JobsBefore
    <3> QED
      BY <2>0, <2>1, <3>1
  <2>2. CASE job[c] = JobCount /\ step' = [step EXCEPT ![c] = "resolved"]
             /\ outcome' = [outcome EXCEPT ![copies[c].origin] = "completed"] /\ UNCHANGED job
    BY <2>0, <2>2
  <2> QED
    BY <2>0, <2>1, <2>2 DEF Advance
<1>7. Typed'
  BY <1>1, <1>4, <1>5, <1>6 DEF Typed, HandlerSucceeds, routeVars
<1>8. Sent' /\ Stored'
  BY <1>1, MessagesStay DEF HandlerSucceeds
<1>9. Only(c) /\ Grows
  BY <1>1, <1>6, SameCopiesGrow DEF HandlerSucceeds, Typed, Only
<1>10. /\ state'[c] = Written(c) /\ done'[c] = 1..job[c] /\ meta' = meta
       /\ place'[c] = "running" /\ copies' = copies
  BY <1>1, <1>2, <1>5 DEF HandlerSucceeds, Typed
<1>11. NormalizedMeta(c)'.middleware = 0
  BY <1>3, <1>10 DEF NormalizedMeta, Handling
<1>12. CASE job'[c] = job[c] + 1 /\ step'[c] = "enter"
  <2>1. (job[c] + 1) - 1 = job[c]
    BY <1>2, JobsBefore
  <2>2. Entering(c)'
    BY <1>4, <1>10, <1>11, <1>12, <2>1 DEF Entering
  <2>3. MetaOf(c)'
    BY <1>3, <1>10 DEF MetaOf, Handling
  <2> QED
    BY <1>1, <1>2, <1>7, <1>8, <1>9, <1>10, <1>12, <2>2, <2>3, OneChain DEF Inv, ChainOf
<1>13. CASE job[c] = JobCount /\ step'[c] = "resolved"
  <2>1. done'[c] = Jobs
    BY <1>2, <1>10, <1>13, JobsBefore
  <2>3. MetaOf(c)'
    BY <1>3, <1>10 DEF MetaOf, Handling
  <2> QED
    BY <1>1, <1>2, <1>7, <1>8, <1>9, <1>10, <1>13, <2>1, <2>3, OneChain DEF Inv, ChainOf
<1> QED
  BY <1>6, <1>12, <1>13

\* The envelope of a job that failed, field by field.
LEMMA EnvelopeFields ==
    ASSUME NEW c, IsMessage(copies[c])
    PROVE  Envelope(c) =
              [origin |-> copies[c].origin, depth |-> copies[c].depth + 1,
               replays |-> copies[c].replays, exchange |-> copies[c].exchange,
               delay |-> Delay(c, Counted(c)), middleware |-> job[c], tries |-> Counted(c),
               state |-> IF job[c] \in EarlyWriters THEN Written(c) ELSE state[c],
               done |-> done[c]]
<1> DEFINE e == copies[c]
<1> DEFINE s == IF job[c] \in EarlyWriters THEN Written(c) ELSE state[c]
<1>1. e = [origin |-> e.origin, depth |-> e.depth, replays |-> e.replays,
           exchange |-> e.exchange, delay |-> e.delay, middleware |-> e.middleware,
           tries |-> e.tries, state |-> e.state, done |-> e.done]
  BY DEF IsMessage
<1>2. ASSUME NEW y, NEW d, NEW m, NEW t, NEW w, NEW h, NEW n,
             y = [origin |-> e.origin, depth |-> e.depth, replays |-> e.replays,
                  exchange |-> e.exchange, delay |-> e.delay, middleware |-> e.middleware,
                  tries |-> e.tries, state |-> e.state, done |-> e.done]
      PROVE  [y EXCEPT !.depth = n, !.middleware = m, !.tries = t, !.done = d,
                       !.state = w, !.delay = h]
                \in [origin : {e.origin}, depth : {n}, replays : {e.replays},
                     exchange : {e.exchange}, delay : {h}, middleware : {m}, tries : {t},
                     state : {w}, done : {d}]
  BY <1>2
<1>3. Envelope(c) \in [origin : {e.origin}, depth : {e.depth + 1}, replays : {e.replays},
                       exchange : {e.exchange}, delay : {Delay(c, Counted(c))},
                       middleware : {job[c]}, tries : {Counted(c)}, state : {s},
                       done : {done[c]}]
  BY <1>1, <1>2, Zenon DEF Envelope
<1> QED
  BY <1>3

\* The tries of an envelope, counted from those of the message.
LEMMA CountedTries ==
    ASSUME Inv, NEW c \in Ids, At(c, "handler")
    PROVE  LET t == Counted(c)
               m == copies[c]
           IN  /\ IsTries(t) /\ t.current \in Nat /\ t.max \in Nat \ {0}
               /\ First(meta[c]) =>
                      /\ t.current = 1 /\ m.depth = 0 /\ m.replays = 0
                      /\ t.max = MaxTries[job[c]] /\ t.delays = Padded(delays, MaxTries[job[c]])
               /\ ~First(meta[c]) =>
                      /\ m.middleware # 0 /\ m.tries.current \in Nat
                      /\ t.current = m.tries.current + 1 /\ t.max = m.tries.max
                      /\ t.delays = m.tries.delays
<1>1. IsMessage(copies[c]) /\ ChainOf(c) /\ job[c] \in Jobs /\ place[c] = "running"
      /\ step[c] = "handler"
  BY Existing DEF At
<1>2. meta[c].tries = copies[c].tries
  BY <1>1 DEF ChainOf, Handling
<1>3. CASE First(meta[c])
  <2>1. copies[c].tries = NoTries
    BY <1>2, <1>3 DEF First
  <2>2. copies[c].tries.max = 0
    BY <2>1 DEF NoTries
  <2>3. copies[c].middleware = 0
    BY <1>1, <2>2 DEF IsMessage
  <2>4. copies[c].depth = 0 /\ copies[c].replays = 0
    BY <1>1, <2>3 DEF IsMessage
  <2>5. PICK d : d = Padded(delays, MaxTries[job[c]])
    OBVIOUS
  <2>6. Counted(c) = [current |-> 1, max |-> MaxTries[job[c]], delays |-> d]
    BY <1>3, <2>5 DEF Counted
  <2>7. MaxTries[job[c]] \in Nat \ {0}
    BY <1>1, ReprocessingAssumption
  <2> QED
    BY <1>3, <2>4, <2>5, <2>6, <2>7 DEF IsTries
<1>4. CASE ~First(meta[c])
  <2>1. copies[c].tries # NoTries
    BY <1>2, <1>4 DEF First
  <2>2. copies[c].middleware # 0
    BY <1>1, <2>1 DEF IsMessage
  <2>3. /\ IsTries(copies[c].tries) /\ copies[c].tries.current \in Nat
        /\ copies[c].tries.max \in Nat \ {0}
    BY <1>1, <2>2 DEF IsMessage
  <2>4. Counted(c) = [copies[c].tries EXCEPT !.current = @ + 1]
    BY <1>2, <1>4 DEF Counted
  <2>5. ASSUME NEW t, NEW n, NEW m, NEW d, t = [current |-> n, max |-> m, delays |-> d]
        PROVE  [t EXCEPT !.current = @ + 1] \in [current : {n + 1}, max : {m}, delays : {d}]
    BY <2>5
  <2>6. Counted(c) \in [current : {copies[c].tries.current + 1}, max : {copies[c].tries.max},
                        delays : {copies[c].tries.delays}]
    BY <2>3, <2>4, <2>5, Zenon DEF IsTries
  <2>7. Counted(c) = [current |-> copies[c].tries.current + 1, max |-> copies[c].tries.max,
                      delays |-> copies[c].tries.delays]
    BY <2>6
  <2> QED
    BY <1>4, <2>2, <2>3, <2>7 DEF IsTries
<1> QED
  BY <1>3, <1>4

\* What the decorator sends or saves is a message whose tries are exact.
LEMMA FailedEnvelope ==
    ASSUME Inv, NEW c \in Ids, At(c, "handler")
    PROVE  /\ IsMessage(Envelope(c)) /\ Envelope(c).origin = copies[c].origin
           /\ First(meta[c]) \/ ~GivesUp(Counted(c)) => IsSent(Envelope(c))
           /\ ~First(meta[c]) /\ GivesUp(Counted(c)) => IsStored(Envelope(c))
<1>1. /\ IsMessage(copies[c]) /\ IsSent(copies[c]) /\ ChainOf(c) /\ job[c] \in Jobs
      /\ place[c] = "running" /\ step[c] = "handler" /\ state[c] \in [Jobs -> Nat]
  BY Existing DEF At
<1>2. Handling(c)
  BY <1>1 DEF ChainOf
<1>3. Written(c) \in [Jobs -> Nat] /\ \A j \in 1..job[c] : Written(c)[j] # 0
  BY <1>1, <1>2, WrittenState
<1>4. PICK s : s = IF job[c] \in EarlyWriters THEN Written(c) ELSE state[c]
  OBVIOUS
<1>5. 1..(job[c] - 1) \subseteq 1..job[c] /\ job[c] # 0
  BY <1>1, JobNumbers
<1>6. s \in [Jobs -> Nat] /\ \A j \in done[c] : s[j] # 0
  BY <1>1, <1>2, <1>3, <1>4, <1>5 DEF Handling
<1>7. PICK t : t = Counted(c)
  OBVIOUS
<1>8. PICK h : h = Delay(c, t)
  OBVIOUS
<1>9. Envelope(c) =
         [origin |-> copies[c].origin, depth |-> copies[c].depth + 1,
          replays |-> copies[c].replays, exchange |-> copies[c].exchange,
          delay |-> h, middleware |-> job[c], tries |-> t, state |-> s, done |-> done[c]]
  BY <1>1, <1>4, <1>7, <1>8, EnvelopeFields
<1>10. /\ IsTries(t) /\ t.current \in Nat /\ t.max \in Nat \ {0}
       /\ First(meta[c]) => t.current = 1 /\ copies[c].depth = 0 /\ copies[c].replays = 0
       /\ ~First(meta[c]) =>
              /\ copies[c].middleware # 0 /\ copies[c].tries.current \in Nat
              /\ t.current = copies[c].tries.current + 1 /\ t.max = copies[c].tries.max
  BY <1>7, CountedTries
<1>11. done[c] = 1..(job[c] - 1)
  BY <1>2 DEF Handling
<1>12. copies[c].origin \in 1..Originals /\ copies[c].depth \in Nat /\ copies[c].replays \in Nat
  BY <1>1 DEF IsMessage
<1>13. IsMessage(Envelope(c)) /\ Envelope(c).origin = copies[c].origin
  BY <1>1, <1>5, <1>6, <1>9, <1>10, <1>11, <1>12 DEF IsMessage
<1>14. /\ Envelope(c).depth = copies[c].depth + 1 /\ Envelope(c).replays = copies[c].replays
       /\ Envelope(c).middleware # 0 /\ Envelope(c).tries = t
  BY <1>5, <1>9
<1>15. CASE First(meta[c])
  <2>1. t.current = 1 /\ 1 <= t.max /\ copies[c].depth = 0 /\ copies[c].replays = 0
    BY <1>10, <1>15
  <2>2. IsSent(Envelope(c))
    BY <1>14, <2>1 DEF IsSent
  <2> QED
    BY <1>13, <1>15, <2>2
<1>16. CASE ~First(meta[c])
  <2>1. PICK n \in Nat, m \in Nat \ {0}, d \in Nat, p \in Nat :
           /\ n = copies[c].tries.current /\ m = copies[c].tries.max
           /\ d = copies[c].depth /\ p = copies[c].replays
    BY <1>10, <1>12, <1>16
  <2>2. (n <= m /\ d = n + p) \/ (n > m /\ d = m + p)
    BY <1>1, <1>10, <1>16, <2>1 DEF IsSent
  <2>3. GivesUp(t) <=> n + 1 > m
    BY <1>10, <1>16, <2>1 DEF GivesUp
  <2>4. t.current = n + 1 /\ t.max = m /\ Envelope(c).depth = d + 1 /\ Envelope(c).replays = p
    BY <1>10, <1>14, <1>16, <2>1
  <2>5. ~(n + 1 > m) => IsSent(Envelope(c))
    BY <1>14, <2>2, <2>4 DEF IsSent
  <2>6. n + 1 > m => IsStored(Envelope(c))
    BY <1>14, <2>2, <2>4 DEF IsStored
  <2> QED
    BY <1>7, <1>13, <1>16, <2>3, <2>5, <2>6
<1> QED
  BY <1>13, <1>15, <1>16

LEMMA MessageIsSent ==
    ASSUME NEW e, IsMessage(e), IsSent(e), IsSequence(copies), Sent, copies' = Append(copies, e)
    PROVE  IsSequence(copies') /\ Sent' /\ Grows
<1>1. /\ IsSequence(copies') /\ Len(copies) \in Nat /\ Len(copies') = Len(copies) + 1
      /\ copies'[Len(copies) + 1] = e /\ \A i \in 1..Len(copies) : copies'[i] = copies[i]
  BY AppendToSequence, LengthOfSequence
<1>2. ASSUME NEW i \in 1..Len(copies') PROVE IsMessage(copies'[i]) /\ IsSent(copies'[i])
  <2>1. i \in 1..Len(copies) \/ i = Len(copies) + 1
    BY <1>1
  <2>2. CASE i \in 1..Len(copies)
    BY <1>1, <2>2 DEF Sent
  <2>3. CASE i = Len(copies) + 1
    BY <1>1, <2>3
  <2> QED
    BY <2>1, <2>2, <2>3
<1>3. Grows
  BY <1>1 DEF Grows
<1> QED
  BY <1>1, <1>2, <1>3 DEF Sent

\* In the catch the chain of c is over, whatever became of the envelope.
LEMMA ChainFails ==
    ASSUME Inv, NEW c \in Ids, At(c, "handler"), Grows, step' = [step EXCEPT ![c] = "failed"],
           UNCHANGED <<place, job, state, meta, done>>
    PROVE  Chains' /\ step' \in [Ids -> {"enter", "handler", "failed", "resolved"}]
<1>1. Typed /\ Chains
  BY DEF Inv
<1>2. /\ c \in 1..Len(copies) /\ ChainOf(c) /\ place[c] = "running" /\ step[c] = "handler"
  BY Existing DEF At
<1>3. step \in [Ids -> {"enter", "handler", "failed", "resolved"}]
  BY <1>1 DEF Typed
<1>4. Only(c) /\ step'[c] = "failed"
  BY <1>3 DEF Only
<1>5. copies'[c] = copies[c] /\ c <= Len(copies')
  <2>1. copies'[c] = copies[c] /\ Len(copies) <= Len(copies') /\ Len(copies') \in Nat
    BY <1>2 DEF Grows
  <2>2. Len(copies) \in Nat
    BY <1>1, LengthOfSequence DEF Typed
  <2> QED
    BY <1>2, <2>1, <2>2
<1>6. MetaOf(c)'
  BY <1>2, <1>5 DEF ChainOf, MetaOf
<1>7. ChainOf(c)'
  BY <1>2, <1>4, <1>5, <1>6 DEF ChainOf
<1> QED
  BY <1>1, <1>3, <1>4, <1>7, OneChain

LEMMA HandlerFailsPublishStep == ASSUME Inv, NEW c \in Ids, HandlerFailsPublish(c) PROVE Inv'
<1>1. Typed /\ Sent /\ Stored /\ At(c, "handler")
  BY DEF Inv, HandlerFailsPublish
<1>2. IsMessage(Envelope(c)) /\ IsSent(Envelope(c))
  BY <1>1, FailedEnvelope DEF HandlerFailsPublish
<1>3. copies' = Append(copies, Envelope(c)) /\ IsSequence(copies)
  BY <1>1 DEF HandlerFailsPublish, Typed
<1>4. IsSequence(copies') /\ Sent' /\ Grows
  BY <1>1, <1>2, <1>3, MessageIsSent
<1>5. Chains' /\ step' \in [Ids -> {"enter", "handler", "failed", "resolved"}]
  BY <1>1, <1>4, ChainFails DEF HandlerFailsPublish
<1>6. Stored'
  BY <1>1 DEF Stored, HandlerFailsPublish
<1>7. Typed'
  BY <1>1, <1>4, <1>5 DEF Typed, HandlerFailsPublish, routeVars
<1> QED
  BY <1>4, <1>5, <1>6, <1>7 DEF Inv

LEMMA HandlerFailsSaveStep == ASSUME Inv, NEW c \in Ids, HandlerFailsSave(c) PROVE Inv'
<1>1. Typed /\ Sent /\ Stored /\ At(c, "handler")
  BY DEF Inv, HandlerFailsSave
<1>2. IsMessage(Envelope(c)) /\ IsStored(Envelope(c))
  BY <1>1, FailedEnvelope DEF HandlerFailsSave
<1>3. PICK x : x = [envelope |-> Envelope(c), deleted |-> FALSE]
  OBVIOUS
<1>4. records' = Append(records, x) /\ IsSequence(records)
  BY <1>1, <1>3 DEF HandlerFailsSave, Typed
<1>5. /\ IsSequence(records') /\ Len(records) \in Nat /\ Len(records') = Len(records) + 1
      /\ records'[Len(records) + 1] = x /\ \A i \in 1..Len(records) : records'[i] = records[i]
  BY <1>4, AppendToSequence, LengthOfSequence
<1>6. Stored'
  <2>1. x = [envelope |-> x.envelope, deleted |-> x.deleted] /\ x.deleted \in BOOLEAN
        /\ IsMessage(x.envelope) /\ IsStored(x.envelope)
    BY <1>2, <1>3
  <2>2. ASSUME NEW i \in 1..Len(records')
        PROVE  /\ records'[i] = [envelope |-> records'[i].envelope, deleted |-> records'[i].deleted]
               /\ records'[i].deleted \in BOOLEAN
               /\ IsMessage(records'[i].envelope) /\ IsStored(records'[i].envelope)
    <3>1. i \in 1..Len(records) \/ i = Len(records) + 1
      BY <1>5
    <3>2. CASE i \in 1..Len(records)
      BY <1>1, <1>5, <3>2, Zenon DEF Stored
    <3>3. CASE i = Len(records) + 1
      BY <1>5, <2>1, <3>3
    <3> QED
      BY <3>1, <3>2, <3>3
  <2> QED
    BY <2>2, Zenon DEF Stored
<1>7. Sent' /\ Grows
  BY <1>1, SameCopiesGrow DEF Sent, HandlerFailsSave
<1>8. Chains' /\ step' \in [Ids -> {"enter", "handler", "failed", "resolved"}]
  BY <1>1, <1>7, ChainFails DEF HandlerFailsSave
<1>9. asked' \in [Requests -> SUBSET (1..Len(records'))]
  <2>1. asked' = asked /\ asked \in [Requests -> SUBSET (1..Len(records))]
    BY <1>1 DEF Typed, HandlerFailsSave, routeVars
  <2>2. 1..Len(records) \subseteq 1..Len(records')
    BY <1>5
  <2> QED
    BY <2>1, <2>2
<1>10. Typed'
  BY <1>1, <1>5, <1>8, <1>9 DEF Typed, HandlerFailsSave, routeVars
<1> QED
  BY <1>6, <1>7, <1>8, <1>10 DEF Inv

LEMMA SendFailsStep == ASSUME Inv, NEW c \in Ids, SendFails(c) PROVE Inv'
<1>1. Typed /\ Sent /\ Stored /\ At(c, "handler")
  BY DEF Inv, SendFails
<1>2. Sent' /\ Stored' /\ Grows
  BY <1>1, MessagesStay, SameCopiesGrow DEF SendFails
<1>3. Chains' /\ step' \in [Ids -> {"enter", "handler", "failed", "resolved"}]
  BY <1>1, <1>2, ChainFails DEF SendFails
<1>4. outcome' \in [1..Originals -> {"none", "completed", "unsent"}]
  BY <1>1 DEF Typed, SendFails
<1>5. Typed'
  BY <1>1, <1>3, <1>4 DEF Typed, SendFails, routeVars
<1> QED
  BY <1>2, <1>3, <1>5 DEF Inv

-----------------------------------------------------------------------------
(* The ends of chains.                                                     *)

LEMMA ForgetStep ==
    ASSUME Inv, NEW C \in SUBSET Ids, Forget(C), copies' = copies,
           place' \in [Ids -> {"queued", "running", "acked"}],
           \A c \in C : place'[c] # "running" /\ c <= Len(copies),
           \A c \in Ids \ C : place'[c] = place[c],
           UNCHANGED <<records, outcome>>,
           request' \in [Requests -> {"idle", "got", "published", "done"}],
           asked' \in [Requests -> SUBSET (1..Len(records))]
    PROVE  Inv'
<1>1. Typed /\ Sent /\ Stored /\ Chains
  BY DEF Inv
<1>2. Sent' /\ Stored' /\ Grows
  BY <1>1, MessagesStay, SameCopiesGrow
<1>3. Blank \in [Jobs -> Nat] /\ 1 \in Jobs
  BY ReprocessingAssumption DEF Blank, Jobs
<1>4. job' \in [Ids -> Jobs] /\ step' \in [Ids -> {"enter", "handler", "failed", "resolved"}]
  BY <1>1, <1>3 DEF Typed, Forget
<1>5. state' \in [Ids -> [Jobs -> Nat]] /\ done' \in [Ids -> SUBSET Jobs]
  BY <1>1, <1>3 DEF Typed, Forget
<1>6. meta' = [c \in Ids |-> meta'[c]]
  BY DEF Forget
<1>7. Typed'
  BY <1>1, <1>4, <1>5, <1>6 DEF Typed
<1>8. ASSUME NEW c \in Ids PROVE ChainOf(c)'
  <2>1. CASE c \in C
    <3>1. /\ place'[c] # "running" /\ step'[c] = "enter" /\ job'[c] = 1 /\ state'[c] = Blank
          /\ meta'[c] = NoMeta /\ c <= Len(copies')
      BY <2>1 DEF Forget
    <3> QED
      BY <3>1 DEF ChainOf, Blank, Jobs
  <2>2. CASE c \notin C
    <3>1. /\ place'[c] = place[c] /\ step'[c] = step[c] /\ job'[c] = job[c]
          /\ state'[c] = state[c] /\ meta'[c] = meta[c] /\ done'[c] = done[c]
      BY <2>2 DEF Forget
    <3> QED
      BY <1>1, <1>2, <3>1, ChainStays DEF Chains
  <2> QED
    BY <2>1, <2>2
<1> QED
  BY <1>2, <1>7, <1>8 DEF Inv, Chains

LEMMA AckStep == ASSUME Inv, NEW c \in Ids, Ack(c) PROVE Inv'
<1>1. Typed /\ c <= Len(copies) /\ {c} \in SUBSET Ids
  BY DEF Inv, Ack, At, Exists
<1>2. place' \in [Ids -> {"queued", "running", "acked"}] /\ place'[c] = "acked"
      /\ \A d \in Ids \ {c} : place'[d] = place[d]
  BY <1>1 DEF Typed, Ack
<1>3. /\ request' \in [Requests -> {"idle", "got", "published", "done"}]
      /\ asked' \in [Requests -> SUBSET (1..Len(records))]
      /\ Forget({c}) /\ copies' = copies /\ UNCHANGED <<records, outcome>>
  BY <1>1 DEF Typed, Ack, routeVars
<1>4. ASSUME NEW C \in SUBSET Ids, C = {c} PROVE Inv'
  BY <1>1, <1>2, <1>3, <1>4, ForgetStep
<1> QED
  BY <1>1, <1>4

LEMMA CrashStep == ASSUME Inv, Crash PROVE Inv'
<1>1. Typed /\ Chains
  BY DEF Inv
<1>2. place' \in [Ids -> {"queued", "running", "acked"}]
  BY <1>1 DEF Typed, Crash
<1>3. /\ request' \in [Requests -> {"idle", "got", "published", "done"}]
      /\ asked' \in [Requests -> SUBSET (1..Len(records))]
      /\ copies' = copies /\ UNCHANGED <<records, outcome>>
  BY <1>1 DEF Typed, Crash
<1>4. ASSUME NEW C \in SUBSET Ids, C = {c \in Ids : place[c] = "running"} PROVE Inv'
  <2>1. \A c \in C : place'[c] # "running" /\ c <= Len(copies)
    BY <1>1, <1>4 DEF Chains, ChainOf, Crash
  <2>2. \A c \in Ids \ C : place'[c] = place[c]
    BY <1>4 DEF Crash
  <2>3. Forget(C)
    BY <1>4 DEF Crash
  <2> QED
    BY <1>2, <1>3, <2>1, <2>2, <2>3, ForgetStep
<1> QED
  BY <1>4

-----------------------------------------------------------------------------
(* The steps of the route.                                                 *)

LEMMA ChainsStay == ASSUME Typed, Chains, Grows, UNCHANGED runVars PROVE Chains'
BY ChainStays DEF Chains, runVars

LEMMA RouteGetStep ==
    ASSUME Inv, NEW r \in Requests, NEW ids \in SUBSET DOMAIN records, RouteGet(r, ids)
    PROVE  Inv'
<1>1. Typed /\ Sent /\ Stored /\ Chains
  BY DEF Inv
<1>2. Sent' /\ Stored' /\ Grows
  BY <1>1, MessagesStay, SameCopiesGrow DEF RouteGet
<1>3. Chains'
  BY <1>1, <1>2, ChainsStay DEF RouteGet
<1>4. ids \in SUBSET (1..Len(records))
  BY <1>1, LengthOfSequence DEF Typed
<1>5. Typed'
  BY <1>1, <1>4 DEF Typed, RouteGet, runVars
<1> QED
  BY <1>2, <1>3, <1>5 DEF Inv

\* What the route publishes of a stored message can be sent again.
LEMMA ReplayedMessage ==
    ASSUME Stored, NEW i \in 1..Len(records)
    PROVE  IsMessage(Replayed(i)) /\ IsSent(Replayed(i))
           /\ Replayed(i).origin = records[i].envelope.origin
<1>1. PICK e : e = records[i].envelope
  OBVIOUS
<1>2. IsMessage(e) /\ IsStored(e)
  BY <1>1 DEF Stored
<1>3. e = [origin |-> e.origin, depth |-> e.depth, replays |-> e.replays,
           exchange |-> e.exchange, delay |-> e.delay, middleware |-> e.middleware,
           tries |-> e.tries, state |-> e.state, done |-> e.done]
  BY <1>2 DEF IsMessage
<1>4. ASSUME NEW y, NEW n,
             y = [origin |-> e.origin, depth |-> e.depth, replays |-> n,
                  exchange |-> e.exchange, delay |-> e.delay, middleware |-> e.middleware,
                  tries |-> e.tries, state |-> e.state, done |-> e.done]
      PROVE  [y EXCEPT !.exchange = FALSE, !.delay = 0, !.replays = @ + 1]
                \in [origin : {e.origin}, depth : {e.depth}, replays : {n + 1},
                     exchange : {FALSE}, delay : {0}, middleware : {e.middleware},
                     tries : {e.tries}, state : {e.state}, done : {e.done}]
  BY <1>4
<1>5. Replayed(i) \in [origin : {e.origin}, depth : {e.depth}, replays : {e.replays + 1},
                       exchange : {FALSE}, delay : {0}, middleware : {e.middleware},
                       tries : {e.tries}, state : {e.state}, done : {e.done}]
  BY <1>1, <1>3, <1>4, Zenon DEF Replayed
<1>6. PICK x : x = Replayed(i)
  OBVIOUS
<1>7. x = [origin |-> e.origin, depth |-> e.depth, replays |-> e.replays + 1,
           exchange |-> FALSE, delay |-> 0, middleware |-> e.middleware,
           tries |-> e.tries, state |-> e.state, done |-> e.done]
  BY <1>5, <1>6
<1>8. e.middleware # 0 /\ e.replays \in Nat
  BY <1>2 DEF IsStored, IsMessage
<1>9. IsMessage(x)
  BY <1>2, <1>7, <1>8 DEF IsMessage
<1>10. IsSent(x)
  <2>1. /\ e.tries.current \in Nat /\ e.tries.max \in Nat
        /\ e.tries.current > e.tries.max /\ e.depth = e.tries.max + 1 + e.replays
    BY <1>2, <1>8 DEF IsMessage, IsStored
  <2>2. /\ x.depth = e.depth /\ x.replays = e.replays + 1 /\ x.tries = e.tries
        /\ x.middleware # 0
    BY <1>7, <1>8
  <2> QED
    BY <1>8, <2>1, <2>2 DEF IsSent
<1> QED
  BY <1>1, <1>6, <1>7, <1>9, <1>10

\* The copies that a request publishes: one more for each record it sends.
LEMMA Published ==
    ASSUME Inv, NEW r \in Requests, NEW sent \in SUBSET asked[r], RoutePublish(r, sent)
    PROVE  /\ sent \in SUBSET (1..Len(records))
           /\ IsSequence(copies') /\ Len(copies') <= MaxCopies /\ Grows
           /\ \A c \in 1..Len(copies') :
                 c \in 1..Len(copies) \/ \E i \in sent : copies'[c] = Replayed(i)
           /\ \A i \in sent : \E c \in Ids : /\ ~(c <= Len(copies)) /\ c <= Len(copies')
                                            /\ copies'[c] = Replayed(i)
<1>1. Typed
  BY DEF Inv
<1>2. sent \in SUBSET (1..Len(records)) /\ Len(records) \in Nat
  BY <1>1, LengthOfSequence DEF Typed
<1>3. Cardinality(sent) \in Nat
  <2>1. IsFiniteSet(1..Len(records))
    BY <1>2, FS_Interval
  <2>2. IsFiniteSet(sent)
    BY <1>2, <2>1, FS_Subset
  <2> QED
    BY <2>2, FS_CardinalityType
<1>4. PICK n \in Nat : n = Cardinality(sent)
  BY <1>3
<1>5. PICK order \in [1..n -> sent] :
        /\ {order[k] : k \in DOMAIN order} = sent
        /\ copies' = copies \o [k \in DOMAIN order |-> Replayed(order[k])]
  BY <1>4 DEF RoutePublish, Orders
<1>6. PICK t : t = [k \in 1..n |-> Replayed(order[k])]
  OBVIOUS
<1>7. copies' = copies \o t
  BY <1>5, <1>6
<1>8. t \in [1..n -> {Replayed(i) : i \in sent}]
  BY <1>6
<1>9. IsSequence(t) /\ Len(t) = n
  BY <1>8, FunctionIsSequence
<1>10. IsSequence(copies) /\ Len(copies) \in Nat
  BY <1>1, LengthOfSequence DEF Typed
<1>11. /\ IsSequence(copies') /\ Len(copies') = Len(copies) + n
       /\ \A i \in 1..Len(copies) : copies'[i] = copies[i]
       /\ \A i \in 1..n : copies'[Len(copies) + i] = t[i]
  <2>1. PICK S, T : copies \in Seq(S) /\ t \in Seq(T)
    BY <1>9, <1>10 DEF IsSequence
  <2>2. copies \in Seq(S \cup T) /\ t \in Seq(S \cup T)
    BY <2>1
  <2>3. copies \o t \in Seq(S \cup T)
    BY <2>2
  <2>4. /\ Len(copies \o t) = Len(copies) + Len(t)
        /\ \A i \in 1..Len(copies) : (copies \o t)[i] = copies[i]
        /\ \A i \in 1..Len(t) : (copies \o t)[Len(copies) + i] = t[i]
    BY <2>2
  <2>5. copies' \in Seq(S \cup T)
    BY <1>7, <2>3
  <2> QED
    BY <1>7, <1>9, <2>4, <2>5 DEF IsSequence
<1>12. Grows
  BY <1>10, <1>11 DEF Grows
<1>13. Len(copies') <= MaxCopies
  BY <1>4, <1>11 DEF RoutePublish
<1>14. \A k \in 1..n : order[k] \in sent /\ t[k] = Replayed(order[k])
  BY <1>6
<1>15. ASSUME NEW c \in 1..Len(copies'), c \notin 1..Len(copies)
       PROVE  \E i \in sent : copies'[c] = Replayed(i)
  <2>1. PICK k \in 1..n : c = Len(copies) + k
    <3>1. c - Len(copies) \in 1..n /\ c = Len(copies) + (c - Len(copies))
      BY <1>10, <1>11, <1>15
    <3> QED
      BY <3>1
  <2>2. copies'[c] = t[k]
    BY <1>11, <2>1
  <2> QED
    BY <1>14, <2>2
<1>16. ASSUME NEW i \in sent
       PROVE  \E c \in Ids : /\ ~(c <= Len(copies)) /\ c <= Len(copies')
                             /\ copies'[c] = Replayed(i)
  <2>1. PICK k \in 1..n : order[k] = i
    BY <1>5
  <2>2. PICK c \in Ids : c = Len(copies) + k
    BY <1>4, <1>10, <1>11, <1>13, ReprocessingAssumption DEF Ids
  <2>3. copies'[c] = Replayed(i)
    BY <1>11, <1>14, <2>1, <2>2
  <2>4. ~(c <= Len(copies)) /\ c <= Len(copies')
    BY <1>4, <1>10, <1>11, <2>2
  <2> QED
    BY <2>3, <2>4
<1> QED
  BY <1>2, <1>11, <1>12, <1>13, <1>15, <1>16

LEMMA RoutePublishStep ==
    ASSUME Inv, NEW r \in Requests, NEW sent \in SUBSET asked[r], RoutePublish(r, sent)
    PROVE  Inv' /\ Grows
<1>1. Typed /\ Sent /\ Stored /\ Chains
  BY DEF Inv
<1>2. sent \in SUBSET (1..Len(records)) /\ IsSequence(copies') /\ Grows
  BY Published
<1>3. ASSUME NEW c \in 1..Len(copies') PROVE IsMessage(copies'[c]) /\ IsSent(copies'[c])
  <2>1. CASE c \in 1..Len(copies)
    BY <1>1, <1>2, <2>1 DEF Sent, Grows
  <2>2. CASE c \notin 1..Len(copies)
    <3>1. PICK i \in sent : copies'[c] = Replayed(i)
      BY <2>2, Published
    <3> QED
      BY <1>1, <1>2, <3>1, ReplayedMessage
  <2> QED
    BY <2>1, <2>2
<1>4. Sent'
  BY <1>3 DEF Sent
<1>5. Stored'
  BY <1>1 DEF RoutePublish, Stored
<1>6. Chains'
  BY <1>1, <1>2, ChainsStay DEF RoutePublish
<1>7. request' \in [Requests -> {"idle", "got", "published", "done"}]
  BY <1>1 DEF Typed, RoutePublish
<1>8. UNCHANGED <<runVars, records, asked, outcome>>
  BY DEF RoutePublish
<1>9. Typed'
  BY <1>1, <1>2, <1>7, <1>8 DEF Typed, runVars
<1> QED
  BY <1>2, <1>4, <1>5, <1>6, <1>9 DEF Inv

\* The deletion only sets deleted_at.
LEMMA DeletedRecords ==
    ASSUME Typed, Stored, NEW S,
           records' = [i \in DOMAIN records |-> [records[i] EXCEPT !.deleted = @ \/ i \in S]]
    PROVE  /\ IsSequence(records') /\ Len(records') = Len(records)
           /\ \A i \in 1..Len(records) :
                 records'[i] = [envelope |-> records[i].envelope,
                                deleted |-> records[i].deleted \/ i \in S]
<1>1. Len(records) \in Nat /\ DOMAIN records = 1..Len(records)
  BY LengthOfSequence DEF Typed
<1>2. ASSUME NEW i \in 1..Len(records)
      PROVE  records'[i] = [envelope |-> records[i].envelope,
                            deleted |-> records[i].deleted \/ i \in S]
  <2>1. PICK b \in BOOLEAN : b = (records[i].deleted \/ i \in S)
    OBVIOUS
  <2>2. PICK y, e, d : y = records[i] /\ e = records[i].envelope /\ d = records[i].deleted
    OBVIOUS
  <2>3. y = [envelope |-> e, deleted |-> d] /\ d \in BOOLEAN
    BY <2>2 DEF Stored
  <2>4. [y EXCEPT !.deleted = b] = [envelope |-> e, deleted |-> b]
    <3>1. [y EXCEPT !.deleted = b] \in [envelope : {e}, deleted : {b}]
      BY <2>3
    <3> QED
      BY <3>1
  <2>5. records'[i] = [y EXCEPT !.deleted = b]
    BY <1>1, <2>1, <2>2
  <2> QED
    BY <2>1, <2>2, <2>4, <2>5
<1>3. PICK T : T = {records'[i] : i \in 1..Len(records)}
  OBVIOUS
<1>4. records' \in [1..Len(records) -> T]
  BY <1>1, <1>3
<1>5. IsSequence(records') /\ Len(records') = Len(records)
  BY <1>1, <1>4, FunctionIsSequence
<1> QED
  BY <1>2, <1>5, Zenon

LEMMA RouteDeleteStep == ASSUME Inv, NEW r \in Requests, RouteDelete(r) PROVE Inv'
<1>1. Typed /\ Sent /\ Stored /\ Chains
  BY DEF Inv
<1>2. copies' = copies /\ Sent' /\ Grows
  BY <1>1, SameCopiesGrow DEF RouteDelete, Sent
<1>3. Chains'
  BY <1>1, <1>2, ChainsStay DEF RouteDelete
<1>4. IsSequence(records') /\ Len(records') = Len(records) /\ Stored'
  <2>1. CASE records' = records
    BY <1>1, <1>2, <2>1, MessagesStay DEF Typed
  <2>2. CASE records' = [i \in DOMAIN records |-> [records[i] EXCEPT
                                                    !.deleted = @ \/ i \in asked[r]]]
    <3>1. PICK S : S = asked[r]
      OBVIOUS
    <3>2. /\ IsSequence(records') /\ Len(records') = Len(records)
          /\ \A i \in 1..Len(records) :
                records'[i] = [envelope |-> records[i].envelope,
                               deleted |-> records[i].deleted \/ i \in S]
      <4>1. records' = [i \in DOMAIN records |-> [records[i] EXCEPT !.deleted = @ \/ i \in S]]
        BY <2>2, <3>1, Zenon
      <4> QED
        BY <1>1, <4>1, DeletedRecords, Zenon
    <3>3. ASSUME NEW i \in 1..Len(records')
          PROVE  /\ records'[i] = [envelope |-> records'[i].envelope,
                                   deleted |-> records'[i].deleted]
                 /\ records'[i].deleted \in BOOLEAN
                 /\ IsMessage(records'[i].envelope) /\ IsStored(records'[i].envelope)
      <4>1. PICK b \in BOOLEAN : b = (records[i].deleted \/ i \in S)
        OBVIOUS
      <4>2. records'[i] = [envelope |-> records[i].envelope, deleted |-> b]
        BY <3>2, <4>1, Zenon
      <4>3. IsMessage(records[i].envelope) /\ IsStored(records[i].envelope)
        BY <1>1, <3>2, Zenon DEF Stored
      <4> QED
        BY <4>2, <4>3
    <3> QED
      BY <3>2, <3>3, Zenon DEF Stored
  <2> QED
    BY <2>1, <2>2, Zenon DEF RouteDelete
<1>5. request' \in [Requests -> {"idle", "got", "published", "done"}]
  BY <1>1 DEF Typed, RouteDelete
<1>6. UNCHANGED <<runVars, asked, outcome>>
  BY DEF RouteDelete
<1>7. Typed'
  BY <1>1, <1>2, <1>4, <1>5, <1>6 DEF Typed, runVars
<1> QED
  BY <1>2, <1>3, <1>4, <1>7 DEF Inv

-----------------------------------------------------------------------------
(* The invariant holds.                                                    *)

LEMMA InitInv == ASSUME Init PROVE Inv
<1>1. /\ Originals \in Nat /\ 1 \in Jobs /\ Blank \in [Jobs -> Nat] /\ JobCount \in Nat
  BY ReprocessingAssumption DEF Jobs, Blank
<1>2. copies \in [1..Originals -> {Original(o) : o \in 1..Originals}]
  BY DEF Init
<1>3. IsSequence(copies) /\ Len(copies) = Originals
  BY <1>1, <1>2, FunctionIsSequence
<1>4. records = <<>> /\ Len(records) = 0 /\ IsSequence(records)
  <2>1. <<>> \in Seq({}) /\ Len(<<>>) = 0
    OBVIOUS
  <2>2. IsSequence(<<>>)
    BY <2>1 DEF IsSequence
  <2> QED
    BY <2>1, <2>2 DEF Init
<1>5. Typed
  BY <1>1, <1>3, <1>4 DEF Typed, Init
<1>6. ASSUME NEW c \in 1..Len(copies) PROVE IsMessage(copies[c]) /\ IsSent(copies[c])
  <2>1. copies[c] = Original(c) /\ c \in 1..Originals
    BY <1>3 DEF Init
  <2>2. IsMessage(Original(c)) /\ IsSent(Original(c))
    BY <1>1, <2>1 DEF Original, IsMessage, IsSent
  <2> QED
    BY <2>1, <2>2
<1>7. Sent
  BY <1>6 DEF Sent
<1>8. Stored
  BY <1>4 DEF Stored
<1>9. Chains
  BY DEF Chains, ChainOf, Init
<1> QED
  BY <1>5, <1>7, <1>8, <1>9 DEF Inv

LEMMA ChainInv == ASSUME Inv, NEW c \in Ids, Chain(c) PROVE Inv'
<1> QED
  BY DeliverStep, EnterSkipStep, EnterRunStep, HandlerSucceedsStep, HandlerFailsPublishStep,
     HandlerFailsSaveStep, SendFailsStep, AckStep DEF Chain

LEMMA NextInv == ASSUME Inv, [Next]_vars PROVE Inv'
<1>1. ASSUME NEW c \in Ids, Chain(c) PROVE Inv'
  BY <1>1, ChainInv
<1>2. ASSUME NEW r \in Requests, NEW ids \in SUBSET DOMAIN records, RouteGet(r, ids) PROVE Inv'
  BY <1>2, RouteGetStep
<1>3. ASSUME NEW r \in Requests, NEW sent \in SUBSET asked[r], RoutePublish(r, sent) PROVE Inv'
  BY <1>3, RoutePublishStep
<1>4. ASSUME NEW r \in Requests, RouteDelete(r) PROVE Inv'
  BY <1>4, RouteDeleteStep
<1>5. CASE Crash
  BY <1>5, CrashStep
<1>6. CASE UNCHANGED vars
  <2>1. Typed /\ Sent /\ Stored /\ Chains
    BY DEF Inv
  <2>2. Sent' /\ Stored' /\ Grows
    BY <1>6, <2>1, MessagesStay, SameCopiesGrow DEF vars
  <2>3. Chains'
    BY <1>6, <2>1, <2>2, ChainsStay DEF vars, runVars
  <2>4. Typed'
    BY <1>6, <2>1 DEF Typed, vars
  <2> QED
    BY <2>2, <2>3, <2>4 DEF Inv
<1> QED
  BY <1>1, <1>2, <1>3, <1>4, <1>5, <1>6 DEF Next

THEOREM Invariance == Spec => []Inv
<1>1. Init => Inv
  BY InitInv
<1>2. Inv /\ [Next]_vars => Inv'
  BY NextInv
<1> QED
  BY <1>1, <1>2, PTL DEF Spec

\* A message is retried exactly as often as the decorator of the job that failed
\* first says (src/data/usecases/mq/mq-send-reprocessing.ts).
THEOREM RetriesExact == Spec => []RetriesAreExact
<1>1. ASSUME Inv PROVE RetriesAreExact
  <2>1. DOMAIN copies = 1..Len(copies) /\ DOMAIN records = 1..Len(records)
    BY <1>1, LengthOfSequence DEF Inv, Typed
  <2>2. ASSUME NEW c \in DOMAIN copies, IsEnvelope(c)
        PROVE  copies[c].depth <= copies[c].tries.max + copies[c].replays
    <3>1. PICK e : e = copies[c]
      OBVIOUS
    <3>2. IsMessage(e) /\ IsSent(e) /\ e.middleware # 0
      BY <1>1, <2>1, <2>2, <3>1 DEF Inv, Sent, IsEnvelope
    <3>3. e.tries.current \in Nat /\ e.tries.max \in Nat /\ e.depth \in Nat /\ e.replays \in Nat
      BY <3>2 DEF IsMessage
    <3> QED
      BY <3>1, <3>2, <3>3 DEF IsSent
  <2>3. ASSUME NEW i \in DOMAIN records
        PROVE  records[i].envelope.depth = records[i].envelope.tries.max + 1
                                           + records[i].envelope.replays
    BY <1>1, <2>1 DEF Inv, Stored, IsStored
  <2> QED
    BY <2>2, <2>3 DEF RetriesAreExact
<1> QED
  BY <1>1, Invariance, PTL

\* The attempts of a message add up to one run of the chain: the decorator in
\* the mode STOPPED_MIDDLEWARE (src/job/util/reprocessing.ts) repeats no job, leaves
\* none out and puts back what the ones before it wrote.
THEOREM Resumes == Spec => []ResumesExactly
<1>1. ASSUME Inv, NEW c \in Ids
      PROVE  /\ At(c, "handler") => job[c] \notin done[c] /\ \A j \in done[c] : state[c][j] # 0
             /\ step[c] = "resolved" => done[c] = Jobs
  <2>1. ChainOf(c) /\ job[c] \in Jobs
    BY <1>1 DEF Inv, Chains, Typed
  <2>2. job[c] \notin 1..(job[c] - 1)
    BY <2>1, JobsBefore
  <2> QED
    BY <2>1, <2>2 DEF ChainOf, Handling, At
<1>2. Inv => ResumesExactly
  BY <1>1 DEF ResumesExactly, NoRepeatedStep, ResolvedIsComplete, StateIsCarried
<1> QED
  BY <1>2, Invariance, PTL

-----------------------------------------------------------------------------
(* No message is lost.                                                     *)

\* What a step does to the ways in which messages are kept.
OutcomesStay == \A o \in 1..Originals : outcome[o] # "none" => outcome'[o] # "none"
CopiesStay ==
    \A o \in 1..Originals : \A c \in Ids :
       Exists(c) /\ copies[c].origin = o /\ Live(c) => Live(c)' \/ Keeps(o)'
RecordsStay ==
    \A o \in 1..Originals : \A i \in 1..Len(records) :
       records[i].envelope.origin = o /\ ~records[i].deleted /\ ~Doomed(i) =>
          \/ /\ i \in 1..Len(records') /\ ~records'[i].deleted /\ ~Doomed(i)'
             /\ records'[i].envelope.origin = o
          \/ Keeps(o)'

LEMMA KeptStays ==
    ASSUME Inv, Kept, Grows, OutcomesStay, CopiesStay, RecordsStay
    PROVE  Kept'
<1> SUFFICES ASSUME NEW o \in 1..Originals PROVE Keeps(o)'
  BY DEF Kept
<1>1. Keeps(o)
  BY DEF Kept
<1>2. CASE outcome[o] # "none"
  BY <1>2 DEF OutcomesStay, Keeps
<1>3. ASSUME NEW c \in Ids, Exists(c), copies[c].origin = o, Live(c) PROVE Keeps(o)'
  <2>1. copies'[c] = copies[c] /\ c <= Len(copies')
    <3>1. c \in 1..Len(copies) /\ Len(copies) \in Nat
      BY <1>3, Existing, LengthOfSequence DEF Inv, Typed
    <3> QED
      BY <3>1 DEF Grows
  <2>2. CASE Live(c)'
    BY <1>3, <2>1, <2>2 DEF Keeps, Exists
  <2> QED
    BY <1>3, <2>2 DEF CopiesStay
<1>4. ASSUME NEW i \in 1..Len(records), records[i].envelope.origin = o,
             ~records[i].deleted, ~Doomed(i)
      PROVE  Keeps(o)'
  <2>1. CASE /\ i \in 1..Len(records') /\ ~records'[i].deleted /\ ~Doomed(i)'
             /\ records'[i].envelope.origin = o
    BY <2>1 DEF Keeps
  <2> QED
    BY <1>4, <2>1 DEF RecordsStay
<1> QED
  BY <1>1, <1>2, <1>3, <1>4 DEF Keeps

LEMMA RecordsUntouched ==
    ASSUME UNCHANGED <<records, routeVars>> PROVE RecordsStay
BY DEF RecordsStay, Doomed, routeVars

LEMMA CopiesUntouched ==
    ASSUME UNCHANGED <<place, step>> PROVE CopiesStay
BY DEF CopiesStay, Live

\* A step of a chain whose copy stays live or whose message completes.
LEMMA ChainKeeps ==
    ASSUME Inv, Kept, NEW c \in Ids, Only(c), UNCHANGED <<copies, records, routeVars>>,
           OutcomesStay, Live(c) => Live(c)' \/ outcome'[copies[c].origin] # "none"
    PROVE  Kept'
<1>1. Grows
  BY SameCopiesGrow DEF Inv
<1>2. RecordsStay
  BY RecordsUntouched
<1>3. ASSUME NEW o \in 1..Originals, NEW d \in Ids, copies[d].origin = o, Live(d)
      PROVE  Live(d)' \/ Keeps(o)'
  <2>1. CASE d = c
    BY <1>3, <2>1 DEF Keeps
  <2>2. CASE d # c
    BY <1>3, <2>2 DEF Only, Live
  <2> QED
    BY <2>1, <2>2
<1>4. CopiesStay
  BY <1>3 DEF CopiesStay
<1> QED
  BY <1>1, <1>2, <1>4, KeptStays

\* The outcome of a message is not taken back.
LEMMA OutcomeSet ==
    ASSUME Inv, NEW c \in Ids, Exists(c), NEW x \in {"completed", "unsent"},
           outcome' = [outcome EXCEPT ![copies[c].origin] = x]
    PROVE  OutcomesStay /\ outcome'[copies[c].origin] = x
<1>1. copies[c].origin \in 1..Originals
  BY Existing DEF IsMessage
<1>2. outcome \in [1..Originals -> {"none", "completed", "unsent"}]
  BY DEF Inv, Typed
<1> QED
  BY <1>1, <1>2 DEF OutcomesStay

LEMMA AdvanceKeeps ==
    ASSUME Inv, NEW c \in Ids, Exists(c), place[c] = "running", place' = place, Advance(c)
    PROVE  OutcomesStay /\ (Live(c)' \/ outcome'[copies[c].origin] # "none")
<1>1. step \in [Ids -> {"enter", "handler", "failed", "resolved"}]
  BY DEF Inv, Typed
<1>2. CASE step' = [step EXCEPT ![c] = "enter"] /\ UNCHANGED outcome
  BY <1>1, <1>2 DEF OutcomesStay, Live
<1>3. CASE outcome' = [outcome EXCEPT ![copies[c].origin] = "completed"]
  <2>1. OutcomesStay /\ outcome'[copies[c].origin] = "completed"
    BY <1>3, OutcomeSet
  <2> QED
    BY <2>1
<1> QED
  BY <1>2, <1>3 DEF Advance

LEMMA ChainStepsKeep ==
    ASSUME Inv, Kept, NEW c \in Ids,
           Deliver(c) \/ EnterSkip(c) \/ EnterRun(c) \/ HandlerSucceeds(c) \/ SendFails(c) \/ Ack(c)
    PROVE  Kept'
<1>1. Typed
  BY DEF Inv
<1>2. CASE Deliver(c)
  BY <1>1, <1>2, ChainKeeps DEF Deliver, Only, Live, Typed, OutcomesStay
<1>3. CASE EnterSkip(c)
  <2>1. OutcomesStay /\ (Live(c)' \/ outcome'[copies[c].origin] # "none")
    BY <1>3, AdvanceKeeps DEF EnterSkip, At
  <2>2. Only(c)
    BY <1>1, <1>3 DEF EnterSkip, Only, Typed, Advance
  <2> QED
    BY <1>3, <2>1, <2>2, ChainKeeps DEF EnterSkip
<1>4. CASE EnterRun(c)
  BY <1>1, <1>4, ChainKeeps DEF EnterRun, At, Only, Live, Typed, OutcomesStay
<1>5. CASE HandlerSucceeds(c)
  <2>1. OutcomesStay /\ (Live(c)' \/ outcome'[copies[c].origin] # "none")
    BY <1>5, AdvanceKeeps DEF HandlerSucceeds, At
  <2>2. Only(c)
    BY <1>1, <1>5 DEF HandlerSucceeds, Only, Typed, Advance
  <2> QED
    BY <1>5, <2>1, <2>2, ChainKeeps DEF HandlerSucceeds
<1>6. CASE SendFails(c)
  <2>1. OutcomesStay /\ outcome'[copies[c].origin] = "unsent"
    BY <1>6, OutcomeSet DEF SendFails, At
  <2>2. Only(c)
    BY <1>1, <1>6 DEF SendFails, Only, Typed
  <2> QED
    BY <1>6, <2>1, <2>2, ChainKeeps DEF SendFails
<1>7. CASE Ack(c)
  <2>1. ~Live(c) /\ OutcomesStay
    BY <1>7 DEF Ack, At, Live, OutcomesStay
  <2>2. Only(c)
    BY <1>1, <1>7 DEF Ack, Only, Typed, Forget
  <2> QED
    BY <1>7, <2>1, <2>2, ChainKeeps DEF Ack
<1> QED
  BY <1>2, <1>3, <1>4, <1>5, <1>6, <1>7

\* The copy of a failed chain is over, but its envelope is a new one.
LEMMA PublishKeeps == ASSUME Inv, Kept, NEW c \in Ids, HandlerFailsPublish(c) PROVE Kept'
<1>1. Typed /\ Sent /\ Chains /\ At(c, "handler")
  BY DEF Inv, HandlerFailsPublish
<1>2. PICK e : e = Envelope(c)
  OBVIOUS
<1>3. /\ IsSequence(copies') /\ Len(copies) \in Nat /\ Len(copies') = Len(copies) + 1
      /\ copies'[Len(copies) + 1] = e /\ \A i \in 1..Len(copies) : copies'[i] = copies[i]
  BY <1>1, <1>2, AppendToSequence, LengthOfSequence DEF HandlerFailsPublish, Typed
<1>4. Grows
  BY <1>3 DEF Grows
<1>5. PICK n \in Ids : n = Len(copies) + 1
  BY <1>3, ReprocessingAssumption DEF HandlerFailsPublish, Ids
<1>6. e.origin = copies[c].origin
  BY <1>1, <1>2, FailedEnvelope
<1>7. Live(n)'
  <2>1. place[n] = "queued" /\ step[n] = "enter"
    BY <1>1, <1>3, <1>5 DEF Chains, ChainOf, Typed
  <2>2. n # c
    BY <1>1, <2>1 DEF At
  <2> QED
    BY <1>1, <2>1, <2>2 DEF Live, HandlerFailsPublish, Typed
<1>8. ASSUME NEW o \in 1..Originals, NEW d \in Ids, copies[d].origin = o, Live(d)
      PROVE  Live(d)' \/ Keeps(o)'
  <2>1. CASE d = c
    <3>1. Exists(n)' /\ copies'[n].origin = o
      BY <1>3, <1>5, <1>6, <1>8, <2>1 DEF Exists
    <3> QED
      BY <1>7, <3>1 DEF Keeps
  <2>2. CASE d # c
    BY <1>1, <1>8, <2>2 DEF HandlerFailsPublish, Live, Typed
  <2> QED
    BY <2>1, <2>2
<1>9. CopiesStay
  BY <1>8 DEF CopiesStay
<1>10. RecordsStay /\ OutcomesStay
  BY RecordsUntouched DEF HandlerFailsPublish, OutcomesStay
<1> QED
  BY <1>4, <1>9, <1>10, KeptStays

\* ... or it is a new record, which no request has got.
LEMMA SaveKeeps == ASSUME Inv, Kept, NEW c \in Ids, HandlerFailsSave(c) PROVE Kept'
<1>1. Typed /\ At(c, "handler")
  BY DEF Inv, HandlerFailsSave
<1>2. PICK x, e : e = Envelope(c) /\ x = [envelope |-> e, deleted |-> FALSE]
  OBVIOUS
<1>3. records' = Append(records, x)
  BY <1>2 DEF HandlerFailsSave
<1>4. PICK n : n = Len(records) + 1
  OBVIOUS
<1>5. /\ IsSequence(records') /\ Len(records) \in Nat /\ Len(records') = n
      /\ records'[n] = x /\ \A i \in 1..Len(records) : records'[i] = records[i]
  BY <1>1, <1>3, <1>4, AppendToSequence, LengthOfSequence DEF Typed
<1>6. e.origin = copies[c].origin
  BY <1>1, <1>2, FailedEnvelope
<1>7. UNCHANGED <<request, asked, copies, outcome>>
  BY DEF HandlerFailsSave, routeVars
<1>8. ~Doomed(n)'
  <2>1. n \notin 1..Len(records)
    BY <1>4, <1>5
  <2> QED
    BY <1>1, <1>7, <2>1 DEF Doomed, Typed
<1>9. n \in 1..Len(records') /\ records'[n].envelope.origin = copies[c].origin
      /\ ~records'[n].deleted
  BY <1>2, <1>4, <1>5, <1>6
<1>10. ASSUME NEW o \in 1..Originals, NEW d \in Ids, copies[d].origin = o, Live(d)
       PROVE  Live(d)' \/ Keeps(o)'
  <2>1. CASE d = c
    BY <1>8, <1>9, <1>10, <2>1 DEF Keeps
  <2>2. CASE d # c
    BY <1>1, <1>10, <2>2 DEF HandlerFailsSave, Live, Typed
  <2> QED
    BY <2>1, <2>2
<1>11. CopiesStay
  BY <1>10 DEF CopiesStay
<1>12. RecordsStay
  <2>1. \A i \in 1..Len(records) : i \in 1..Len(records')
    BY <1>4, <1>5
  <2> QED
    BY <1>5, <1>7, <2>1 DEF RecordsStay, Doomed
<1>13. OutcomesStay /\ Grows
  BY <1>1, <1>7, SameCopiesGrow DEF OutcomesStay
<1> QED
  BY <1>11, <1>12, <1>13, KeptStays

LEMMA GetKeeps ==
    ASSUME Inv, Kept, NEW r \in Requests, NEW ids \in SUBSET DOMAIN records, RouteGet(r, ids)
    PROVE  Kept'
<1>1. Typed
  BY DEF Inv
<1>2. \A i : Doomed(i)' => Doomed(i)
  BY <1>1 DEF Typed, RouteGet, Doomed
<1>3. RecordsStay
  BY <1>2 DEF RecordsStay, RouteGet
<1>4. CopiesStay /\ OutcomesStay /\ Grows
  BY <1>1, CopiesUntouched, SameCopiesGrow DEF RouteGet, runVars, OutcomesStay
<1> QED
  BY <1>3, <1>4, KeptStays

\* Each record that was sent has a copy in the broker that will be delivered.
LEMMA PublishedCopy ==
    ASSUME Inv, NEW r \in Requests, NEW sent \in SUBSET asked[r], RoutePublish(r, sent),
           NEW i \in sent
    PROVE  \E c \in Ids : /\ Exists(c)' /\ Live(c)'
                          /\ copies'[c].origin = records[i].envelope.origin
<1>1. Typed /\ Stored /\ Chains
  BY DEF Inv
<1>2. PICK c \in Ids : ~(c <= Len(copies)) /\ c <= Len(copies') /\ copies'[c] = Replayed(i)
  BY Published
<1>3. Exists(c)'
  BY <1>2 DEF Exists
<1>4. Live(c)'
  BY <1>1, <1>2 DEF Chains, ChainOf, Typed, Live, RoutePublish, runVars
<1>5. i \in 1..Len(records)
  BY Published
<1>6. copies'[c].origin = records[i].envelope.origin
  BY <1>1, <1>2, <1>5, ReplayedMessage
<1> QED
  BY <1>3, <1>4, <1>6

\* A record that a request is about to delete has been published.
LEMMA PublishedKeeps ==
    ASSUME Inv, Kept, NEW r \in Requests, NEW sent \in SUBSET asked[r], RoutePublish(r, sent)
    PROVE  Kept'
<1>1. Typed /\ Stored /\ Chains
  BY DEF Inv
<1>2. sent \in SUBSET (1..Len(records)) /\ Len(copies) \in Nat
  BY <1>1, LengthOfSequence DEF Typed
<1>3. Grows
  BY RoutePublishStep
<1>4. UNCHANGED <<place, step, records, asked, outcome>>
  BY DEF RoutePublish, runVars
<1>5. CopiesStay /\ OutcomesStay
  BY <1>4, CopiesUntouched DEF OutcomesStay
<1>6. ASSUME NEW i \in sent
      PROVE  \E c \in Ids : Exists(c)' /\ copies'[c].origin = records[i].envelope.origin /\ Live(c)'
  BY PublishedCopy
<1>7. ASSUME NEW o \in 1..Originals, NEW i \in 1..Len(records),
             records[i].envelope.origin = o, ~Doomed(i)
      PROVE  ~Doomed(i)' \/ Keeps(o)'
  <2>1. CASE i \in sent
    BY <1>6, <1>7, <2>1 DEF Keeps
  <2>2. CASE i \notin sent
    <3>1. request'[r] = "published" => asked[r] = sent
      BY <1>1 DEF Typed, RoutePublish
    <3>2. \A q \in Requests \ {r} : request'[q] = request[q]
      BY <1>1 DEF Typed, RoutePublish
    <3> QED
      BY <1>4, <1>7, <2>2, <3>1, <3>2 DEF Doomed
  <2> QED
    BY <2>1, <2>2
<1>8. RecordsStay
  BY <1>4, <1>7 DEF RecordsStay
<1> QED
  BY <1>3, <1>5, <1>8, KeptStays

LEMMA DeleteKeeps == ASSUME Inv, Kept, NEW r \in Requests, RouteDelete(r) PROVE Kept'
<1>1. Typed /\ Stored
  BY DEF Inv
<1>2. \A i : Doomed(i)' => Doomed(i)
  BY <1>1 DEF Typed, RouteDelete, Doomed
<1>3. \A i : i \in asked[r] => Doomed(i)
  BY <1>1 DEF Typed, RouteDelete, Doomed
<1>4. ASSUME NEW i \in 1..Len(records), ~records[i].deleted, ~Doomed(i)
      PROVE  /\ i \in 1..Len(records') /\ ~records'[i].deleted
             /\ records'[i].envelope.origin = records[i].envelope.origin
  <2>1. CASE records' = records
    BY <1>4, <2>1
  <2>2. CASE records' = [j \in DOMAIN records |-> [records[j] EXCEPT
                                                    !.deleted = @ \/ j \in asked[r]]]
    <3>1. PICK S : S = asked[r]
      OBVIOUS
    <3>2. records' = [j \in DOMAIN records |-> [records[j] EXCEPT !.deleted = @ \/ j \in S]]
      BY <2>2, <3>1, Zenon
    <3>3. Len(records') = Len(records)
          /\ records'[i] = [envelope |-> records[i].envelope,
                            deleted |-> records[i].deleted \/ i \in S]
      BY <1>1, <3>2, DeletedRecords, Zenon
    <3>4. PICK b \in BOOLEAN : b = (records[i].deleted \/ i \in S)
      OBVIOUS
    <3>5. ~b
      BY <1>3, <1>4, <3>1, <3>4
    <3>6. records'[i] = [envelope |-> records[i].envelope, deleted |-> b]
      BY <3>3, <3>4, Zenon
    <3>7. Len(records') = Len(records)
      BY <3>3
    <3> QED
      BY <3>5, <3>6, <3>7
  <2> QED
    BY <2>1, <2>2, Zenon DEF RouteDelete
<1>5. RecordsStay
  BY <1>2, <1>4 DEF RecordsStay
<1>6. CopiesStay /\ OutcomesStay /\ Grows
  BY <1>1, CopiesUntouched, SameCopiesGrow DEF RouteDelete, runVars, OutcomesStay
<1> QED
  BY <1>5, <1>6, KeptStays

\* After a restart every unacknowledged copy is delivered again.
LEMMA CrashKeeps == ASSUME Inv, Kept, Crash PROVE Kept'
<1>1. Typed
  BY DEF Inv
<1>2. CopiesStay
  BY <1>1 DEF CopiesStay, Live, Crash, Forget, Typed
<1>3. RecordsStay
  BY <1>1 DEF RecordsStay, Crash, Doomed
<1>4. OutcomesStay /\ Grows
  BY <1>1, SameCopiesGrow DEF Crash, OutcomesStay
<1> QED
  BY <1>2, <1>3, <1>4, KeptStays

LEMMA InitKept == ASSUME Init PROVE Kept
<1>1. Inv
  BY InitInv
<1>2. ASSUME NEW o \in 1..Originals PROVE Keeps(o)
  <2>1. o \in Ids /\ o \in Nat
    BY ReprocessingAssumption DEF Ids
  <2>2. copies[o] = Original(o) /\ DOMAIN copies = 1..Originals
    BY DEF Init
  <2>3. Len(copies) \in Nat /\ DOMAIN copies = 1..Len(copies)
    BY <1>1, LengthOfSequence DEF Inv, Typed
  <2>4. Exists(o) /\ copies[o].origin = o
    <3>1. o \in 1..Len(copies)
      BY <2>2, <2>3
    <3>2. o <= Len(copies)
      BY <2>3, <3>1
    <3>3. copies[o].origin = o
      BY <2>2 DEF Original
    <3> QED
      BY <3>2, <3>3 DEF Exists
  <2>5. Live(o)
    BY <2>1 DEF Live, Init
  <2> QED
    BY <2>1, <2>4, <2>5 DEF Keeps
<1> QED
  BY <1>2 DEF Kept

LEMMA NextKept == ASSUME Inv, Kept, [Next]_vars PROVE Kept'
<1>1. ASSUME NEW c \in Ids, Chain(c) PROVE Kept'
  BY <1>1, ChainStepsKeep, PublishKeeps, SaveKeeps DEF Chain
<1>2. ASSUME NEW r \in Requests, NEW ids \in SUBSET DOMAIN records, RouteGet(r, ids) PROVE Kept'
  BY <1>2, GetKeeps
<1>3. ASSUME NEW r \in Requests, NEW sent \in SUBSET asked[r], RoutePublish(r, sent) PROVE Kept'
  BY <1>3, PublishedKeeps
<1>4. ASSUME NEW r \in Requests, RouteDelete(r) PROVE Kept'
  BY <1>4, DeleteKeeps
<1>5. CASE Crash
  BY <1>5, CrashKeeps
<1>6. CASE UNCHANGED vars
  <2>1. Grows
    BY <1>6, SameCopiesGrow DEF vars, Inv
  <2>2. RecordsStay /\ CopiesStay /\ OutcomesStay
    BY <1>6, RecordsUntouched, CopiesUntouched DEF vars, routeVars, OutcomesStay
  <2> QED
    BY <2>1, <2>2, KeptStays
<1> QED
  BY <1>1, <1>2, <1>3, <1>4, <1>5, <1>6 DEF Next

\* Whatever crashes, a message is in the broker, in the repository or completed,
\* unless a publication or save failed in the decorator's catch
\* (src/job/util/reprocessing.ts).
THEOREM NoneLost == Spec => []NothingLost
<1>1. Init => Inv /\ Kept
  BY InitInv, InitKept
<1>2. Inv /\ Kept /\ [Next]_vars => (Inv /\ Kept)'
  BY NextInv, NextKept
<1>3. ASSUME Inv, Kept PROVE NothingLost
  <2> SUFFICES ASSUME NEW o \in 1..Originals
               PROVE  \/ outcome[o] # "none"
                      \/ \E c \in DOMAIN copies : copies[c].origin = o /\ place[c] # "acked"
                      \/ \E i \in DOMAIN records : /\ records[i].envelope.origin = o
                                                   /\ ~records[i].deleted
    BY DEF NothingLost
  <2>1. DOMAIN copies = 1..Len(copies) /\ DOMAIN records = 1..Len(records)
    BY <1>3, LengthOfSequence DEF Inv, Typed
  <2>2. \A c \in Ids : Exists(c) => c \in DOMAIN copies
    BY <1>3, <2>1, Existing
  <2> QED
    BY <1>3, <2>1, <2>2 DEF Kept, Keeps, Live
<1> QED
  BY <1>1, <1>2, <1>3, PTL DEF Spec

-----------------------------------------------------------------------------
(* Every retry waits.                                                      *)

\* Induction over the natural numbers, for the elements of a set.
LEMMA SetInduction ==
    ASSUME NEW T, 0 \in T, \A n \in Nat : n \in T => n + 1 \in T
    PROVE Nat \subseteq T
<1>1. PICK R : R = OpToRel(<, Nat)
  OBVIOUS
<1>2. IsWellFoundedOn(R, Nat)
  BY <1>1, NatLessThanWellFounded
<1>3. \A x, y \in Nat : <<x, y>> \in R <=> x < y
  BY <1>1 DEF OpToRel
<1>4. SUFFICES ASSUME Nat \ T # {} PROVE FALSE
  OBVIOUS
<1>5. PICK m \in Nat \ T : \A y \in Nat \ T : ~ (<<y, m>> \in R)
  BY <1>2, <1>4, WFMin
<1>6. m # 0
  OBVIOUS
<1>7. m - 1 \in Nat /\ m = (m - 1) + 1 /\ m - 1 < m
  BY <1>6
<1>8. m - 1 \notin T
  BY <1>7
<1> QED
  BY <1>3, <1>5, <1>7, <1>8

\* The array of delays is extended to as many as there are tries, all positive.
LEMMA PaddedDelays ==
    ASSUME NEW d \in Seq(Nat \ {0}), d # <<>>, NEW n \in Nat \ {0}
    PROVE  Padded(d, n) \in Seq(Nat \ {0}) /\ Len(Padded(d, n)) >= n /\ Padded(d, n) # <<>>
<1> DEFINE Doubles(g, m) == g = [i \in 1..m |-> IF i <= Len(d) THEN d[i] ELSE 2 * g[i - 1]]
           Exist == {m \in Nat : \E g : Doubles(g, m)}
<1>1. Len(d) \in Nat /\ 1 <= Len(d) /\ \A i \in 1..Len(d) : d[i] \in Nat \ {0}
  OBVIOUS
<1>2. 0 \in Exist
  <2>1. Doubles(<<>>, 0)
    OBVIOUS
  <2> QED
    BY <2>1
<1>3. ASSUME NEW m \in Nat, m \in Exist PROVE m + 1 \in Exist
  <2>1. PICK g : Doubles(g, m)
    BY <1>3
  <2> DEFINE h == [i \in 1..(m + 1) |-> IF i <= m THEN g[i]
                                        ELSE IF i <= Len(d) THEN d[i] ELSE 2 * g[i - 1]]
  <2>2. \A i \in 1..m : h[i] = g[i]
    OBVIOUS
  <2>3. ASSUME NEW i \in 1..(m + 1)
          PROVE  h[i] = IF i <= Len(d) THEN d[i] ELSE 2 * h[i - 1]
    <3>1. CASE i <= m
      <4>1. h[i] = IF i <= Len(d) THEN d[i] ELSE 2 * g[i - 1]
        BY <2>1, <3>1
      <4>2. i > Len(d) => i - 1 \in 1..m
        BY <1>1, <3>1
      <4> QED
        BY <2>2, <4>1, <4>2
    <3>2. CASE i = m + 1
      <4>1. h[i] = IF i <= Len(d) THEN d[i] ELSE 2 * g[i - 1]
        BY <3>2
      <4>2. i > Len(d) => i - 1 \in 1..m
        BY <1>1, <3>2
      <4> QED
        BY <2>2, <4>1, <4>2
    <3> QED
      BY <3>1, <3>2
  <2>4. Doubles(h, m + 1)
    BY <2>3
  <2> HIDE DEF h
  <2> QED
    BY <2>4
<1>4. n \in Exist
  <2> HIDE DEF Exist
  <2> QED
    BY <1>2, <1>3, SetInduction
<1>5. PICK g : g = CHOOSE f : Doubles(f, n)
  OBVIOUS
<1>6. Doubles(g, n)
  BY <1>4, <1>5
<1> DEFINE Positive == {m \in Nat : \A i \in 1..n : i <= m => g[i] \in Nat \ {0}}
<1>7. 0 \in Positive
  OBVIOUS
<1>8. ASSUME NEW m \in Nat, m \in Positive PROVE m + 1 \in Positive
  <2> SUFFICES ASSUME NEW i \in 1..n, i = m + 1 PROVE g[i] \in Nat \ {0}
    BY <1>8
  <2>1. g[i] = IF i <= Len(d) THEN d[i] ELSE 2 * g[i - 1]
    BY <1>6
  <2>2. CASE i <= Len(d)
    BY <1>1, <2>1, <2>2
  <2>3. CASE i > Len(d)
    <3>1. i - 1 \in 1..n /\ i - 1 <= m
      BY <1>1, <2>3
    <3>2. g[i - 1] \in Nat \ {0}
      BY <1>8, <3>1
    <3> QED
      BY <1>1, <2>1, <2>3, <3>2
  <2> QED
    BY <1>1, <2>2, <2>3
<1>9. n \in Positive
  <2> HIDE DEF Positive
  <2> QED
    BY <1>7, <1>8, SetInduction
<1>10. [i \in 1..n |-> g[i]] \in [1..n -> Nat \ {0}]
  BY <1>9
<1>11. Padded(d, n) = IF Len(d) < n THEN [i \in 1..n |-> g[i]] ELSE d
  BY <1>5 DEF Padded
<1>12. CASE Len(d) < n
  BY <1>10, <1>11, <1>12
<1>13. CASE ~(Len(d) < n)
  BY <1>1, <1>11, <1>13
<1> QED
  BY <1>12, <1>13

\* A message carries a delay for each of its tries, and one that goes through
\* an exchange waits.
Paced(e) == /\ e.delay \in Nat /\ e.exchange \in BOOLEAN
            /\ e.middleware # 0 =>
                  e.tries.delays \in Seq(Nat \ {0}) /\ e.tries.max <= Len(e.tries.delays)
Waits(e) == e.middleware # 0 /\ e.exchange => e.delay > 0

Pace == /\ delays \in Seq(Nat \ {0}) /\ delays # <<>>
        /\ Len(copies) <= MaxCopies /\ crashes \in 0..MaxCrashes
        /\ \A c \in 1..Len(copies) : Paced(copies[c]) /\ Waits(copies[c])
        /\ \A i \in 1..Len(records) : Paced(records[i].envelope)

LEMMA EnvelopePace ==
    ASSUME Inv, Pace, NEW c \in Ids, At(c, "handler")
    PROVE  /\ Paced(Envelope(c))
           /\ First(meta[c]) \/ ~GivesUp(Counted(c)) => Waits(Envelope(c))
           /\ Padded(delays, MaxTries[job[c]]) \in Seq(Nat \ {0})
           /\ Padded(delays, MaxTries[job[c]]) # <<>>
<1>1. /\ c \in 1..Len(copies) /\ IsMessage(copies[c]) /\ job[c] \in Jobs
  BY Existing DEF At
<1>2. job[c] # 0 /\ MaxTries[job[c]] \in Nat \ {0}
  <2>1. job[c] # 0
    BY <1>1, JobNumbers
  <2>2. MaxTries[job[c]] \in Nat \ {0}
    BY <1>1, ReprocessingAssumption
  <2> QED
    BY <2>1, <2>2
<1>3. PICK d : d = Padded(delays, MaxTries[job[c]])
  OBVIOUS
<1>4. d \in Seq(Nat \ {0}) /\ Len(d) >= MaxTries[job[c]] /\ d # <<>>
  BY <1>2, <1>3, PaddedDelays DEF Pace
<1>5. PICK t : t = Counted(c)
  OBVIOUS
<1>6. PICK h : h = Delay(c, t)
  OBVIOUS
<1>7. PICK s : s = IF job[c] \in EarlyWriters THEN Written(c) ELSE state[c]
  OBVIOUS
<1>8. Envelope(c) =
         [origin |-> copies[c].origin, depth |-> copies[c].depth + 1,
          replays |-> copies[c].replays, exchange |-> copies[c].exchange,
          delay |-> h, middleware |-> job[c], tries |-> t, state |-> s, done |-> done[c]]
  BY <1>1, <1>5, <1>6, <1>7, EnvelopeFields
<1>9. PICK e : e = Envelope(c)
  OBVIOUS
<1>10. e.delay = h /\ e.exchange = copies[c].exchange /\ e.middleware = job[c] /\ e.tries = t
  BY <1>8, <1>9
<1>11. copies[c].exchange \in BOOLEAN
  BY <1>1 DEF Pace, Paced
<1>12. t.current \in Nat /\ t.max \in Nat \ {0}
  BY <1>5, CountedTries
<1>13. CASE First(meta[c])
  <2>1. t.current = 1 /\ t.max = MaxTries[job[c]] /\ t.delays = d
    BY <1>3, <1>5, <1>13, CountedTries
  <2>2. h = IF copies[c].exchange /\ t.current <= Len(d) THEN d[t.current] ELSE 0
    BY <1>3, <1>6, <1>13 DEF Delay
  <2>3. Len(d) >= 1 /\ d[1] \in Nat \ {0}
    BY <1>4
  <2>4. h \in Nat /\ (copies[c].exchange => h > 0)
    BY <1>11, <2>1, <2>2, <2>3
  <2>5. Paced(e) /\ Waits(e)
    BY <1>4, <1>10, <1>11, <2>1, <2>4 DEF Paced, Waits
  <2> QED
    BY <1>3, <1>4, <1>9, <2>5
<1>14. CASE ~First(meta[c])
  <2>1. /\ copies[c].middleware # 0 /\ copies[c].tries.current \in Nat
        /\ t.current = copies[c].tries.current + 1 /\ t.max = copies[c].tries.max
        /\ t.delays = copies[c].tries.delays
    BY <1>5, <1>14, CountedTries
  <2>2. t.delays \in Seq(Nat \ {0}) /\ t.max <= Len(t.delays)
    BY <1>1, <2>1 DEF Pace, Paced
  <2>3. h = IF copies[c].exchange /\ t.current <= Len(t.delays) THEN t.delays[t.current] ELSE 0
    BY <1>6, <1>14 DEF Delay
  <2>4. t.current \in Nat \ {0} /\ \A i \in 1..Len(t.delays) : t.delays[i] \in Nat \ {0}
    BY <2>1, <2>2
  <2>5. h \in Nat /\ (t.current <= t.max /\ copies[c].exchange => h > 0)
    BY <1>11, <1>12, <2>2, <2>3, <2>4
  <2>6. Paced(e)
    BY <1>10, <1>11, <2>2, <2>5 DEF Paced
  <2>7. ~GivesUp(t) => Waits(e)
    BY <1>10, <1>12, <2>4, <2>5 DEF Waits, GivesUp
  <2> QED
    BY <1>3, <1>4, <1>5, <1>9, <1>14, <2>6, <2>7
<1> QED
  BY <1>13, <1>14

LEMMA ReplayedPace ==
    ASSUME Stored, Pace, NEW i \in 1..Len(records)
    PROVE  Paced(Replayed(i)) /\ Waits(Replayed(i))
<1>1. PICK e : e = records[i].envelope
  OBVIOUS
<1>2. Paced(e) /\ IsMessage(e)
  BY <1>1 DEF Pace, Stored
<1>3. PICK x : x = Replayed(i)
  OBVIOUS
<1>4. x.exchange = FALSE /\ x.delay = 0 /\ x.middleware = e.middleware /\ x.tries = e.tries
  BY <1>1, <1>2, <1>3 DEF Replayed, IsMessage
<1>5. Paced(x)
  <2>1. /\ 0 \in Nat /\ FALSE \in BOOLEAN
        /\ e.middleware # 0 =>
              e.tries.delays \in Seq(Nat \ {0}) /\ e.tries.max <= Len(e.tries.delays)
    BY <1>2 DEF Paced
  <2> QED
    BY <1>4, <2>1, Zenon DEF Paced
<1>6. Waits(x)
  BY <1>4, Zenon DEF Waits
<1> QED
  BY <1>3, <1>5, <1>6

LEMMA InitPace == ASSUME Init PROVE Pace
<1>1. Inv
  BY InitInv
<1>2. DOMAIN copies = 1..Originals /\ DOMAIN copies = 1..Len(copies) /\ Len(copies) \in Nat
  BY <1>1, LengthOfSequence DEF Inv, Typed, Init
<1>3. Len(copies) <= MaxCopies
  <2>1. Originals \in 1..Len(copies) /\ Len(copies) \in 1..Originals
    BY <1>2, ReprocessingAssumption
  <2> QED
    BY <1>2, <2>1, ReprocessingAssumption
<1>4. ASSUME NEW c \in 1..Len(copies) PROVE Paced(copies[c]) /\ Waits(copies[c])
  <2>1. copies[c] = Original(c)
    BY <1>2 DEF Init
  <2> QED
    BY <2>1 DEF Original, Paced, Waits
<1>5. Len(records) = 0 /\ delays = Delays /\ crashes = 0
  BY DEF Init
<1> QED
  BY <1>3, <1>4, <1>5, ReprocessingAssumption DEF Pace

LEMMA PaceStays ==
    ASSUME Pace, UNCHANGED <<copies, records, delays, crashes>> PROVE Pace'
BY DEF Pace

\* The steps of the decorator's catch, which pad the delays.
LEMMA FailurePace ==
    ASSUME Inv, Pace, NEW c \in Ids,
           HandlerFailsPublish(c) \/ HandlerFailsSave(c) \/ SendFails(c)
    PROVE  Pace'
<1>1. Typed /\ At(c, "handler")
  BY DEF Inv, HandlerFailsPublish, HandlerFailsSave, SendFails
<1>2. PICK d : d = Padded(delays, MaxTries[job[c]])
  OBVIOUS
<1>3. d \in Seq(Nat \ {0}) /\ d # <<>>
  BY <1>1, <1>2, EnvelopePace
<1>4. delays' = d /\ crashes' = crashes
  BY <1>2 DEF HandlerFailsPublish, HandlerFailsSave, SendFails
<1>5. PICK e : e = Envelope(c)
  OBVIOUS
<1>6. Paced(e)
  BY <1>1, <1>5, EnvelopePace
<1>7. CASE HandlerFailsPublish(c)
  <2>1. Waits(e)
    BY <1>1, <1>5, <1>7, EnvelopePace DEF HandlerFailsPublish
  <2>2. /\ copies' = Append(copies, e) /\ Len(copies) < MaxCopies /\ records' = records
    BY <1>5, <1>7 DEF HandlerFailsPublish
  <2>3. /\ Len(copies) \in Nat /\ Len(copies') = Len(copies) + 1
        /\ copies'[Len(copies) + 1] = e /\ \A i \in 1..Len(copies) : copies'[i] = copies[i]
    BY <1>1, <2>2, AppendToSequence, LengthOfSequence DEF Typed
  <2>4. ASSUME NEW i \in 1..Len(copies') PROVE Paced(copies'[i]) /\ Waits(copies'[i])
    <3>1. CASE i \in 1..Len(copies)
      BY <2>3, <3>1 DEF Pace
    <3>2. CASE i = Len(copies) + 1
      BY <1>6, <2>1, <2>3, <3>2
    <3> QED
      BY <2>3, <3>1, <3>2
  <2>5. Len(copies') <= MaxCopies
    BY <2>2, <2>3, ReprocessingAssumption
  <2> QED
    BY <1>3, <1>4, <2>2, <2>4, <2>5 DEF Pace
<1>8. CASE HandlerFailsSave(c)
  <2>1. PICK x : x = [envelope |-> e, deleted |-> FALSE]
    OBVIOUS
  <2>2. records' = Append(records, x) /\ copies' = copies
    BY <1>5, <1>8, <2>1 DEF HandlerFailsSave
  <2>3. /\ Len(records) \in Nat /\ Len(records') = Len(records) + 1
        /\ records'[Len(records) + 1] = x /\ \A i \in 1..Len(records) : records'[i] = records[i]
    BY <1>1, <2>2, AppendToSequence, LengthOfSequence DEF Typed
  <2>4. ASSUME NEW i \in 1..Len(records') PROVE Paced(records'[i].envelope)
    <3>1. CASE i \in 1..Len(records)
      BY <2>3, <3>1 DEF Pace
    <3>2. CASE i = Len(records) + 1
      BY <1>6, <2>1, <2>3, <3>2
    <3> QED
      BY <2>3, <3>1, <3>2
  <2> QED
    BY <1>3, <1>4, <2>2, <2>4 DEF Pace
<1>9. CASE SendFails(c)
  <2>1. copies' = copies /\ records' = records
    BY <1>9 DEF SendFails
  <2> QED
    BY <1>3, <1>4, <2>1 DEF Pace
<1> QED
  BY <1>7, <1>8, <1>9

LEMMA PublishPace ==
    ASSUME Inv, Pace, NEW r \in Requests, NEW sent \in SUBSET asked[r], RoutePublish(r, sent)
    PROVE  Pace'
<1>1. Stored /\ Len(copies') <= MaxCopies /\ Grows /\ sent \in SUBSET (1..Len(records))
  BY Published DEF Inv
<1>2. ASSUME NEW c \in 1..Len(copies') PROVE Paced(copies'[c]) /\ Waits(copies'[c])
  <2>1. CASE c \in 1..Len(copies)
    BY <1>1, <2>1 DEF Pace, Grows
  <2>2. CASE c \notin 1..Len(copies)
    <3>1. PICK i \in sent : copies'[c] = Replayed(i)
      BY <2>2, Published
    <3> QED
      BY <1>1, <3>1, ReplayedPace
  <2> QED
    BY <2>1, <2>2
<1> QED
  BY <1>1, <1>2 DEF Pace, RoutePublish

LEMMA DeletePace == ASSUME Inv, Pace, NEW r \in Requests, RouteDelete(r) PROVE Pace'
<1>1. Typed /\ Stored
  BY DEF Inv
<1>2. UNCHANGED <<copies, delays, crashes>>
  BY DEF RouteDelete
<1>3. Len(records') = Len(records)
      /\ \A i \in 1..Len(records) : records'[i].envelope = records[i].envelope
  <2>1. CASE records' = records
    BY <2>1
  <2>2. CASE records' = [i \in DOMAIN records |-> [records[i] EXCEPT
                                                    !.deleted = @ \/ i \in asked[r]]]
    <3>1. PICK S : S = asked[r]
      OBVIOUS
    <3>2. records' = [i \in DOMAIN records |-> [records[i] EXCEPT !.deleted = @ \/ i \in S]]
      BY <2>2, <3>1, Zenon
    <3>3. /\ Len(records') = Len(records)
          /\ \A i \in 1..Len(records) :
                records'[i] = [envelope |-> records[i].envelope,
                               deleted |-> records[i].deleted \/ i \in S]
      BY <1>1, <3>2, DeletedRecords, Zenon
    <3>4. ASSUME NEW i \in 1..Len(records) PROVE records'[i].envelope = records[i].envelope
      <4>1. PICK b : b = (records[i].deleted \/ i \in S)
        OBVIOUS
      <4>2. records'[i] = [envelope |-> records[i].envelope, deleted |-> b]
        BY <3>3, <4>1, Zenon
      <4> QED
        BY <4>2
    <3> QED
      BY <3>3, <3>4, Zenon
  <2> QED
    BY <2>1, <2>2, Zenon DEF RouteDelete
<1> QED
  BY <1>2, <1>3 DEF Pace

LEMMA NextPace == ASSUME Inv, Pace, [Next]_vars PROVE Pace'
<1>1. ASSUME NEW c \in Ids, Chain(c) PROVE Pace'
  <2>1. CASE HandlerFailsPublish(c) \/ HandlerFailsSave(c) \/ SendFails(c)
    BY <2>1, FailurePace
  <2>2. CASE Deliver(c) \/ EnterSkip(c) \/ EnterRun(c) \/ HandlerSucceeds(c) \/ Ack(c)
    BY <2>2, PaceStays DEF Deliver, EnterSkip, EnterRun, HandlerSucceeds, Ack
  <2> QED
    BY <1>1, <2>1, <2>2 DEF Chain
<1>2. ASSUME NEW r \in Requests, NEW ids \in SUBSET DOMAIN records, RouteGet(r, ids) PROVE Pace'
  BY <1>2, PaceStays DEF RouteGet
<1>3. ASSUME NEW r \in Requests, NEW sent \in SUBSET asked[r], RoutePublish(r, sent) PROVE Pace'
  BY <1>3, PublishPace
<1>4. ASSUME NEW r \in Requests, RouteDelete(r) PROVE Pace'
  BY <1>4, DeletePace
<1>5. CASE Crash
  <2>1. copies' = copies /\ records' = records /\ delays' = Delays /\ crashes' \in 0..MaxCrashes
    BY <1>5, ReprocessingAssumption DEF Crash, Pace
  <2> QED
    BY <2>1, ReprocessingAssumption DEF Pace
<1>6. CASE UNCHANGED vars
  BY <1>6, PaceStays DEF vars
<1> QED
  BY <1>1, <1>2, <1>3, <1>4, <1>5, <1>6 DEF Next

LEMMA PaceTypes == ASSUME Inv, Pace PROVE TypeOK
<1>1. /\ Typed /\ DOMAIN copies = 1..Len(copies) /\ DOMAIN records = 1..Len(records)
      /\ Len(copies) \in Nat
  BY LengthOfSequence DEF Inv, Typed
<1>2. Len(copies) \in 0..MaxCopies
  BY <1>1, ReprocessingAssumption DEF Pace
<1>3. ASSUME NEW c \in 1..Len(copies)
      PROVE  /\ copies[c].origin \in 1..Originals /\ copies[c].middleware \in Jobs \cup {0}
             /\ copies[c].delay \in Nat /\ copies[c].state \in [Jobs -> Nat]
  <2>1. IsMessage(copies[c]) /\ Paced(copies[c])
    BY DEF Inv, Sent, Pace
  <2> QED
    BY <2>1, DoneOfMessage DEF IsMessage, Paced
<1>4. ASSUME NEW c \in Ids PROVE meta[c].middleware \in Jobs \cup {0}
  <2>1. meta[c] = NoMeta \/ MetaOf(c)
    BY DEF Inv, Chains, ChainOf
  <2>2. CASE meta[c] = NoMeta
    BY <2>2 DEF NoMeta
  <2>3. ASSUME NEW m \in Jobs \cup {0},
               meta[c] = [defined |-> TRUE, middleware |-> m, tries |-> copies[c].tries]
        PROVE  meta[c].middleware \in Jobs \cup {0}
    BY <2>3
  <2> QED
    BY <2>1, <2>2, <2>3 DEF MetaOf
<1>5. \A i \in 1..Len(records) : records[i].deleted \in BOOLEAN
  BY Zenon DEF Inv, Stored
<1>6. delays \in Seq(Nat) /\ crashes \in 0..MaxCrashes
  BY DEF Pace
<1> QED
  BY <1>1, <1>2, <1>3, <1>4, <1>5, <1>6, Zenon DEF TypeOK, Typed

\* Every retry through an exchange waits, whichever decorator extended the array
\* of delays (src/data/usecases/mq/mq-send-reprocessing.ts), and the state keeps
\* its types.
THEOREM RetriesWait == Spec => []RetryIsDelayed
<1>1. Init => Inv /\ Pace
  BY InitInv, InitPace
<1>2. Inv /\ Pace /\ [Next]_vars => (Inv /\ Pace)'
  BY NextInv, NextPace
<1>3. ASSUME Inv, Pace PROVE RetryIsDelayed
  <2>1. TypeOK /\ DOMAIN copies = 1..Len(copies)
    BY <1>3, PaceTypes, LengthOfSequence DEF Inv, Typed
  <2>2. \A c \in 1..Len(copies) : Waits(copies[c])
    BY <1>3 DEF Pace
  <2> QED
    BY <2>1, <2>2 DEF RetryIsDelayed, Waits, IsEnvelope
<1> QED
  BY <1>1, <1>2, <1>3, PTL DEF Spec
=============================================================================
