----------------------------- MODULE WorkProofs -----------------------------
(***************************************************************************)
(* Proofs about Work, for every number of callbacks, every limit, and      *)
(* every kind of the methods. The steps of splitPromises() and the steps   *)
(* of the decorated methods touch different variables, so each has its own *)
(* invariant: Slots and Calls.                                             *)
(***************************************************************************)
EXTENDS Work, FiniteSetTheorems, WellFoundedInduction, TLAPS

\* What runs was started and not popped yet, and with what is left of the
\* first wave it takes every slot, unless the stack is empty.
Slots == /\ wave \in Nat
         /\ next \in Nat
         /\ wave < next
         /\ running \subseteq (wave + 1)..(next - 1)
         /\ IsFiniteSet(running)
         /\ Cardinality(running) + wave <= MaxRunning
         /\ next <= N => Cardinality(running) + wave = MaxRunning

\* Of one method: what its span, its end and its log are while it is idle,
\* running, or settled.
CallOf(i) ==
    /\ call[i] = "idle" => ends[i] = 0 /\ logged[i] = 0
    /\ span[i] = "given" => kind[i].decorator # "log"
    /\ span[i] # "given" => ends[i] = 0
    /\ call[i] = "running" =>
        /\ logged[i] = 0
        /\ kind[i].form # "sync"
        /\ span[i] = "given" => ends[i] = IF Awaited(i) THEN 0 ELSE 1
    /\ Settled(i) =>
        /\ method[i] # "none"
        /\ logged[i] # 0 => logged[i] = 1 /\ call[i] = "ok"
        /\ span[i] = "given" =>
            \/ ends[i] = 1
            \/ /\ kind[i].decorator = "span" /\ kind[i].form = "sync"
               /\ call[i] = "error" /\ ends[i] = 0

CallsTyped == /\ call \in [Methods -> {"idle", "running", "ok", "error"}]
              /\ method \in [Methods -> Outcomes \cup {"none"}]
              /\ span \in [Methods -> {"none", "given"}]
              /\ ends = [i \in Methods |-> ends[i]]
              /\ logged = [i \in Methods |-> logged[i]]

Calls == CallsTyped /\ \A i \in Methods : CallOf(i)

-----------------------------------------------------------------------------

\* The first wave fills the slots, or holds every callback.
LEMMA SlotsInit == SplitInit => Slots
<1> SUFFICES ASSUME SplitInit PROVE Slots
  OBVIOUS
<1>1. FirstWave \in Nat /\ FirstWave <= MaxRunning /\ (FirstWave < N => FirstWave = MaxRunning)
  BY SplitAssumption DEF FirstWave
<1>2. IsFiniteSet(running) /\ Cardinality(running) = 0
  BY FS_EmptySet DEF SplitInit
<1> QED
  BY <1>1, <1>2, SplitAssumption DEF SplitInit, Slots

\* A callback that is started takes the slot the wave held for it.
LEMMA SlotsStart == Slots /\ StartWave => Slots'
<1> SUFFICES ASSUME Slots, StartWave PROVE Slots'
  OBVIOUS
<1> USE SplitAssumption
<1>1. wave \notin running /\ IsFiniteSet(running)
  BY DEF Slots
<1>2. IsFiniteSet(running') /\ Cardinality(running') = Cardinality(running) + 1
  BY <1>1, FS_AddElement DEF StartWave
<1>3. Cardinality(running) \in Nat
  BY <1>1, FS_CardinalityType
<1>4. running' \subseteq (wave' + 1)..(next' - 1)
  BY DEF Slots, StartWave
<1> QED
  BY <1>2, <1>3, <1>4 DEF Slots, StartWave

\* A callback that settled gives its slot to the next one, if there is one.
LEMMA SlotsSettle == ASSUME NEW i, NEW r, Slots, Settle(i, r) PROVE Slots'
<1> USE SplitAssumption
<1> DEFINE others == running \ {i}
<1>1. i \in running /\ IsFiniteSet(running)
  BY DEF Slots, Settle
<1>2. IsFiniteSet(others) /\ Cardinality(others) = Cardinality(running) - 1
  BY <1>1, FS_RemoveElement
<1>3. Cardinality(running) \in Nat
  BY <1>1, FS_CardinalityType
<1>4. UNCHANGED wave /\ RunNext(i)
  BY DEF Settle
<1>5. CASE next <= N
  <2>1. running' = others \cup {next} /\ next' = next + 1
    BY <1>4, <1>5 DEF RunNext
  <2>2. next \notin others
    BY DEF Slots
  <2>3. IsFiniteSet(running') /\ Cardinality(running') = Cardinality(others) + 1
    BY <1>2, <2>1, <2>2, FS_AddElement
  <2>4. running' \subseteq (wave' + 1)..(next' - 1)
    <3>1. wave' = wave /\ wave \in Nat /\ next \in Nat /\ wave < next
      BY <1>4 DEF Slots
    <3>2. running \subseteq (wave + 1)..(next - 1)
      BY DEF Slots
    <3>3. ASSUME NEW j \in running' PROVE j \in (wave + 1)..next
      <4>1. CASE j = next
        BY <3>1, <4>1
      <4>2. CASE j \in running
        BY <3>1, <3>2, <4>2
      <4> QED
        BY <2>1, <3>3, <4>1, <4>2
    <3> QED
      BY <2>1, <3>1, <3>3
  <2> QED
    BY <1>2, <1>3, <1>4, <1>5, <2>1, <2>3, <2>4 DEF Slots
<1>6. CASE ~(next <= N)
  <2>1. running' = others /\ next' = next
    BY <1>4, <1>6 DEF RunNext
  <2>2. running' \subseteq (wave' + 1)..(next' - 1)
    BY <1>4, <2>1 DEF Slots
  <2>3. IsFiniteSet(running') /\ Cardinality(running') + wave' <= MaxRunning
    BY <1>2, <1>3, <1>4, <2>1 DEF Slots
  <2> QED
    BY <1>4, <1>6, <2>1, <2>2, <2>3 DEF Slots
<1> QED
  BY <1>5, <1>6

LEMMA SlotsStep == Slots /\ [Next]_vars => Slots'
<1> SUFFICES ASSUME Slots, [Next]_vars PROVE Slots'
  OBVIOUS
<1>1. CASE WaveStarts
  BY <1>1, SlotsStart DEF WaveStarts
<1>2. CASE \E i \in 1..N, outcome \in Outcomes : CallSettles(i, outcome)
  BY <1>2 DEF CallSettles, splitVars, Slots
<1>3. CASE \E i \in 1..N : Settles(i)
  BY <1>3, SlotsSettle DEF Settles
<1>4. CASE UNCHANGED vars
  BY <1>4 DEF vars, splitVars, Slots
<1> QED
  BY <1>1, <1>2, <1>3, <1>4 DEF Next, Done

LEMMA SlotsAlways == Spec => []Slots
<1>1. Init => Slots
  BY SlotsInit DEF Init
<1> QED
  BY <1>1, SlotsStep, PTL DEF Spec

\* Never more than maxRunning callbacks run, whatever settles while the first
\* wave is being started.
LEMMA LimitIsKept == Spec => []AtMostMaxRunning
<1>1. Slots => AtMostMaxRunning
  <2> SUFFICES ASSUME Slots PROVE AtMostMaxRunning
    OBVIOUS
  <2>1. Cardinality(running) \in Nat
    BY FS_CardinalityType DEF Slots
  <2> QED
    BY <2>1, SplitAssumption DEF Slots, AtMostMaxRunning
<1> QED
  BY <1>1, SlotsAlways, PTL

\* While callbacks wait no slot is empty once the first wave is started.
LEMMA SlotsStayFull == Spec => []NoIdleSlot
<1>1. Slots => NoIdleSlot
  <2> SUFFICES ASSUME Slots PROVE NoIdleSlot
    OBVIOUS
  <2>1. Cardinality(running) \in Nat
    BY FS_CardinalityType DEF Slots
  <2> QED
    BY <2>1, SplitAssumption DEF Slots, NoIdleSlot
<1> QED
  BY <1>1, SlotsAlways, PTL

\* Every settled callback starts exactly one other, as long as there is one.
THEOREM SlotsAreExactAlways == Spec => []SlotsAreExact
BY LimitIsKept, SlotsStayFull, PTL DEF SlotsAreExact

-----------------------------------------------------------------------------

\* Before its call a method has no span, no end and no log.
LEMMA CallsStart == CallsInit => Calls
<1> SUFFICES ASSUME CallsInit PROVE Calls
  OBVIOUS
<1>1. CallsTyped
  BY DEF CallsInit, CallsTyped
<1>2. ASSUME NEW i \in Methods PROVE CallOf(i)
  BY DEF CallsInit, CallOf, Settled
<1> QED
  BY <1>1, <1>2 DEF Calls

\* A step that leaves a method alone leaves what is said of it.
LEMMA OthersStay ==
    ASSUME NEW j, CallOf(j), kind' = kind, call'[j] = call[j], method'[j] = method[j],
           span'[j] = span[j], ends'[j] = ends[j], logged'[j] = logged[j]
    PROVE  CallOf(j)'
BY DEF CallOf, Settled, Awaited

\* The call of a method: a plain function settles at once.
LEMMA CallsCall ==
    ASSUME NEW i, NEW traced \in BOOLEAN, NEW outcome \in Outcomes,
           Calls, Call(i, traced, outcome)
    PROVE  Calls'
<1> DEFINE opened == traced /\ kind[i].decorator # "log"
<1> DEFINE sync == kind[i].form = "sync"
<1>0. CallsTyped /\ kind' = kind
  BY DEF Calls, Call
<1>1. CallsTyped'
  BY <1>0 DEF Call, CallsTyped, SettlesAs
<1>2. ASSUME NEW j \in Methods PROVE CallOf(j)'
  <2>1. CASE j # i
    <3>1. CallOf(j)
      BY DEF Calls
    <3>2. call'[j] = call[j] /\ method'[j] = method[j] /\ span'[j] = span[j]
          /\ ends'[j] = ends[j] /\ logged'[j] = logged[j]
      BY <1>0, <2>1 DEF Call, CallsTyped
    <3> QED
      BY <1>0, <3>1, <3>2, OthersStay
  <2>2. CASE j = i
    <3>1. /\ span'[i] = IF opened THEN "given" ELSE "none"
          /\ ends'[i] = IF ~opened \/ Awaited(i) THEN 0
                        ELSE IF sync THEN EndsWith(i, outcome) ELSE 1
      BY <1>0, <2>2 DEF Call, CallsTyped
    <3>2. CASE sync
      <4>1. /\ method'[i] = outcome
            /\ call'[i] = SettlesAs(i, outcome, opened)
            /\ logged'[i] = Logs(i, outcome)
        BY <1>0, <2>2, <3>2 DEF Call, CallsTyped
      <4>2. SettlesAs(i, outcome, opened) = "ok" \/ SettlesAs(i, outcome, opened) = "error"
        BY DEF SettlesAs
      <4>3. outcome # "none"
        BY DEF Outcomes
      <4>4. logged'[i] # 0 => logged'[i] = 1 /\ call'[i] = "ok"
        BY <4>1 DEF Logs, SettlesAs
      <4>5. opened => \/ ends'[i] = 1
                      \/ /\ kind[i].decorator = "span"
                         /\ call'[i] = "error" /\ ends'[i] = 0
        BY <3>1, <3>2, <4>1 DEF EndsWith, Awaited, SettlesAs
      <4> QED
        BY <1>0, <2>2, <3>1, <3>2, <4>1, <4>2, <4>3, <4>4, <4>5 DEF CallOf, Settled
    <3>3. CASE ~sync
      <4>1. call'[i] = "running" /\ logged'[i] = 0
        BY <1>0, <2>2, <3>3 DEF Call, CallsTyped, Calls, CallOf
      <4> QED
        BY <1>0, <2>2, <3>1, <3>3, <4>1 DEF CallOf, Settled, Awaited
    <3> QED
      BY <3>2, <3>3
  <2> QED
    BY <2>1, <2>2
<1> QED
  BY <1>1, <1>2 DEF Calls

\* The promise of a method settles: only the span of an awaited one is open.
LEMMA CallsMethodSettles ==
    ASSUME NEW i, NEW outcome \in Outcomes, Calls, MethodSettles(i, outcome)
    PROVE  Calls'
<1> DEFINE open == span[i] = "given" /\ Awaited(i)
<1>0. CallsTyped /\ kind' = kind /\ span' = span
  BY DEF Calls, MethodSettles
<1>1. CallsTyped'
  BY <1>0 DEF MethodSettles, CallsTyped, SettlesAs
<1>2. ASSUME NEW j \in Methods PROVE CallOf(j)'
  <2>1. CASE j # i
    <3>1. CallOf(j)
      BY DEF Calls
    <3>2. call'[j] = call[j] /\ method'[j] = method[j] /\ span'[j] = span[j]
          /\ ends'[j] = ends[j] /\ logged'[j] = logged[j]
      BY <1>0, <2>1 DEF MethodSettles, CallsTyped
    <3> QED
      BY <1>0, <3>1, <3>2, OthersStay
  <2>2. CASE j = i
    <3>1. call[i] = "running" /\ CallOf(i)
      BY <2>2 DEF MethodSettles, Calls
    <3>2. /\ method'[i] = outcome
          /\ call'[i] = SettlesAs(i, outcome, open)
          /\ ends'[i] = ends[i] + (IF open THEN EndsWith(i, outcome) ELSE 0)
          /\ logged'[i] = logged[i] + Logs(i, outcome)
      BY <1>0, <2>2 DEF MethodSettles, CallsTyped
    <3>3. call'[i] = "ok" \/ call'[i] = "error"
      BY <3>2 DEF SettlesAs
    <3>4. outcome # "none"
      BY DEF Outcomes
    <3>5. logged'[i] # 0 => logged'[i] = 1 /\ call'[i] = "ok"
      BY <3>1, <3>2 DEF Logs, SettlesAs, CallOf
    <3>6. span[i] = "given" => ends'[i] = 1
      <4>1. Awaited(i) => EndsWith(i, outcome) = 1
        BY DEF EndsWith, Awaited
      <4>2. span[i] = "given" => ends[i] = IF Awaited(i) THEN 0 ELSE 1
        BY <3>1 DEF CallOf
      <4> QED
        BY <3>2, <4>1, <4>2
    <3>7. span[i] = "given" => kind[i].decorator # "log"
      BY <3>1 DEF CallOf
    <3>8. span[i] # "given" => ends'[i] = 0
      <4>1. span[i] # "given" => ends[i] = 0 /\ ~open
        BY <3>1 DEF CallOf
      <4> QED
        BY <3>2, <4>1
    <3> QED
      BY <1>0, <2>2, <3>2, <3>3, <3>4, <3>5, <3>6, <3>7, <3>8 DEF CallOf, Settled
  <2> QED
    BY <2>1, <2>2
<1> QED
  BY <1>1, <1>2 DEF Calls

LEMMA CallsStep == Calls /\ [Next]_vars => Calls'
<1> SUFFICES ASSUME Calls, [Next]_vars PROVE Calls'
  OBVIOUS
<1>0. UNCHANGED callVars => Calls'
  BY DEF callVars, Calls, CallsTyped, CallOf, Settled, Awaited
<1>1. CASE WaveStarts
  BY <1>1, CallsCall DEF WaveStarts, Begins
<1>2. CASE \E i \in 1..N, outcome \in Outcomes : CallSettles(i, outcome)
  BY <1>2, CallsMethodSettles DEF CallSettles
<1>3. CASE \E i \in 1..N : Settles(i)
  BY <1>0, <1>3, CallsCall DEF Settles, Begins
<1>4. CASE UNCHANGED vars
  BY <1>0, <1>4 DEF vars
<1> QED
  BY <1>1, <1>2, <1>3, <1>4 DEF Next, Done

LEMMA CallsAlways == Spec => []Calls
<1>1. Init => Calls
  BY CallsStart DEF Init
<1> QED
  BY <1>1, CallsStep, PTL DEF Spec

\* A settled call has ended its span exactly once, except the span of a plain
\* function that throws.
LEMMA SpansEnd == Spec => []EndedWhenSettled
<1>1. Calls => EndedWhenSettled
  BY DEF Calls, CallOf, EndedWhenSettled
<1> QED
  BY <1>1, CallsAlways, PTL

\* The span of an async method is open until the method has settled.
LEMMA SpansCover == Spec => []SpanCoversMethod
<1>1. Calls => SpanCoversMethod
  <2> SUFFICES ASSUME Calls, NEW i \in Methods, ends[i] > 0, kind[i].form = "async"
               PROVE  method[i] # "none"
    BY DEF SpanCoversMethod
  <2>1. CallOf(i) /\ call[i] \in {"idle", "running", "ok", "error"}
    BY DEF Calls, CallsTyped
  <2> QED
    BY <2>1 DEF CallOf, Settled, Awaited
<1> QED
  BY <1>1, CallsAlways, PTL

\* Only calls that succeeded are logged, and once.
LEMMA LogsAreOfSuccess == Spec => []LoggedSucceeded
<1>1. Calls => LoggedSucceeded
  <2> SUFFICES ASSUME Calls, NEW i \in Methods, logged[i] > 0
               PROVE  logged[i] = 1 /\ call[i] = "ok"
    BY DEF LoggedSucceeded
  <2>1. CallOf(i) /\ call[i] \in {"idle", "running", "ok", "error"}
    BY DEF Calls, CallsTyped
  <2> QED
    BY <2>1 DEF CallOf, Settled
<1> QED
  BY <1>1, CallsAlways, PTL

\* Spans are ended once and after their methods, and logs are of successes.
THEOREM TracesAreExactAlways == Spec => []TracesAreExact
BY SpansEnd, SpansCover, LogsAreOfSuccess, PTL DEF TracesAreExact

-----------------------------------------------------------------------------
(* The order of the results.                                               *)

\* Every callback is at one place: in the wave, waiting, running, or settled
\* with the result of its call.
Order ==
    /\ wave \in 0..FirstWave /\ next \in (FirstWave + 1)..(N + 1)
    /\ outputs \in Seq([index : 1..N, result : {"ok", "error"}])
    /\ {outputs[k].index : k \in 1..Len(outputs)} = ((wave + 1)..(next - 1)) \ running
    /\ \A k, l \in 1..Len(outputs) : outputs[k].index = outputs[l].index => k = l
    /\ Len(outputs) + Cardinality(running) + wave = next - 1

\* What was put out, or resolved to, is what the calls settled to.
Kept ==
    /\ \A k \in 1..Len(outputs) : /\ Settled(outputs[k].index)
                                  /\ outputs[k].result = call[outputs[k].index]
    /\ \/ resolved = Pending
       \/ /\ resolved \in [1..N -> {"ok", "error"}]
          /\ \A i \in 1..N : Settled(i) /\ resolved[i] = call[i]

LEMMA LeastElement ==
    ASSUME NEW T, T \subseteq Nat, T # {}
    PROVE  \E i \in T : \A j \in T : i <= j
<1>1. PICK R : R = OpToRel(<, Nat)
  OBVIOUS
<1>2. IsWellFoundedOn(R, Nat)
  BY <1>1, NatLessThanWellFounded
<1>3. \A x, y \in Nat : <<x, y>> \in R <=> x < y
  BY <1>1 DEF OpToRel
<1>4. PICK i \in T : \A j \in T : ~ (<<j, i>> \in R)
  BY <1>2, WFMin
<1>5. \A j \in T : ~ (j < i)
  BY <1>3, <1>4
<1> QED
  BY <1>5

\* A map of 1..n onto itself that never descends moves nothing.
LEMMA NothingMoves ==
    ASSUME NEW n \in Nat, NEW g \in [1..n -> 1..n],
           \A v \in 1..n : \E i \in 1..n : g[i] = v,
           \A i, j \in 1..n : i < j => g[i] <= g[j]
    PROVE  \A i \in 1..n : g[i] = i
<1>1. \A i \in 1..n : g[i] <= i
  <2>1. PICK T : T = {i \in 1..n : g[i] > i}
    OBVIOUS
  <2>2. \A i \in 1..n : i \in T <=> g[i] > i
    BY <2>1
  <2>3. SUFFICES ASSUME T # {} PROVE FALSE
    BY <2>2
  <2>4. T \subseteq 1..n /\ T \subseteq Nat
    BY <2>1
  <2>5. PICK i \in T : \A j \in T : i <= j
    BY <2>3, <2>4, LeastElement
  <2>6. i \in 1..n /\ g[i] > i
    BY <2>2, <2>4
  <2>7. PICK k \in 1..n : g[k] = i
    BY <2>6
  <2>8. ~(k < i)
    <3>1. ~(g[k] > k)  \/ i <= k
      BY <2>2, <2>5
    <3> QED
      BY <2>6, <2>7, <3>1
  <2>9. ~(i < k)
    BY <2>6, <2>7
  <2> QED
    BY <2>6, <2>7, <2>8, <2>9
<1>2. \A i \in 1..n : g[i] >= i
  <2>1. PICK T : T = {m \in 0..n : n - m \in 1..n /\ g[n - m] < n - m}
    OBVIOUS
  <2>2. \A m \in 0..n : m \in T <=> n - m \in 1..n /\ g[n - m] < n - m
    BY <2>1
  <2>3. ASSUME NEW i \in 1..n PROVE n - i \in T <=> g[i] < i
    <3>1. n - i \in 0..n /\ n - (n - i) = i
      OBVIOUS
    <3> QED
      BY <2>2, <3>1
  <2>4. SUFFICES ASSUME T # {} PROVE FALSE
    BY <2>3
  <2>5. T \subseteq 0..n /\ T \subseteq Nat
    BY <2>1
  <2>6. PICK m \in T : \A j \in T : m <= j
    BY <2>4, <2>5, LeastElement
  <2>7. PICK i \in 1..n : m = n - i /\ g[i] < i
    <3>1. m \in 0..n /\ n - m \in 1..n /\ g[n - m] < n - m
      BY <2>2, <2>5
    <3>2. m = n - (n - m)
      BY <3>1
    <3> QED
      BY <3>1, <3>2
  <2>8. PICK k \in 1..n : g[k] = i
    OBVIOUS
  <2>9. ~(i < k)
    <3>1. g[k] < k => m <= n - k
      BY <2>3, <2>6
    <3> QED
      BY <2>7, <2>8, <3>1
  <2>10. ~(k < i)
    BY <2>7, <2>8
  <2> QED
    BY <2>7, <2>8, <2>9, <2>10
<1> QED
  BY <1>1, <1>2

\* When every index was put out once, sort() puts i at place i.
LEMMA SortedByIndex ==
    ASSUME NEW n \in Nat, NEW outs, DOMAIN outs = 1..n,
           \A k \in 1..n : outs[k].index \in 1..n,
           \A v \in 1..n : \E k \in 1..n : outs[k].index = v,
           \A k, l \in 1..n : outs[k].index = outs[l].index => k = l
    PROVE  \A i \in 1..n : /\ ByIndex(outs)[i].index = i
                           /\ \E k \in 1..n : ByIndex(outs)[i] = outs[k]
<1> DEFINE Sorts(p) == \A i, j \in 1..n : i < j => outs[p[i]].index <= outs[p[j]].index
<1>1. \E p \in Bijection(1..n, 1..n) : Sorts(p)
  <2>1. PICK p : p = [v \in 1..n |-> CHOOSE k \in 1..n : outs[k].index = v]
    OBVIOUS
  <2>2. ASSUME NEW v \in 1..n PROVE p[v] \in 1..n /\ outs[p[v]].index = v
    BY <2>1
  <2>3. p \in [1..n -> 1..n]
    BY <2>1, <2>2
  <2>4. ASSUME NEW v \in 1..n, NEW w \in 1..n, p[v] = p[w] PROVE v = w
    <3>1. outs[p[v]].index = v /\ outs[p[w]].index = w
      BY <2>2
    <3> QED
      BY <2>4, <3>1, Zenon
  <2>5. ASSUME NEW k \in 1..n PROVE \E v \in 1..n : p[v] = k
    <3>1. PICK v \in 1..n : outs[k].index = v
      OBVIOUS
    <3> QED
      BY <2>2, <3>1
  <2>6. Sorts(p)
    <3>1. ASSUME NEW i \in 1..n, NEW j \in 1..n, i < j
          PROVE  outs[p[i]].index <= outs[p[j]].index
      <4>1. outs[p[i]].index = i /\ outs[p[j]].index = j
        BY <2>2
      <4>2. i <= j
        BY <3>1
      <4> QED
        BY <4>1, <4>2, Zenon
    <3> QED
      BY <3>1
  <2>7. p \in Bijection(1..n, 1..n)
    BY <2>3, <2>4, <2>5 DEF Bijection, Injection, Surjection, IsInjective
  <2> QED
    BY <2>6, <2>7
<1>2. PICK q : q = CHOOSE p \in Bijection(1..n, 1..n) : Sorts(p)
  OBVIOUS
<1>3. q \in Bijection(1..n, 1..n) /\ Sorts(q)
  BY <1>1, <1>2
<1>4. q \in [1..n -> 1..n] /\ \A k \in 1..n : \E i \in 1..n : q[i] = k
  BY <1>3 DEF Bijection, Surjection
<1>5. ByIndex(outs) = [i \in 1..n |-> outs[q[i]]]
  BY <1>2 DEF ByIndex
<1> DEFINE g == [i \in 1..n |-> outs[q[i]].index]
<1>6. g \in [1..n -> 1..n]
  BY <1>4
<1>7. \A v \in 1..n : \E i \in 1..n : g[i] = v
  <2> SUFFICES ASSUME NEW v \in 1..n PROVE \E i \in 1..n : g[i] = v
    OBVIOUS
  <2>1. PICK k \in 1..n : outs[k].index = v
    OBVIOUS
  <2>2. PICK i \in 1..n : q[i] = k
    BY <1>4
  <2> QED
    BY <2>1, <2>2
<1>8. \A i, j \in 1..n : i < j => g[i] <= g[j]
  BY <1>3
<1>9. \A i \in 1..n : g[i] = i
  <2> HIDE DEF g
  <2> QED
    BY <1>6, <1>7, <1>8, NothingMoves
<1> QED
  BY <1>4, <1>5, <1>9

-----------------------------------------------------------------------------
(* The results of splitPromises().                                         *)

LEMMA FirstWaveType == FirstWave \in 0..N
BY SplitAssumption DEF FirstWave

\* A call that has settled stays as it is.
LEMMA SettledStays ==
    ASSUME CallsTyped, [Next]_vars, NEW i \in Methods, Settled(i)
    PROVE  call'[i] = call[i]
<1>1. ASSUME NEW j, NEW traced \in BOOLEAN, NEW outcome \in Outcomes, Call(j, traced, outcome)
      PROVE  call'[i] = call[i]
  <2>1. j # i
    BY <1>1 DEF Call, Settled
  <2> QED
    BY <1>1, <2>1 DEF Call, CallsTyped
<1>2. ASSUME NEW j, NEW outcome \in Outcomes, MethodSettles(j, outcome)
      PROVE  call'[i] = call[i]
  <2>1. j # i
    BY <1>2 DEF MethodSettles, Settled
  <2> QED
    BY <1>2, <2>1 DEF MethodSettles, CallsTyped
<1>3. CASE WaveStarts
  BY <1>1, <1>3 DEF WaveStarts, Begins
<1>4. CASE \E j \in 1..N, outcome \in Outcomes : CallSettles(j, outcome)
  BY <1>2, <1>4 DEF CallSettles
<1>5. CASE \E j \in 1..N : Settles(j)
  BY <1>1, <1>5 DEF Settles, Begins, callVars
<1>6. CASE UNCHANGED vars
  BY <1>6 DEF vars, callVars
<1> QED
  BY <1>3, <1>4, <1>5, <1>6 DEF Next, Done

LEMMA OrderInit == SplitInit => Order /\ Kept
<1> SUFFICES ASSUME SplitInit PROVE Order /\ Kept
  OBVIOUS
<1>1. /\ wave = FirstWave /\ next = FirstWave + 1 /\ running = {} /\ outputs = <<>>
      /\ FirstWave \in 0..N /\ N \in Nat
  BY FirstWaveType, SplitAssumption DEF SplitInit
<1>2. Cardinality(running) = 0
  BY <1>1, FS_EmptySet
<1>3. Order
  <2>1. {outputs[k].index : k \in 1..Len(outputs)} = {}
    BY <1>1
  <2>2. ((wave + 1)..(next - 1)) \ running = {}
    BY <1>1
  <2> QED
    BY <1>1, <1>2, <2>1, <2>2 DEF Order
<1>4. Kept
  <2>1. 1..Len(outputs) = {}
    BY <1>1
  <2>2. resolved = IF N = 0 THEN <<>> ELSE Pending
    BY DEF SplitInit
  <2>3. N = 0 => <<>> \in [1..N -> {"ok", "error"}] /\ 1..N = {}
    OBVIOUS
  <2> QED
    BY <2>1, <2>2, <2>3 DEF Kept
<1> QED
  BY <1>3, <1>4

\* A callback that is started leaves the wave and runs.
LEMMA OrderStart == ASSUME Slots, Order, StartWave PROVE Order'
<1>0. /\ wave \in 1..FirstWave /\ next \in (FirstWave + 1)..(N + 1) /\ FirstWave \in 0..N
      /\ N \in Nat /\ wave' = wave - 1 /\ running' = running \cup {wave}
      /\ next' = next /\ outputs' = outputs
  BY FirstWaveType, SplitAssumption DEF Order, StartWave
<1>1. wave \notin running /\ IsFiniteSet(running)
  BY DEF Slots
<1>2. Cardinality(running') = Cardinality(running) + 1 /\ Cardinality(running) \in Nat
  BY <1>0, <1>1, FS_AddElement, FS_CardinalityType
<1>3. ((wave' + 1)..(next' - 1)) \ running' = ((wave + 1)..(next - 1)) \ running
  BY <1>0, <1>1
<1>4. wave' \in 0..FirstWave
  BY <1>0
<1>5. Len(outputs) + Cardinality(running') + wave' = next' - 1
  <2>1. Len(outputs) \in Nat /\ Len(outputs) + Cardinality(running) + wave = next - 1
    BY DEF Order
  <2> QED
    BY <1>0, <1>2, <2>1
<1> QED
  BY <1>0, <1>3, <1>4, <1>5 DEF Order

\* A callback that settles is put out, once, and the next one runs.
LEMMA OrderSettle ==
    ASSUME NEW i, NEW r \in {"ok", "error"}, Slots, Order, Settle(i, r) PROVE Order'
<1>0. /\ wave \in 0..FirstWave /\ next \in (FirstWave + 1)..(N + 1) /\ FirstWave \in 0..N
      /\ N \in Nat /\ wave' = wave /\ i \in running /\ running \subseteq (wave + 1)..(next - 1)
      /\ IsFiniteSet(running) /\ outputs \in Seq([index : 1..N, result : {"ok", "error"}])
      /\ Len(outputs) + Cardinality(running) + wave = next - 1
  BY FirstWaveType, SplitAssumption DEF Order, Slots, Settle
<1>1. i \in 1..N
  BY <1>0
<1>2. PICK e : e = [index |-> i, result |-> r]
  OBVIOUS
<1>3. e \in [index : 1..N, result : {"ok", "error"}] /\ e.index = i
  BY <1>1, <1>2
<1>4. outputs' = Append(outputs, e)
  BY <1>2 DEF Settle
<1>5. PICK n \in Nat : n = Len(outputs)
  BY <1>0
<1>6. /\ outputs' \in Seq([index : 1..N, result : {"ok", "error"}]) /\ Len(outputs') = n + 1
      /\ outputs'[n + 1] = e /\ \A k \in 1..n : outputs'[k] = outputs[k]
  BY <1>0, <1>3, <1>4, <1>5
<1>7. /\ {outputs[k].index : k \in 1..n} = ((wave + 1)..(next - 1)) \ running
      /\ \A k, l \in 1..n : outputs[k].index = outputs[l].index => k = l
  BY <1>5 DEF Order
<1>8. \A k \in 1..n : outputs[k].index # i
  BY <1>0, <1>7
<1>9. \A k, l \in 1..(n + 1) : outputs'[k].index = outputs'[l].index => k = l
  <2>1. \A k \in 1..(n + 1) : k \in 1..n \/ k = n + 1
    OBVIOUS
  <2> QED
    BY <1>3, <1>6, <1>7, <1>8, <2>1
<1>10. {outputs'[k].index : k \in 1..(n + 1)} = {outputs[k].index : k \in 1..n} \cup {i}
  <2>1. \A k \in 1..(n + 1) : k \in 1..n \/ k = n + 1
    OBVIOUS
  <2>2. \A k \in 1..n : k \in 1..(n + 1)
    OBVIOUS
  <2>3. n + 1 \in 1..(n + 1)
    OBVIOUS
  <2> QED
    BY <1>3, <1>6, <2>1, <2>2, <2>3
<1>11. /\ next' \in next..(N + 1)
       /\ ((wave + 1)..(next' - 1)) \ running' = (((wave + 1)..(next - 1)) \ running) \cup {i}
       /\ Cardinality(running') = Cardinality(running) - 1 + (next' - next)
  <2> DEFINE others == running \ {i}
  <2>1. /\ IsFiniteSet(others) /\ Cardinality(others) = Cardinality(running) - 1
        /\ Cardinality(running) \in Nat
    BY <1>0, FS_RemoveElement, FS_CardinalityType
  <2>2. RunNext(i)
    BY DEF Settle
  <2>3. CASE next <= N
    <3>1. running' = others \cup {next} /\ next' = next + 1
      BY <2>2, <2>3 DEF RunNext
    <3>2. next \notin others
      BY <1>0
    <3>3. Cardinality(running') = Cardinality(others) + 1
      BY <2>1, <3>1, <3>2, FS_AddElement
    <3>4. ((wave + 1)..(next' - 1)) \ running' = (((wave + 1)..(next - 1)) \ running) \cup {i}
      <4>1. (wave + 1)..next = ((wave + 1)..(next - 1)) \cup {next}
        BY <1>0
      <4>2. next \notin (wave + 1)..(next - 1)
        BY <1>0
      <4> QED
        BY <1>0, <3>1, <4>1, <4>2
    <3>5. next' \in next..(N + 1) /\ next' - next = 1
      BY <1>0, <2>3, <3>1
    <3> QED
      BY <2>1, <3>3, <3>4, <3>5
  <2>4. CASE ~(next <= N)
    <3>1. running' = others /\ next' = next
      BY <2>2, <2>4 DEF RunNext
    <3>2. next' \in next..(N + 1) /\ next' - next = 0
      BY <1>0, <3>1
    <3>3. ((wave + 1)..(next' - 1)) \ running' = (((wave + 1)..(next - 1)) \ running) \cup {i}
      BY <1>0, <3>1
    <3> QED
      BY <2>1, <3>1, <3>2, <3>3
  <2> QED
    BY <2>3, <2>4
<1>12. Len(outputs') + Cardinality(running') + wave' = next' - 1
  <2>1. PICK c \in Nat : c = Cardinality(running)
    BY <1>0, FS_CardinalityType
  <2>2. wave \in Nat /\ next \in Nat /\ next' \in Nat /\ n + c + wave = next - 1
    BY <1>0, <1>5, <1>11, <2>1
  <2>3. Cardinality(running') = c - 1 + (next' - next)
    BY <1>11, <2>1
  <2> QED
    BY <1>0, <1>6, <2>2, <2>3
<1>13. next' \in (FirstWave + 1)..(N + 1)
  BY <1>0, <1>11
<1> QED
  BY <1>0, <1>6, <1>7, <1>9, <1>10, <1>11, <1>12, <1>13 DEF Order

LEMMA OrderStep == ASSUME Slots, Order, Calls, [Next]_vars PROVE Order'
<1>1. CASE WaveStarts
  BY <1>1, OrderStart DEF WaveStarts
<1>2. CASE UNCHANGED splitVars
  BY <1>2 DEF splitVars, Order
<1>3. ASSUME NEW i \in 1..N, Settles(i) PROVE Order'
  <2>1. call[i] \in {"ok", "error"} /\ Settle(i, call[i])
    BY <1>3 DEF Settles, Settled
  <2> QED
    BY <2>1, OrderSettle
<1> QED
  BY <1>1, <1>2, <1>3 DEF Next, CallSettles, Done, vars

LEMMA RecordFields ==
    ASSUME NEW I, NEW R, NEW s \in Seq([index : I, result : R]), NEW k \in 1..Len(s)
    PROVE  s[k].index \in I /\ s[k].result \in R
<1>1. PICK T : T = [index : I, result : R]
  OBVIOUS
<1>2. s \in Seq(T)
  BY <1>1, Zenon
<1>3. s[k] \in T
  BY <1>2
<1> QED
  BY <1>1, <1>3

\* Every callback put out its result once.
Complete(outs, result) ==
    /\ outs \in Seq([index : 1..N, result : {"ok", "error"}]) /\ Len(outs) = N
    /\ \A v \in 1..N : \E k \in 1..N : outs[k].index = v
    /\ \A k, l \in 1..N : outs[k].index = outs[l].index => k = l
    /\ \A k \in 1..N : outs[k].result = result[outs[k].index]

\* The results that the last callback makes the promise resolve to.
LEMMA ResultsAreCalls ==
    ASSUME NEW outs, NEW result, Complete(outs, result)
    PROVE  /\ Results(outs) \in [1..N -> {"ok", "error"}]
           /\ \A i \in 1..N : Results(outs)[i] = result[i]
<1>1. N \in Nat /\ DOMAIN outs = 1..N
  BY SplitAssumption DEF Complete
<1>2. \A k \in 1..N : outs[k].index \in 1..N /\ outs[k].result \in {"ok", "error"}
  BY <1>1, RecordFields DEF Complete
<1>3. \A i \in 1..N : /\ ByIndex(outs)[i].index = i
                      /\ \E k \in 1..N : ByIndex(outs)[i] = outs[k]
  BY <1>1, <1>2, SortedByIndex DEF Complete
<1>4. PICK sorted : sorted = ByIndex(outs)
  OBVIOUS
<1>5. ASSUME NEW i \in 1..N PROVE sorted[i].index = i /\ \E k \in 1..N : sorted[i] = outs[k]
  BY <1>3, <1>4, Zenon
<1>6. Results(outs) = [i \in 1..N |-> sorted[i].result]
  BY <1>1, <1>4 DEF Results
<1>7. ASSUME NEW i \in 1..N
      PROVE  sorted[i].result = result[i] /\ sorted[i].result \in {"ok", "error"}
  <2>1. PICK k \in 1..N : sorted[i] = outs[k]
    BY <1>5
  <2>2. outs[k].index = i
    BY <1>5, <2>1
  <2> QED
    BY <1>2, <2>1, <2>2 DEF Complete
<1>8. PICK r : r = Results(outs)
  OBVIOUS
<1>9. r \in [1..N -> {"ok", "error"}] /\ \A i \in 1..N : r[i] = result[i]
  BY <1>6, <1>7, <1>8
<1> QED
  BY <1>8, <1>9, Zenon

LEMMA KeptStep == ASSUME Slots, Order, Calls, Kept, [Next]_vars PROVE Kept'
<1>0. /\ 1..N \subseteq Methods /\ N \in Nat /\ CallsTyped
      /\ outputs \in Seq([index : 1..N, result : {"ok", "error"}])
  BY MethodsAssumption, SplitAssumption DEF Calls, Order
<1>1. ASSUME NEW i \in 1..N, Settled(i) PROVE Settled(i)' /\ call'[i] = call[i]
  BY <1>0, <1>1, SettledStays DEF Settled
<1>2. \A k \in 1..Len(outputs) : /\ outputs[k].index \in 1..N
                                 /\ call'[outputs[k].index] \in {"ok", "error"}
                                 /\ outputs[k].result = call'[outputs[k].index]
  <2> SUFFICES ASSUME NEW k \in 1..Len(outputs)
               PROVE  /\ outputs[k].index \in 1..N
                      /\ call'[outputs[k].index] \in {"ok", "error"}
                      /\ outputs[k].result = call'[outputs[k].index]
    OBVIOUS
  <2>1. PICK j : j = outputs[k].index
    OBVIOUS
  <2>2. j \in 1..N
    BY <1>0, <2>1, RecordFields
  <2>3. Settled(j) /\ outputs[k].result = call[j]
    BY <2>1 DEF Kept
  <2>4. call'[j] \in {"ok", "error"} /\ outputs[k].result = call'[j]
    BY <1>1, <2>2, <2>3 DEF Settled
  <2> QED
    BY <2>1, <2>2, <2>4
<1>3. resolved = Pending \/ /\ resolved \in [1..N -> {"ok", "error"}]
                            /\ \A i \in 1..N : Settled(i)' /\ resolved[i] = call'[i]
  BY <1>1 DEF Kept
<1>4. CASE outputs' = outputs /\ resolved' = resolved
  BY <1>2, <1>3, <1>4 DEF Kept, Settled
<1>5. ASSUME NEW i \in 1..N, Settles(i) PROVE Kept'
  <2>1. PICK r : r = call[i]
    OBVIOUS
  <2>2. /\ Settled(i)' /\ call'[i] = r /\ r \in {"ok", "error"} /\ Settle(i, r)
    BY <1>1, <1>5, <2>1 DEF Settles, Settled
  <2>3. PICK e : e = [index |-> i, result |-> r]
    OBVIOUS
  <2>4. e \in [index : 1..N, result : {"ok", "error"}] /\ e.index = i /\ e.result = r
    BY <2>2, <2>3
  <2>5. PICK outs : outs = Append(outputs, e)
    OBVIOUS
  <2>6. /\ outputs' = outs
        /\ resolved' = IF next > N /\ Len(outs) = N THEN Results(outs) ELSE resolved
    BY <2>2, <2>3, <2>5 DEF Settle
  <2>7. /\ outs \in Seq([index : 1..N, result : {"ok", "error"}])
        /\ \A k \in 1..Len(outs) : (k \in 1..Len(outputs) /\ outs[k] = outputs[k]) \/ outs[k] = e
    BY <1>0, <2>4, <2>5
  <2>8. \A k \in 1..Len(outs) : /\ call'[outs[k].index] \in {"ok", "error"}
                                /\ outs[k].result = call'[outs[k].index]
    BY <1>2, <2>2, <2>4, <2>7 DEF Settled
  <2>9. CASE next > N /\ Len(outs) = N
    <3>1. Order'
      BY OrderStep
    <3>2. /\ {outs[k].index : k \in 1..N} = ((wave' + 1)..(next' - 1)) \ running'
          /\ \A k, l \in 1..N : outs[k].index = outs[l].index => k = l
          /\ N + Cardinality(running') + wave' = next' - 1
          /\ wave' \in Nat /\ next' \in 1..(N + 1)
      BY <1>0, <2>6, <2>9, <3>1, FirstWaveType DEF Order
    <3>3. IsFiniteSet(running') /\ Cardinality(running') \in Nat
      BY SlotsStep, FS_CardinalityType DEF Slots
    <3>4. wave' = 0 /\ next' = N + 1 /\ Cardinality(running') = 0
      BY <1>0, <3>2, <3>3
    <3>5. running' = {}
      BY <3>3, <3>4, FS_EmptySet
    <3>6. {outs[k].index : k \in 1..N} = 1..N
      BY <1>0, <3>2, <3>4, <3>5
    <3>7. /\ resolved' = Results(outs)
          /\ Results(outs) \in [1..N -> {"ok", "error"}]
          /\ \A j \in 1..N : Results(outs)[j] = call'[j]
      <4>1. PICK settled : settled = call'
        OBVIOUS
      <4>2. \A k \in 1..N : outs[k].result = settled[outs[k].index]
        BY <2>8, <2>9, <4>1
      <4>3. /\ Results(outs) \in [1..N -> {"ok", "error"}]
            /\ \A j \in 1..N : Results(outs)[j] = settled[j]
        <5>1. outs \in Seq([index : 1..N, result : {"ok", "error"}]) /\ Len(outs) = N
          BY <2>7, <2>9
        <5>2. \A k, l \in 1..N : outs[k].index = outs[l].index => k = l
          BY <3>2
        <5>3. \A v \in 1..N : \E k \in 1..N : outs[k].index = v
          BY <3>6
        <5>4. Complete(outs, settled)
          BY <4>2, <5>1, <5>2, <5>3, Zenon DEF Complete
        <5> QED
          BY <5>4, ResultsAreCalls, Zenon
      <4> QED
        BY <2>6, <2>9, <4>1, <4>3, Zenon
    <3>8. \A j \in 1..N : call'[j] \in {"ok", "error"}
      BY <2>8, <2>9, <3>6
    <3> QED
      BY <2>6, <2>8, <3>7, <3>8 DEF Kept, Settled
  <2>10. CASE ~(next > N /\ Len(outs) = N)
    BY <1>3, <2>6, <2>8, <2>10 DEF Kept, Settled
  <2> QED
    BY <2>9, <2>10
<1> QED
  BY <1>4, <1>5 DEF Next, WaveStarts, StartWave, CallSettles, Done, vars, splitVars

LEMMA OrderAlways == Spec => [](Slots /\ Calls /\ Order /\ Kept)
<1>1. Init => Slots /\ Calls /\ Order /\ Kept
  BY SlotsInit, CallsStart, OrderInit DEF Init
<1>2. Slots /\ Calls /\ Order /\ Kept /\ [Next]_vars => (Slots /\ Calls /\ Order /\ Kept)'
  BY SlotsStep, CallsStep, OrderStep, KeptStep
<1> QED
  BY <1>1, <1>2, PTL DEF Spec

LEMMA TypesFollow == Slots /\ Calls /\ Order /\ Kept => TypeOK
<1> SUFFICES ASSUME Slots, Calls, Order, Kept PROVE TypeOK
  OBVIOUS
<1>1. running \subseteq 1..N
  BY FirstWaveType, SplitAssumption DEF Slots, Order
<1>2. /\ ends = [i \in Methods |-> ends[i]] /\ logged = [i \in Methods |-> logged[i]]
      /\ call \in [Methods -> {"idle", "running", "ok", "error"}]
      /\ span \in [Methods -> {"none", "given"}]
      /\ method \in [Methods -> Outcomes \cup {"none"}]
  BY DEF Calls, CallsTyped
<1>3. ASSUME NEW i \in Methods PROVE ends[i] \in 0..1 /\ logged[i] \in 0..1
  <2>1. CallOf(i) /\ call[i] \in {"idle", "running", "ok", "error"}
    BY <1>2 DEF Calls
  <2>2. (ends[i] = 0 \/ ends[i] = 1) /\ (logged[i] = 0 \/ logged[i] = 1)
    BY <2>1 DEF CallOf, Settled
  <2> QED
    BY <2>2
<1>4. ends \in [Methods -> 0..1] /\ logged \in [Methods -> 0..1]
  BY <1>2, <1>3
<1> QED
  BY <1>1, <1>2, <1>4 DEF TypeOK, Order, Kept

\* splitPromises() resolves only when every callback has settled, and to their
\* results in the order of the callbacks, for every number of callbacks and
\* limit, whatever they throw (src/util/promise/split-promises.ts).
THEOREM ResultsAreInOrder == Spec => [](TypeOK /\ ResultsInOrder)
<1>1. Slots /\ Calls /\ Order /\ Kept => TypeOK /\ ResultsInOrder
  BY TypesFollow DEF Kept, ResultsInOrder
<1> QED
  BY <1>1, OrderAlways, PTL
=============================================================================
