--------------------------- MODULE RequestProofs ---------------------------
(***************************************************************************)
(* What the pipeline of a request or message guarantees for every chain of *)
(* middlewares, groups and branches, every mode and set of conditions;     *)
(* what the transactions of the handlers that such a pipeline calls        *)
(* guarantee, whichever of their database calls fail; and what becomes of  *)
(* the data of the requests, for payloads, keys and tables of every kind.  *)
(***************************************************************************)
EXTENDS RequestFlow, RequestData, SequenceTheorems, FiniteSetTheorems,
        WellFoundedInduction, TLAPS

-----------------------------------------------------------------------------
(* The inductive invariant.                                                *)

\* The chain of an option runs at its branch, and is gone when the branch is.
SubIsOption ==
    stage # "over" /\ sub # <<>> =>
        /\ pc \in {"wait", "reject"} /\ Current("branch")
        /\ \E k \in 1..Len(Chain[at].options) : sub = Line(Chain[at], k)

\* A handler that the flow does not run beside others is awaited while it runs.
RunningIsAwaited == \A h \in InFlow : phase[h] = "running" => Awaited(h)

\* A group is waited for from the call of all its handlers to the end that its
\* mode asks for.
GroupWaits ==
    stage # "over" /\ pc = "wait" /\ Current("parallel") =>
        /\ group \in {"pending", "fulfilled"} => \A h \in Parts : phase[h] # "idle"
        /\ group = "fulfilled" => Obeyed(Parts)

\* Once a handler has refused the request and answered, its flow only ends.
RefusedEnds ==
    reply \in Handlers /\ Refused(reply) => stage = "over" \/ pc = "resolve"

Inv == TypeOK /\ SubIsOption /\ RunningIsAwaited /\ GroupWaits /\ ModeIsObeyed /\ DefaultIsLast
          /\ RefusedEnds

-----------------------------------------------------------------------------
(* Places and decisions.                                                   *)

\* Handler h is the j-th of line k of callback i of chain s.
Place(h, s, i, k, j) ==
    /\ s \in {"hook", "route"} /\ i \in DOMAIN ChainOf(s) /\ k \in 0..Len(ChainOf(s)[i].options)
    /\ j \in DOMAIN Line(ChainOf(s)[i], k) /\ Line(ChainOf(s)[i], k)[j] = h

LEMMA OnePlace ==
    ASSUME NEW h, NEW s, NEW i, NEW k, NEW j, Place(h, s, i, k, j),
           NEW t, NEW l, NEW m, NEW n, Place(h, t, l, m, n)
    PROVE  s = t /\ i = l /\ k = m /\ j = n
BY PlacesAssumption DEF Place

LEMMA Chains ==
    ASSUME NEW s \in {"hook", "route"}
    PROVE  /\ Len(ChainOf(s)) \in Nat /\ DOMAIN ChainOf(s) = 1..Len(ChainOf(s))
           /\ \A i \in DOMAIN ChainOf(s) :
                 /\ ChainOf(s)[i].kind \in {"single", "parallel", "branch"}
                 /\ Len(ChainOf(s)[i].options) \in Nat
                 /\ DOMAIN ChainOf(s)[i].options = 1..Len(ChainOf(s)[i].options)
                 /\ \A k \in 0..Len(ChainOf(s)[i].options) :
                       /\ Line(ChainOf(s)[i], k) \in Seq(Handlers)
                       /\ Len(Line(ChainOf(s)[i], k)) \in Nat
                       /\ DOMAIN Line(ChainOf(s)[i], k) = 1..Len(Line(ChainOf(s)[i], k))
                       /\ k # 0 => Len(Line(ChainOf(s)[i], k)) > 0
<1>1. ASSUME NEW S, NEW q \in Seq(S) PROVE Len(q) \in Nat /\ DOMAIN q = 1..Len(q)
  OBVIOUS
<1>2. Len(ChainOf(s)) \in Nat /\ DOMAIN ChainOf(s) = 1..Len(ChainOf(s))
  BY <1>1, RouteAssumption, Zenon
<1>3. ASSUME NEW i \in DOMAIN ChainOf(s)
      PROVE  /\ ChainOf(s)[i].kind \in {"single", "parallel", "branch"}
             /\ Len(ChainOf(s)[i].options) \in Nat
             /\ DOMAIN ChainOf(s)[i].options = 1..Len(ChainOf(s)[i].options)
  BY <1>1, RouteAssumption, Zenon
<1>4. ASSUME NEW i \in DOMAIN ChainOf(s), NEW k \in 0..Len(ChainOf(s)[i].options)
      PROVE  /\ Line(ChainOf(s)[i], k) \in Seq(Handlers)
             /\ Len(Line(ChainOf(s)[i], k)) \in Nat
             /\ DOMAIN Line(ChainOf(s)[i], k) = 1..Len(Line(ChainOf(s)[i], k))
             /\ k # 0 => Len(Line(ChainOf(s)[i], k)) > 0
  <2>1. PICK q : q = Line(ChainOf(s)[i], k)
    OBVIOUS
  <2>2. q \in Seq(Handlers) /\ (k # 0 => q # <<>>)
    BY <2>1, RouteAssumption, Zenon
  <2>3. Len(q) \in Nat /\ DOMAIN q = 1..Len(q) /\ (k # 0 => Len(q) > 0)
    BY <2>2
  <2> QED
    BY <2>1, <2>2, <2>3, Zenon
<1> QED
  BY <1>2, <1>3, <1>4

LEMMA LeastElement ==
    ASSUME NEW T, T \subseteq Nat, T # {}
    PROVE  \E i \in T : \A j \in T : i <= j
<1>1. PICK R : R = OpToRel(<, Nat)
  OBVIOUS
<1>2. IsWellFoundedOn(R, Nat)
  BY <1>1, NatLessThanWellFounded
<1>3. \A x, y \in Nat : <<x, y>> \in R <=> x < y
  BY <1>1 DEF OpToRel
<1>4. PICK i \in T : \A j \in T : ~ (<<j, i>> \in R)
  BY <1>2, WFMin
<1>5. \A j \in T : ~ (j < i)
  BY <1>3, <1>4
<1>6. \A j \in T : i <= j
  BY <1>5
<1> QED
  BY <1>6

\* flowManager() takes an option only when all before it were refused.
LEMMA FirstDecides ==
    ASSUME NEW options, NEW n \in Nat, DOMAIN options = 1..n, NEW f, Deciding(options, f) # 0
    PROVE  /\ Deciding(options, f) \in 1..n
           /\ \A j \in 1..(Deciding(options, f) - 1) : Satisfied(options[j], f) = "no"
<1> DEFINE T == {i \in DOMAIN options : Satisfied(options[i], f) # "no"}
<1>1. T # {} /\ Deciding(options, f) = Min(T) /\ T \subseteq Nat
  BY DEF Deciding
<1>2. PICK i \in T : \A j \in T : i <= j
  BY <1>1, LeastElement
<1>3. Min(T) \in T /\ \A j \in T : Min(T) <= j
  BY <1>2 DEF Min
<1>4. ASSUME NEW j \in 1..n, j < Min(T) PROVE Satisfied(options[j], f) = "no"
  <2>1. Min(T) \in Nat /\ (j \in T => Min(T) <= j)
    BY <1>1, <1>3
  <2>2. j \notin T
    BY <1>4, <2>1
  <2> QED
    BY <2>2
<1>5. Min(T) \in 1..n
  BY <1>3
<1> HIDE DEF T
<1> QED
  BY <1>1, <1>4, <1>5

HandlerOf(h, c) == \/ \E j \in DOMAIN c.parts : h = c.parts[j]
                   \/ \E k \in DOMAIN c.options : \E l \in DOMAIN c.options[k].sub :
                         h = c.options[k].sub[l]

\* The handlers of InFlow are those of no group.
LEMMA InFlowHasPlace ==
    ASSUME NEW h \in InFlow
    PROVE  \E s \in {"hook", "route"} : \E i, k, j :
              Place(h, s, i, k, j) /\ ChainOf(s)[i].kind # "parallel"
<1>a. PICK c : /\ c \in {Hook[i] : i \in DOMAIN Hook} \cup {Route[i] : i \in DOMAIN Route}
               /\ c.kind # "parallel" /\ HandlerOf(h, c)
  <2> DEFINE Cs == {d \in {Hook[i] : i \in DOMAIN Hook} \cup {Route[i] : i \in DOMAIN Route} :
                      d.kind # "parallel"}
             Hs(c) == {c.parts[j] : j \in DOMAIN c.parts} \cup
                      UNION {{o.sub[j] : j \in DOMAIN o.sub} :
                                o \in {c.options[k] : k \in DOMAIN c.options}}
  <2>1. h \in UNION {Hs(c) : c \in Cs}
    BY Zenon DEF InFlow
  <2>2. ASSUME NEW c, h \in Hs(c) PROVE HandlerOf(h, c)
    <3>1. CASE h \in {c.parts[j] : j \in DOMAIN c.parts}
      BY <3>1 DEF HandlerOf
    <3>2. CASE h \notin {c.parts[j] : j \in DOMAIN c.parts}
      <4>1. PICK o \in {c.options[k] : k \in DOMAIN c.options} : h \in {o.sub[j] : j \in DOMAIN o.sub}
        BY <2>2, <3>2
      <4>2. PICK k \in DOMAIN c.options : o = c.options[k]
        BY <4>1
      <4>3. PICK l \in DOMAIN o.sub : h = o.sub[l]
        BY <4>1
      <4>4. \E m \in DOMAIN c.options[k].sub : h = c.options[k].sub[m]
        BY <4>2, <4>3, Zenon
      <4>5. k \in DOMAIN c.options
        BY <4>2
      <4> QED
        BY <4>4, <4>5, Zenon DEF HandlerOf
    <3> QED
      BY <3>1, <3>2
  <2> HIDE DEF Hs
  <2>3. PICK c \in Cs : h \in Hs(c)
    BY <2>1
  <2> QED
    BY <2>2, <2>3
<1>b. /\ (\E i \in DOMAIN Hook : c = Hook[i]) => \E i \in DOMAIN ChainOf("hook") : c = ChainOf("hook")[i]
      /\ (\E i \in DOMAIN Route : c = Route[i]) => \E i \in DOMAIN ChainOf("route") : c = ChainOf("route")[i]
  BY DEF ChainOf
<1>c. PICK s \in {"hook", "route"} : \E i \in DOMAIN ChainOf(s) : c = ChainOf(s)[i]
  BY <1>a, <1>b
<1>d. PICK i \in DOMAIN ChainOf(s) : c = ChainOf(s)[i]
  BY <1>c
<1>1. ChainOf(s)[i].kind # "parallel" /\ HandlerOf(h, ChainOf(s)[i])
  BY <1>a, <1>d
<1>2. Len(ChainOf(s)[i].options) \in Nat /\ DOMAIN ChainOf(s)[i].options = 1..Len(ChainOf(s)[i].options)
  BY Chains
<1>3. CASE \E j \in DOMAIN ChainOf(s)[i].parts : h = ChainOf(s)[i].parts[j]
  <2>1. PICK j \in DOMAIN ChainOf(s)[i].parts : h = ChainOf(s)[i].parts[j]
    BY <1>3
  <2>2. Place(h, s, i, 0, j)
    BY <1>2, <2>1 DEF Place, Line
  <2> QED
    BY <1>1, <2>2
<1>4. CASE \E k \in DOMAIN ChainOf(s)[i].options :
              \E j \in DOMAIN ChainOf(s)[i].options[k].sub : h = ChainOf(s)[i].options[k].sub[j]
  <2>1. PICK k \in DOMAIN ChainOf(s)[i].options :
           \E j \in DOMAIN ChainOf(s)[i].options[k].sub : h = ChainOf(s)[i].options[k].sub[j]
    BY <1>4
  <2>2. PICK j \in DOMAIN ChainOf(s)[i].options[k].sub : h = ChainOf(s)[i].options[k].sub[j]
    BY <2>1
  <2>3. k \in 0..Len(ChainOf(s)[i].options) /\ k # 0
    BY <1>2
  <2>4. Place(h, s, i, k, j)
    BY <2>2, <2>3 DEF Place, Line
  <2> QED
    BY <1>1, <2>4
<1> QED
  BY <1>1, <1>3, <1>4 DEF HandlerOf

\* The parts of the callback that the flow is at.
LEMMA PartsHavePlace ==
    ASSUME stage \in {"hook", "route"}, at \in DOMAIN Chain
    PROVE  \A h \in Parts : h \in Handlers /\ \E j : Place(h, stage, at, 0, j)
<1>1. /\ 0 \in 0..Len(ChainOf(stage)[at].options)
      /\ Line(ChainOf(stage)[at], 0) \in Seq(Handlers)
  <2>1. at \in DOMAIN ChainOf(stage)
    BY DEF Chain
  <2>2. 0 \in 0..Len(ChainOf(stage)[at].options)
    BY <2>1, Chains
  <2> QED
    BY <2>1, <2>2, Chains
<1>2. PICK q : q = Line(ChainOf(stage)[at], 0)
  OBVIOUS
<1>3. \A j \in DOMAIN q : q[j] \in Handlers
  BY <1>1, <1>2
<1>4. Parts = {q[j] : j \in DOMAIN q}
  BY <1>2 DEF Parts, Chain, Line
<1>5. \A j \in DOMAIN q : Place(q[j], stage, at, 0, j)
  BY <1>1, <1>2 DEF Place, Chain
<1> QED
  BY <1>3, <1>4, <1>5

LEMMA SinglePart ==
    ASSUME stage \in {"hook", "route"}, at \in DOMAIN Chain, Chain[at].kind = "single",
           NEW g \in Parts, NEW h \in Parts
    PROVE  g = h
<1>1. Len(Chain[at].parts) = 1
  BY RouteAssumption DEF Chain
<1>2. PICK q : q = Line(ChainOf(stage)[at], 0)
  OBVIOUS
<1>3. q \in Seq(Handlers) /\ q = Chain[at].parts
  <2>1. 0 \in 0..Len(ChainOf(stage)[at].options)
    BY Chains DEF Chain
  <2> QED
    BY <1>2, <2>1, Chains DEF Line, Chain
<1>4. DOMAIN q = {1}
  BY <1>1, <1>3
<1>5. Parts = {q[j] : j \in DOMAIN q}
  BY <1>3 DEF Parts
<1> QED
  BY <1>4, <1>5

-----------------------------------------------------------------------------
(* Which steps change what.                                                *)

USE DEF Next, Handler, Flow, CallSingle, CallParallel, CallNoBranch, CallBranch, ReturnSingle,
        ReturnInBranch, Throw, SettleInGroup, SettleStray, GroupResumes, PastEnd, HookResolves,
        RouteResolves, Rejects, EmitNext, Settles, inputs, flowVars, vars

\* What is served stays.
LEMMA InputsStay == [Next]_vars => UNCHANGED inputs
OBVIOUS

HIDE DEF Next, Handler, Flow, CallSingle, CallParallel, CallNoBranch, CallBranch, ReturnSingle,
         ReturnInBranch, Throw, SettleInGroup, SettleStray, GroupResumes, PastEnd, HookResolves,
         RouteResolves, Rejects, EmitNext, Settles, inputs, flowVars, vars

LEMMA Steps ==
    ASSUME [Next]_vars
    PROVE  \/ UNCHANGED vars
           \/ CallSingle \/ CallNoBranch \/ CallBranch \/ GroupResumes \/ PastEnd
           \/ HookResolves \/ RouteResolves \/ Rejects
           \/ \E n \in 1..(Cardinality(Handlers) + 1) : CallParallel(n)
           \/ \E h \in Handlers : Throw(h)
           \/ \E h \in Handlers, next \in BOOLEAN, answers \in BOOLEAN :
                 ReturnSingle(h, next, answers) \/ ReturnInBranch(h, next, answers)
           \/ \E h \in Handlers, p \in {"returned", "threw"}, answers \in BOOLEAN :
                 SettleInGroup(h, p, answers) \/ SettleStray(h, p, answers)
<1>1. \/ UNCHANGED vars
      \/ Flow
      \/ \E h \in Handlers : Handler(h)
  BY Zenon DEF Next
<1>2. Flow => \/ CallSingle \/ CallNoBranch \/ CallBranch \/ GroupResumes \/ PastEnd
              \/ HookResolves \/ RouteResolves \/ Rejects
              \/ \E n \in 1..(Cardinality(Handlers) + 1) : CallParallel(n)
  BY Zenon DEF Flow
<1>3. ASSUME NEW h \in Handlers, Handler(h)
      PROVE  \/ Throw(h)
             \/ \E next \in BOOLEAN, answers \in BOOLEAN :
                   ReturnSingle(h, next, answers) \/ ReturnInBranch(h, next, answers)
             \/ \E p \in {"returned", "threw"}, answers \in BOOLEAN :
                   SettleInGroup(h, p, answers) \/ SettleStray(h, p, answers)
  BY <1>3, Zenon DEF Handler
<1> QED
  BY <1>1, <1>2, <1>3, Zenon

-----------------------------------------------------------------------------
(* How handlers start and settle.                                          *)

\* The chain of an option of the branch that the flow is at.
LEMMA SubHasPlace ==
    ASSUME stage \in {"hook", "route"}, at \in DOMAIN Chain, NEW k \in 1..Len(Chain[at].options)
    PROVE  /\ Line(Chain[at], k) = Chain[at].options[k].sub
           /\ Line(Chain[at], k) \in Seq(Handlers)
           /\ Len(Line(Chain[at], k)) \in Nat /\ Len(Line(Chain[at], k)) > 0
           /\ \A j \in 1..Len(Line(Chain[at], k)) :
                 Line(Chain[at], k)[j] \in Handlers /\ Place(Line(Chain[at], k)[j], stage, at, k, j)
<1>1. /\ k \in 0..Len(ChainOf(stage)[at].options) /\ k # 0
      /\ at \in DOMAIN ChainOf(stage)
  BY Chains DEF Chain
<1>2. PICK q : q = Line(ChainOf(stage)[at], k)
  OBVIOUS
<1>3. q \in Seq(Handlers) /\ Len(q) \in Nat /\ DOMAIN q = 1..Len(q) /\ Len(q) > 0
  BY <1>1, <1>2, Chains
<1>4. \A j \in 1..Len(q) : q[j] \in Handlers /\ Place(q[j], stage, at, k, j)
  BY <1>1, <1>2, <1>3 DEF Place
<1>5. q = Chain[at].options[k].sub
  BY <1>1, <1>2 DEF Line, Chain
<1> QED
  BY <1>2, <1>3, <1>4, <1>5, Zenon DEF Chain

\* Where the flow is while it is not over.
LEMMA Where ==
    ASSUME TypeOK, stage # "over"
    PROVE  /\ stage \in {"hook", "route"} /\ DOMAIN Chain = 1..Len(Chain) /\ Len(Chain) \in Nat
           /\ at \in Nat /\ at > 0 /\ at <= Len(Chain) + 1
           /\ at <= Len(Chain) => at \in DOMAIN Chain
BY Chains DEF TypeOK, Chain

\* The callback that the flow is at starts this handler.
Starts(h) ==
    /\ stage # "over" /\ pc \in {"call", "wait"} /\ at \in DOMAIN Chain
    /\ \E k, j : /\ Place(h, stage, at, k, j)
                 /\ k = 0 => pc = "call" /\ Chain[at].kind # "branch"
                 /\ k # 0 => Chain[at].kind = "branch"
                 /\ k # 0 /\ j = 1 => Deciding(Chain[at].options, found) = k

\* No handler goes back to idle, and one runs only when it is started.
PhaseMoves(h) ==
    \/ phase'[h] = phase[h]
    \/ phase[h] = "running" /\ phase'[h] \in {"returned", "threw"}
    \/ Starts(h) /\ phase'[h] \in {"running", "threw"}

LEMMA PhasesMove ==
    ASSUME TypeOK, SubIsOption, [Next]_vars
    PROVE  \A h \in Handlers : PhaseMoves(h)
<1>1. CASE CallSingle
  <2>1. stage # "over" /\ pc = "call" /\ at <= Len(Chain) /\ Chain[at].kind = "single"
    BY <1>1 DEF CallSingle, Running, Current
  <2>2. phase' = [h \in Handlers |-> IF h \in Parts THEN "running" ELSE phase[h]]
    BY <1>1 DEF CallSingle
  <2>3. \A h \in Parts : Starts(h)
    BY <2>1, PartsHavePlace, Where DEF Starts
  <2> QED
    BY <2>2, <2>3 DEF PhaseMoves
<1>2. ASSUME NEW n, CallParallel(n) PROVE \A h \in Handlers : PhaseMoves(h)
  <2>1. stage # "over" /\ pc = "call" /\ at <= Len(Chain) /\ Chain[at].kind = "parallel"
    BY <1>2 DEF CallParallel, Running, Current
  <2>2. \A h \in Handlers : \/ phase'[h] = phase[h]
                            \/ h \in Parts /\ phase'[h] \in {"running", "threw"}
    <3>1. phase' = [h \in Handlers |->
                IF \E i \in 1..(n - 1) : i \in DOMAIN Chain[at].parts /\ Chain[at].parts[i] = h
                THEN "running"
                ELSE IF n \in DOMAIN Chain[at].parts /\ Chain[at].parts[n] = h THEN "threw"
                ELSE phase[h]]
      BY <1>2, Zenon DEF CallParallel
    <3> QED
      BY <3>1 DEF Parts
  <2>3. \A h \in Parts : Starts(h)
    BY <2>1, PartsHavePlace, Where DEF Starts
  <2> QED
    BY <2>2, <2>3 DEF PhaseMoves
<1>3. CASE CallBranch
  <2>1. stage # "over" /\ pc = "call" /\ at <= Len(Chain) /\ Chain[at].kind = "branch"
    BY <1>3 DEF CallBranch, Running, Current
  <2>2. PICK k : /\ k = Deciding(Chain[at].options, found) /\ k # 0
                 /\ phase' = [phase EXCEPT ![Chain[at].options[k].sub[1]] = "running"]
    BY <1>3 DEF CallBranch
  <2>3. k \in 1..Len(Chain[at].options)
    BY <2>1, <2>2, Where, Chains, FirstDecides DEF Chain
  <2>4. 1 \in 1..Len(Line(Chain[at], k))
    BY <2>1, <2>3, Where, SubHasPlace
  <2>5. Starts(Chain[at].options[k].sub[1])
    BY <2>1, <2>2, <2>3, <2>4, Where, SubHasPlace DEF Starts
  <2> QED
    BY <2>2, <2>5 DEF PhaseMoves, TypeOK
<1>4. ASSUME NEW h \in Handlers, NEW next, NEW answers, ReturnInBranch(h, next, answers)
      PROVE  \A g \in Handlers : PhaseMoves(g)
  <2>1. /\ phase[h] = "running"
        /\ \/ phase' = [phase EXCEPT ![h] = "returned"]
           \/ /\ phase' = [phase EXCEPT ![h] = "returned", ![sub[subAt + 1]] = "running"]
              /\ subAt < Len(sub)
    BY <1>4 DEF ReturnInBranch, Settles
  <2>2. subAt < Len(sub) => Starts(sub[subAt + 1])
    <3> SUFFICES ASSUME subAt < Len(sub) PROVE Starts(sub[subAt + 1])
      OBVIOUS
    <3>1. stage # "over" /\ pc = "wait" /\ at <= Len(Chain) /\ Chain[at].kind = "branch"
      BY <1>4 DEF ReturnInBranch, Awaited, Running, Current
    <3>2. sub # <<>> /\ subAt \in Nat /\ subAt > 0 /\ Len(sub) \in Nat
      BY DEF TypeOK
    <3>3. PICK k \in 1..Len(Chain[at].options) : sub = Line(Chain[at], k)
      BY <3>1, <3>2 DEF SubIsOption
    <3>4. subAt + 1 \in 1..Len(Line(Chain[at], k)) /\ subAt + 1 # 1
      BY <3>2, <3>3
    <3>5. Place(sub[subAt + 1], stage, at, k, subAt + 1)
      BY <3>1, <3>3, <3>4, Where, SubHasPlace
    <3>6. k # 0 /\ at \in DOMAIN Chain
      BY <3>1, Where
    <3> QED
      BY <3>1, <3>4, <3>5, <3>6 DEF Starts
  <2> QED
    BY <2>1, <2>2 DEF PhaseMoves, TypeOK
<1>5. ASSUME NEW h \in Handlers, NEW p \in {"returned", "threw"}, Settles(h, p)
      PROVE  \A g \in Handlers : PhaseMoves(g)
  BY <1>5 DEF Settles, PhaseMoves, TypeOK
<1>6. CASE UNCHANGED phase
  BY <1>6 DEF PhaseMoves
<1> QED
  BY <1>1, <1>2, <1>3, <1>4, <1>5, <1>6, Steps DEF vars, CallNoBranch, GroupResumes, PastEnd,
     HookResolves, RouteResolves, Rejects, Throw, ReturnSingle, SettleInGroup, SettleStray

\* Only one handler is at a place, and what starts is at the flow's callback.
LEMMA StartsAt ==
    ASSUME NEW h, Starts(h), NEW s, NEW i, NEW k, NEW j, Place(h, s, i, k, j)
    PROVE  /\ stage # "over" /\ pc \in {"call", "wait"}
           /\ s = stage /\ i = at /\ at \in DOMAIN Chain
           /\ k = 0 => pc = "call" /\ Chain[at].kind # "branch"
           /\ k # 0 => Chain[at].kind = "branch"
           /\ k # 0 /\ j = 1 => Deciding(Chain[at].options, found) = k
BY OnePlace DEF Starts

\* The flow goes on to its next callback, to the route after the hook, or ends.
PlaceMoves ==
    \/ UNCHANGED <<stage, at>>
    \/ HookResolves
    \/ UNCHANGED at /\ stage' = "over"
    \/ /\ at' = at + 1 /\ stage' = stage /\ stage # "over" /\ at <= Len(Chain)
       /\ pc = "wait" /\ pc' = "call" /\ (Chain[at].kind = "parallel" => group = "fulfilled")

LEMMA PlaceMovesAlways == ASSUME [Next]_vars PROVE PlaceMoves
<1>1. ASSUME NEW h, NEW next, NEW answers, ReturnSingle(h, next, answers) PROVE PlaceMoves
  BY <1>1, Zenon DEF ReturnSingle, Settles, EmitNext, PlaceMoves, Running, Current, Awaited
<1>2. ASSUME NEW h, NEW next, NEW answers, ReturnInBranch(h, next, answers) PROVE PlaceMoves
  BY <1>2 DEF ReturnInBranch, Settles, EmitNext, PlaceMoves, Running, Current, Awaited
<1>3. GroupResumes => PlaceMoves
  BY Zenon DEF GroupResumes, EmitNext, PlaceMoves, Running, Current
<1> QED
  BY <1>1, <1>2, <1>3, Steps DEF vars, flowVars, PlaceMoves, CallSingle, CallParallel, CallBranch,
     CallNoBranch, PastEnd, RouteResolves, Rejects, Throw, SettleInGroup, SettleStray, Settles

-----------------------------------------------------------------------------
(* The types.                                                              *)

LEMMA TypesStep == ASSUME TypeOK, SubIsOption, [Next]_vars PROVE TypeOK'
<1>1. kind' \in Kinds /\ mode' \in Modes /\ found' \in [Paths -> Values]
  BY InputsStay DEF inputs, TypeOK
<1>2. phase' \in [Handlers -> {"idle", "running", "returned", "threw"}]
  <2>1. phase' = [h \in Handlers |-> phase'[h]]
    BY Steps DEF vars, CallSingle, CallParallel, CallBranch, CallNoBranch, GroupResumes,
       PastEnd, HookResolves, RouteResolves, Rejects, Throw, ReturnSingle, ReturnInBranch,
       SettleInGroup, SettleStray, Settles, TypeOK
  <2>2. \A h \in Handlers : phase'[h] \in {"idle", "running", "returned", "threw"}
    BY PhasesMove DEF PhaseMoves, TypeOK
  <2> QED
    BY <2>1, <2>2
<1>3. called' \subseteq Handlers
  BY Steps DEF vars, CallSingle, CallParallel, CallBranch, CallNoBranch, GroupResumes,
     PastEnd, HookResolves, RouteResolves, Rejects, Throw, ReturnSingle, ReturnInBranch,
     SettleInGroup, SettleStray, Settles, TypeOK
<1>4. group' \in {"none", "pending", "fulfilled", "rejected"}
  <2>1. \A parts, after : ResolveByMode(parts, after) \in {"pending", "fulfilled", "rejected"}
    BY DEF ResolveByMode
  <2> QED
    BY <2>1, Steps DEF vars, CallSingle, CallParallel, CallBranch, CallNoBranch, GroupResumes,
       PastEnd, HookResolves, RouteResolves, Rejects, Throw, ReturnSingle, ReturnInBranch,
       SettleInGroup, SettleStray, Settles, TypeOK
<1>5. reply' \in Handlers \cup {"none", "500", "502", "resolved", "rejected"}
  BY Steps DEF vars, CallSingle, CallParallel, CallBranch, CallNoBranch, GroupResumes,
     PastEnd, HookResolves, RouteResolves, Rejects, Throw, ReturnSingle, ReturnInBranch,
     SettleInGroup, SettleStray, Settles, Answer, EndWith, TypeOK
<1>6. pc' \in {"call", "wait", "resolve", "reject"}
  <2>1. ASSUME NEW h, NEW next, NEW answers, ReturnInBranch(h, next, answers)
        PROVE  pc' \in {pc, "call", "resolve"}
    BY <2>1, Zenon DEF ReturnInBranch, EmitNext
  <2>2. ASSUME NEW h, NEW next, NEW answers, ReturnSingle(h, next, answers)
        PROVE  pc' \in {"call", "resolve"}
    BY <2>2, Zenon DEF ReturnSingle, EmitNext
  <2>3. GroupResumes => pc' \in {"call", "reject"}
    BY Zenon DEF GroupResumes, EmitNext
  <2> QED
    BY <2>1, <2>2, <2>3, Steps DEF vars, flowVars, CallSingle, CallParallel, CallBranch,
       CallNoBranch, PastEnd, HookResolves, RouteResolves, Rejects, Throw, SettleInGroup,
       SettleStray, TypeOK
<1>7. sub' \in Seq(Handlers) /\ subAt' \in 1..(Len(sub') + 1)
  <2>1. CASE CallBranch
    <3>1. stage # "over" /\ at <= Len(Chain)
      BY <2>1 DEF CallBranch, Running, Current
    <3>2. PICK k : /\ k = Deciding(Chain[at].options, found) /\ k # 0
                   /\ sub' = Chain[at].options[k].sub /\ subAt' = 1
      BY <2>1, Zenon DEF CallBranch
    <3>3. k \in 1..Len(Chain[at].options)
      BY <3>1, <3>2, Where, Chains, FirstDecides DEF Chain
    <3>4. sub' \in Seq(Handlers)
      BY <3>1, <3>2, <3>3, Where, SubHasPlace
    <3>5. PICK q : q = sub'
      OBVIOUS
    <3>6. q \in Seq(Handlers) /\ 1 \in 1..(Len(q) + 1)
      BY <3>4, <3>5
    <3> QED
      BY <3>2, <3>5, <3>6, Zenon
  <2>2. ASSUME NEW h, NEW next, NEW answers, ReturnInBranch(h, next, answers)
        PROVE  \/ sub' = sub /\ subAt' = subAt + 1 /\ subAt < Len(sub)
               \/ sub' = <<>> /\ subAt' = 1
    BY <2>2, Zenon DEF ReturnInBranch
  <2>3. \/ UNCHANGED <<sub, subAt>>
        \/ CallBranch
        \/ \E h, next, answers : ReturnInBranch(h, next, answers)
    BY Steps DEF vars, flowVars, CallSingle, CallParallel, CallNoBranch, GroupResumes,
       PastEnd, HookResolves, RouteResolves, Rejects, Throw, ReturnSingle, SettleInGroup,
       SettleStray
  <2>4. PICK q, a : q = sub' /\ a = subAt'
    OBVIOUS
  <2>5. \/ q = sub /\ a = subAt
        \/ q = sub /\ a = subAt + 1 /\ subAt < Len(sub)
        \/ q = <<>> /\ a = 1
        \/ CallBranch
    BY <2>2, <2>3, <2>4
  <2>6. CallBranch \/ (q \in Seq(Handlers) /\ a \in 1..(Len(q) + 1))
    <3>1. /\ sub \in Seq(Handlers) /\ Len(sub) \in Nat
          /\ subAt \in 1..(Len(sub) + 1)
      BY DEF TypeOK
    <3>2. CASE q = sub /\ (a = subAt \/ (a = subAt + 1 /\ subAt < Len(sub)))
      <4>1. a \in 1..(Len(sub) + 1)
        BY <3>1, <3>2
      <4> QED
        BY <3>1, <3>2, <4>1
    <3>3. CASE q = <<>> /\ a = 1
      BY <3>3
    <3> QED
      BY <2>5, <3>2, <3>3
  <2> QED
    BY <2>1, <2>4, <2>6, Zenon
<1>8. /\ stage' \in {"hook", "route", "over"} /\ at' \in Nat
      /\ stage' # "over" => at' \in 1..(Len(Chain') + 1)
  <2>1. UNCHANGED <<stage, at>> => Chain' = Chain
    BY DEF Chain
  <2>2. CASE UNCHANGED <<stage, at>>
    BY <2>1, <2>2 DEF TypeOK
  <2>3. CASE HookResolves
    <3>1. at' = 1 /\ (stage' = "route" \/ stage' = "over") /\ (stage' = "route" => Chain' = ChainOf("route"))
      BY <2>3, Zenon DEF HookResolves, Chain
    <3>2. Len(ChainOf("route")) \in Nat
      BY Chains
    <3> QED
      BY <3>1, <3>2
  <2>4. CASE UNCHANGED at /\ stage' = "over"
    BY <2>4 DEF TypeOK
  <2>5. ASSUME at' = at + 1, stage' = stage, stage # "over", at <= Len(Chain)
        PROVE  /\ stage' \in {"hook", "route", "over"} /\ at' \in Nat
               /\ at' \in 1..(Len(Chain') + 1)
    <3>1. Chain' = Chain
      BY <2>5 DEF Chain
    <3> QED
      BY <2>5, <3>1, Where DEF TypeOK
  <2>6. PlaceMoves
    BY PlaceMovesAlways
  <2> QED
    BY <2>2, <2>3, <2>4, <2>5, <2>6 DEF PlaceMoves
<1> QED
  BY <1>1, <1>2, <1>3, <1>4, <1>5, <1>6, <1>7, <1>8 DEF TypeOK

-----------------------------------------------------------------------------
(* Each part of the invariant is kept.                                     *)

LEMMA SubIsOptionStep == ASSUME TypeOK, SubIsOption, [Next]_vars PROVE SubIsOption'
<1> DEFINE Holds == /\ pc \in {"wait", "reject"} /\ Current("branch")
                    /\ \E k \in 1..Len(Chain[at].options) : sub = Line(Chain[at], k)
<1>1. ASSUME UNCHANGED <<stage, at, sub>>, pc' \in {"wait", "reject"}, stage # "over", sub # <<>>
      PROVE  Holds'
  BY <1>1 DEF SubIsOption, Current, Chain
<1>2. CASE CallBranch
  <2>1. /\ stage # "over" /\ at <= Len(Chain) /\ Chain[at].kind = "branch"
        /\ stage' = stage /\ at' = at /\ pc' = "wait"
    BY <1>2 DEF CallBranch, Running, Current
  <2>2. PICK k : /\ k = Deciding(Chain[at].options, found) /\ k # 0
                 /\ sub' = Chain[at].options[k].sub
    BY <1>2, Zenon DEF CallBranch
  <2>3. k \in 1..Len(Chain[at].options)
    BY <2>1, <2>2, Where, Chains, FirstDecides DEF Chain
  <2>4. sub' = Line(Chain[at], k)
    BY <2>1, <2>2, <2>3, Where, SubHasPlace
  <2>5. Chain' = Chain
    BY <2>1 DEF Chain
  <2>6. Current("branch")'
    BY <2>1, <2>5 DEF Current
  <2> QED
    BY <2>1, <2>3, <2>4, <2>5, <2>6, Zenon DEF SubIsOption
<1>3. ASSUME NEW h, NEW next, NEW answers, ReturnInBranch(h, next, answers)
      PROVE  SubIsOption'
  <2>1. \/ UNCHANGED <<stage, at, sub, pc>> /\ subAt < Len(sub)
        \/ sub' = <<>>
    BY <1>3, Zenon DEF ReturnInBranch
  <2>2. stage # "over" /\ pc = "wait"
    BY <1>3 DEF ReturnInBranch, Awaited, Running
  <2>3. sub = <<>> => ~ (subAt < Len(sub))
    BY DEF TypeOK
  <2> QED
    BY <1>1, <2>1, <2>2, <2>3 DEF SubIsOption
<1>4. ASSUME NEW h, NEW next, NEW answers, ReturnSingle(h, next, answers)
      PROVE  sub' = <<>>
  BY <1>4 DEF ReturnSingle, Awaited, Running, Current, SubIsOption
<1>5. CASE sub' = <<>> \/ stage' = "over"
  BY <1>5 DEF SubIsOption
<1>6. (CallSingle \/ (\E n \in 1..(Cardinality(Handlers) + 1) : CallParallel(n)) \/ CallNoBranch
        \/ GroupResumes \/ PastEnd \/ HookResolves \/ RouteResolves \/ Rejects)
         => sub' = <<>> \/ stage' = "over"
  BY DEF CallSingle, CallParallel, CallNoBranch, GroupResumes, PastEnd, HookResolves,
     RouteResolves, Rejects, Running, Current, SubIsOption
<1>7. ASSUME NEW h, Throw(h) PROVE SubIsOption'
  BY <1>1, <1>7 DEF Throw, Settles, SubIsOption, Awaited, Running
<1>8. ASSUME UNCHANGED <<stage, at, pc, sub>> PROVE SubIsOption'
  BY <1>1, <1>8 DEF SubIsOption
<1> QED
  BY <1>2, <1>3, <1>4, <1>5, <1>6, <1>7, <1>8, Steps DEF vars, flowVars, SettleInGroup, SettleStray,
     Settles, SubIsOption

LEMMA InFlowIsHandlers == InFlow \subseteq Handlers
<1> SUFFICES ASSUME NEW h \in InFlow PROVE h \in Handlers
  OBVIOUS
<1>1. PICK s, i, k, j : Place(h, s, i, k, j)
  BY InFlowHasPlace
<1>2. PICK q : q = Line(ChainOf(s)[i], k)
  OBVIOUS
<1>3. q \in Seq(Handlers) /\ j \in DOMAIN q /\ q[j] = h
  BY <1>1, <1>2, Chains DEF Place
<1> QED
  BY <1>3

LEMMA RunningIsAwaitedStep ==
    ASSUME TypeOK, SubIsOption, RunningIsAwaited, [Next]_vars PROVE RunningIsAwaited'
<1> SUFFICES ASSUME NEW h \in InFlow, phase'[h] = "running" PROVE Awaited(h)'
  BY DEF RunningIsAwaited, InFlow
<1>1. phase[h] = "running" => Awaited(h)
  BY DEF RunningIsAwaited
<1>2. h \in Handlers
  BY InFlowIsHandlers
<1>3. PhaseMoves(h)
  BY <1>2, PhasesMove
<1>4. ASSUME UNCHANGED <<stage, at, pc, sub, subAt>>, phase[h] = "running" PROVE Awaited(h)'
  BY <1>1, <1>4 DEF Awaited, Running, Current, InSub, Parts, Chain
<1>5. CASE CallSingle
  <2>1. h \in Parts
    BY <1>1, <1>2, <1>5 DEF CallSingle, Awaited, Running
  <2> QED
    BY <1>5, <2>1 DEF CallSingle, Awaited, Running, Current, Parts, Chain
<1>6. ASSUME NEW n, CallParallel(n) PROVE FALSE
  <2>1. stage # "over" /\ pc = "call" /\ Chain[at].kind = "parallel"
    BY <1>6 DEF CallParallel, Running, Current
  <2>2. Starts(h)
    BY <1>1, <1>3, <2>1 DEF PhaseMoves, Awaited, Running
  <2> QED
    BY <2>1, <2>2, InFlowHasPlace, StartsAt DEF Chain
<1>7. CASE CallBranch
  <2>1. /\ stage # "over" /\ pc = "call" /\ at <= Len(Chain) /\ Chain[at].kind = "branch"
        /\ stage' = stage /\ at' = at /\ pc' = "wait" /\ subAt' = 1
    BY <1>7 DEF CallBranch, Running, Current
  <2>2. PICK k : /\ k = Deciding(Chain[at].options, found) /\ k # 0
                 /\ sub' = Chain[at].options[k].sub
                 /\ phase' = [phase EXCEPT ![Chain[at].options[k].sub[1]] = "running"]
    BY <1>7, Zenon DEF CallBranch
  <2>3. k \in 1..Len(Chain[at].options)
    BY <2>1, <2>2, Where, Chains, FirstDecides DEF Chain
  <2>4. Len(sub') \in Nat /\ Len(sub') > 0
    BY <2>1, <2>2, <2>3, Where, SubHasPlace
  <2>5. h = sub'[1]
    BY <1>1, <2>1, <2>2 DEF Awaited, Running, TypeOK
  <2>6. Chain' = Chain
    BY <2>1 DEF Chain
  <2> QED
    BY <2>1, <2>4, <2>5, <2>6 DEF Awaited, Running, Current, InSub
<1>8. ASSUME NEW g \in Handlers, NEW next, NEW answers, ReturnInBranch(g, next, answers)
      PROVE  Awaited(h)'
  <2>1. /\ stage # "over" /\ pc = "wait" /\ at <= Len(Chain) /\ Chain[at].kind = "branch"
        /\ sub[subAt] = g /\ phase[g] = "running"
    BY <1>8 DEF ReturnInBranch, Settles, Awaited, Running, Current
  <2>2. phase[h] = "running" => h = g
    BY <1>1, <2>1 DEF Awaited, Current
  <2>3. CASE /\ phase' = [phase EXCEPT ![g] = "returned", ![sub[subAt + 1]] = "running"]
             /\ subAt < Len(sub) /\ subAt' = subAt + 1 /\ UNCHANGED <<stage, at, pc, sub>>
    <3>1. h = sub[subAt + 1]
      BY <1>2, <2>2, <2>3 DEF TypeOK
    <3>2. subAt' <= Len(sub)
      BY <2>3 DEF TypeOK
    <3> QED
      BY <2>1, <2>3, <3>1, <3>2 DEF Awaited, Running, Current, InSub, Chain
  <2>4. CASE phase' = [phase EXCEPT ![g] = "returned"]
    BY <1>2, <2>2, <2>4 DEF TypeOK
  <2> QED
    BY <1>8, <2>3, <2>4 DEF ReturnInBranch, Settles, inputs
<1>9. ASSUME NEW g \in Handlers, NEW next, NEW answers, ReturnSingle(g, next, answers)
      PROVE  FALSE
  <2>1. /\ stage # "over" /\ at <= Len(Chain) /\ Chain[at].kind = "single" /\ g \in Parts
        /\ phase' = [phase EXCEPT ![g] = "returned"]
    BY <1>9 DEF ReturnSingle, Settles, Awaited, Running, Current
  <2>2. phase[h] = "running" /\ h # g
    BY <1>2, <2>1 DEF TypeOK
  <2>3. h \in Parts
    BY <1>1, <2>1, <2>2 DEF Awaited, Current
  <2> QED
    BY <2>1, <2>2, <2>3, Where, SinglePart
<1>10. ASSUME NEW g \in Handlers, Throw(g) PROVE FALSE
  <2>1. Awaited(g) /\ phase' = [phase EXCEPT ![g] = "threw"]
    BY <1>10 DEF Throw, Settles
  <2>2. phase[h] = "running" /\ h # g
    BY <1>2, <2>1 DEF TypeOK
  <2>3. Awaited(h)
    BY <1>1, <2>2
  <2> QED
    BY <2>1, <2>2, <2>3, Where, SinglePart DEF Awaited, Current, Running
<1>11. ASSUME NEW g \in Handlers, NEW p, NEW answers,
              SettleInGroup(g, p, answers) \/ SettleStray(g, p, answers), p # "running"
       PROVE  Awaited(h)'
  <2>1. /\ phase' = [phase EXCEPT ![g] = p]
        /\ UNCHANGED <<stage, at, pc, sub, subAt>>
    BY <1>11 DEF SettleInGroup, SettleStray, Settles
  <2>2. phase[h] = "running"
    BY <1>2, <1>11, <2>1 DEF TypeOK
  <2> QED
    BY <1>4, <2>1, <2>2
<1>12. ASSUME CallNoBranch \/ GroupResumes \/ PastEnd \/ HookResolves \/ RouteResolves \/ Rejects
       PROVE  FALSE
  <2>1. phase' = phase /\ (pc # "wait" \/ Current("parallel"))
    BY <1>12 DEF CallNoBranch, GroupResumes, PastEnd, HookResolves, RouteResolves, Rejects, Running
  <2> QED
    BY <1>1, <2>1 DEF Awaited, Running, Current
<1>13. UNCHANGED vars => Awaited(h)'
  BY <1>4 DEF vars, flowVars
<1> QED
  BY <1>5, <1>6, <1>7, <1>8, <1>9, <1>10, <1>11, <1>12, <1>13, Steps

\* What a mode asks of handlers stays done while none of them is started.
LEMMA ObeyedStays ==
    ASSUME TypeOK, SubIsOption, [Next]_vars, NEW P, P \subseteq Handlers,
           \A h \in P : ~ Starts(h), Obeyed(P)
    PROVE  Obeyed(P)'
<1>1. \A h \in P : \/ phase'[h] = phase[h]
                   \/ phase[h] = "running" /\ phase'[h] \in {"returned", "threw"}
  BY PhasesMove DEF PhaseMoves
<1>2. mode' = mode /\ mode \in {"all", "allSettled", "any", "race"}
  BY InputsStay, RouteAssumption DEF inputs, TypeOK
<1> QED
  BY <1>1, <1>2 DEF Obeyed

\* The parts of callback i of the route.
PartsOf(i) == {Route[i].parts[j] : j \in DOMAIN Route[i].parts}

\* A group that the flow is at, or has passed, is not started again.
LEMMA PartsAreStartedOnce ==
    ASSUME stage \in {"hook", "route"}, at \in DOMAIN Chain, NEW h \in Parts, Starts(h)
    PROVE  pc = "call"
BY PartsHavePlace, StartsAt

LEMMA PassedPartsHavePlace ==
    ASSUME NEW i \in DOMAIN Route, NEW h \in PartsOf(i)
    PROVE  h \in Handlers /\ \E j : Place(h, "route", i, 0, j)
<1>1. /\ i \in DOMAIN ChainOf("route")
      /\ 0 \in 0..Len(ChainOf("route")[i].options)
      /\ ChainOf("route")[i].parts = Route[i].parts
  BY Chains DEF ChainOf
<1>2. PICK q : q = Line(ChainOf("route")[i], 0)
  OBVIOUS
<1>3. q \in Seq(Handlers) /\ q = Route[i].parts
  BY <1>1, <1>2, Chains DEF Line
<1>4. PICK j \in DOMAIN q : h = q[j]
  BY <1>3 DEF PartsOf
<1>5. Place(h, "route", i, 0, j)
  BY <1>1, <1>2, <1>4 DEF Place
<1> QED
  BY <1>3, <1>4, <1>5

LEMMA GroupWaitsStep ==
    ASSUME TypeOK, SubIsOption, GroupWaits, [Next]_vars PROVE GroupWaits'
<1> SUFFICES ASSUME stage' # "over", pc' = "wait", Current("parallel")'
             PROVE  /\ group' \in {"pending", "fulfilled"} => \A h \in Parts' : phase'[h] # "idle"
                    /\ group' = "fulfilled" => Obeyed(Parts)'
  BY DEF GroupWaits
<1>1. ASSUME NEW n, CallParallel(n)
      PROVE  /\ group' # "fulfilled"
             /\ group' = "pending" => \A h \in Parts' : phase'[h] # "idle"
  <2>1. /\ stage # "over" /\ at <= Len(Chain) /\ stage' = stage /\ at' = at
        /\ group' = IF n \in DOMAIN Chain[at].parts THEN "rejected" ELSE "pending"
        /\ n \in 1..(Len(Chain[at].parts) + 1)
        /\ phase' = [h \in Handlers |->
                IF \E i \in 1..(n - 1) : i \in DOMAIN Chain[at].parts /\ Chain[at].parts[i] = h
                THEN "running"
                ELSE IF n \in DOMAIN Chain[at].parts /\ Chain[at].parts[n] = h THEN "threw"
                ELSE phase[h]]
    BY <1>1, Zenon DEF CallParallel, Running, Current
  <2>2. Parts' = Parts
    BY <2>1 DEF Parts, Chain
  <2>3. ASSUME n \notin DOMAIN Chain[at].parts, NEW h \in Parts PROVE phase'[h] = "running"
    <3>1. h \in Handlers
      BY <2>1, Where, PartsHavePlace
    <3>2. Len(Chain[at].parts) \in Nat /\ DOMAIN Chain[at].parts = 1..Len(Chain[at].parts)
      <4>1. 0 \in 0..Len(ChainOf(stage)[at].options)
        BY <2>1, Where, Chains DEF Chain
      <4> QED
        BY <2>1, <4>1, Where, Chains DEF Line, Chain
    <3>3. PICK i \in DOMAIN Chain[at].parts : Chain[at].parts[i] = h
      BY DEF Parts
    <3>4. i \in 1..(n - 1)
      BY <2>1, <2>3, <3>2
    <3> QED
      BY <2>1, <3>1, <3>3, <3>4
  <2> QED
    BY <2>1, <2>2, <2>3
<1>2. ASSUME UNCHANGED <<stage, at, pc>>
      PROVE  /\ Parts' = Parts /\ \A h \in Parts : ~ Starts(h) /\ h \in Handlers
             /\ stage # "over" /\ pc = "wait" /\ Current("parallel")
  <2>1. Parts' = Parts /\ stage # "over" /\ pc = "wait" /\ Current("parallel")
    BY <1>2 DEF Parts, Chain, Current
  <2> QED
    BY <2>1, Where, PartsHavePlace, PartsAreStartedOnce DEF Current
<1>3. CASE UNCHANGED <<stage, at, pc, group>>
  <2>1. group = "fulfilled" => Obeyed(Parts)'
    BY <1>2, <1>3, ObeyedStays DEF GroupWaits
  <2>2. group \in {"pending", "fulfilled"} => \A h \in Parts : phase'[h] # "idle"
    BY <1>2, <1>3, PhasesMove DEF PhaseMoves, GroupWaits
  <2> QED
    BY <1>2, <1>3, <2>1, <2>2
<1>4. ASSUME NEW g \in Handlers, NEW p \in {"returned", "threw"}, NEW answers,
             SettleInGroup(g, p, answers)
      PROVE  /\ \A h \in Parts' : phase'[h] # "idle"
             /\ group' = "fulfilled" => Obeyed(Parts)'
  <2>1. /\ UNCHANGED <<stage, at, pc>> /\ group = "pending"
        /\ group' = ResolveByMode(Parts, phase')
    BY <1>4 DEF SettleInGroup, Settles, InGroup
  <2>2. \A h \in Parts : phase'[h] # "idle"
    BY <1>2, <2>1, PhasesMove DEF PhaseMoves, GroupWaits
  <2>3. mode' = mode /\ mode \in {"all", "allSettled", "any", "race"}
    BY InputsStay, RouteAssumption DEF inputs, TypeOK
  <2>4. \A h \in Parts : phase'[h] \in {"idle", "running", "returned", "threw"}
    BY <1>2, <2>1, TypesStep DEF TypeOK
  <2>5. PICK P : P = Parts
    OBVIOUS
  <2>6. group' = "fulfilled" => Obeyed(P)'
    BY <2>1, <2>2, <2>3, <2>4, <2>5 DEF ResolveByMode, Obeyed
  <2>7. Parts' = P
    BY <1>2, <2>1, <2>5
  <2> QED
    BY <2>2, <2>5, <2>6, <2>7
<1>5. CASE CallSingle \/ CallBranch
  <2>1. UNCHANGED <<stage, at>> /\ ~ Current("parallel")
    BY <1>5 DEF CallSingle, CallBranch, Current
  <2> QED
    BY <2>1 DEF Current, Chain
<1>6. ASSUME NEW g, NEW next, NEW answers,
             ReturnSingle(g, next, answers) \/ ReturnInBranch(g, next, answers)
      PROVE  FALSE
  <2>1. /\ stage' = stage /\ (pc' = "wait" => UNCHANGED <<at, pc>>)
        /\ ~ Current("parallel")
    BY <1>6 DEF ReturnSingle, ReturnInBranch, Settles, EmitNext, Current
  <2> QED
    BY <2>1 DEF Current, Chain
<1>7. CASE pc' # "wait" \/ stage' = "over"
  BY <1>7
<1>8. CASE CallNoBranch \/ GroupResumes \/ PastEnd \/ HookResolves \/ RouteResolves \/ Rejects
  BY <1>8 DEF CallNoBranch, GroupResumes, EmitNext, PastEnd, HookResolves, RouteResolves, Rejects
<1>9. ASSUME NEW g, Throw(g) PROVE pc' # "wait"
  BY <1>9 DEF Throw
<1>10. ASSUME NEW g, NEW p, NEW answers, SettleStray(g, p, answers)
       PROVE  UNCHANGED <<stage, at, pc, group>>
  BY <1>10 DEF SettleStray, Settles
<1>11. UNCHANGED vars => UNCHANGED <<stage, at, pc, group>>
  BY DEF vars, flowVars
<1> QED
  BY <1>1, <1>3, <1>4, <1>5, <1>6, <1>7, <1>8, <1>9, <1>10, <1>11, Steps

LEMMA ModeIsObeyedStep ==
    ASSUME TypeOK, SubIsOption, GroupWaits, ModeIsObeyed, [Next]_vars PROVE ModeIsObeyed'
<1> SUFFICES ASSUME NEW i \in DOMAIN Route, stage' = "route", at' > i, Route[i].kind = "parallel"
             PROVE  Obeyed(PartsOf(i))'
  BY DEF ModeIsObeyed, PartsOf
<1>1. i \in Nat /\ i > 0
  BY Chains DEF ChainOf
<1>2. PartsOf(i) \subseteq Handlers
  BY PassedPartsHavePlace
<1>3. ASSUME stage # "route" \/ at # i \/ pc = "wait", NEW h \in PartsOf(i) PROVE ~ Starts(h)
  BY <1>3, PassedPartsHavePlace, StartsAt
<1>4. CASE stage = "route" /\ at > i
  <2>1. Obeyed(PartsOf(i))
    BY <1>4 DEF ModeIsObeyed, PartsOf
  <2>2. at # i
    BY <1>1, <1>4 DEF TypeOK
  <2> QED
    BY <1>2, <1>3, <2>1, <2>2, ObeyedStays
<1>5. CASE ~ (stage = "route" /\ at > i)
  <2>1. /\ at' = at + 1 /\ stage' = stage /\ at <= Len(Chain) /\ pc = "wait"
        /\ Chain[at].kind = "parallel" => group = "fulfilled"
    <3>1. HookResolves => at' = 1
      BY DEF HookResolves
    <3> QED
      BY <1>1, <1>5, <3>1, PlaceMovesAlways DEF PlaceMoves
  <2>2. at = i
    BY <1>1, <1>5, <2>1 DEF TypeOK
  <2>3. Chain = Route
    BY <2>1 DEF Chain, ChainOf
  <2>4. group = "fulfilled" /\ Current("parallel") /\ Parts = PartsOf(i)
    BY <2>1, <2>2, <2>3 DEF Current, Parts, PartsOf
  <2>5. Obeyed(PartsOf(i))
    BY <2>1, <2>4 DEF GroupWaits
  <2> QED
    BY <1>2, <1>3, <2>1, <2>5, ObeyedStays
<1> QED
  BY <1>4, <1>5

LEMMA DefaultIsLastStep ==
    ASSUME TypeOK, SubIsOption, DefaultIsLast, [Next]_vars PROVE DefaultIsLast'
<1> SUFFICES ASSUME NEW i \in DOMAIN Route, NEW k \in DOMAIN Route[i].options,
                    phase'[Route[i].options[k].sub[1]] # "idle"
             PROVE  \A j \in 1..(k - 1) : Satisfied(Route[i].options[j], found') = "no"
  BY DEF DefaultIsLast, Started
<1>1. PICK h : h = Route[i].options[k].sub[1]
  OBVIOUS
<1>2. found' = found
  BY InputsStay DEF inputs
<1>3. /\ i \in DOMAIN ChainOf("route") /\ ChainOf("route")[i] = Route[i]
      /\ Len(Route[i].options) \in Nat /\ DOMAIN Route[i].options = 1..Len(Route[i].options)
      /\ k \in 0..Len(ChainOf("route")[i].options) /\ k # 0
  BY Chains DEF ChainOf
<1>4. h \in Handlers /\ Place(h, "route", i, k, 1)
  <2>1. PICK q : q = Line(ChainOf("route")[i], k)
    OBVIOUS
  <2>2. q \in Seq(Handlers) /\ Len(q) > 0 /\ DOMAIN q = 1..Len(q) /\ Len(q) \in Nat
    BY <1>3, <2>1, Chains
  <2>3. h = q[1]
    BY <1>1, <1>3, <2>1 DEF Line
  <2>4. 1 \in DOMAIN q
    BY <2>2
  <2> QED
    BY <1>3, <2>1, <2>2, <2>3, <2>4 DEF Place
<1>5. CASE phase[h] # "idle"
  BY <1>1, <1>2, <1>5 DEF DefaultIsLast, Started
<1>6. CASE phase[h] = "idle"
  <2>1. Starts(h)
    BY <1>1, <1>4, <1>6, PhasesMove DEF PhaseMoves
  <2>2. stage = "route" /\ at = i /\ Deciding(Chain[at].options, found) = k
    BY <1>3, <1>4, <2>1, StartsAt
  <2>3. Chain[at].options = Route[i].options
    BY <1>3, <2>2 DEF Chain
  <2> QED
    BY <1>2, <1>3, <2>2, <2>3, FirstDecides
<1> QED
  BY <1>5, <1>6

LEMMA RefusedEndsStep ==
    ASSUME TypeOK, SubIsOption, RunningIsAwaited, RefusedEnds, [Next]_vars PROVE RefusedEnds'
<1> SUFFICES ASSUME NEW h \in InFlow, reply' = h, phase'[h] = "returned", h \notin called'
             PROVE  stage' = "over" \/ pc' = "resolve"
  BY DEF RefusedEnds, Refused, InFlow
<1>1. h \in Handlers
  BY InFlowIsHandlers
<1>2. h \notin {"none", "500", "502", "resolved", "rejected"}
  BY <1>1, RouteAssumption
<1>3. ASSUME phase[h] = "running"
      PROVE  stage' = "over" \/ pc' = "resolve"
  <2>1. Awaited(h)
    BY <1>3 DEF RunningIsAwaited
  <2>2. ASSUME NEW g \in Handlers, NEW next, NEW answers, ReturnSingle(g, next, answers)
        PROVE  pc' = "resolve"
    <3>1. phase' = [phase EXCEPT ![g] = "returned"]
      BY <2>2 DEF ReturnSingle, Settles
    <3>2. g = h
      BY <1>1, <1>3, <3>1 DEF TypeOK
    <3> QED
      BY <2>2, <3>2 DEF ReturnSingle, NextCalled
  <2>3. ASSUME NEW g \in Handlers, NEW next, NEW answers, ReturnInBranch(g, next, answers)
        PROVE  pc' = "resolve"
    <3>1. \/ phase' = [phase EXCEPT ![g] = "returned"]
          \/ \E f : phase' = [phase EXCEPT ![g] = "returned", ![f] = "running"]
      BY <2>3 DEF ReturnInBranch, Settles
    <3>2. g = h
      BY <1>1, <1>3, <3>1 DEF TypeOK
    <3>3. ~ NextCalled(h, next)
      BY <2>3, <3>2 DEF ReturnInBranch, NextCalled
    <3>4. ~ Finish(NextCalled(h, next))
      BY <1>2, <3>3 DEF Finish
    <3> QED
      BY <2>3, <3>2, <3>3, <3>4, Zenon DEF ReturnInBranch
  <2>4. ASSUME NEW g \in Handlers, Throw(g) PROVE FALSE
    BY <1>1, <1>3, <2>4 DEF Throw, Settles, TypeOK
  <2>5. ASSUME NEW g \in Handlers, NEW p, NEW answers,
               SettleInGroup(g, p, answers) \/ SettleStray(g, p, answers)
        PROVE  FALSE
    <3>1. phase' = [phase EXCEPT ![g] = p]
      BY <2>5 DEF SettleInGroup, SettleStray, Settles
    <3>2. g = h
      BY <1>1, <1>3, <3>1 DEF TypeOK
    <3> QED
      BY <2>1, <2>5, <3>2 DEF SettleInGroup, SettleStray, InGroup, Awaited, Current
  <2>6. stage # "over" /\ pc = "wait" /\ at <= Len(Chain) /\ Chain[at].kind # "parallel"
    BY <2>1 DEF Awaited, Running, Current
  <2>7. ASSUME \/ CallSingle \/ CallNoBranch \/ CallBranch \/ GroupResumes \/ PastEnd
               \/ HookResolves \/ RouteResolves \/ Rejects \/ UNCHANGED vars
               \/ \E n \in 1..(Cardinality(Handlers) + 1) : CallParallel(n)
        PROVE  FALSE
    BY <1>3, <2>6, <2>7 DEF CallSingle, CallNoBranch, CallBranch, GroupResumes, PastEnd,
       HookResolves, RouteResolves, Rejects, CallParallel, Running, Current, vars
  <2> QED
    BY <2>2, <2>3, <2>4, <2>5, <2>7, Steps
<1>4. phase[h] \in {"running", "returned"}
  BY <1>1, PhasesMove DEF PhaseMoves
<1>5. CASE phase[h] = "returned"
  <2>1. called \subseteq called'
    BY Steps DEF vars, CallSingle, CallParallel, CallBranch, CallNoBranch, GroupResumes,
       PastEnd, HookResolves, RouteResolves, Rejects, Throw, ReturnSingle, ReturnInBranch,
       SettleInGroup, SettleStray, Settles
  <2>2. reply = h
    <3>1. ASSUME NEW g \in Handlers, phase[g] = "running", NEW answers, reply' = Answer(g, answers)
          PROVE  reply = h
      BY <1>5, <3>1 DEF Answer
    <3>2. ASSUME NEW b, reply' = EndWith(b) PROVE reply = h
      BY <1>2, <3>2 DEF EndWith
    <3>3. CASE UNCHANGED reply
      BY <3>3
    <3> QED
      BY <3>1, <3>2, <3>3, Steps DEF vars, CallSingle, CallParallel, CallBranch, CallNoBranch,
         GroupResumes, PastEnd, HookResolves, RouteResolves, Rejects, Throw, ReturnSingle,
         ReturnInBranch, SettleInGroup, SettleStray, Settles
  <2>3. stage = "over" \/ pc = "resolve"
    BY <1>1, <1>5, <2>1, <2>2 DEF RefusedEnds, Refused
  <2>4. reply # "none"
    BY <1>2, <2>2
  <2> QED
    BY <2>3, <2>4, Steps DEF vars, flowVars, CallSingle, CallParallel, CallBranch, CallNoBranch,
       GroupResumes, PastEnd, HookResolves, RouteResolves, Rejects, Throw, ReturnSingle,
       ReturnInBranch, SettleInGroup, SettleStray, Settles, Running, Awaited
<1> QED
  BY <1>3, <1>4, <1>5

-----------------------------------------------------------------------------
(* The theorems.                                                           *)

LEMMA InitInv == Init => Inv
<1> SUFFICES ASSUME Init PROVE Inv
  OBVIOUS
<1> USE DEF Init
<1>1. stage \in {"hook", "route"} /\ Len(Chain) \in Nat
  BY Chains DEF Chain
<1>2. TypeOK
  <2>1. sub \in Seq(Handlers) /\ Len(sub) = 0
    OBVIOUS
  <2> QED
    BY <1>1, <2>1 DEF TypeOK
<1>3. SubIsOption
  BY DEF SubIsOption
<1>4. RunningIsAwaited
  BY InFlowIsHandlers DEF RunningIsAwaited
<1>5. GroupWaits
  BY DEF GroupWaits
<1>6. ModeIsObeyed
  <2>1. \A i \in DOMAIN Route : i > 0 /\ i \in Nat
    BY Chains DEF ChainOf
  <2> QED
    BY <2>1 DEF ModeIsObeyed
<1>7. DefaultIsLast
  <2>1. ASSUME NEW i \in DOMAIN Route, NEW k \in DOMAIN Route[i].options
        PROVE  ~ Started(Route[i].options[k].sub[1])
    <3>1. /\ i \in DOMAIN ChainOf("route") /\ ChainOf("route")[i] = Route[i]
          /\ k \in 0..Len(ChainOf("route")[i].options) /\ k # 0
      BY Chains DEF ChainOf
    <3>2. PICK q : q = Line(ChainOf("route")[i], k)
      OBVIOUS
    <3>3. q \in Seq(Handlers) /\ Len(q) > 0 /\ DOMAIN q = 1..Len(q) /\ Len(q) \in Nat
      BY <3>1, <3>2, Chains
    <3>4. Route[i].options[k].sub[1] = q[1] /\ q[1] \in Handlers
      BY <3>1, <3>2, <3>3 DEF Line
    <3> QED
      BY <3>4 DEF Started
  <2> QED
    BY <2>1 DEF DefaultIsLast
<1>8. RefusedEnds
  BY RouteAssumption DEF RefusedEnds
<1> QED
  BY <1>2, <1>3, <1>4, <1>5, <1>6, <1>7, <1>8 DEF Inv

LEMMA NextInv == Inv /\ [Next]_vars => Inv'
BY TypesStep, SubIsOptionStep, RunningIsAwaitedStep, GroupWaitsStep, ModeIsObeyedStep,
   DefaultIsLastStep, RefusedEndsStep DEF Inv

THEOREM Safety == Spec => []Inv
<1> QED
  BY InitInv, NextInv, PTL DEF Spec

\* What runs behind a group runs when the group has done what its mode says, and
\* an option is taken only when those before it were refused, for every route,
\* mode and behaviour of the handlers (parallelize-adapter.ts, flow-manager-adapter.ts).
THEOREM RoutesAreObeyed == Spec => []RouteIsObeyed
<1>1. Inv => RouteIsObeyed
  BY DEF Inv, RouteIsObeyed
<1> QED
  BY <1>1, Safety, PTL

\* Behind a handler that answered and did not call next() none is started: in its
\* flow, behind its branch or in the route after its hook (flow-adapter.ts,
\* http-adapter.ts, web-server.ts).
THEOREM RefusalsAreFinal == Spec => RefusalIsFinal
<1> DEFINE Final == (reply \in Handlers /\ Refused(reply))
                       => \A g \in Handlers : Started(g)' => Started(g)
<1>1. Inv /\ [Next]_vars => Final
  <2> SUFFICES ASSUME Inv, [Next]_vars, reply \in Handlers, Refused(reply), NEW g \in Handlers,
                      phase'[g] # "idle", phase[g] = "idle"
               PROVE  FALSE
    BY DEF Started
  <2>1. stage = "over" \/ pc = "resolve"
    BY DEF Inv, RefusedEnds
  <2>2. Starts(g)
    BY PhasesMove DEF Inv, PhaseMoves
  <2> QED
    BY <2>1, <2>2 DEF Starts
<1>2. Inv /\ [Next]_vars => [Final]_vars
  BY <1>1
<1> HIDE DEF Final
<1>3. Spec => [][Final]_vars
  BY <1>2, Safety, PTL DEF Spec
<1> QED
  BY <1>3, Zenon DEF RefusalIsFinal, Final

-----------------------------------------------------------------------------
(* The transactions of the example's handlers (Transactions).  Requests    *)
(* share nothing, so the inductive invariant is about the state of one: w  *)
(* is its workload, p its phase, a its place in the route, C what it has   *)
(* collected of its transactions T, c the cursor, f the failure and s the  *)
(* status of its answer.                                                   *)

Statuses == {"open", "committed", "rolledback", "stuck", "auto"}

WellTyped(w, p, a, C, T, c, f, s) ==
    /\ p \in {"new", "call", "token", "insert", "rollback", "commit", "over"}
    /\ a \in 0..(Len(w.route) + 1)
    /\ T \in Seq(Statuses)
    /\ C = NoTransactions \/ C \in Seq(Nat)
    /\ c \in 0..(Len(C) + 1)
    /\ f \in {0, 422, 500}
    /\ s \in Nat /\ ((s # 0) <=> (p = "over"))

\* The handler at which a request waits.
Placed(w, p, a) ==
    /\ p = "new" => a = 0
    /\ p = "token" => a \in DOMAIN w.route /\ w.route[a] = "token"
    /\ p \in {"insert", "rollback"} => a \in DOMAIN w.route /\ w.route[a] = "create"
    /\ p = "commit" => a \in DOMAIN w.route /\ w.route[a] = "commit"

\* The list that the handlers share has transactions that were opened, in this
\* order, and 0 for a row that needed none.
Ordered(C, T) ==
    C # NoTransactions => \A i \in DOMAIN C : C[i] # 0 =>
        /\ C[i] \in DOMAIN T /\ T[C[i]] # "auto"
        /\ \A j \in DOMAIN C : j < i => C[j] < C[i]

\* What was opened is in the list, but for the create that runs.
Listed(C, T, i) == T[i] = "auto" \/ \E j \in DOMAIN C : C[j] = i
NoneForgotten(w, p, C, T) ==
    /\ p \in {"new", "call", "token", "commit"} => \A i \in DOMAIN T : Listed(C, T, i)
    /\ p = "insert" => \A i \in DOMAIN T :
            Listed(C, T, i) \/ (w.transactional /\ i = Len(T))

\* The transaction of the create that runs is the last and in no list.
Inserting(w, p, C, T) ==
    p = "insert" /\ w.transactional =>
        /\ Len(T) > 0 /\ T[Len(T)] = "open"
        /\ C # NoTransactions => \A j \in DOMAIN C : C[j] < Len(T)

\* How far the commits and rollbacks have come.
Before(C, T, k, status) == \A j \in DOMAIN C : j < k /\ C[j] # 0 => T[C[j]] = status
After(C, T, k, status) == \A j \in DOMAIN C : j > k /\ C[j] # 0 => T[C[j]] = status
InTurn(p, C, T, c, f) ==
    /\ p \in {"new", "call", "token", "insert"} => \A i \in DOMAIN T : T[i] \in {"open", "auto"}
    /\ p = "commit" => /\ C # NoTransactions /\ c > 0
                       /\ Before(C, T, c, "committed") /\ After(C, T, c - 1, "open")
    /\ p = "rollback" => /\ f # 0 /\ (C = NoTransactions => c = 0)
                         /\ C # NoTransactions => /\ c <= Len(C)
                                                  /\ Before(C, T, c + 1, "open")
                                                  /\ After(C, T, c, "rolledback")

\* What the answer promises.
Kept(w, p, a, C, T, s) ==
    /\ s = 201 => \A i \in DOMAIN T : T[i] \in {"committed", "auto"}
    /\ p = "over" /\ a \in DOMAIN w.route /\ w.route[a] = "create" /\ C # NoTransactions =>
            \A j \in DOMAIN C : C[j] # 0 /\ T[C[j]] = "open" =>
                \E k \in DOMAIN C : k > j /\ T[C[k]] = "stuck"

Fits(w, p, a, C, T, c, f, s) ==
    /\ WellTyped(w, p, a, C, T, c, f, s) /\ Placed(w, p, a) /\ Ordered(C, T)
    /\ NoneForgotten(w, p, C, T) /\ Inserting(w, p, C, T) /\ InTurn(p, C, T, c, f)
    /\ Kept(w, p, a, C, T, s)

\* A transaction is settled once.
OnlyOpenMove(T, U) == \A i \in DOMAIN T : T[i] # "open" => U[i] = T[i]

HandlersInv ==
    /\ input \in Workloads
    /\ DOMAIN doing = Requests /\ DOMAIN place = Requests /\ DOMAIN collected = Requests
    /\ DOMAIN tx = Requests /\ DOMAIN cursor = Requests /\ DOMAIN failure = Requests
    /\ DOMAIN told = Requests
    /\ \A r \in Requests : Fits(input[r], doing[r], place[r], collected[r], tx[r], cursor[r],
                                failure[r], told[r])

\* A route is a sequence of handlers.
IsRoute(w) == Len(w.route) \in Nat /\ DOMAIN w.route = 1..Len(w.route)

-----------------------------------------------------------------------------
(* One request moves.                                                      *)

\* The next handler is called.
LEMMA Continues ==
    ASSUME NEW w, IsRoute(w), NEW p \in {"new", "call", "token"},
           NEW a, NEW C, NEW T, NEW c, NEW f,
           NEW s, Fits(w, p, a, C, T, c, f, s), p # "new" => a \in DOMAIN w.route
    PROVE  Fits(w, "call", a + 1, C, T, c, f, s)
<1>1. WellTyped(w, "call", a + 1, C, T, c, f, s)
  <2>1. a \in 0..Len(w.route) /\ Len(w.route) \in Nat
    BY DEF Fits, Placed, IsRoute
  <2> QED
    BY <2>1 DEF Fits, WellTyped
<1>2. Placed(w, "call", a + 1)
  BY DEF Placed
<1>3. NoneForgotten(w, "call", C, T) /\ Inserting(w, "call", C, T)
  BY DEF Fits, NoneForgotten, Inserting
<1>4. InTurn("call", C, T, c, f)
  BY DEF Fits, InTurn
<1>5. Kept(w, "call", a + 1, C, T, s)
  BY DEF Fits, Kept, WellTyped
<1> QED
  BY <1>1, <1>2, <1>3, <1>4, <1>5 DEF Fits

\* A handler that is no create answers, or the server does.
LEMMA Answers ==
    ASSUME NEW w, NEW p, NEW a, NEW C, NEW T, NEW c, NEW f,
           NEW s, Fits(w, p, a, C, T, c, f, s),
           ~ (a \in DOMAIN w.route /\ w.route[a] = "create"), NEW n \in Nat \ {0, 201}
    PROVE  Fits(w, "over", a, C, T, c, f, n)
<1>1. WellTyped(w, "over", a, C, T, c, f, n)
  BY DEF Fits, WellTyped
<1>2. Placed(w, "over", a) /\ Kept(w, "over", a, C, T, n)
  BY DEF Placed, Kept
<1>3. NoneForgotten(w, "over", C, T) /\ Inserting(w, "over", C, T) /\ InTurn("over", C, T, c, f)
  BY DEF NoneForgotten, Inserting, InTurn
<1> QED
  BY <1>1, <1>2, <1>3 DEF Fits

\* The token service or the insert without a transaction is awaited.
LEMMA Waits ==
    ASSUME NEW w, NEW a, NEW C, NEW T, NEW c, NEW f,
           NEW s, Fits(w, "call", a, C, T, c, f, s), a \in DOMAIN w.route,
           NEW p, \/ p = "token" /\ w.route[a] = "token"
                  \/ p = "insert" /\ w.route[a] = "create" /\ ~w.transactional
    PROVE  Fits(w, p, a, C, T, c, f, s)
<1>1. WellTyped(w, p, a, C, T, c, f, s)
  BY DEF Fits, WellTyped
<1>2. Placed(w, p, a) /\ Kept(w, p, a, C, T, s)
  BY DEF Fits, Placed, Kept
<1>3. NoneForgotten(w, p, C, T) /\ Inserting(w, p, C, T) /\ InTurn(p, C, T, c, f)
  BY DEF Fits, NoneForgotten, Inserting, InTurn
<1> QED
  BY <1>1, <1>2, <1>3 DEF Fits

\* A transaction is opened.
LEMMA Opens ==
    ASSUME NEW w, NEW a, NEW C, NEW T, NEW c, NEW f,
           NEW s, Fits(w, "call", a, C, T, c, f, s),
           a \in DOMAIN w.route, w.route[a] = "create", w.transactional
    PROVE  /\ Fits(w, "insert", a, C, Append(T, "open"), c, f, s)
           /\ OnlyOpenMove(T, Append(T, "open"))
<1>1. PICK U : U = Append(T, "open")
  OBVIOUS
<1>2. T \in Seq(Statuses) /\ "open" \in Statuses
  BY DEF Fits, WellTyped, Statuses
<1>3. /\ U \in Seq(Statuses) /\ Len(U) = Len(T) + 1 /\ Len(T) \in Nat
      /\ DOMAIN U = 1..Len(U) /\ DOMAIN T = 1..Len(T)
      /\ U[Len(U)] = "open" /\ \A i \in DOMAIN T : i \in DOMAIN U /\ U[i] = T[i]
      /\ \A i \in DOMAIN U : i \in DOMAIN T \/ i = Len(U)
  BY <1>1, <1>2
<1>4. WellTyped(w, "insert", a, C, U, c, f, s)
  BY <1>3 DEF Fits, WellTyped
<1>5. Placed(w, "insert", a) /\ Kept(w, "insert", a, C, U, s)
  BY DEF Fits, Placed, Kept, WellTyped
<1>6. Ordered(C, U)
  BY <1>3 DEF Fits, Ordered
<1>7. NoneForgotten(w, "insert", C, U)
  BY <1>3 DEF Fits, NoneForgotten, Listed
<1>8. Inserting(w, "insert", C, U)
  <2>1. ASSUME C # NoTransactions, NEW j \in DOMAIN C PROVE C[j] < Len(U)
    <3>1. C[j] \in Nat
      BY <2>1 DEF Fits, WellTyped
    <3>2. C[j] = 0 \/ C[j] \in DOMAIN T
      BY <2>1 DEF Fits, Ordered
    <3> QED
      BY <1>3, <3>1, <3>2
  <2> QED
    BY <1>3, <2>1 DEF Inserting
<1>9. InTurn("insert", C, U, c, f)
  BY <1>3 DEF Fits, InTurn
<1>10. OnlyOpenMove(T, U)
  BY <1>3 DEF OnlyOpenMove
<1> QED
  BY <1>1, <1>4, <1>5, <1>6, <1>7, <1>8, <1>9, <1>10 DEF Fits

\* A create gives up: what is collected is to be rolled back.
LEMMA GivesUp ==
    ASSUME NEW w, NEW p \in {"call", "insert"}, NEW a, NEW C, NEW T, NEW c, NEW f,
           NEW s, Fits(w, p, a, C, T, c, f, s),
           a \in DOMAIN w.route, w.route[a] = "create", NEW g \in {422, 500}
    PROVE  Fits(w, "rollback", a, C, T, IF C = NoTransactions THEN 0 ELSE Len(C), g, s)
<1>1. PICK d : d = IF C = NoTransactions THEN 0 ELSE Len(C)
  OBVIOUS
<1>2. Len(C) \in Nat
  BY DEF Fits, WellTyped, NoTransactions
<1>3. WellTyped(w, "rollback", a, C, T, d, g, s)
  BY <1>1, <1>2 DEF Fits, WellTyped
<1>4. Placed(w, "rollback", a) /\ Kept(w, "rollback", a, C, T, s)
  BY DEF Fits, Placed, Kept, WellTyped
<1>5. NoneForgotten(w, "rollback", C, T) /\ Inserting(w, "rollback", C, T)
  BY DEF NoneForgotten, Inserting
<1>6. InTurn("rollback", C, T, d, g)
  <2>1. ASSUME C # NoTransactions
        PROVE  Before(C, T, d + 1, "open") /\ After(C, T, d, "rolledback")
    <3>1. C \in Seq(Nat) /\ DOMAIN C = 1..Len(C) /\ d = Len(C)
      BY <1>1, <2>1 DEF Fits, WellTyped
    <3>2. \A j \in DOMAIN C : C[j] # 0 => T[C[j]] = "open"
      BY <2>1 DEF Fits, Ordered, InTurn
    <3> QED
      BY <3>1, <3>2 DEF Before, After
  <2> QED
    BY <1>1, <1>2, <2>1 DEF InTurn
<1> QED
  BY <1>1, <1>3, <1>4, <1>5, <1>6 DEF Fits

\* A row that needs no transaction is inserted.
LEMMA InsertsAlone ==
    ASSUME NEW w, NEW a, NEW C, NEW T, NEW c, NEW f,
           NEW s, Fits(w, "insert", a, C, T, c, f, s), ~ w.transactional
    PROVE  /\ Fits(w, "insert", a, C, Append(T, "auto"), c, f, s)
           /\ OnlyOpenMove(T, Append(T, "auto"))
<1>1. PICK U : U = Append(T, "auto")
  OBVIOUS
<1>2. T \in Seq(Statuses) /\ "auto" \in Statuses
  BY DEF Fits, WellTyped, Statuses
<1>3. /\ U \in Seq(Statuses) /\ Len(U) = Len(T) + 1 /\ Len(T) \in Nat
      /\ DOMAIN U = 1..Len(U) /\ DOMAIN T = 1..Len(T)
      /\ U[Len(U)] = "auto" /\ \A i \in DOMAIN T : i \in DOMAIN U /\ U[i] = T[i]
      /\ \A i \in DOMAIN U : i \in DOMAIN T \/ i = Len(U)
  BY <1>1, <1>2
<1>4. WellTyped(w, "insert", a, C, U, c, f, s)
  BY <1>3 DEF Fits, WellTyped
<1>5. Placed(w, "insert", a) /\ Kept(w, "insert", a, C, U, s)
  BY DEF Fits, Placed, Kept, WellTyped
<1>6. Ordered(C, U)
  BY <1>3 DEF Fits, Ordered
<1>7. NoneForgotten(w, "insert", C, U)
  BY <1>3 DEF Fits, NoneForgotten, Listed
<1>8. Inserting(w, "insert", C, U)
  BY DEF Inserting
<1>9. InTurn("insert", C, U, c, f)
  BY <1>3 DEF Fits, InTurn
<1>10. OnlyOpenMove(T, U)
  BY <1>3 DEF OnlyOpenMove
<1> QED
  BY <1>1, <1>4, <1>5, <1>6, <1>7, <1>8, <1>9, <1>10 DEF Fits

\* The create succeeded: its transaction is collected, and the flow goes on.
LEMMA Collects ==
    ASSUME NEW w, IsRoute(w), NEW a, NEW C, NEW T, NEW c, NEW f,
           NEW s, Fits(w, "insert", a, C, T, c, f, s), C # NoTransactions
    PROVE  Fits(w, "call", a + 1, Append(C, IF w.transactional THEN Len(T) ELSE 0), T, c, f, s)
<1>1. PICK n : n = IF w.transactional THEN Len(T) ELSE 0
  OBVIOUS
<1>2. PICK D : D = Append(C, n)
  OBVIOUS
<1>3. T \in Seq(Statuses) /\ Len(T) \in Nat /\ DOMAIN T = 1..Len(T) /\ C \in Seq(Nat)
  BY DEF Fits, WellTyped
<1>4. n \in Nat
  BY <1>1, <1>3
<1>5. /\ D \in Seq(Nat) /\ Len(D) = Len(C) + 1 /\ Len(C) \in Nat
      /\ DOMAIN D = 1..Len(D) /\ DOMAIN C = 1..Len(C)
      /\ D[Len(D)] = n /\ \A i \in DOMAIN C : i \in DOMAIN D /\ D[i] = C[i]
      /\ \A i \in DOMAIN D : i \in DOMAIN C \/ i = Len(D)
      /\ Len(D) \in DOMAIN D
  BY <1>2, <1>3, <1>4
<1>6. WellTyped(w, "call", a + 1, D, T, c, f, s)
  <2>1. a \in DOMAIN w.route
    BY DEF Fits, Placed
  <2>2. a + 1 \in 0..(Len(w.route) + 1) /\ c \in 0..(Len(D) + 1)
    BY <1>5, <2>1 DEF Fits, WellTyped, IsRoute
  <2> QED
    BY <1>5, <2>2 DEF Fits, WellTyped
<1>7. Placed(w, "call", a + 1) /\ Kept(w, "call", a + 1, D, T, s) /\ Inserting(w, "call", D, T)
  BY DEF Fits, Placed, Kept, WellTyped, Inserting
<1>8. Ordered(D, T)
  <2>1. ASSUME NEW i \in DOMAIN D, D[i] # 0, i \in DOMAIN C
        PROVE  /\ D[i] \in DOMAIN T /\ T[D[i]] # "auto"
               /\ \A j \in DOMAIN D : j < i => D[j] < D[i]
    <3>1. \A j \in DOMAIN D : j < i => j \in DOMAIN C
      BY <1>5, <2>1
    <3> QED
      BY <1>5, <2>1, <3>1 DEF Fits, Ordered
  <2>2. ASSUME NEW i \in DOMAIN D, D[i] # 0, i = Len(D)
        PROVE  /\ D[i] \in DOMAIN T /\ T[D[i]] # "auto"
               /\ \A j \in DOMAIN D : j < i => D[j] < D[i]
    <3>1. w.transactional /\ D[i] = Len(T)
      BY <1>1, <1>5, <2>2
    <3>2. Len(T) > 0 /\ T[Len(T)] = "open" /\ \A j \in DOMAIN C : C[j] < Len(T)
      BY <3>1 DEF Fits, Inserting
    <3>3. \A j \in DOMAIN D : j < i => j \in DOMAIN C
      BY <1>5, <2>2
    <3> QED
      BY <1>3, <1>5, <3>1, <3>2, <3>3
  <2> QED
    BY <1>5, <2>1, <2>2 DEF Ordered
<1>9. NoneForgotten(w, "call", D, T)
  <2>1. ASSUME NEW i \in DOMAIN T PROVE Listed(D, T, i)
    <3>1. CASE Listed(C, T, i)
      BY <1>5, <3>1 DEF Listed
    <3>2. CASE w.transactional /\ i = Len(T)
      BY <1>1, <1>5, <3>2 DEF Listed
    <3> QED
      BY <3>1, <3>2 DEF Fits, NoneForgotten
  <2> QED
    BY <2>1 DEF NoneForgotten
<1>10. InTurn("call", D, T, c, f)
  BY DEF Fits, InTurn
<1> QED
  BY <1>1, <1>2, <1>6, <1>7, <1>8, <1>9, <1>10 DEF Fits

-----------------------------------------------------------------------------
(* The transactions of a request are settled.                              *)

Settled(C, T, c, status) == IF C[c] = 0 THEN T ELSE [T EXCEPT ![C[c]] = status]

\* U is T with the transaction in turn settled, and with no other change.
OneIsSettled(C, T, c, status, U) ==
    /\ U \in Seq(Statuses) /\ DOMAIN U = DOMAIN T /\ Ordered(C, U) /\ OnlyOpenMove(T, U)
    /\ C[c] # 0 => U[C[c]] = status
    /\ \A j \in DOMAIN C : j # c /\ C[j] # 0 => U[C[j]] = T[C[j]]
    /\ \A i \in DOMAIN T : T[i] = "auto" => U[i] = "auto"

\* One open transaction of the list is settled, and no other one changes.
LEMMA SettlesOne ==
    ASSUME NEW C \in Seq(Nat), C # NoTransactions, NEW T \in Seq(Statuses), Ordered(C, T),
           NEW c \in DOMAIN C, C[c] # 0 => T[C[c]] = "open",
           NEW status \in Statuses, status # "auto", NEW U, U = Settled(C, T, c, status)
    PROVE  OneIsSettled(C, T, c, status, U)
<1>1. CASE C[c] = 0
  BY <1>1 DEF Settled, OnlyOpenMove, OneIsSettled
<1>2. CASE C[c] # 0
  <2>1. C[c] \in DOMAIN T /\ T[C[c]] = "open"
    BY <1>2 DEF Ordered
  <2>2. PICK n : n = C[c]
    OBVIOUS
  <2>3. U = [T EXCEPT ![n] = status]
    BY <1>2, <2>2 DEF Settled
  <2>4. /\ U \in Seq(Statuses) /\ DOMAIN U = DOMAIN T /\ U[n] = status
        /\ \A i \in DOMAIN T : i # n => U[i] = T[i]
    BY <2>1, <2>2, <2>3
  <2>5. \A j \in DOMAIN C : j # c /\ C[j] # 0 => C[j] # n /\ C[j] \in DOMAIN T
    <3> SUFFICES ASSUME NEW j \in DOMAIN C, j # c, C[j] # 0
                 PROVE  C[j] # n /\ C[j] \in DOMAIN T
      OBVIOUS
    <3>1. C[j] \in Nat /\ C[c] \in Nat /\ j \in Nat /\ c \in Nat
      OBVIOUS
    <3>2. C[j] \in DOMAIN T
      BY DEF Ordered
    <3>3. j < c => C[j] < C[c]
      BY <1>2 DEF Ordered
    <3>4. c < j => C[c] < C[j]
      BY DEF Ordered
    <3> QED
      BY <2>2, <3>1, <3>2, <3>3, <3>4
  <2>6. \A j \in DOMAIN C : j # c /\ C[j] # 0 => U[C[j]] = T[C[j]]
    BY <2>4, <2>5
  <2>7. Ordered(C, U)
    BY <1>2, <2>2, <2>4, <2>6 DEF Ordered
  <2>8. OnlyOpenMove(T, U) /\ \A i \in DOMAIN T : T[i] = "auto" => U[i] = "auto"
    BY <2>1, <2>2, <2>4 DEF OnlyOpenMove
  <2> QED
    BY <2>2, <2>4, <2>6, <2>7, <2>8 DEF OneIsSettled
<1> QED
  BY <1>1, <1>2

\* The last that is open is rolled back.
LEMMA RollsBack ==
    ASSUME NEW w, NEW a, NEW C, NEW T, NEW c, NEW f,
           NEW s, Fits(w, "rollback", a, C, T, c, f, s), c > 0, NEW U,
           U = Settled(C, T, c, "rolledback")
    PROVE  Fits(w, "rollback", a, C, U, c - 1, f, s) /\ OnlyOpenMove(T, U)
<1>1. /\ C # NoTransactions /\ C \in Seq(Nat) /\ T \in Seq(Statuses) /\ Ordered(C, T)
      /\ Len(C) \in Nat /\ DOMAIN C = 1..Len(C) /\ c \in DOMAIN C
  BY DEF Fits, WellTyped, InTurn
<1>2. Before(C, T, c + 1, "open") /\ After(C, T, c, "rolledback")
  BY <1>1 DEF Fits, InTurn
<1>3. C[c] # 0 => T[C[c]] = "open"
  BY <1>1, <1>2 DEF Before
<1>4. "rolledback" \in Statuses /\ "rolledback" # "auto"
  BY DEF Statuses
<1>5. OneIsSettled(C, T, c, "rolledback", U)
  BY <1>1, <1>3, <1>4, SettlesOne
<1>6. WellTyped(w, "rollback", a, C, U, c - 1, f, s)
  BY <1>1, <1>5 DEF Fits, WellTyped, OneIsSettled
<1>7. Placed(w, "rollback", a) /\ Kept(w, "rollback", a, C, U, s)
  BY DEF Fits, Placed, Kept, WellTyped
<1>8. NoneForgotten(w, "rollback", C, U) /\ Inserting(w, "rollback", C, U)
  BY DEF NoneForgotten, Inserting
<1>9. Before(C, U, c, "open") /\ After(C, U, c - 1, "rolledback")
  <2>1. ASSUME NEW j \in DOMAIN C, j < c, C[j] # 0 PROVE U[C[j]] = "open"
    <3>1. j # c /\ j < c + 1
      BY <1>1, <2>1
    <3> QED
      BY <1>2, <1>5, <2>1, <3>1 DEF Before, OneIsSettled
  <2>2. ASSUME NEW j \in DOMAIN C, j > c - 1, C[j] # 0 PROVE U[C[j]] = "rolledback"
    <3>1. j = c \/ (j # c /\ j > c)
      BY <1>1, <2>2
    <3> QED
      BY <1>2, <1>5, <2>2, <3>1 DEF After, OneIsSettled
  <2> QED
    BY <2>1, <2>2 DEF Before, After
<1>10. InTurn("rollback", C, U, c - 1, f)
  BY <1>1, <1>9 DEF Fits, InTurn
<1> QED
  BY <1>5, <1>6, <1>7, <1>8, <1>10 DEF Fits, OneIsSettled

\* A rollback fails: what comes before it in the list stays open.
LEMMA RollbackFails ==
    ASSUME NEW w, NEW a, NEW C, NEW T, NEW c, NEW f,
           NEW s, Fits(w, "rollback", a, C, T, c, f, s), c > 0, C[c] # 0, NEW U,
           U = Settled(C, T, c, "stuck")
    PROVE  Fits(w, "over", a, C, U, c, f, 500) /\ OnlyOpenMove(T, U)
<1>1. /\ C # NoTransactions /\ C \in Seq(Nat) /\ T \in Seq(Statuses) /\ Ordered(C, T)
      /\ Len(C) \in Nat /\ DOMAIN C = 1..Len(C) /\ c \in DOMAIN C
  BY DEF Fits, WellTyped, InTurn
<1>2. Before(C, T, c + 1, "open") /\ After(C, T, c, "rolledback")
  BY <1>1 DEF Fits, InTurn
<1>3. C[c] # 0 => T[C[c]] = "open"
  BY <1>1, <1>2 DEF Before
<1>4. "stuck" \in Statuses /\ "stuck" # "auto"
  BY DEF Statuses
<1>5. OneIsSettled(C, T, c, "stuck", U)
  BY <1>1, <1>3, <1>4, SettlesOne
<1>6. WellTyped(w, "over", a, C, U, c, f, 500)
  BY <1>1, <1>5 DEF Fits, WellTyped, OneIsSettled
<1>7. Kept(w, "over", a, C, U, 500)
  <2>1. ASSUME NEW j \in DOMAIN C, C[j] # 0, U[C[j]] = "open" PROVE c > j
    BY <1>1, <1>2, <1>5, <2>1 DEF After, OneIsSettled
  <2> QED
    BY <1>1, <1>5, <2>1 DEF Kept, OneIsSettled
<1>8. /\ Placed(w, "over", a) /\ NoneForgotten(w, "over", C, U) /\ Inserting(w, "over", C, U)
      /\ InTurn("over", C, U, c, f)
  BY DEF Placed, NoneForgotten, Inserting, InTurn
<1> QED
  BY <1>5, <1>6, <1>7, <1>8 DEF Fits, OneIsSettled

\* All of them are rolled back, and the create answers.
LEMMA GaveUp ==
    ASSUME NEW w, NEW a, NEW C, NEW T, NEW f,
           NEW s, Fits(w, "rollback", a, C, T, 0, f, s)
    PROVE  Fits(w, "over", a, C, T, 0, f, f)
<1>1. f \in {422, 500}
  BY DEF Fits, WellTyped, InTurn
<1>2. WellTyped(w, "over", a, C, T, 0, f, f)
  BY <1>1 DEF Fits, WellTyped
<1>3. Kept(w, "over", a, C, T, f)
  <2>1. ASSUME C # NoTransactions, NEW j \in DOMAIN C, C[j] # 0 PROVE T[C[j]] # "open"
    <3>1. j > 0 /\ After(C, T, 0, "rolledback")
      BY <2>1 DEF Fits, WellTyped, InTurn
    <3> QED
      BY <2>1, <3>1 DEF After
  <2> QED
    BY <1>1, <2>1 DEF Kept
<1>4. /\ Placed(w, "over", a) /\ NoneForgotten(w, "over", C, T) /\ Inserting(w, "over", C, T)
      /\ InTurn("over", C, T, 0, f)
  BY DEF Placed, NoneForgotten, Inserting, InTurn
<1> QED
  BY <1>2, <1>3, <1>4 DEF Fits

\* The controller begins to commit.
LEMMA StartsCommit ==
    ASSUME NEW w, NEW a, NEW C, NEW T, NEW c, NEW f,
           NEW s, Fits(w, "call", a, C, T, c, f, s),
           a \in DOMAIN w.route, w.route[a] = "commit", C # NoTransactions
    PROVE  Fits(w, "commit", a, C, T, 1, f, s)
<1>1. C \in Seq(Nat) /\ Len(C) \in Nat /\ DOMAIN C = 1..Len(C)
  BY DEF Fits, WellTyped
<1>2. WellTyped(w, "commit", a, C, T, 1, f, s)
  BY <1>1 DEF Fits, WellTyped
<1>3. Placed(w, "commit", a) /\ Kept(w, "commit", a, C, T, s) /\ Inserting(w, "commit", C, T)
  BY DEF Fits, Placed, Kept, WellTyped, Inserting
<1>4. NoneForgotten(w, "commit", C, T)
  BY DEF Fits, NoneForgotten
<1>5. \A j \in DOMAIN C : C[j] # 0 => T[C[j]] = "open"
  BY DEF Fits, Ordered, InTurn
<1>6. Before(C, T, 1, "committed") /\ After(C, T, 0, "open")
  BY <1>1, <1>5 DEF Before, After
<1>7. InTurn("commit", C, T, 1, f)
  BY <1>6 DEF InTurn
<1> QED
  BY <1>2, <1>3, <1>4, <1>7 DEF Fits

\* The next one is committed.
LEMMA Commits ==
    ASSUME NEW w, NEW a, NEW C, NEW T, NEW c, NEW f,
           NEW s, Fits(w, "commit", a, C, T, c, f, s), c <= Len(C), NEW U,
           U = Settled(C, T, c, "committed")
    PROVE  Fits(w, "commit", a, C, U, c + 1, f, s) /\ OnlyOpenMove(T, U)
<1>1. /\ C # NoTransactions /\ C \in Seq(Nat) /\ T \in Seq(Statuses) /\ Ordered(C, T)
      /\ Len(C) \in Nat /\ DOMAIN C = 1..Len(C) /\ c \in DOMAIN C
  BY DEF Fits, WellTyped, InTurn
<1>2. Before(C, T, c, "committed") /\ After(C, T, c - 1, "open")
  BY <1>1 DEF Fits, InTurn
<1>3. C[c] # 0 => T[C[c]] = "open"
  BY <1>1, <1>2 DEF After
<1>4. "committed" \in Statuses /\ "committed" # "auto"
  BY DEF Statuses
<1>5. OneIsSettled(C, T, c, "committed", U)
  BY <1>1, <1>3, <1>4, SettlesOne
<1>6. WellTyped(w, "commit", a, C, U, c + 1, f, s)
  BY <1>1, <1>5 DEF Fits, WellTyped, OneIsSettled
<1>7. Placed(w, "commit", a) /\ Kept(w, "commit", a, C, U, s) /\ Inserting(w, "commit", C, U)
  BY DEF Fits, Placed, Kept, WellTyped, Inserting
<1>8. NoneForgotten(w, "commit", C, U)
  BY <1>5 DEF Fits, NoneForgotten, Listed, OneIsSettled
<1>9. Before(C, U, c + 1, "committed") /\ After(C, U, c, "open")
  <2>1. ASSUME NEW j \in DOMAIN C, j < c + 1, C[j] # 0 PROVE U[C[j]] = "committed"
    <3>1. j = c \/ (j # c /\ j < c)
      BY <1>1, <2>1
    <3> QED
      BY <1>2, <1>5, <2>1, <3>1 DEF Before, OneIsSettled
  <2>2. ASSUME NEW j \in DOMAIN C, j > c, C[j] # 0 PROVE U[C[j]] = "open"
    <3>1. j # c /\ j > c - 1
      BY <1>1, <2>2
    <3> QED
      BY <1>2, <1>5, <2>2, <3>1 DEF After, OneIsSettled
  <2> QED
    BY <2>1, <2>2 DEF Before, After
<1>10. InTurn("commit", C, U, c + 1, f)
  <2>1. c + 1 > 0 /\ (c + 1) - 1 = c
    BY <1>1
  <2> QED
    BY <1>1, <1>9, <2>1 DEF InTurn
<1> QED
  BY <1>5, <1>6, <1>7, <1>8, <1>10 DEF Fits, OneIsSettled

\* A commit fails, and the server answers.
LEMMA CommitIsRefused ==
    ASSUME NEW w, NEW a, NEW C, NEW T, NEW c, NEW f,
           NEW s, Fits(w, "commit", a, C, T, c, f, s), c <= Len(C), NEW U,
           U = Settled(C, T, c, "stuck")
    PROVE  Fits(w, "over", a, C, U, c, f, 500) /\ OnlyOpenMove(T, U)
<1>1. /\ C # NoTransactions /\ C \in Seq(Nat) /\ T \in Seq(Statuses) /\ Ordered(C, T)
      /\ Len(C) \in Nat /\ DOMAIN C = 1..Len(C) /\ c \in DOMAIN C
  BY DEF Fits, WellTyped, InTurn
<1>2. C[c] # 0 => T[C[c]] = "open"
  BY <1>1 DEF Fits, InTurn, After
<1>3. "stuck" \in Statuses /\ "stuck" # "auto"
  BY DEF Statuses
<1>4. OneIsSettled(C, T, c, "stuck", U)
  BY <1>1, <1>2, <1>3, SettlesOne
<1>5. WellTyped(w, "over", a, C, U, c, f, 500)
  BY <1>1, <1>4 DEF Fits, WellTyped, OneIsSettled
<1>6. Placed(w, "over", a) /\ Kept(w, "over", a, C, U, 500)
  BY DEF Fits, Placed, Kept
<1>7. NoneForgotten(w, "over", C, U) /\ Inserting(w, "over", C, U) /\ InTurn("over", C, U, c, f)
  BY DEF NoneForgotten, Inserting, InTurn
<1> QED
  BY <1>4, <1>5, <1>6, <1>7 DEF Fits, OneIsSettled

\* All of them are committed, and the controller answers 201.
LEMMA IsCommitted ==
    ASSUME NEW w, NEW a, NEW C, NEW T, NEW c, NEW f,
           NEW s, Fits(w, "commit", a, C, T, c, f, s), c > Len(C)
    PROVE  Fits(w, "over", a, C, T, c, f, 201)
<1>1. /\ C # NoTransactions /\ C \in Seq(Nat) /\ Len(C) \in Nat /\ DOMAIN C = 1..Len(C)
      /\ T \in Seq(Statuses) /\ c \in Nat
  BY DEF Fits, WellTyped, InTurn
<1>2. ASSUME NEW i \in DOMAIN T PROVE T[i] \in {"committed", "auto"}
  <2>1. CASE T[i] = "auto"
    BY <2>1
  <2>2. CASE T[i] # "auto"
    <3>1. PICK j \in DOMAIN C : C[j] = i
      BY <2>2 DEF Fits, NoneForgotten, Listed
    <3>2. j < c /\ C[j] # 0
      BY <1>1, <3>1
    <3> QED
      BY <3>1, <3>2 DEF Fits, InTurn, Before
  <2> QED
    BY <2>1, <2>2
<1>3. WellTyped(w, "over", a, C, T, c, f, 201)
  BY DEF Fits, WellTyped
<1>4. Placed(w, "over", a) /\ Kept(w, "over", a, C, T, 201)
  BY <1>2 DEF Fits, Placed, Kept
<1>5. NoneForgotten(w, "over", C, T) /\ Inserting(w, "over", C, T) /\ InTurn("over", C, T, c, f)
  BY DEF NoneForgotten, Inserting, InTurn
<1> QED
  BY <1>3, <1>4, <1>5 DEF Fits

-----------------------------------------------------------------------------
(* A step of the handlers is a move of one request.                        *)

FitsNow(r) == Fits(input[r], doing[r], place[r], collected[r], tx[r], cursor[r],
        failure[r], told[r])

TransactionsMove == \A q \in Requests : OnlyOpenMove(tx[q], tx'[q])

\* u is v, but for the value e at r.
ChangedTo(r, v, u, e) == (u = v /\ v[r] = e) \/ u = [v EXCEPT ![r] = e]
Becomes(r, p, a, C, T, c, f, s) ==
    /\ input' = input
    /\ ChangedTo(r, doing, doing', p) /\ ChangedTo(r, place, place', a)
    /\ ChangedTo(r, collected, collected', C) /\ ChangedTo(r, tx, tx', T)
    /\ ChangedTo(r, cursor, cursor', c) /\ ChangedTo(r, failure, failure', f)
    /\ ChangedTo(r, told, told', s)

LEMMA ChangedThere ==
    ASSUME NEW v, DOMAIN v = Requests, NEW r \in Requests, NEW u, NEW e, ChangedTo(r, v, u, e)
    PROVE  DOMAIN u = Requests /\ u[r] = e /\ \A q \in Requests : q # r => u[q] = v[q]
BY DEF ChangedTo

\* What one request becomes is all that a step changes.
LEMMA OneMoves ==
    ASSUME HandlersInv, NEW r \in Requests,
           NEW p, NEW a, NEW C, NEW T, NEW c, NEW f, NEW s,
           Becomes(r, p, a, C, T, c, f, s), Fits(input[r], p, a, C, T, c, f, s),
           OnlyOpenMove(tx[r], T)
    PROVE  HandlersInv' /\ TransactionsMove
<1>1. /\ DOMAIN doing' = Requests /\ doing'[r] = p
      /\ \A q \in Requests : q # r => doing'[q] = doing[q]
  BY ChangedThere DEF HandlersInv, Becomes
<1>2. /\ DOMAIN place' = Requests /\ place'[r] = a
      /\ \A q \in Requests : q # r => place'[q] = place[q]
  BY ChangedThere DEF HandlersInv, Becomes
<1>3. /\ DOMAIN collected' = Requests /\ collected'[r] = C
      /\ \A q \in Requests : q # r => collected'[q] = collected[q]
  BY ChangedThere DEF HandlersInv, Becomes
<1>4. DOMAIN tx' = Requests /\ tx'[r] = T /\ \A q \in Requests : q # r => tx'[q] = tx[q]
  BY ChangedThere DEF HandlersInv, Becomes
<1>5. /\ DOMAIN cursor' = Requests /\ cursor'[r] = c
      /\ \A q \in Requests : q # r => cursor'[q] = cursor[q]
  BY ChangedThere DEF HandlersInv, Becomes
<1>6. /\ DOMAIN failure' = Requests /\ failure'[r] = f
      /\ \A q \in Requests : q # r => failure'[q] = failure[q]
  BY ChangedThere DEF HandlersInv, Becomes
<1>7. DOMAIN told' = Requests /\ told'[r] = s /\ \A q \in Requests : q # r => told'[q] = told[q]
  BY ChangedThere DEF HandlersInv, Becomes
<1>8. input' = input
  BY DEF Becomes
<1>9. ASSUME NEW q \in Requests
      PROVE  Fits(input'[q], doing'[q], place'[q], collected'[q], tx'[q], cursor'[q],
                  failure'[q], told'[q])
  <2>1. CASE q = r
    BY <1>1, <1>2, <1>3, <1>4, <1>5, <1>6, <1>7, <1>8, <2>1
  <2>2. CASE q # r
    <3>1. Fits(input[q], doing[q], place[q], collected[q], tx[q], cursor[q], failure[q],
               told[q])
      BY DEF HandlersInv
    <3> QED
      BY <1>1, <1>2, <1>3, <1>4, <1>5, <1>6, <1>7, <1>8, <2>2, <3>1, Zenon
  <2> QED
    BY <2>1, <2>2
<1>10. HandlersInv'
  BY <1>1, <1>2, <1>3, <1>4, <1>5, <1>6, <1>7, <1>8, <1>9 DEF HandlersInv
<1>11. ASSUME NEW q \in Requests PROVE OnlyOpenMove(tx[q], tx'[q])
  <2>1. q = r \/ tx'[q] = tx[q]
    BY <1>4
  <2> QED
    BY <1>4, <2>1 DEF OnlyOpenMove
<1> QED
  BY <1>10, <1>11 DEF TransactionsMove

LEMMA HasRoute ==
    ASSUME HandlersInv, NEW r \in Requests
    PROVE  IsRoute(input[r]) /\ FitsNow(r)
BY WorkloadsAssumption DEF HandlersInv, IsRoute, FitsNow

LEMMA NoneMove == ASSUME NEW T PROVE OnlyOpenMove(T, T)
BY DEF OnlyOpenMove

-----------------------------------------------------------------------------
(* The steps.                                                              *)

\* The flow of the route.
LEMMA ArriveMoves ==
    ASSUME HandlersInv, NEW r \in Requests, Arrive(r)
    PROVE  HandlersInv' /\ TransactionsMove
<1>1. Becomes(r, "call", place[r] + 1, collected[r], tx[r], cursor[r], failure[r], told[r])
  BY DEF Arrive, Continue, txVars, Becomes, ChangedTo
<1>2. doing[r] = "new" /\ IsRoute(input[r]) /\ FitsNow(r)
  BY HasRoute DEF Arrive
<1>3. Fits(input[r], "call", place[r] + 1, collected[r], tx[r], cursor[r], failure[r], told[r])
  BY <1>2, Continues DEF FitsNow
<1> QED
  BY <1>1, <1>3, OneMoves, NoneMove

\* Some handler that is no create calls the next one.
LEMMA GoesOn ==
    ASSUME HandlersInv, NEW r \in Requests, doing[r] \in {"call", "token"},
           place[r] \in DOMAIN input[r].route, Continue(r), UNCHANGED <<input, txVars>>
    PROVE  HandlersInv' /\ TransactionsMove
<1>1. Becomes(r, "call", place[r] + 1, collected[r], tx[r], cursor[r], failure[r], told[r])
  BY DEF Continue, txVars, Becomes, ChangedTo
<1>2. IsRoute(input[r]) /\ FitsNow(r)
  BY HasRoute
<1>3. Fits(input[r], "call", place[r] + 1, collected[r], tx[r], cursor[r], failure[r], told[r])
  BY <1>2, Continues DEF FitsNow
<1> QED
  BY <1>1, <1>3, OneMoves, NoneMove

\* Some handler that is no create answers, or the server does.
LEMMA IsTold ==
    ASSUME HandlersInv, NEW r \in Requests, NEW status \in Nat \ {0, 201},
           ~ (place[r] \in DOMAIN input[r].route /\ input[r].route[place[r]] = "create"),
           Tell(r, status), UNCHANGED <<input, txVars>>
    PROVE  HandlersInv' /\ TransactionsMove
<1>1. Becomes(r, "over", place[r], collected[r], tx[r], cursor[r], failure[r], status)
  BY DEF Tell, txVars, Becomes, ChangedTo
<1>2. FitsNow(r)
  BY HasRoute
<1>3. Fits(input[r], "over", place[r], collected[r], tx[r], cursor[r], failure[r], status)
  BY <1>2, Answers DEF FitsNow
<1> QED
  BY <1>1, <1>3, OneMoves, NoneMove

\* A handler awaits the token service, or an insert that needs no transaction.
LEMMA IsAwaited ==
    ASSUME HandlersInv, NEW r \in Requests, NEW p,
           doing[r] = "call", place[r] \in DOMAIN input[r].route,
           \/ p = "token" /\ input[r].route[place[r]] = "token"
           \/ p = "insert" /\ input[r].route[place[r]] = "create" /\ ~ input[r].transactional,
           Await(r, p), UNCHANGED <<input, txVars>>
    PROVE  HandlersInv' /\ TransactionsMove
<1>1. Becomes(r, p, place[r], collected[r], tx[r], cursor[r], failure[r], told[r])
  BY DEF Await, txVars, Becomes, ChangedTo
<1>2. FitsNow(r)
  BY HasRoute
<1>3. Fits(input[r], p, place[r], collected[r], tx[r], cursor[r], failure[r], told[r])
  BY <1>2, Waits DEF FitsNow
<1> QED
  BY <1>1, <1>3, OneMoves, NoneMove

LEMMA OtherHandlersMove ==
    ASSUME HandlersInv, NEW r \in Requests,
           \/ FlowEnds(r)
           \/ \E accepted \in BOOLEAN : Validate(r, accepted)
           \/ \E authorized \in BOOLEAN : AskToken(r, authorized)
           \/ \E status \in {200, 401, 500} : TokenSettles(r, status)
           \/ \E ok \in BOOLEAN : ReadExample(r, ok)
           \/ ListExample(r)
    PROVE  HandlersInv' /\ TransactionsMove
<1>1. CASE FlowEnds(r)
  <2>1. place[r] \notin DOMAIN input[r].route
    BY <1>1, HasRoute DEF FlowEnds, IsRoute
  <2> QED
    BY <1>1, <2>1, IsTold DEF FlowEnds
<1>2. ASSUME NEW accepted \in BOOLEAN, Validate(r, accepted)
      PROVE  HandlersInv' /\ TransactionsMove
  BY <1>2, GoesOn, IsTold DEF Validate, Calls
<1>3. ASSUME NEW authorized \in BOOLEAN, AskToken(r, authorized)
      PROVE  HandlersInv' /\ TransactionsMove
  BY <1>3, IsAwaited, IsTold DEF AskToken, Calls
<1>4. ASSUME NEW status \in {200, 401, 500}, TokenSettles(r, status)
      PROVE  HandlersInv' /\ TransactionsMove
  <2>1. /\ doing[r] = "token"
        /\ place[r] \in DOMAIN input[r].route /\ input[r].route[place[r]] = "token"
    BY <1>4, HasRoute DEF TokenSettles, FitsNow, Fits, Placed
  <2> QED
    BY <1>4, <2>1, GoesOn, IsTold DEF TokenSettles
<1>5. ASSUME NEW ok \in BOOLEAN, ReadExample(r, ok)
      PROVE  HandlersInv' /\ TransactionsMove
  BY <1>5, GoesOn, IsTold DEF ReadExample, Calls
<1>6. CASE ListExample(r)
  BY <1>6, IsTold DEF ListExample, Calls
<1> QED
  BY <1>1, <1>2, <1>3, <1>4, <1>5, <1>6

\* A create fails, with the transactions T.
LEMMA CreateFails ==
    ASSUME HandlersInv, NEW r \in Requests, NEW status \in {422, 500}, Fail(r, status),
           place[r] \in DOMAIN input[r].route, input[r].route[place[r]] = "create",
           doing[r] \in {"call", "insert"},
           NEW T, ChangedTo(r, tx, tx', T), OnlyOpenMove(tx[r], T),
           UNCHANGED <<input, collected>>,
           Fits(input[r], doing[r], place[r], collected[r], T, cursor[r], failure[r], told[r])
    PROVE  HandlersInv' /\ TransactionsMove
<1>1. PICK c : c = IF collected[r] = NoTransactions THEN 0 ELSE Len(collected[r])
  OBVIOUS
<1>2. Becomes(r, "rollback", place[r], collected[r], T, c, status, told[r])
  BY <1>1 DEF Fail, Await, Becomes, ChangedTo
<1>3. Fits(input[r], "rollback", place[r], collected[r], T, c, status, told[r])
  BY <1>1, GivesUp
<1> QED
  BY <1>2, <1>3, OneMoves

LEMMA CreateMoves ==
    ASSUME HandlersInv, NEW r \in Requests, NEW accepted \in BOOLEAN, Create(r, accepted)
    PROVE  HandlersInv' /\ TransactionsMove
<1>1. /\ doing[r] = "call"
      /\ place[r] \in DOMAIN input[r].route /\ input[r].route[place[r]] = "create"
      /\ FitsNow(r)
  BY HasRoute DEF Create, Calls
<1>2. CASE accepted
  <2>1. ~ input[r].transactional /\ Await(r, "insert") /\ UNCHANGED <<input, txVars>>
    BY <1>2 DEF Create, txVars
  <2> QED
    BY <1>1, <2>1, IsAwaited
<1>3. CASE ~ accepted
  <2>1. Fail(r, 422) /\ UNCHANGED <<input, collected>> /\ ChangedTo(r, tx, tx', tx[r])
    BY <1>3 DEF Create, ChangedTo
  <2> QED
    BY <1>1, <2>1, CreateFails, NoneMove DEF FitsNow
<1> QED
  BY <1>2, <1>3

LEMMA BeginMoves ==
    ASSUME HandlersInv, NEW r \in Requests, NEW accepted \in BOOLEAN, NEW ok \in BOOLEAN,
           Begin(r, accepted, ok)
    PROVE  HandlersInv' /\ TransactionsMove
<1>1. /\ doing[r] = "call"
      /\ place[r] \in DOMAIN input[r].route /\ input[r].route[place[r]] = "create"
      /\ input[r].transactional /\ FitsNow(r)
  BY HasRoute DEF Begin, Calls
<1>2. CASE ok
  <2>1. PICK T : T = Append(tx[r], "open")
    OBVIOUS
  <2>2. Becomes(r, "insert", place[r], collected[r], T, cursor[r], failure[r], told[r])
    BY <1>2, <2>1 DEF Begin, Await, Becomes, ChangedTo
  <2>3. /\ Fits(input[r], "insert", place[r], collected[r], T, cursor[r], failure[r], told[r])
        /\ OnlyOpenMove(tx[r], T)
    BY <1>1, <2>1, Opens DEF FitsNow
  <2> QED
    BY <2>2, <2>3, OneMoves
<1>3. CASE ~ ok
  <2>1. Fail(r, 500) /\ UNCHANGED <<input, collected>> /\ ChangedTo(r, tx, tx', tx[r])
    BY <1>3 DEF Begin, ChangedTo
  <2> QED
    BY <1>1, <2>1, CreateFails, NoneMove DEF FitsNow
<1> QED
  BY <1>2, <1>3

LEMMA InsertOkMoves ==
    ASSUME HandlersInv, NEW r \in Requests, InsertOk(r)
    PROVE  HandlersInv' /\ TransactionsMove
<1>1. PICK T : T = IF input[r].transactional THEN tx[r] ELSE Append(tx[r], "auto")
  OBVIOUS
<1>2. /\ doing[r] = "insert"
      /\ place[r] \in DOMAIN input[r].route /\ input[r].route[place[r]] = "create"
      /\ IsRoute(input[r]) /\ FitsNow(r) /\ ChangedTo(r, tx, tx', T)
  BY <1>1, HasRoute DEF InsertOk, FitsNow, Fits, Placed, ChangedTo
<1>3. /\ Fits(input[r], "insert", place[r], collected[r], T, cursor[r], failure[r], told[r])
      /\ OnlyOpenMove(tx[r], T)
  <2>1. CASE input[r].transactional
    BY <1>1, <1>2, <2>1, NoneMove DEF FitsNow
  <2>2. CASE ~ input[r].transactional
    BY <1>1, <1>2, <2>2, InsertsAlone DEF FitsNow
  <2> QED
    BY <2>1, <2>2
<1>4. CASE collected[r] = NoTransactions
  <2>1. Fail(r, 500) /\ UNCHANGED <<input, collected>>
    BY <1>4 DEF InsertOk
  <2> QED
    BY <1>2, <1>3, <2>1, CreateFails
<1>5. CASE collected[r] # NoTransactions
  <2>1. PICK n : n = IF input[r].transactional THEN Len(T) ELSE 0
    OBVIOUS
  <2>2. n = IF input[r].transactional THEN Len(tx[r]) ELSE 0
    BY <1>1, <2>1
  <2>3. PICK C : C = Append(collected[r], n)
    OBVIOUS
  <2>4. Becomes(r, "call", place[r] + 1, C, T, cursor[r], failure[r], told[r])
    BY <1>2, <1>5, <2>2, <2>3 DEF InsertOk, Continue, Becomes, ChangedTo
  <2>5. Fits(input[r], "call", place[r] + 1, C, T, cursor[r], failure[r], told[r])
    BY <1>2, <1>3, <1>5, <2>1, <2>3, Collects
  <2> QED
    BY <1>3, <2>4, <2>5, OneMoves
<1> QED
  BY <1>4, <1>5

LEMMA InsertFailsMoves ==
    ASSUME HandlersInv, NEW r \in Requests, InsertFails(r)
    PROVE  HandlersInv' /\ TransactionsMove
<1>1. /\ doing[r] = "insert"
      /\ place[r] \in DOMAIN input[r].route /\ input[r].route[place[r]] = "create"
      /\ FitsNow(r)
  BY HasRoute DEF InsertFails, FitsNow, Fits, Placed
<1>2. Fail(r, 500) /\ UNCHANGED <<input, collected>> /\ ChangedTo(r, tx, tx', tx[r])
  BY DEF InsertFails, ChangedTo
<1> QED
  BY <1>1, <1>2, CreateFails, NoneMove DEF FitsNow

\* The rollbacks.
LEMMA RollBackMoves ==
    ASSUME HandlersInv, NEW r \in Requests, RollBack(r) \/ RollBackFails(r) \/ RolledBack(r)
    PROVE  HandlersInv' /\ TransactionsMove
<1>1. FitsNow(r) /\ doing[r] = "rollback"
  BY HasRoute DEF RollBack, RollBackFails, RolledBack
<1>2. CASE RollBack(r)
  <2>1. PICK T : T = Settled(collected[r], tx[r], cursor[r], "rolledback")
    OBVIOUS
  <2>2. Becomes(r, "rollback", place[r], collected[r], T, cursor[r] - 1, failure[r], told[r])
    BY <1>1, <1>2, <2>1 DEF RollBack, SettleTurn, Turn, Settled, Becomes, ChangedTo
  <2>3. /\ Fits(input[r], "rollback", place[r], collected[r], T, cursor[r] - 1, failure[r],
                told[r])
        /\ OnlyOpenMove(tx[r], T)
    BY <1>1, <1>2, <2>1, RollsBack DEF FitsNow, RollBack
  <2> QED
    BY <2>2, <2>3, OneMoves
<1>3. CASE RollBackFails(r)
  <2>1. PICK T : T = Settled(collected[r], tx[r], cursor[r], "stuck")
    OBVIOUS
  <2>2. Becomes(r, "over", place[r], collected[r], T, cursor[r], failure[r], 500)
    BY <1>3, <2>1 DEF RollBackFails, SettleTurn, Turn, Settled, Tell, Becomes, ChangedTo
  <2>3. /\ Fits(input[r], "over", place[r], collected[r], T, cursor[r], failure[r], 500)
        /\ OnlyOpenMove(tx[r], T)
    BY <1>1, <1>3, <2>1, RollbackFails DEF FitsNow, RollBackFails, Turn
  <2> QED
    BY <2>2, <2>3, OneMoves
<1>4. CASE RolledBack(r)
  <2>1. Becomes(r, "over", place[r], collected[r], tx[r], cursor[r], failure[r], failure[r])
    BY <1>4 DEF RolledBack, Tell, txVars, Becomes, ChangedTo
  <2>2. Fits(input[r], "over", place[r], collected[r], tx[r], cursor[r], failure[r], failure[r])
    BY <1>1, <1>4, GaveUp DEF FitsNow, RolledBack
  <2> QED
    BY <2>1, <2>2, OneMoves, NoneMove
<1> QED
  BY <1>2, <1>3, <1>4

\* The commits.
LEMMA StartCommitMoves ==
    ASSUME HandlersInv, NEW r \in Requests, StartCommit(r)
    PROVE  HandlersInv' /\ TransactionsMove
<1>1. /\ doing[r] = "call"
      /\ place[r] \in DOMAIN input[r].route /\ input[r].route[place[r]] = "commit"
      /\ FitsNow(r)
  BY HasRoute DEF StartCommit, Calls
<1>2. CASE collected[r] = NoTransactions
  <2>1. Tell(r, 500) /\ UNCHANGED <<input, txVars>>
    BY <1>2 DEF StartCommit, txVars
  <2> QED
    BY <1>1, <2>1, IsTold
<1>3. CASE collected[r] # NoTransactions
  <2>1. Becomes(r, "commit", place[r], collected[r], tx[r], 1, failure[r], told[r])
    BY <1>3 DEF StartCommit, Await, Becomes, ChangedTo
  <2>2. Fits(input[r], "commit", place[r], collected[r], tx[r], 1, failure[r], told[r])
    BY <1>1, <1>3, StartsCommit DEF FitsNow
  <2> QED
    BY <2>1, <2>2, OneMoves, NoneMove
<1> QED
  BY <1>2, <1>3

LEMMA CommitMoves ==
    ASSUME HandlersInv, NEW r \in Requests, Commit(r) \/ CommitFails(r) \/ Committed(r)
    PROVE  HandlersInv' /\ TransactionsMove
<1>1. FitsNow(r) /\ doing[r] = "commit"
  BY HasRoute DEF Commit, CommitFails, Committed
<1>2. CASE Commit(r)
  <2>1. PICK T : T = Settled(collected[r], tx[r], cursor[r], "committed")
    OBVIOUS
  <2>2. Becomes(r, "commit", place[r], collected[r], T, cursor[r] + 1, failure[r], told[r])
    BY <1>1, <1>2, <2>1 DEF Commit, SettleTurn, Turn, Settled, Becomes, ChangedTo
  <2>3. /\ Fits(input[r], "commit", place[r], collected[r], T, cursor[r] + 1, failure[r],
                told[r])
        /\ OnlyOpenMove(tx[r], T)
    BY <1>1, <1>2, <2>1, Commits DEF FitsNow, Commit
  <2> QED
    BY <2>2, <2>3, OneMoves
<1>3. CASE CommitFails(r)
  <2>1. PICK T : T = Settled(collected[r], tx[r], cursor[r], "stuck")
    OBVIOUS
  <2>2. Becomes(r, "over", place[r], collected[r], T, cursor[r], failure[r], 500)
    BY <1>3, <2>1
       DEF CommitFails, AfterCommitFails, SettleTurn, Turn, Settled, Tell, Becomes, ChangedTo
  <2>3. /\ Fits(input[r], "over", place[r], collected[r], T, cursor[r], failure[r], 500)
        /\ OnlyOpenMove(tx[r], T)
    BY <1>1, <1>3, <2>1, CommitIsRefused DEF FitsNow, CommitFails
  <2> QED
    BY <2>2, <2>3, OneMoves
<1>4. CASE Committed(r)
  <2>1. Becomes(r, "over", place[r], collected[r], tx[r], cursor[r], failure[r], 201)
    BY <1>4 DEF Committed, Tell, txVars, Becomes, ChangedTo
  <2>2. Fits(input[r], "over", place[r], collected[r], tx[r], cursor[r], failure[r], 201)
    BY <1>1, <1>4, IsCommitted DEF FitsNow, Committed
  <2> QED
    BY <2>1, <2>2, OneMoves, NoneMove
<1> QED
  BY <1>2, <1>3, <1>4

-----------------------------------------------------------------------------
(* The theorem.                                                            *)

LEMMA HandlersStart == HandlersInit => HandlersInv
<1> SUFFICES ASSUME HandlersInit PROVE HandlersInv
  OBVIOUS
<1>1. ASSUME NEW r \in Requests, NEW C, C = <<>> \/ C = NoTransactions
      PROVE  Fits(input[r], "new", 0, C, <<>>, 0, 0, 0)
  <2>1. /\ Len(C) \in Nat /\ (C = NoTransactions \/ C \in Seq(Nat))
        /\ <<>> \in Seq(Statuses) /\ \A i \in DOMAIN <<>> : FALSE
    <3>1. CASE C = <<>>
      BY <3>1
    <3>2. CASE C = NoTransactions
      BY <3>2 DEF NoTransactions
    <3> QED
      BY <1>1, <3>1, <3>2
  <2>2. Len(input[r].route) \in Nat
    BY WorkloadsAssumption DEF HandlersInit
  <2>3. WellTyped(input[r], "new", 0, C, <<>>, 0, 0, 0)
    BY <2>1, <2>2 DEF WellTyped
  <2>4. Ordered(C, <<>>)
    BY <1>1, <2>1 DEF Ordered
  <2>5. /\ Placed(input[r], "new", 0) /\ NoneForgotten(input[r], "new", C, <<>>)
        /\ Inserting(input[r], "new", C, <<>>) /\ InTurn("new", C, <<>>, 0, 0)
        /\ Kept(input[r], "new", 0, C, <<>>, 0)
    BY <2>1 DEF Placed, NoneForgotten, Inserting, InTurn, Kept
  <2> QED
    BY <2>3, <2>4, <2>5 DEF Fits
<1>2. ASSUME NEW r \in Requests
      PROVE  Fits(input[r], doing[r], place[r], collected[r], tx[r], cursor[r], failure[r],
                  told[r])
  <2>1. /\ doing[r] = "new" /\ place[r] = 0 /\ tx[r] = <<>> /\ cursor[r] = 0 /\ failure[r] = 0
        /\ told[r] = 0 /\ (collected[r] = <<>> \/ collected[r] = NoTransactions)
    BY DEF HandlersInit
  <2> QED
    BY <1>1, <2>1
<1> QED
  BY <1>2 DEF HandlersInit, HandlersInv

LEMMA HandlersStepMoves ==
    ASSUME HandlersInv, [HandlersNext]_handlerVars
    PROVE  HandlersInv' /\ TransactionsMove
<1>1. ASSUME NEW r \in Requests, HandlerStep(r)
      PROVE  HandlersInv' /\ TransactionsMove
  <2>1. CASE \E accepted \in BOOLEAN : Create(r, accepted)
    BY <2>1, CreateMoves
  <2>2. CASE \E accepted, ok \in BOOLEAN : Begin(r, accepted, ok)
    BY <2>2, BeginMoves
  <2>3. CASE Arrive(r) \/ InsertOk(r) \/ InsertFails(r) \/ StartCommit(r)
    BY <2>3, ArriveMoves, InsertOkMoves, InsertFailsMoves, StartCommitMoves
  <2>4. CASE RollBack(r) \/ RollBackFails(r) \/ RolledBack(r)
    BY <2>4, RollBackMoves
  <2>5. CASE Commit(r) \/ CommitFails(r) \/ Committed(r)
    BY <2>5, CommitMoves
  <2>6. CASE \/ FlowEnds(r)
             \/ \E accepted \in BOOLEAN : Validate(r, accepted)
             \/ \E authorized \in BOOLEAN : AskToken(r, authorized)
             \/ \E status \in {200, 401, 500} : TokenSettles(r, status)
             \/ \E ok \in BOOLEAN : ReadExample(r, ok)
             \/ ListExample(r)
    BY <2>6, OtherHandlersMove
  <2> QED
    BY <1>1, <2>1, <2>2, <2>3, <2>4, <2>5, <2>6 DEF HandlerStep
<1>2. CASE UNCHANGED handlerVars
  <2>1. HandlersInv'
    BY <1>2 DEF handlerVars, txVars, HandlersInv
  <2>2. TransactionsMove
    BY <1>2, NoneMove DEF handlerVars, txVars, TransactionsMove
  <2> QED
    BY <2>1, <2>2
<1> QED
  BY <1>1, <1>2 DEF HandlersNext

LEMMA HandlersInvGives ==
    ASSUME HandlersInv
    PROVE  HandlersTypeOK /\ CreatedIsCommitted /\ FailedCreateUndone
<1>1. ASSUME NEW r \in Requests
      PROVE  /\ doing[r] \in {"new", "call", "token", "insert", "rollback", "commit", "over"}
             /\ place[r] \in 0..(Len(input[r].route) + 1)
             /\ \A i \in DOMAIN tx[r] :
                     tx[r][i] \in {"open", "committed", "rolledback", "stuck", "auto"}
             /\ collected[r] # NoTransactions => \A i \in DOMAIN collected[r] :
                     collected[r][i] \in 0..Len(tx[r])
             /\ cursor[r] \in 0..(Len(collected[r]) + 1)
             /\ failure[r] \in {0, 422, 500}
             /\ (told[r] # 0) = (doing[r] = "over")
  <2>1. /\ WellTyped(input[r], doing[r], place[r], collected[r], tx[r], cursor[r],
                     failure[r], told[r])
        /\ Ordered(collected[r], tx[r])
    BY HasRoute DEF FitsNow, Fits
  <2>2. \A i \in DOMAIN tx[r] : tx[r][i] \in {"open", "committed", "rolledback", "stuck", "auto"}
    BY <2>1 DEF WellTyped, Statuses
  <2>3. ASSUME collected[r] # NoTransactions, NEW i \in DOMAIN collected[r]
        PROVE  collected[r][i] \in 0..Len(tx[r])
    <3>1. collected[r][i] \in Nat /\ tx[r] \in Seq(Statuses)
      BY <2>1, <2>3 DEF WellTyped
    <3>2. collected[r][i] = 0 \/ collected[r][i] \in DOMAIN tx[r]
      BY <2>1, <2>3 DEF Ordered
    <3> QED
      BY <3>1, <3>2
  <2>4. (told[r] # 0) = (doing[r] = "over")
    BY <2>1 DEF WellTyped
  <2> QED
    BY <2>1, <2>2, <2>3, <2>4 DEF WellTyped
<1>2. HandlersTypeOK
  BY <1>1, Zenon DEF HandlersTypeOK
<1>3. \A r \in Requests : Kept(input[r], doing[r], place[r], collected[r], tx[r], told[r])
  BY HasRoute DEF FitsNow, Fits
<1>4. CreatedIsCommitted
  BY <1>3 DEF CreatedIsCommitted, Kept
<1>5. FailedCreateUndone
  BY <1>3 DEF FailedCreateUndone, Kept
<1> QED
  BY <1>2, <1>4, <1>5

\* A create happens with all of its transactions or is told to have failed:
\* a client is told 201 only when every transaction that its request opened is
\* committed, a create that fails has left none of the earlier ones open unless
\* the rollback of a later one failed, and nothing is settled twice (the
\* handlers of src/presentation).
THEOREM CreatesAreAtomic == HandlersSpec => CreateIsAtomic
<1>1. HandlersInit => HandlersInv
  BY HandlersStart
<1>2. HandlersInv /\ [HandlersNext]_handlerVars => HandlersInv'
  BY HandlersStepMoves
<1>3. HandlersInv => HandlersTypeOK /\ CreatedIsCommitted /\ FailedCreateUndone
  BY HandlersInvGives
<1>4. HandlersInv /\ [HandlersNext]_handlerVars =>
        [\A r \in Requests : \A i \in DOMAIN tx[r] :
            tx[r][i] # "open" => tx'[r][i] = tx[r][i]]_handlerVars
  BY HandlersStepMoves DEF TransactionsMove, OnlyOpenMove
<1> QED
  BY <1>1, <1>2, <1>3, <1>4, PTL DEF HandlersSpec, CreateIsAtomic, SettledOnce

-----------------------------------------------------------------------------
(* Data: induction, and functions that go on from index to index.          *)
\* Induction over the natural numbers, for the elements of a set.
LEMMA SetInduction ==
    ASSUME NEW T, 0 \in T, \A n \in Nat : n \in T => n + 1 \in T
    PROVE Nat \subseteq T
<1>1. PICK R : R = OpToRel(<, Nat)
  OBVIOUS
<1>2. IsWellFoundedOn(R, Nat)
  BY <1>1, NatLessThanWellFounded
<1>3. \A x, y \in Nat : <<x, y>> \in R <=> x < y
  BY <1>1 DEF OpToRel
<1>4. SUFFICES ASSUME Nat \ T # {} PROVE FALSE
  OBVIOUS
<1>5. PICK m \in Nat \ T : \A y \in Nat \ T : ~ (<<y, m>> \in R)
  BY <1>2, <1>4, WFMin
<1>6. m # 0
  OBVIOUS
<1>7. m - 1 \in Nat /\ m = (m - 1) + 1 /\ m - 1 < m
  BY <1>6
<1>8. m - 1 \notin T
  BY <1>7
<1> QED
  BY <1>3, <1>5, <1>7, <1>8

\* A function that goes on from one index to the next exists, and there is one.
Goes(f, n, X, base, step) ==
    f[0] = base /\ \A i \in 1..n : f[i - 1] \in X => f[i] = step[i][f[i - 1]]

LEMMA Iterates ==
    ASSUME NEW n \in Nat, NEW X, NEW base \in X, NEW step \in [1..n -> [X -> X]]
    PROVE  \E f \in [0..n -> X] : Goes(f, n, X, base, step)
<1> DEFINE To(f, m) == f[0] = base /\ \A i \in 1..m : f[i] = step[i][f[i - 1]]
           Exist == {m \in Nat : m <= n => \E f \in [0..m -> X] : To(f, m)}
<1>1. 0 \in Exist
  <2>1. PICK f : f = [i \in 0..0 |-> base]
    OBVIOUS
  <2>2. f \in [0..0 -> X] /\ To(f, 0)
    BY <2>1
  <2> QED
    BY <2>2
<1>2. ASSUME NEW m \in Nat, m \in Exist PROVE m + 1 \in Exist
  <2> SUFFICES ASSUME m + 1 <= n PROVE \E f \in [0..(m + 1) -> X] : To(f, m + 1)
    OBVIOUS
  <2>1. PICK f \in [0..m -> X] : To(f, m)
    BY <1>2
  <2>2. m + 1 \in 1..n /\ f[m] \in X
    OBVIOUS
  <2>3. step[m + 1][f[m]] \in X
    BY <2>2
  <2>4. PICK h : h = [i \in 0..(m + 1) |-> IF i <= m THEN f[i] ELSE step[m + 1][f[m]]]
    OBVIOUS
  <2>5. h \in [0..(m + 1) -> X]
    BY <2>3, <2>4
  <2>6. \A i \in 0..m : h[i] = f[i]
    BY <2>4
  <2>7. h[m + 1] = step[m + 1][h[m]]
    BY <2>4, <2>6
  <2>8. ASSUME NEW i \in 1..(m + 1) PROVE h[i] = step[i][h[i - 1]]
    <3>1. CASE i = m + 1
      BY <2>7, <3>1
    <3>2. CASE i # m + 1
      <4>1. i \in 1..m /\ i - 1 \in 0..m /\ i \in 0..m
        BY <3>2
      <4> QED
        BY <2>1, <2>6, <4>1
    <3> QED
      BY <3>1, <3>2
  <2>9. To(h, m + 1)
    BY <2>1, <2>6, <2>8
  <2> QED
    BY <2>5, <2>9
<1>3. n \in Exist
  <2> HIDE DEF Exist
  <2> QED
    BY <1>1, <1>2, SetInduction
<1>4. PICK f \in [0..n -> X] : To(f, n)
  BY <1>3
<1> QED
  BY <1>4 DEF Goes

LEMMA IteratesOnce ==
    ASSUME NEW n \in Nat, NEW X, NEW base \in X, NEW step \in [1..n -> [X -> X]],
           NEW g, Goes(g, n, X, base, step)
    PROVE  \A i \in 0..n : g[i] \in X
<1> DEFINE In == {m \in Nat : m <= n => g[m] \in X}
<1>1. 0 \in In
  BY DEF Goes
<1>2. ASSUME NEW m \in Nat, m \in In PROVE m + 1 \in In
  <2> SUFFICES ASSUME m + 1 <= n PROVE g[m + 1] \in X
    OBVIOUS
  <2>1. m + 1 \in 1..n /\ (m + 1) - 1 = m /\ g[m] \in X
    BY <1>2
  <2>2. g[m + 1] = step[m + 1][g[m]]
    BY <2>1 DEF Goes
  <2> QED
    BY <2>1, <2>2
<1>3. Nat \subseteq In
  <2> HIDE DEF In
  <2> QED
    BY <1>1, <1>2, SetInduction
<1> QED
  BY <1>3

-----------------------------------------------------------------------------
(* Sequences, one after another.                                           *)

LEMMA FlattenSteps ==
    ASSUME NEW S, NEW ss \in Seq(Seq(S))
    PROVE  \E f \in [0..Len(ss) -> Seq(S)] :
              /\ f[0] = <<>> /\ FlattenSeq(ss) = f[Len(ss)]
              /\ \A i \in 1..Len(ss) : f[i] = f[i - 1] \o ss[i]
<1> DEFINE Loops(g) == g = [i \in 1..Len(ss) |-> IF i = 1 THEN ss[i] ELSE g[i - 1] \o ss[i]]
<1>1. Len(ss) \in Nat /\ DOMAIN ss = 1..Len(ss) /\ \A i \in 1..Len(ss) : ss[i] \in Seq(S)
  OBVIOUS
<1>2. PICK step : step = [i \in 1..Len(ss) |-> [s \in Seq(S) |-> s \o ss[i]]]
  OBVIOUS
<1>3. step \in [1..Len(ss) -> [Seq(S) -> Seq(S)]]
  BY <1>1, <1>2
<1>4. <<>> \in Seq(S)
  OBVIOUS
<1>5. PICK f \in [0..Len(ss) -> Seq(S)] : Goes(f, Len(ss), Seq(S), <<>>, step)
  BY <1>1, <1>3, <1>4, Iterates
<1>6. ASSUME NEW i \in 1..Len(ss) PROVE f[i] = f[i - 1] \o ss[i]
  <2>1. f[i - 1] \in Seq(S)
    <3>1. i - 1 \in 0..Len(ss)
      BY <1>1
    <3> QED
      BY <3>1
  <2> QED
    BY <1>2, <1>5, <2>1 DEF Goes
<1>7. f[0] = <<>>
  BY <1>5 DEF Goes
<1>8. \E g : Loops(g)
  <2>1. PICK g : g = [i \in 1..Len(ss) |-> f[i]]
    OBVIOUS
  <2>2. ASSUME NEW i \in 1..Len(ss)
        PROVE  f[i] = IF i = 1 THEN ss[i] ELSE g[i - 1] \o ss[i]
    <3>1. CASE i = 1
      <4>1. i - 1 = 0
        BY <3>1
      <4>2. f[i] = <<>> \o ss[i]
        BY <1>6, <1>7, <4>1, Zenon
      <4>3. ss[i] \in Seq(S)
        BY <1>1
      <4> QED
        BY <3>1, <4>2, <4>3
    <3>2. CASE i # 1
      <4>1. i - 1 \in 1..Len(ss)
        BY <1>1, <3>2
      <4> QED
        BY <1>6, <2>1, <3>2, <4>1
    <3> QED
      BY <3>1, <3>2
  <2> QED
    BY <2>1, <2>2
<1>9. PICK g : g = CHOOSE h : Loops(h)
  OBVIOUS
<1>10. Loops(g)
  BY <1>8, <1>9
<1>11. PICK k : k = [i \in 0..Len(ss) |-> IF i = 0 THEN <<>> ELSE g[i]]
  OBVIOUS
<1>12. k[0] = <<>> /\ \A i \in 1..Len(ss) : k[i] = g[i]
  BY <1>1, <1>11
<1>13. ASSUME NEW i \in 1..Len(ss), k[i - 1] \in Seq(S) PROVE k[i] = k[i - 1] \o ss[i]
  <2>1. CASE i = 1
    <3>1. k[i - 1] = <<>> /\ g[i] = ss[i] /\ ss[i] \in Seq(S)
      BY <1>1, <1>10, <1>12, <2>1
    <3> QED
      BY <1>12, <3>1
  <2>2. CASE i # 1
    <3>1. i - 1 \in 1..Len(ss)
      BY <1>1, <2>2
    <3>2. g[i] = g[i - 1] \o ss[i]
      BY <1>10, <2>2
    <3> QED
      BY <1>12, <3>1, <3>2
  <2> QED
    BY <2>1, <2>2
<1>14. Goes(k, Len(ss), Seq(S), <<>>, step)
  <2>1. ASSUME NEW i \in 1..Len(ss), k[i - 1] \in Seq(S) PROVE k[i] = step[i][k[i - 1]]
    BY <1>2, <1>13, <2>1
  <2> QED
    BY <1>12, <2>1 DEF Goes
<1>15. \A i \in 0..Len(ss) : k[i] \in Seq(S)
  BY <1>1, <1>3, <1>4, <1>14, IteratesOnce
<1>16. k \in [0..Len(ss) -> Seq(S)]
  BY <1>11, <1>15
<1>17. ASSUME NEW i \in 1..Len(ss) PROVE k[i] = k[i - 1] \o ss[i]
  <2>1. i - 1 \in 0..Len(ss)
    BY <1>1
  <2> QED
    BY <1>13, <1>15, <2>1
<1>18. FlattenSeq(ss) = k[Len(ss)]
  <2>1. CASE Len(ss) = 0
    BY <1>1, <1>12, <2>1 DEF FlattenSeq
  <2>2. CASE Len(ss) # 0
    <3>1. FlattenSeq(ss) = g[Len(ss)]
      BY <1>9, <2>2 DEF FlattenSeq
    <3>2. Len(ss) \in 1..Len(ss)
      BY <1>1, <2>2
    <3> QED
      BY <1>12, <3>1, <3>2
  <2> QED
    BY <2>1, <2>2
<1> QED
  BY <1>12, <1>16, <1>17, <1>18

LEMMA FlattenType ==
    ASSUME NEW S, NEW ss \in Seq(Seq(S))
    PROVE  FlattenSeq(ss) \in Seq(S)
<1>1. PICK f \in [0..Len(ss) -> Seq(S)] : FlattenSeq(ss) = f[Len(ss)]
  BY FlattenSteps
<1>2. Len(ss) \in 0..Len(ss)
  OBVIOUS
<1>3. f[Len(ss)] \in Seq(S)
  BY <1>2
<1> QED
  BY <1>1, <1>3, Zenon

LEMMA FlattenEmpty ==
    ASSUME NEW ss, ss = <<>> PROVE FlattenSeq(ss) = <<>>
BY DEF FlattenSeq

LEMMA FlattenAppend ==
    ASSUME NEW S, NEW ss \in Seq(Seq(S)), NEW s \in Seq(S)
    PROVE  FlattenSeq(Append(ss, s)) = FlattenSeq(ss) \o s
<1>1. PICK tt : tt = Append(ss, s)
  OBVIOUS
<1>2. /\ tt \in Seq(Seq(S)) /\ Len(ss) \in Nat /\ Len(tt) = Len(ss) + 1
      /\ tt[Len(ss) + 1] = s /\ \A i \in 1..Len(ss) : tt[i] = ss[i]
  BY <1>1
<1>3. PICK f \in [0..Len(ss) -> Seq(S)] :
         /\ f[0] = <<>> /\ FlattenSeq(ss) = f[Len(ss)]
         /\ \A i \in 1..Len(ss) : f[i] = f[i - 1] \o ss[i]
  BY FlattenSteps
<1>4. PICK h \in [0..Len(tt) -> Seq(S)] :
         /\ h[0] = <<>> /\ FlattenSeq(tt) = h[Len(tt)]
         /\ \A i \in 1..Len(tt) : h[i] = h[i - 1] \o tt[i]
  BY <1>2, FlattenSteps
<1> DEFINE Agree == {m \in Nat : m <= Len(ss) => h[m] = f[m]}
<1>5. 0 \in Agree
  BY <1>3, <1>4
<1>6. ASSUME NEW m \in Nat, m \in Agree PROVE m + 1 \in Agree
  <2> SUFFICES ASSUME m + 1 <= Len(ss) PROVE h[m + 1] = f[m + 1]
    OBVIOUS
  <2>1. m + 1 \in 1..Len(ss) /\ m + 1 \in 1..Len(tt) /\ (m + 1) - 1 = m /\ h[m] = f[m]
    BY <1>2, <1>6
  <2>2. h[m + 1] = h[m] \o tt[m + 1] /\ f[m + 1] = f[m] \o ss[m + 1]
    BY <1>3, <1>4, <2>1
  <2> QED
    BY <1>2, <2>1, <2>2
<1>7. Len(ss) \in Agree
  <2> HIDE DEF Agree
  <2> QED
    BY <1>2, <1>5, <1>6, SetInduction
<1>8. Len(tt) \in 1..Len(tt) /\ Len(tt) - 1 = Len(ss) /\ tt[Len(tt)] = s
  BY <1>2
<1>9. FlattenSeq(tt) = h[Len(ss)] \o s
  BY <1>4, <1>8
<1>10. h[Len(ss)] = f[Len(ss)]
  BY <1>2, <1>7
<1> QED
  BY <1>1, <1>3, <1>9, <1>10, Zenon

LEMMA FlattenHas ==
    ASSUME NEW S, NEW ss \in Seq(Seq(S)), NEW i \in DOMAIN ss, NEW j \in DOMAIN ss[i]
    PROVE  \E p \in DOMAIN FlattenSeq(ss) : FlattenSeq(ss)[p] = ss[i][j]
<1>1. /\ Len(ss) \in Nat /\ i \in 1..Len(ss) /\ ss[i] \in Seq(S)
      /\ j \in 1..Len(ss[i]) /\ Len(ss[i]) \in Nat
  OBVIOUS
<1>2. PICK f \in [0..Len(ss) -> Seq(S)] :
         /\ f[0] = <<>> /\ FlattenSeq(ss) = f[Len(ss)]
         /\ \A k \in 1..Len(ss) : f[k] = f[k - 1] \o ss[k]
  BY FlattenSteps
<1> DEFINE Has == {m \in Nat : i <= m /\ m <= Len(ss) =>
                      \E p \in 1..Len(f[m]) : f[m][p] = ss[i][j]}
<1>3. 0 \in Has
  BY <1>1
<1>4. ASSUME NEW m \in Nat, m \in Has PROVE m + 1 \in Has
  <2>1. ASSUME i <= m + 1, m + 1 <= Len(ss)
        PROVE  \E p \in 1..Len(f[m + 1]) : f[m + 1][p] = ss[i][j]
    <3>1. PICK a, b : a = f[m] /\ b = ss[m + 1]
      OBVIOUS
    <3>2. m + 1 \in 1..Len(ss) /\ (m + 1) - 1 = m /\ m \in 0..Len(ss)
      BY <1>1, <2>1
    <3>7. f[m] \in Seq(S) /\ ss[m + 1] \in Seq(S)
      <4>1. \A k \in 0..Len(ss) : f[k] \in Seq(S)
        OBVIOUS
      <4>2. \A k \in 1..Len(ss) : ss[k] \in Seq(S)
        OBVIOUS
      <4> QED
        BY <3>2, <4>1, <4>2, Zenon
    <3>8. f[m + 1] = f[m] \o ss[m + 1]
      BY <1>2, <3>2
    <3>3. a \in Seq(S) /\ b \in Seq(S) /\ f[m + 1] = a \o b
      BY <3>1, <3>7, <3>8, Zenon
    <3>4. /\ Len(a) \in Nat /\ Len(b) \in Nat /\ Len(a \o b) = Len(a) + Len(b)
          /\ \A p \in 1..Len(a) : (a \o b)[p] = a[p]
          /\ \A p \in 1..Len(b) : (a \o b)[Len(a) + p] = b[p]
      BY <3>3
    <3>5. CASE i = m + 1
      <4>1. j \in 1..Len(b) /\ b[j] = ss[i][j]
        BY <1>1, <3>1, <3>5
      <4>2. Len(a) + j \in 1..Len(a \o b)
        BY <3>4, <4>1
      <4> QED
        BY <3>3, <3>4, <4>1, <4>2
    <3>6. CASE i # m + 1
      <4>1. i <= m /\ m <= Len(ss)
        BY <1>1, <2>1, <3>6
      <4>2. PICK p \in 1..Len(a) : a[p] = ss[i][j]
        BY <1>4, <3>1, <4>1
      <4>3. p \in 1..Len(a \o b)
        BY <3>4
      <4> QED
        BY <3>3, <3>4, <4>2, <4>3
    <3> QED
      BY <3>5, <3>6
  <2>2. m + 1 \in Nat
    OBVIOUS
  <2> QED
    BY <2>1, <2>2, Zenon
<1>5. Len(ss) \in Has
  <2> HIDE DEF Has
  <2> QED
    BY <1>1, <1>3, <1>4, SetInduction
<1>6. Len(ss) \in 0..Len(ss) /\ i <= Len(ss)
  BY <1>1
<1>7. f[Len(ss)] \in Seq(S)
  BY <1>6
<1>8. \E p \in 1..Len(f[Len(ss)]) : f[Len(ss)][p] = ss[i][j]
  BY <1>1, <1>5, <1>6
<1>9. DOMAIN f[Len(ss)] = 1..Len(f[Len(ss)])
  BY <1>7
<1> QED
  BY <1>2, <1>8, <1>9, Zenon

-----------------------------------------------------------------------------
(* The levels of a payload.                                                *)

LEMMA SomeLevels == /\ Deepest \in Nat /\ Deepest = Depth + 4 /\ Depth \in Nat /\ Depth >= 2
                    /\ Levels \subseteq Nat /\ 0 \in Levels /\ Deepest \in Levels
                    /\ \A n \in Levels : n # 0 => n - 1 \in Levels /\ n - 1 \in Nat
                    /\ \A n \in Nat : n <= Deepest => n \in Levels
                    /\ \A n \in Levels : n <= Deepest
BY DepthAssumption DEF Deepest, Levels

LEMMA PayloadLevels ==
    ASSUME NEW keys
    PROVE  /\ PayloadsOf(keys)[0] = Scalars
           /\ \A n \in Levels : n # 0 =>
                PayloadsOf(keys)[n] = Scalars \cup Containers(keys, PayloadsOf(keys)[n - 1])
<1> DEFINE Body(n, f) == IF n = 0 THEN Scalars ELSE Scalars \cup Containers(keys, f[n - 1])
           Loops(f, m) == f = [n \in 0..m |-> Body(n, f)]
           Exist == {m \in Nat : \E f : Loops(f, m)}
<1>1. 0 \in Exist
  <2>1. PICK f : f = [n \in 0..0 |-> Scalars]
    OBVIOUS
  <2>2. Loops(f, 0)
    BY <2>1
  <2> QED
    BY <2>2
<1>2. ASSUME NEW m \in Nat, m \in Exist PROVE m + 1 \in Exist
  <2>1. PICK f : Loops(f, m)
    BY <1>2
  <2>2. PICK h : h = [n \in 0..(m + 1) |-> Body(n, f)]
    OBVIOUS
  <2>3. \A n \in 0..m : h[n] = f[n]
    <3> HIDE DEF Body
    <3> QED
      BY <2>1, <2>2
  <2>4. \A n \in 0..(m + 1) : Body(n, f) = Body(n, h)
    <3>1. \A n \in 0..(m + 1) : n # 0 => h[n - 1] = f[n - 1]
      BY <2>3
    <3> QED
      BY <3>1, Zenon
  <2>5. Loops(h, m + 1)
    BY <2>2, <2>4
  <2> QED
    BY <2>5
<1>3. Deepest \in Exist
  <2> HIDE DEF Exist
  <2> QED
    BY <1>1, <1>2, SetInduction, SomeLevels
<1>4. PICK f : f = CHOOSE g : Loops(g, Deepest)
  OBVIOUS
<1>5. Loops(f, Deepest)
  BY <1>3, <1>4
<1>6. PayloadsOf(keys) = f
  BY <1>4 DEF PayloadsOf, Levels
<1>7. \A n \in Levels : f[n] = Body(n, f)
  BY <1>5 DEF Levels
<1> QED
  BY <1>6, <1>7, SomeLevels

LEMMA SeqSubset == \A S, T : S \subseteq T => Seq(S) \subseteq Seq(T)
OBVIOUS

LEMMA IsScalar ==
    /\ \A v \in Scalars : v.is # "array" /\ v.is # "object"
    /\ NoValue \in Scalars
    /\ \A type \in STRING, text \in Seq(Nat) : Leaf([type |-> type, text |-> text]) \in Scalars
BY DEF Scalars, NoValue, Leaf

LEMMA IntoContainers ==
    ASSUME NEW keys, NEW below
    PROVE  /\ \A items \in Seq(below) : Array(items) \in Containers(keys, below)
           /\ \A entries \in Seq([key : keys, val : below]) :
                    Object(entries) \in Containers(keys, below)
BY DEF Containers, Array, Object

\* What is not a scalar.
IsArrayOf(v, below) == v.is = "array" /\ v.items \in Seq(below) /\ v = Array(v.items)
IsObjectOf(v, keys, below) == /\ v.is = "object" /\ v.entries \in Seq([key : keys, val : below])
                              /\ v = Object(v.entries)

LEMMA FromContainers ==
    ASSUME NEW keys, NEW below, NEW v \in Containers(keys, below)
    PROVE  IsArrayOf(v, below) \/ IsObjectOf(v, keys, below)
BY DEF Containers, IsArrayOf, IsObjectOf, Array, Object

LEMMA IntoLevel ==
    ASSUME NEW keys, NEW n \in Levels
    PROVE  /\ Scalars \subseteq PayloadsOf(keys)[n]
           /\ n # 0 => \A items \in Seq(PayloadsOf(keys)[n - 1]) :
                            Array(items) \in PayloadsOf(keys)[n]
           /\ n # 0 => \A entries \in Seq([key : keys, val : PayloadsOf(keys)[n - 1]]) :
                            Object(entries) \in PayloadsOf(keys)[n]
<1>1. PICK p : p = PayloadsOf(keys)
  OBVIOUS
<1>2. p[n] = Scalars \/ (n # 0 /\ p[n] = Scalars \cup Containers(keys, p[n - 1]))
  BY <1>1, PayloadLevels, Zenon
<1>3. n # 0 => p[n] = Scalars \cup Containers(keys, p[n - 1])
  BY <1>1, PayloadLevels, Zenon
<1>4. PICK below : below = p[n - 1]
  OBVIOUS
<1> HIDE DEF Deepest
<1> QED
  BY <1>1, <1>2, <1>3, <1>4, IntoContainers, Zenon

LEMMA FromLevel ==
    ASSUME NEW keys, NEW n \in Levels, NEW v \in PayloadsOf(keys)[n]
    PROVE  \/ v \in Scalars
           \/ n # 0 /\ IsArrayOf(v, PayloadsOf(keys)[n - 1])
           \/ n # 0 /\ IsObjectOf(v, keys, PayloadsOf(keys)[n - 1])
BY PayloadLevels, FromContainers, Zenon

\* More levels, and more keys, take nothing away.
LEMMA MorePayloads ==
    ASSUME NEW less, NEW more, less \subseteq more
    PROVE  \A m, n \in Levels : m <= n => PayloadsOf(less)[m] \subseteq PayloadsOf(more)[n]
<1>1. PICK p, q : p = PayloadsOf(less) /\ q = PayloadsOf(more)
  OBVIOUS
<1> DEFINE T == {m \in Nat : \A n \in Levels : m <= n => p[m] \subseteq q[n]}
<1>2. 0 \in T
  BY <1>1, PayloadLevels, IntoLevel
<1>3. ASSUME NEW m \in Nat, m \in T PROVE m + 1 \in T
  <2> SUFFICES ASSUME NEW n \in Levels, m + 1 <= n, NEW v \in p[m + 1] PROVE v \in q[n]
    OBVIOUS
  <2>1. /\ n \in Nat /\ n # 0 /\ m + 1 \in Levels /\ m + 1 # 0 /\ (m + 1) - 1 = m
        /\ n - 1 \in Levels /\ m <= n - 1
    BY SomeLevels
  <2>2. PICK a, b : a = p[m] /\ b = q[n - 1]
    OBVIOUS
  <2>3. a \subseteq b
    BY <1>3, <2>1, <2>2
  <2>4. v \in Scalars \/ IsArrayOf(v, a) \/ IsObjectOf(v, less, a)
    BY <1>1, <2>1, <2>2, FromLevel
  <2>5. /\ Scalars \subseteq q[n]
        /\ \A items \in Seq(b) : Array(items) \in q[n]
        /\ \A entries \in Seq([key : more, val : b]) : Object(entries) \in q[n]
    BY <1>1, <2>1, <2>2, IntoLevel, Zenon
  <2>6. Seq(a) \subseteq Seq(b)
    BY <2>3
  <2>7. Seq([key : less, val : a]) \subseteq Seq([key : more, val : b])
    <3>1. [key : less, val : a] \subseteq [key : more, val : b]
      BY <2>3
    <3> QED
      BY <3>1, SeqSubset, Zenon
  <2> QED
    BY <2>4, <2>5, <2>6, <2>7, Zenon DEF IsArrayOf, IsObjectOf
<1>4. Nat \subseteq T
  <2> HIDE DEF T
  <2> QED
    BY <1>2, <1>3, SetInduction
<1> QED
  BY <1>1, <1>4, SomeLevels

-----------------------------------------------------------------------------
(* Objects: what is assigned to a key is found there.                      *)

LEMMA MinIs ==
    ASSUME NEW S, S \subseteq Nat, S # {}
    PROVE  Min(S) \in S /\ \A y \in S : Min(S) <= y
<1>1. PICK R : R = OpToRel(<, Nat)
  OBVIOUS
<1>2. IsWellFoundedOn(R, Nat)
  BY <1>1, NatLessThanWellFounded
<1>3. \A x, y \in Nat : <<x, y>> \in R <=> x < y
  BY <1>1 DEF OpToRel
<1>4. PICK m \in S : \A y \in S : ~ (<<y, m>> \in R)
  BY <1>2, WFMin
<1>5. \A y \in S : ~(y < m)
  BY <1>3, <1>4
<1>6. \A y \in S : m <= y
  BY <1>5
<1> QED
  BY <1>6 DEF Min

Pairs(K, V) == [key : K, val : V]
Objects(K, V) == [is : {"object"}, entries : Seq(Pairs(K, V))]

LEMMA AtIs ==
    ASSUME NEW K, NEW V, NEW o \in Objects(K, V), NEW k
    PROVE  /\ At(o, k) \subseteq 1..Len(o.entries) /\ Len(o.entries) \in Nat
           /\ DOMAIN o.entries = 1..Len(o.entries)
           /\ At(o, k) # {} => /\ Min(At(o, k)) \in 1..Len(o.entries)
                               /\ o.entries[Min(At(o, k))].key = k
           /\ At(o, k) = {} => \A i \in 1..Len(o.entries) : o.entries[i].key # k
           /\ \A i \in 1..Len(o.entries) : o.entries[i] \in Pairs(K, V)
<1>1. PICK es : es = o.entries
  OBVIOUS
<1>2. es \in Seq(Pairs(K, V))
  BY <1>1 DEF Objects
<1>3. Len(es) \in Nat /\ DOMAIN es = 1..Len(es) /\ \A i \in 1..Len(es) : es[i] \in Pairs(K, V)
  BY <1>2
<1>4. At(o, k) = {i \in 1..Len(es) : es[i].key = k}
  BY <1>1, <1>3 DEF At
<1>5. At(o, k) \subseteq Nat
  BY <1>3, <1>4
<1>6. At(o, k) # {} => Min(At(o, k)) \in At(o, k)
  BY <1>5, MinIs
<1> QED
  BY <1>1, <1>3, <1>4, <1>6

\* The entries after an assignment: those before it, and one more or one changed.
PutAt(o, k, x, p, m) ==
    /\ m \in 1..Len(p.entries) /\ p.entries[m] = [key |-> k, val |-> x]
    /\ At(o, k) = {} => m = Len(o.entries) + 1 /\ Len(p.entries) = m
    /\ At(o, k) # {} => m = Min(At(o, k)) /\ Len(p.entries) = Len(o.entries)
    /\ \A i \in 1..Len(o.entries) : i # m => p.entries[i] = o.entries[i]

LEMMA PutIs ==
    ASSUME NEW K, NEW V, NEW o \in Objects(K, V), NEW k \in K, NEW x \in V
    PROVE  Put(o, k, x) \in Objects(K, V) /\ \E m : PutAt(o, k, x, Put(o, k, x), m)
<1>1. PICK es : es = o.entries
  OBVIOUS
<1>2. es \in Seq(Pairs(K, V)) /\ Len(es) \in Nat /\ DOMAIN es = 1..Len(es)
  BY <1>1 DEF Objects
<1>3. PICK e : e = [key |-> k, val |-> x]
  OBVIOUS
<1>4. e \in Pairs(K, V)
  BY <1>3 DEF Pairs
<1>5. CASE At(o, k) = {}
  <2>1. PICK fs : fs = Append(es, e)
    OBVIOUS
  <2>2. /\ fs \in Seq(Pairs(K, V)) /\ Len(fs) = Len(es) + 1 /\ fs[Len(es) + 1] = e
        /\ \A i \in 1..Len(es) : fs[i] = es[i]
    BY <1>2, <1>4, <2>1
  <2>3. Put(o, k, x) = [is |-> "object", entries |-> fs]
    BY <1>1, <1>3, <1>5, <2>1, Zenon DEF Put, Object
  <2>4. Put(o, k, x) \in Objects(K, V) /\ Put(o, k, x).entries = fs
    BY <2>2, <2>3 DEF Objects
  <2>5. Len(es) + 1 \in 1..Len(fs)
    BY <1>2, <2>2
  <2> QED
    BY <1>1, <1>3, <1>5, <2>2, <2>4, <2>5 DEF PutAt
<1>6. CASE At(o, k) # {}
  <2>1. PICK m : m = Min(At(o, k))
    OBVIOUS
  <2>2. m \in 1..Len(es) /\ es[m].key = k /\ es[m] \in Pairs(K, V)
    BY <1>1, <1>6, <2>1, AtIs
  <2>3. PICK f : f = [es[m] EXCEPT !.val = x]
    OBVIOUS
  <2>4. f = e
    BY <1>3, <2>2, <2>3 DEF Pairs
  <2>5. PICK fs : fs = [es EXCEPT ![m] = e]
    OBVIOUS
  <2>6. /\ fs \in Seq(Pairs(K, V)) /\ Len(fs) = Len(es) /\ fs[m] = e
        /\ \A i \in 1..Len(es) : i # m => fs[i] = es[i]
    BY <1>2, <1>4, <2>2, <2>5
  <2>7. [es EXCEPT ![m].val = x] = fs
    BY <2>3, <2>4, <2>5
  <2>8. Put(o, k, x) = [is |-> "object", entries |-> fs]
    BY <1>1, <1>6, <2>1, <2>7, Zenon DEF Put, Object
  <2>9. Put(o, k, x) \in Objects(K, V) /\ Put(o, k, x).entries = fs
    BY <2>6, <2>8 DEF Objects
  <2> QED
    BY <1>1, <1>3, <1>6, <2>1, <2>2, <2>6, <2>9 DEF PutAt
<1> QED
  BY <1>5, <1>6

LEMMA GetPut ==
    ASSUME NEW K, NEW V, NEW o \in Objects(K, V), NEW k \in K, NEW x \in V
    PROVE  /\ Get(Put(o, k, x), k) = x
           /\ \A j \in K : j # k => Get(Put(o, k, x), j) = Get(o, j)
<1>1. PICK p : p = Put(o, k, x)
  OBVIOUS
<1>2. PICK es, fs : es = o.entries /\ fs = p.entries
  OBVIOUS
<1>3. p \in Objects(K, V)
  BY <1>1, PutIs
<1>19. PICK m : PutAt(o, k, x, p, m)
  BY <1>1, PutIs
<1>4. /\ m \in 1..Len(fs) /\ fs[m] = [key |-> k, val |-> x]
      /\ At(o, k) = {} => m = Len(es) + 1 /\ Len(fs) = m
      /\ At(o, k) # {} => m = Min(At(o, k)) /\ Len(fs) = Len(es)
      /\ \A i \in 1..Len(es) : i # m => fs[i] = es[i]
  BY <1>2, <1>19, Zenon DEF PutAt
<1>5. /\ Len(es) \in Nat /\ Len(fs) \in Nat /\ DOMAIN es = 1..Len(es) /\ DOMAIN fs = 1..Len(fs)
  BY <1>2, <1>3, AtIs
<1>6. fs[m].key = k /\ fs[m].val = x
  BY <1>4
<1>7. At(o, k) # {} => m \in 1..Len(es) /\ es[m].key = k
  BY <1>2, <1>4, AtIs
<1>13. (m = Len(es) + 1 /\ Len(fs) = m) \/ (m \in 1..Len(es) /\ es[m].key = k /\ Len(fs) = Len(es))
  BY <1>4, <1>7, Zenon
<1>16. PICK a \in Nat, b \in Nat : a = Len(es) /\ b = Len(fs)
  BY <1>5
<1>17. (m = a + 1 /\ b = m) \/ (m \in 1..a /\ es[m].key = k /\ b = a)
  BY <1>13, <1>16
<1>18. m \in 1..b
  BY <1>4, <1>16
<1>14. \A i \in 1..Len(fs) : i # m => i \in 1..Len(es)
  BY <1>16, <1>17, <1>18
<1>8. \A i \in 1..Len(fs) : i # m => i \in 1..Len(es) /\ fs[i] = es[i]
  BY <1>4, <1>14, Zenon
<1>15. \A i \in 1..Len(es) : i \in 1..Len(fs)
  BY <1>16, <1>17, <1>18
<1>9. \A i \in 1..Len(es) : i \in 1..Len(fs) /\ (i # m => fs[i] = es[i])
  BY <1>4, <1>15, Zenon
<1>10. ASSUME NEW j, j # k PROVE At(p, j) = At(o, j)
  <2>1. At(p, j) = {i \in 1..Len(fs) : fs[i].key = j}
    BY <1>2, <1>5 DEF At
  <2>2. At(o, j) = {i \in 1..Len(es) : es[i].key = j}
    BY <1>2, <1>5 DEF At
  <2>3. m \in 1..Len(es) => es[m].key = k
    BY <1>16, <1>17
  <2>4. \A i \in 1..Len(fs) : fs[i].key = j => i \in 1..Len(es) /\ es[i].key = j
    BY <1>6, <1>8, <1>10
  <2>5. \A i \in 1..Len(es) : es[i].key = j => i \in 1..Len(fs) /\ fs[i].key = j
    BY <1>9, <1>10, <2>3
  <2> QED
    BY <2>1, <2>2, <2>4, <2>5
<1>11. ASSUME NEW j, j # k PROVE Get(p, j) = Get(o, j)
  <2>1. At(p, j) = At(o, j)
    BY <1>10, <1>11
  <2>2. CASE At(o, j) = {}
    BY <2>1, <2>2, Zenon DEF Get
  <2>3. CASE At(o, j) # {}
    <3>1. PICK n : n = Min(At(o, j))
      OBVIOUS
    <3>2. n \in 1..Len(es) /\ n \in 1..Len(fs) /\ fs[n].key = j
      BY <1>2, <1>3, <2>1, <2>3, <3>1, AtIs
    <3>3. n # m
      BY <1>6, <1>11, <3>2
    <3>4. fs[n] = es[n]
      BY <1>9, <3>2, <3>3
    <3>5. Get(p, j) = fs[n].val /\ Get(o, j) = es[n].val
      BY <1>2, <2>1, <2>3, <3>1, Zenon DEF Get
    <3> QED
      BY <3>4, <3>5
  <2> QED
    BY <2>2, <2>3
<1>12. Get(p, k) = x
  <2>1. At(p, k) = {i \in 1..Len(fs) : fs[i].key = k}
    BY <1>2, <1>5 DEF At
  <2>2. m \in At(p, k)
    BY <1>4, <1>6, <2>1
  <2>3. Min(At(p, k)) = m
    <3>1. CASE At(o, k) = {}
      <4>1. \A i \in 1..Len(es) : es[i].key # k
        BY <1>2, <3>1, AtIs
      <4>2. \A i \in At(p, k) : i = m
        BY <1>8, <2>1, <4>1
      <4>5. At(p, k) # {}
        BY <2>2
      <4>6. PICK n : n = Min(At(p, k))
        OBVIOUS
      <4>7. n \in 1..Len(fs) /\ fs[n].key = k
        BY <1>2, <1>3, <4>5, <4>6, AtIs
      <4>3. Min(At(p, k)) \in At(p, k)
        BY <2>1, <4>6, <4>7
      <4> QED
        BY <4>2, <4>3
    <3>2. CASE At(o, k) # {}
      <4>1. At(o, k) = {i \in 1..Len(es) : es[i].key = k}
        BY <1>2, <1>5 DEF At
      <4>2. \A i \in 1..Len(fs) : fs[i].key = k => i \in 1..Len(es) /\ es[i].key = k
        BY <1>7, <1>8, <3>2
      <4>3. \A i \in 1..Len(es) : es[i].key = k => i \in 1..Len(fs) /\ fs[i].key = k
        BY <1>6, <1>9
      <4>4. At(p, k) = At(o, k)
        BY <2>1, <4>1, <4>2, <4>3
      <4> QED
        BY <1>4, <3>2, <4>4
    <3> QED
      BY <3>1, <3>2
  <2> QED
    BY <1>2, <1>6, <2>2, <2>3 DEF Get
<1> QED
  BY <1>1, <1>11, <1>12

LEMMA NoEntries == \A K, V : Object(<<>>) \in Objects(K, V) /\ Object(<<>>).entries = <<>>
BY DEF Objects, Object

LEMMA AssignedSteps ==
    ASSUME NEW K, NEW V, NEW es \in Seq(Pairs(K, V))
    PROVE  \E o \in [0..Len(es) -> Objects(K, V)] :
              /\ o[0] = Object(<<>>) /\ Assigned(es) = o[Len(es)]
              /\ \A i \in 1..Len(es) : o[i] = Put(o[i - 1], es[i].key, es[i].val)
<1> DEFINE Loops(g) == g = [i \in 0..Len(es) |-> IF i = 0 THEN Object(<<>>)
                                                 ELSE Put(g[i - 1], es[i].key, es[i].val)]
<1>1. Len(es) \in Nat /\ \A i \in 1..Len(es) : es[i].key \in K /\ es[i].val \in V
  <2>1. Len(es) \in Nat /\ \A i \in 1..Len(es) : es[i] \in Pairs(K, V)
    OBVIOUS
  <2> QED
    BY <2>1 DEF Pairs
<1>2. PICK X : X = Objects(K, V)
  OBVIOUS
<1>3. PICK step : step = [i \in 1..Len(es) |-> [o \in X |-> Put(o, es[i].key, es[i].val)]]
  OBVIOUS
<1>4. step \in [1..Len(es) -> [X -> X]]
  <2>1. \A i \in 1..Len(es), o \in X : Put(o, es[i].key, es[i].val) \in X
    BY <1>1, <1>2, PutIs
  <2> QED
    BY <1>3, <2>1
<1>5. Object(<<>>) \in X
  BY <1>2, NoEntries
<1>6. PICK f \in [0..Len(es) -> X] : Goes(f, Len(es), X, Object(<<>>), step)
  BY <1>1, <1>4, <1>5, Iterates
<1>7. \A i \in 0..Len(es) : f[i] \in X
  BY <1>1
<1>8. \A i \in 1..Len(es) : i - 1 \in 0..Len(es) /\ i # 0
  BY <1>1
<1>9. \A i \in 1..Len(es) : f[i] = Put(f[i - 1], es[i].key, es[i].val)
  BY <1>3, <1>6, <1>7, <1>8 DEF Goes
<1>10. f[0] = Object(<<>>)
  BY <1>6 DEF Goes
<1>11. Loops(f)
  <2>1. \A i \in 0..Len(es) : i = 0 \/ i \in 1..Len(es)
    BY <1>1
  <2>2. \A i \in 0..Len(es) : f[i] = IF i = 0 THEN Object(<<>>)
                                     ELSE Put(f[i - 1], es[i].key, es[i].val)
    BY <1>9, <1>10, <2>1
  <2> QED
    BY <2>2
<1>12. PICK g : g = CHOOSE h : Loops(h)
  OBVIOUS
<1>13. Loops(g)
  BY <1>11, <1>12
<1>14. g[0] = Object(<<>>) /\ \A i \in 1..Len(es) : g[i] = Put(g[i - 1], es[i].key, es[i].val)
  BY <1>1, <1>8, <1>13
<1>15. Goes(g, Len(es), X, Object(<<>>), step)
  BY <1>3, <1>14 DEF Goes
<1>16. \A i \in 0..Len(es) : g[i] \in X
  BY <1>1, <1>4, <1>5, <1>15, IteratesOnce
<1>17. g \in [0..Len(es) -> X]
  <2>1. DOMAIN g = 0..Len(es) /\ g = [i \in 0..Len(es) |-> g[i]]
    BY <1>13
  <2> HIDE DEF Loops
  <2> QED
    BY <1>16, <2>1
<1>18. Assigned(es) = g[Len(es)]
  BY <1>12 DEF Assigned
<1> QED
  BY <1>2, <1>14, <1>17, <1>18, Zenon

\* An object holds some of the entries that were assigned, one for each key.
LEMMA AssignedIs ==
    ASSUME NEW K, NEW V, NEW es \in Seq(Pairs(K, V))
    PROVE  /\ Assigned(es) \in Objects(K, V)
           /\ \A i \in 1..Len(Assigned(es).entries) :
                \E j \in 1..Len(es) : Assigned(es).entries[i] = es[j]
           /\ \A j \in 1..Len(es) : At(Assigned(es), es[j].key) # {}
<1>1. PICK o \in [0..Len(es) -> Objects(K, V)] :
         /\ o[0] = Object(<<>>) /\ Assigned(es) = o[Len(es)]
         /\ \A i \in 1..Len(es) : o[i] = Put(o[i - 1], es[i].key, es[i].val)
  BY AssignedSteps
<1>2. Len(es) \in Nat /\ \A i \in 1..Len(es) : es[i] \in Pairs(K, V)
  OBVIOUS
<1>3. \A i \in 0..Len(es) : o[i] \in Objects(K, V)
  BY <1>2
<1> DEFINE From(p, m) == \A i \in 1..Len(p.entries) : \E j \in 1..m : p.entries[i] = es[j]
           Has(p, m) == \A j \in 1..m : At(p, es[j].key) # {}
           T == {m \in Nat : m <= Len(es) => From(o[m], m) /\ Has(o[m], m)}
<1>4. 0 \in T
  BY <1>1, NoEntries
<1>5. ASSUME NEW m \in Nat, m \in T PROVE m + 1 \in T
  <2> SUFFICES ASSUME m + 1 <= Len(es) PROVE From(o[m + 1], m + 1) /\ Has(o[m + 1], m + 1)
    OBVIOUS
  <2>1. m + 1 \in 1..Len(es) /\ (m + 1) - 1 = m /\ m \in 0..Len(es)
    BY <1>2
  <2>2. PICK a, k, x : a = o[m] /\ k = es[m + 1].key /\ x = es[m + 1].val
    OBVIOUS
  <2>3. PICK p : p = Put(a, k, x)
    OBVIOUS
  <2>4. o[m + 1] = p
    BY <1>1, <2>1, <2>2, <2>3
  <2>5. a \in Objects(K, V) /\ k \in K /\ x \in V /\ es[m + 1] = [key |-> k, val |-> x]
    BY <1>2, <1>3, <2>1, <2>2 DEF Pairs
  <2>14. m <= Len(es)
    BY <1>2
  <2>6. From(a, m) /\ Has(a, m)
    <3> HIDE DEF From, Has
    <3> QED
      BY <1>5, <2>2, <2>14
  <2>15. PICK q : PutAt(a, k, x, p, q)
    BY <2>3, <2>5, PutIs
  <2>7. /\ q \in 1..Len(p.entries) /\ p.entries[q] = [key |-> k, val |-> x]
        /\ At(a, k) = {} => q = Len(a.entries) + 1 /\ Len(p.entries) = q
        /\ At(a, k) # {} => q = Min(At(a, k)) /\ Len(p.entries) = Len(a.entries)
        /\ \A i \in 1..Len(a.entries) : i # q => p.entries[i] = a.entries[i]
    BY <2>15, Zenon DEF PutAt
  <2>8. p \in Objects(K, V)
    BY <2>3, <2>5, PutIs
  <2>9. Len(a.entries) \in Nat /\ Len(p.entries) \in Nat
    BY <2>5, <2>8, AtIs
  <2>10. \A i \in 1..Len(p.entries) : i # q => i \in 1..Len(a.entries)
    <3>1. PICK b \in Nat, c \in Nat : b = Len(a.entries) /\ c = Len(p.entries)
      BY <2>9
    <3>2. (q = b + 1 /\ c = q) \/ c = b
      BY <2>7, <3>1
    <3> QED
      BY <3>1, <3>2
  <2>11. From(p, m + 1)
    <3> SUFFICES ASSUME NEW i \in 1..Len(p.entries)
                 PROVE  \E j \in 1..(m + 1) : p.entries[i] = es[j]
      OBVIOUS
    <3>1. CASE i = q
      BY <2>5, <2>7, <3>1
    <3>2. CASE i # q
      <4>1. i \in 1..Len(a.entries) /\ p.entries[i] = a.entries[i]
        BY <2>7, <2>10, <3>2
      <4>2. PICK j \in 1..m : a.entries[i] = es[j]
        BY <2>6, <4>1
      <4> QED
        BY <4>1, <4>2
    <3> QED
      BY <3>1, <3>2
  <2>12. \A j : At(a, j) # {} => At(p, j) # {}
    <3> SUFFICES ASSUME NEW j, At(a, j) # {} PROVE At(p, j) # {}
      OBVIOUS
    <3>1. CASE j = k
      <4>1. q \in DOMAIN p.entries /\ p.entries[q].key = k
        BY <2>7, <2>8, AtIs
      <4> QED
        BY <3>1, <4>1 DEF At
    <3>2. CASE j # k
      <4>1. PICK i \in 1..Len(a.entries) : a.entries[i].key = j
        BY <2>5, AtIs
      <4>2. i # q => p.entries[i] = a.entries[i]
        BY <2>7
      <4>3. i # q
        <5>1. CASE At(a, k) = {}
          BY <2>7, <2>9, <5>1
        <5>2. CASE At(a, k) # {}
          <6>1. a.entries[q].key = k
            BY <2>5, <2>7, <5>2, AtIs
          <6> QED
            BY <3>2, <4>1, <6>1
        <5> QED
          BY <5>1, <5>2
      <4>4. Len(a.entries) <= Len(p.entries)
        <5>1. PICK b \in Nat, c \in Nat : b = Len(a.entries) /\ c = Len(p.entries)
          BY <2>9
        <5>2. (q = b + 1 /\ c = q) \/ c = b
          BY <2>7, <5>1
        <5> QED
          BY <5>1, <5>2
      <4>5. i \in DOMAIN p.entries
        BY <2>8, <2>9, <4>4, AtIs
      <4> QED
        BY <4>1, <4>2, <4>3, <4>5 DEF At
    <3> QED
      BY <3>1, <3>2
  <2>13. Has(p, m + 1)
    <3> SUFFICES ASSUME NEW j \in 1..(m + 1) PROVE At(p, es[j].key) # {}
      OBVIOUS
    <3>1. CASE j = m + 1
      <4>1. q \in DOMAIN p.entries /\ p.entries[q].key = k
        BY <2>7, <2>8, AtIs
      <4> QED
        BY <2>2, <3>1, <4>1 DEF At
    <3>2. CASE j # m + 1
      <4>1. j \in 1..m
        BY <3>2
      <4> QED
        BY <2>6, <2>12, <4>1
    <3> QED
      BY <3>1, <3>2
  <2> HIDE DEF From, Has
  <2> QED
    BY <2>4, <2>11, <2>13
<1>6. Len(es) \in T
  <2> HIDE DEF T
  <2> QED
    BY <1>2, <1>4, <1>5, SetInduction
<1>7. Len(es) \in 0..Len(es) /\ Len(es) <= Len(es)
  BY <1>2
<1>8. o[Len(es)] \in Objects(K, V)
  BY <1>3, <1>7
<1>9. From(o[Len(es)], Len(es)) /\ Has(o[Len(es)], Len(es))
  BY <1>6, <1>7
<1> QED
  BY <1>1, <1>8, <1>9, Zenon

\* What is found under a key was assigned to it.
LEMMA GetAssigned ==
    ASSUME NEW K, NEW V, NEW es \in Seq(Pairs(K, V)), NEW k
    PROVE  /\ (\E j \in 1..Len(es) : es[j].key = k) =>
                \E j \in 1..Len(es) : es[j].key = k /\ Get(Assigned(es), k) = es[j].val
           /\ ~(\E j \in 1..Len(es) : es[j].key = k) => Get(Assigned(es), k) = NoValue
<1>1. PICK o : o = Assigned(es)
  OBVIOUS
<1>2. /\ o \in Objects(K, V)
      /\ \A i \in 1..Len(o.entries) : \E j \in 1..Len(es) : o.entries[i] = es[j]
      /\ \A j \in 1..Len(es) : At(o, es[j].key) # {}
  BY <1>1, AssignedIs
<1>3. CASE At(o, k) = {}
  <2>1. Get(o, k) = NoValue
    BY <1>3, Zenon DEF Get
  <2> QED
    BY <1>1, <1>2, <1>3, <2>1
<1>4. CASE At(o, k) # {}
  <2>1. PICK m : m = Min(At(o, k))
    OBVIOUS
  <2>2. m \in 1..Len(o.entries) /\ o.entries[m].key = k
    BY <1>2, <1>4, <2>1, AtIs
  <2>3. Get(o, k) = o.entries[m].val
    BY <1>4, <2>1, Zenon DEF Get
  <2>4. PICK j \in 1..Len(es) : o.entries[m] = es[j]
    BY <1>2, <2>2
  <2> QED
    BY <1>1, <2>2, <2>3, <2>4
<1> QED
  BY <1>3, <1>4

-----------------------------------------------------------------------------
(* Words and letters.                                                      *)

LEMMA FlattenGrows ==
    ASSUME NEW S, NEW ss \in Seq(Seq(S)), ss # <<>>, NEW x \in S
    PROVE  /\ [ss EXCEPT ![Len(ss)] = Append(@, x)] \in Seq(Seq(S))
           /\ FlattenSeq([ss EXCEPT ![Len(ss)] = Append(@, x)]) = Append(FlattenSeq(ss), x)
<1>1. PICK front \in Seq(Seq(S)), last \in Seq(S) : ss = Append(front, last)
  BY SequenceEmptyOrAppend
<1>2. PICK longer : longer = Append(last, x)
  OBVIOUS
<1>3. longer \in Seq(S) /\ longer = last \o <<x>> /\ <<x>> \in Seq(S)
  BY <1>2
<1>4. Len(ss) = Len(front) + 1 /\ Len(front) \in Nat /\ ss[Len(ss)] = last
  BY <1>1
<1>5. PICK tt : tt = [ss EXCEPT ![Len(ss)] = Append(@, x)]
  OBVIOUS
<1>6. tt = [ss EXCEPT ![Len(ss)] = longer]
  BY <1>2, <1>4, <1>5, Zenon
<1>7. tt = Append(front, longer)
  <2>1. PICK n \in Nat : n = Len(front)
    BY <1>4
  <2>2. PICK uu : uu = Append(front, longer)
    OBVIOUS
  <2>3. /\ ss \in Seq(Seq(S)) /\ Len(ss) = n + 1 /\ ss[n + 1] = last
        /\ \A i \in 1..n : ss[i] = front[i]
    BY <1>1, <2>1, AppendProperties
  <2>4. /\ uu \in Seq(Seq(S)) /\ Len(uu) = n + 1 /\ uu[n + 1] = longer
        /\ \A i \in 1..n : uu[i] = front[i]
    BY <1>3, <2>1, <2>2, AppendProperties
  <2>5. /\ tt \in Seq(Seq(S)) /\ Len(tt) = n + 1
        /\ \A i \in 1..(n + 1) : tt[i] = IF i = n + 1 THEN longer ELSE ss[i]
    BY <1>3, <1>4, <1>6, <2>1, <2>3
  <2>6. \A i \in 1..(n + 1) : i = n + 1 \/ (i # n + 1 /\ i \in 1..n)
    OBVIOUS
  <2>7. \A i \in 1..(n + 1) : tt[i] = uu[i]
    BY <2>3, <2>4, <2>5, <2>6
  <2>8. tt = uu
    BY <2>4, <2>5, <2>7, SeqEqual
  <2> QED
    BY <2>2, <2>8
<1>8. FlattenSeq(tt) = FlattenSeq(front) \o longer
  BY <1>3, <1>7, FlattenAppend
<1>9. FlattenSeq(ss) = FlattenSeq(front) \o last
  BY <1>1, FlattenAppend
<1>10. PICK a \in Seq(S) : a = FlattenSeq(front)
  BY FlattenType
<1>11. (a \o last) \o <<x>> = a \o (last \o <<x>>)
  BY <1>3, ConcatAssociative
<1>12. a \o last \in Seq(S)
  OBVIOUS
<1>13. Append(a \o last, x) = (a \o last) \o <<x>>
  BY <1>12, AppendIsConcat
<1>14. tt \in Seq(Seq(S))
  BY <1>3, <1>7
<1> QED
  BY <1>3, <1>5, <1>8, <1>9, <1>10, <1>11, <1>13, <1>14, Zenon

Words == Seq(Seq(STRING))

LEMMA KeyTokens ==
    ASSUME NEW key \in Keys
    PROVE  /\ Len(key) \in Nat /\ DOMAIN key = 1..Len(key)
           /\ \A i \in 1..Len(key) : key[i] \in Tokens /\ key[i].w \in STRING
<1>1. key \in Seq(Tokens)
  BY DEF Keys
<1>2. Len(key) \in Nat /\ DOMAIN key = 1..Len(key) /\ \A i \in 1..Len(key) : key[i] \in Tokens
  BY <1>1
<1> QED
  BY <1>2 DEF Tokens

LEMMA WithTokenIs ==
    ASSUME NEW key \in Keys, NEW i \in 1..Len(key), NEW begins, NEW words \in Words
    PROVE  /\ WithToken(words, key, i, begins) \in Words
           /\ FlattenSeq(WithToken(words, key, i, begins)) =
                IF key[i] = Sep THEN FlattenSeq(words) ELSE Append(FlattenSeq(words), key[i].w)
<1>1. PICK w : w = key[i].w
  OBVIOUS
<1>2. w \in STRING /\ <<w>> \in Seq(STRING)
  BY <1>1, KeyTokens
<1>3. words \in Seq(Seq(STRING))
  BY DEF Words
<1>4. CASE key[i] = Sep
  BY <1>4, Zenon DEF WithToken
<1>5. CASE key[i] # Sep /\ (words = <<>> \/ key[i - 1] = Sep \/ i \in begins)
  <2>1. WithToken(words, key, i, begins) = Append(words, <<w>>)
    BY <1>1, <1>5, Zenon DEF WithToken
  <2>2. FlattenSeq(Append(words, <<w>>)) = FlattenSeq(words) \o <<w>>
    BY <1>2, <1>3, FlattenAppend
  <2>3. FlattenSeq(words) \in Seq(STRING)
    BY <1>3, FlattenType
  <2>4. Append(FlattenSeq(words), w) = FlattenSeq(words) \o <<w>>
    BY <1>2, <2>3, AppendIsConcat
  <2>5. Append(words, <<w>>) \in Words
    BY <1>2, <1>3, AppendProperties DEF Words
  <2> QED
    BY <1>1, <1>5, <2>1, <2>2, <2>4, <2>5, Zenon
<1>6. CASE key[i] # Sep /\ ~(words = <<>> \/ key[i - 1] = Sep \/ i \in begins)
  <2>1. WithToken(words, key, i, begins) = [words EXCEPT ![Len(words)] = Append(@, w)]
    BY <1>1, <1>6, Zenon DEF WithToken
  <2> QED
    <3>1. /\ [words EXCEPT ![Len(words)] = Append(@, w)] \in Seq(Seq(STRING))
          /\ FlattenSeq([words EXCEPT ![Len(words)] = Append(@, w)]) = Append(FlattenSeq(words), w)
      BY <1>2, <1>3, <1>6, FlattenGrows
    <3> QED
      BY <1>1, <1>6, <2>1, <3>1, Zenon DEF Words
<1> QED
  BY <1>4, <1>5, <1>6

LEMMA WordsSteps ==
    ASSUME NEW key \in Keys, NEW begins
    PROVE  \E ws \in [0..Len(key) -> Words] :
              /\ ws[0] = <<>> /\ WordsBy(key, begins) = ws[Len(key)]
              /\ \A i \in 1..Len(key) : ws[i] = WithToken(ws[i - 1], key, i, begins)
<1> DEFINE Loops(g) == g = [i \in 0..Len(key) |-> IF i = 0 THEN <<>>
                                                  ELSE WithToken(g[i - 1], key, i, begins)]
<1>1. Len(key) \in Nat
  BY KeyTokens
<1>2. PICK step : step = [i \in 1..Len(key) |-> [ws \in Words |-> WithToken(ws, key, i, begins)]]
  OBVIOUS
<1>3. step \in [1..Len(key) -> [Words -> Words]]
  BY <1>2, WithTokenIs
<1>4. <<>> \in Words
  BY DEF Words
<1>5. PICK f \in [0..Len(key) -> Words] : Goes(f, Len(key), Words, <<>>, step)
  BY <1>1, <1>3, <1>4, Iterates
<1>6. \A i \in 0..Len(key) : f[i] \in Words
  BY <1>1
<1>7. \A i \in 1..Len(key) : i - 1 \in 0..Len(key) /\ i # 0
  BY <1>1
<1>8. \A i \in 1..Len(key) : f[i] = WithToken(f[i - 1], key, i, begins)
  BY <1>2, <1>5, <1>6, <1>7 DEF Goes
<1>9. f[0] = <<>>
  BY <1>5 DEF Goes
<1>10. Loops(f)
  <2>1. \A i \in 0..Len(key) : i = 0 \/ i \in 1..Len(key)
    BY <1>1
  <2>2. \A i \in 0..Len(key) : f[i] = IF i = 0 THEN <<>>
                                      ELSE WithToken(f[i - 1], key, i, begins)
    BY <1>8, <1>9, <2>1
  <2> QED
    BY <2>2
<1>11. PICK g : g = CHOOSE h : Loops(h)
  OBVIOUS
<1>12. Loops(g)
  BY <1>10, <1>11
<1>13. g[0] = <<>> /\ \A i \in 1..Len(key) : g[i] = WithToken(g[i - 1], key, i, begins)
  BY <1>1, <1>7, <1>12
<1>14. Goes(g, Len(key), Words, <<>>, step)
  BY <1>2, <1>13 DEF Goes
<1>15. \A i \in 0..Len(key) : g[i] \in Words
  BY <1>1, <1>3, <1>4, <1>14, IteratesOnce
<1>16. g \in [0..Len(key) -> Words]
  <2>1. DOMAIN g = 0..Len(key) /\ g = [i \in 0..Len(key) |-> g[i]]
    BY <1>12
  <2> HIDE DEF Loops
  <2> QED
    BY <1>15, <2>1
<1>17. WordsBy(key, begins) = g[Len(key)]
  BY <1>11 DEF WordsBy
<1> QED
  BY <1>13, <1>16, <1>17, Zenon

\* The letters of a token.
LettersOf(t) == IF t = Sep THEN <<>> ELSE <<t.w>>

LEMMA LetterIs == \A t \in Tokens : LettersOf(t) \in Seq(STRING)
<1> SUFFICES ASSUME NEW t \in Tokens PROVE LettersOf(t) \in Seq(STRING)
  OBVIOUS
<1>1. PICK w : w = t.w
  OBVIOUS
<1>2. w \in STRING
  BY <1>1 DEF Tokens
<1>4. \A S : \A x \in S : <<x>> \in Seq(S) /\ <<>> \in Seq(S)
  OBVIOUS
<1>3. <<w>> \in Seq(STRING) /\ <<>> \in Seq(STRING)
  BY <1>2, <1>4, Zenon
<1> QED
  BY <1>1, <1>3, Zenon DEF LettersOf

LEMMA LettersAre ==
    ASSUME NEW key \in Keys
    PROVE  /\ [i \in DOMAIN key |-> LettersOf(key[i])] \in Seq(Seq(STRING))
           /\ Letters(key) = FlattenSeq([i \in DOMAIN key |-> LettersOf(key[i])])
           /\ Letters(key) \in Seq(STRING)
<1>1. /\ Len(key) \in Nat /\ DOMAIN key = 1..Len(key)
      /\ \A i \in 1..Len(key) : key[i] \in Tokens /\ key[i].w \in STRING
  BY KeyTokens
<1>2. PICK ls : ls = [i \in DOMAIN key |-> LettersOf(key[i])]
  OBVIOUS
<1>3. \A i \in 1..Len(key) : LettersOf(key[i]) \in Seq(STRING)
  BY <1>1, LetterIs
<1>4. ls \in Seq(Seq(STRING))
  BY <1>1, <1>2, <1>3
<1>5. Letters(key) = FlattenSeq(ls)
  BY <1>2, Zenon DEF Letters, LettersOf
<1> QED
  BY <1>2, <1>4, <1>5, FlattenType

\* The words of a key have its letters.
LEMMA WordsAre ==
    ASSUME NEW key \in Keys, NEW begins
    PROVE  WordsBy(key, begins) \in Words /\ FlattenSeq(WordsBy(key, begins)) = Letters(key)
<1>1. Len(key) \in Nat /\ DOMAIN key = 1..Len(key) /\ \A i \in 1..Len(key) : key[i].w \in STRING
  BY KeyTokens
<1>2. PICK ws \in [0..Len(key) -> Words] :
         /\ ws[0] = <<>> /\ WordsBy(key, begins) = ws[Len(key)]
         /\ \A i \in 1..Len(key) : ws[i] = WithToken(ws[i - 1], key, i, begins)
  BY WordsSteps
<1>3. PICK ls : ls = [i \in DOMAIN key |-> LettersOf(key[i])]
  OBVIOUS
<1>4. ls \in Seq(Seq(STRING)) /\ Letters(key) = FlattenSeq(ls)
  BY <1>3, LettersAre
<1>5. PICK f \in [0..Len(ls) -> Seq(STRING)] :
         /\ f[0] = <<>> /\ FlattenSeq(ls) = f[Len(ls)]
         /\ \A i \in 1..Len(ls) : f[i] = f[i - 1] \o ls[i]
  BY <1>4, FlattenSteps
<1>6. Len(ls) = Len(key)
  BY <1>1, <1>3
<1>7. /\ \A i \in 0..Len(key) : ws[i] \in Words
      /\ \A i \in 0..Len(key) : f[i] \in Seq(STRING)
  BY <1>1, <1>6
<1> DEFINE T == {m \in Nat : m <= Len(key) => FlattenSeq(ws[m]) = f[m]}
<1>8. 0 \in T
  BY <1>2, <1>5, FlattenEmpty
<1>9. ASSUME NEW m \in Nat, m \in T PROVE m + 1 \in T
  <2> SUFFICES ASSUME m + 1 <= Len(key) PROVE FlattenSeq(ws[m + 1]) = f[m + 1]
    OBVIOUS
  <2>1. m + 1 \in 1..Len(key) /\ (m + 1) - 1 = m /\ m \in 0..Len(key) /\ m <= Len(key)
    BY <1>1
  <2>2. PICK a, b, i : a = ws[m] /\ b = f[m] /\ i = m + 1
    OBVIOUS
  <2>3. a \in Words /\ b \in Seq(STRING) /\ FlattenSeq(a) = b /\ i \in 1..Len(key)
    BY <1>7, <1>9, <2>1, <2>2
  <2>4. ws[i] = WithToken(a, key, i, begins) /\ f[i] = b \o LettersOf(key[i])
    BY <1>1, <1>2, <1>3, <1>5, <1>6, <2>1, <2>2
  <2>5. FlattenSeq(ws[i]) = IF key[i] = Sep THEN b ELSE Append(b, key[i].w)
    BY <2>3, <2>4, WithTokenIs
  <2>6. CASE key[i] = Sep
    <3>1. LettersOf(key[i]) = <<>>
      BY <2>6, Zenon DEF LettersOf
    <3>2. b \o <<>> = b
      BY <2>3
    <3> QED
      BY <2>2, <2>4, <2>5, <2>6, <3>1, <3>2, Zenon
  <2>7. CASE key[i] # Sep
    <3>1. LettersOf(key[i]) = <<key[i].w>>
      BY <2>7, Zenon DEF LettersOf
    <3>2. Append(b, key[i].w) = b \o <<key[i].w>>
      BY <1>1, <2>3, AppendIsConcat
    <3> QED
      BY <2>2, <2>4, <2>5, <2>7, <3>1, <3>2, Zenon
  <2> QED
    BY <2>6, <2>7
<1>10. Len(key) \in T
  <2> HIDE DEF T
  <2> QED
    BY <1>1, <1>8, <1>9, SetInduction
<1>11. FlattenSeq(ws[Len(key)]) = f[Len(key)] /\ Len(key) \in 0..Len(key)
  BY <1>1, <1>10
<1> QED
  BY <1>2, <1>4, <1>5, <1>6, <1>7, <1>11, Zenon

LEMMA LettersAppend ==
    ASSUME NEW key \in Keys, NEW t \in Tokens
    PROVE  Append(key, t) \in Keys /\ Letters(Append(key, t)) = Letters(key) \o LettersOf(t)
<1>1. PICK more : more = Append(key, t)
  OBVIOUS
<1>2. key \in Seq(Tokens)
  BY DEF Keys
<1>3. PICK n \in Nat : n = Len(key)
  BY <1>2
<1>4. /\ more \in Seq(Tokens) /\ Len(more) = n + 1 /\ more[n + 1] = t
      /\ \A i \in 1..n : more[i] = key[i]
  BY <1>1, <1>2, <1>3, AppendProperties
<1>5. more \in Keys
  BY <1>4 DEF Keys
<1>6. PICK ls, ms : /\ ls = [i \in DOMAIN key |-> LettersOf(key[i])]
                    /\ ms = [i \in DOMAIN more |-> LettersOf(more[i])]
  OBVIOUS
<1>7. /\ ls \in Seq(Seq(STRING)) /\ Letters(key) = FlattenSeq(ls)
      /\ ms \in Seq(Seq(STRING)) /\ Letters(more) = FlattenSeq(ms)
  BY <1>5, <1>6, LettersAre
<1>8. /\ DOMAIN key = 1..n /\ DOMAIN more = 1..(n + 1)
  BY <1>2, <1>3, <1>4
<1>9. PICK u : u = LettersOf(t)
  OBVIOUS
<1>10. Len(ms) = n + 1 /\ Len(ls) = n /\ ms[n + 1] = u /\ \A i \in 1..n : ms[i] = ls[i]
  BY <1>4, <1>6, <1>7, <1>8, <1>9
<1>11. u \in Seq(STRING)
  BY <1>7, <1>10
<1>12. PICK us : us = Append(ls, u)
  OBVIOUS
<1>13. /\ us \in Seq(Seq(STRING)) /\ Len(us) = n + 1 /\ us[n + 1] = u
       /\ \A i \in 1..n : us[i] = ls[i]
  BY <1>7, <1>10, <1>11, <1>12, AppendProperties
<1>14. ms = us
  <2>1. \A i \in 1..(n + 1) : i = n + 1 \/ i \in 1..n
    OBVIOUS
  <2>2. \A i \in 1..(n + 1) : ms[i] = us[i]
    BY <1>10, <1>13, <2>1
  <2> QED
    BY <1>7, <1>10, <1>13, <2>2, SeqEqual
<1>15. FlattenSeq(us) = FlattenSeq(ls) \o u
  BY <1>7, <1>11, <1>12, FlattenAppend
<1> QED
  BY <1>1, <1>5, <1>7, <1>9, <1>14, <1>15, Zenon

LEMMA LettersEmpty == <<>> \in Keys /\ Letters(<<>>) = <<>>
<1>1. <<>> \in Keys
  BY DEF Keys
<1>2. PICK ls : ls = [i \in DOMAIN <<>> |-> LettersOf(<<>>[i])]
  OBVIOUS
<1>3. ls = <<>>
  BY <1>2
<1> QED
  BY <1>1, <1>2, <1>3, LettersAre, FlattenEmpty

LEMMA LettersConcat ==
    ASSUME NEW a \in Keys, NEW b \in Keys
    PROVE  a \o b \in Keys /\ Letters(a \o b) = Letters(a) \o Letters(b)
<1> DEFINE T == {n \in Nat : \A c \in Keys : Len(c) = n => Letters(a \o c) = Letters(a) \o Letters(c)}
<1>1. 0 \in T
  <2> SUFFICES ASSUME NEW c \in Keys, Len(c) = 0 PROVE Letters(a \o c) = Letters(a) \o Letters(c)
    OBVIOUS
  <2>1. c = <<>> /\ a \o c = a
    BY DEF Keys
  <2>2. Letters(a) \in Seq(STRING)
    BY LettersAre
  <2>3. Letters(a) \o <<>> = Letters(a)
    BY <2>2
  <2> QED
    BY <2>1, <2>3, LettersEmpty
<1>2. ASSUME NEW n \in Nat, n \in T PROVE n + 1 \in T
  <2> SUFFICES ASSUME NEW c \in Keys, Len(c) = n + 1
               PROVE  Letters(a \o c) = Letters(a) \o Letters(c)
    OBVIOUS
  <2>1. c \in Seq(Tokens) /\ c # <<>> /\ a \in Seq(Tokens)
    BY DEF Keys
  <2>2. PICK d \in Seq(Tokens), t \in Tokens : c = Append(d, t)
    BY <2>1, SequenceEmptyOrAppend
  <2>3. d \in Keys /\ Len(d) = n
    BY <2>2 DEF Keys
  <2>4. Letters(a \o d) = Letters(a) \o Letters(d)
    BY <1>2, <2>3
  <2>5. a \o c = Append(a \o d, t) /\ a \o d \in Seq(Tokens)
    <3>1. <<t>> \in Seq(Tokens) /\ a \o d \in Seq(Tokens)
      BY <2>1
    <3>2. c = d \o <<t>> /\ Append(a \o d, t) = (a \o d) \o <<t>>
      BY <2>2, <3>1, AppendIsConcat
    <3>3. (a \o d) \o <<t>> = a \o (d \o <<t>>)
      BY <2>1, <3>1, ConcatAssociative
    <3> QED
      BY <3>1, <3>2, <3>3
  <2>6. a \o d \in Keys
    BY <2>5 DEF Keys
  <2>7. Letters(a \o c) = (Letters(a) \o Letters(d)) \o LettersOf(t)
    BY <2>4, <2>5, <2>6, LettersAppend
  <2>8. Letters(c) = Letters(d) \o LettersOf(t)
    BY <2>2, <2>3, LettersAppend
  <2>9. /\ Letters(a) \in Seq(STRING) /\ Letters(d) \in Seq(STRING)
        /\ LettersOf(t) \in Seq(STRING)
    BY <2>3, LettersAre, LetterIs
  <2>10. PICK x, y, z : x = Letters(a) /\ y = Letters(d) /\ z = LettersOf(t)
    OBVIOUS
  <2>11. (x \o y) \o z = x \o (y \o z)
    BY <2>9, <2>10, ConcatAssociative
  <2> QED
    BY <2>7, <2>8, <2>10, <2>11
<1>3. b \in Seq(Tokens) /\ a \in Seq(Tokens)
  BY DEF Keys
<1>4. Len(b) \in T
  <2> HIDE DEF T
  <2>1. Len(b) \in Nat
    BY <1>3
  <2> QED
    BY <1>1, <1>2, <2>1, SetInduction
<1>5. a \o b \in Keys
  BY <1>3 DEF Keys
<1> QED
  BY <1>4, <1>5

LEMMA FlattenSingles ==
    ASSUME NEW S, NEW s \in Seq(S), NEW tt, tt = [i \in DOMAIN s |-> <<s[i]>>]
    PROVE  FlattenSeq(tt) = s
<1>12. PICK ss : ss = tt
  OBVIOUS
<1>1. PICK n \in Nat : n = Len(s)
  OBVIOUS
<1>2. DOMAIN s = 1..n /\ \A i \in 1..n : s[i] \in S
  BY <1>1
<1>3. ss \in Seq(Seq(S)) /\ Len(ss) = n /\ \A i \in 1..n : ss[i] = <<s[i]>>
  <2>1. \A i \in 1..n : <<s[i]>> \in Seq(S)
    BY <1>2
  <2> QED
    BY <1>2, <1>12, <2>1
<1>11. \E f \in [0..Len(ss) -> Seq(S)] :
         /\ f[0] = <<>> /\ FlattenSeq(ss) = f[Len(ss)]
         /\ \A i \in 1..Len(ss) : f[i] = f[i - 1] \o ss[i]
  BY <1>3, FlattenSteps
<1>4. PICK f \in [0..n -> Seq(S)] : /\ f[0] = <<>> /\ FlattenSeq(ss) = f[n]
                                    /\ \A i \in 1..n : f[i] = f[i - 1] \o ss[i]
  BY <1>3, <1>11
<1>5. \A i \in 0..n : f[i] \in Seq(S)
  OBVIOUS
<1> DEFINE T == {m \in Nat : m <= n => Len(f[m]) = m /\ \A j \in 1..m : f[m][j] = s[j]}
<1>6. 0 \in T
  BY <1>4
<1>7. ASSUME NEW m \in Nat, m \in T PROVE m + 1 \in T
  <2> SUFFICES ASSUME m + 1 <= n
               PROVE  Len(f[m + 1]) = m + 1 /\ \A j \in 1..(m + 1) : f[m + 1][j] = s[j]
    OBVIOUS
  <2>1. m + 1 \in 1..n /\ (m + 1) - 1 = m /\ m \in 0..n
    OBVIOUS
  <2>2. PICK a, x : a = f[m] /\ x = s[m + 1]
    OBVIOUS
  <2>3. a \in Seq(S) /\ x \in S /\ Len(a) = m /\ \A j \in 1..m : a[j] = s[j]
    BY <1>2, <1>5, <1>7, <2>1, <2>2
  <2>4. f[m + 1] = a \o <<x>>
    BY <1>3, <1>4, <2>1, <2>2
  <2>5. a \o <<x>> = Append(a, x)
    BY <2>3, AppendIsConcat
  <2>6. Len(Append(a, x)) = m + 1 /\ Append(a, x)[m + 1] = x /\ \A j \in 1..m : Append(a, x)[j] = a[j]
    BY <2>3, AppendProperties
  <2>7. \A j \in 1..(m + 1) : j = m + 1 \/ j \in 1..m
    OBVIOUS
  <2> QED
    BY <2>2, <2>3, <2>4, <2>5, <2>6, <2>7
<1>8. n \in T
  <2> HIDE DEF T
  <2> QED
    BY <1>1, <1>6, <1>7, SetInduction
<1>9. f[n] \in Seq(S) /\ Len(f[n]) = n /\ \A j \in 1..n : f[n][j] = s[j]
  BY <1>5, <1>8
<1>10. f[n] = s
  BY <1>1, <1>9, SeqEqual
<1> QED
  BY <1>4, <1>10, <1>12

-----------------------------------------------------------------------------
(* Spellings keep the letters of a key.                                    *)
LEMMA WrittenIs ==
    ASSUME NEW case, NEW i, NEW word \in Seq(STRING)
    PROVE  Written(case, i, word) \in Keys /\ Letters(Written(case, i, word)) = word
<1>1. PICK q : q = [j \in DOMAIN word |-> [as |-> Style(case, i, j), w |-> word[j]]]
  OBVIOUS
<1>2. PICK n \in Nat : n = Len(word)
  OBVIOUS
<1>3. DOMAIN word = 1..n /\ \A j \in 1..n : word[j] \in STRING
  BY <1>2
<1>4. \A j : Style(case, i, j) \in {"UP", "Cap", "low"}
  BY DEF Style
<1>5. \A j \in 1..n : /\ [as |-> Style(case, i, j), w |-> word[j]] \in Tokens
                      /\ [as |-> Style(case, i, j), w |-> word[j]].as # "sep"
                      /\ [as |-> Style(case, i, j), w |-> word[j]].w = word[j]
  <2> SUFFICES ASSUME NEW j \in 1..n
               PROVE  /\ [as |-> Style(case, i, j), w |-> word[j]] \in Tokens
                      /\ [as |-> Style(case, i, j), w |-> word[j]].as # "sep"
                      /\ [as |-> Style(case, i, j), w |-> word[j]].w = word[j]
    OBVIOUS
  <2>1. PICK a, w : a = Style(case, i, j) /\ w = word[j]
    OBVIOUS
  <2>2. a \in {"UP", "Cap", "low"} /\ w \in STRING
    BY <1>3, <1>4, <2>1
  <2>3. [as |-> a, w |-> w] \in Tokens
    BY <2>2 DEF Tokens
  <2>4. [as |-> a, w |-> w].as = a /\ [as |-> a, w |-> w].w = w
    OBVIOUS
  <2> QED
    BY <2>1, <2>2, <2>3, <2>4
<1>6. q \in Seq(Tokens) /\ DOMAIN q = 1..n /\ \A j \in 1..n : q[j].as # "sep" /\ q[j].w = word[j]
  BY <1>1, <1>3, <1>5
<1>7. q \in Keys
  BY <1>6 DEF Keys
<1>8. Letters(q) = word
  <2>1. PICK ls : ls = [j \in DOMAIN q |-> LettersOf(q[j])]
    OBVIOUS
  <2>2. Letters(q) = FlattenSeq(ls)
    BY <1>7, <2>1, LettersAre
  <2>3. \A j \in 1..n : q[j] # Sep
    <3>1. Sep.as = "sep"
      BY DEF Sep
    <3> QED
      BY <1>6, <3>1
  <2>4. \A j \in 1..n : LettersOf(q[j]) = <<word[j]>>
    BY <1>6, <2>3, Zenon DEF LettersOf
  <2>5. ls = [j \in DOMAIN word |-> <<word[j]>>]
    BY <1>3, <1>6, <2>1, <2>4
  <2> QED
    BY <2>2, <2>5, FlattenSingles
<1>9. <<Sep>> \in Keys /\ Letters(<<Sep>>) = <<>>
  <2>1. Sep \in Tokens
    <3>1. PICK a, w : a = "sep" /\ w = "_"
      OBVIOUS
    <3>2. w \in STRING
      BY <3>1, LiteralsAssumption
    <3>4. a \in {"low", "Cap", "UP", "spelt", "sep"}
      BY <3>1
    <3>3. [as |-> a, w |-> w] \in Tokens
      BY <3>2, <3>4 DEF Tokens
    <3> QED
      BY <3>1, <3>3 DEF Sep
  <2>2. PICK t : t = Sep
    OBVIOUS
  <2>3. Append(<<>>, t) = <<t>>
    OBVIOUS
  <2>4. LettersOf(Sep) = <<>>
    BY Zenon DEF LettersOf
  <2>5. Append(<<>>, t) \in Keys /\ Letters(Append(<<>>, t)) = <<>> \o <<>>
    BY <2>1, <2>2, <2>4, LettersAppend, LettersEmpty
  <2> QED
    BY <2>2, <2>3, <2>5
<1>10. PICK p : p = IF i > 1 /\ case \in {"snake", "UPPER_SNAKE"} THEN <<Sep>> ELSE <<>>
  OBVIOUS
<1>11. p \in Keys /\ Letters(p) = <<>>
  <2>1. p = <<Sep>> \/ p = <<>>
    BY <1>10, Zenon
  <2> QED
    BY <1>9, <2>1, LettersEmpty, Zenon
<1>12. Written(case, i, word) = p \o q
  BY <1>1, <1>10, Zenon DEF Written
<1>13. p \o q \in Keys /\ Letters(p \o q) = <<>> \o word
  BY <1>7, <1>8, <1>11, LettersConcat
<1>14. <<>> \o word = word
  OBVIOUS
<1> QED
  BY <1>12, <1>13, <1>14

LEMMA SpellingIs ==
    ASSUME NEW case, NEW words \in Words
    PROVE  Spelling(case, words) \in Keys /\ Letters(Spelling(case, words)) = FlattenSeq(words)
<1>1. words \in Seq(Seq(STRING))
  BY DEF Words
<1>2. PICK n \in Nat : n = Len(words)
  BY <1>1
<1>3. DOMAIN words = 1..n /\ \A i \in 1..n : words[i] \in Seq(STRING)
  BY <1>1, <1>2
<1>4. PICK q : q = [i \in DOMAIN words |-> Written(case, i, words[i])]
  OBVIOUS
<1>5. \A i \in 1..n : Written(case, i, words[i]) \in Keys
                      /\ Letters(Written(case, i, words[i])) = words[i]
  BY <1>3, WrittenIs
<1>6. q \in Seq(Keys) /\ Len(q) = n /\ \A i \in 1..n : q[i] \in Keys /\ Letters(q[i]) = words[i]
  BY <1>3, <1>4, <1>5
<1>7. Spelling(case, words) = FlattenSeq(q)
  BY <1>4, Zenon DEF Spelling
<1>8. q \in Seq(Seq(Tokens))
  BY <1>6 DEF Keys
<1>9. \E g \in [0..Len(q) -> Seq(Tokens)] :
         /\ g[0] = <<>> /\ FlattenSeq(q) = g[Len(q)]
         /\ \A i \in 1..Len(q) : g[i] = g[i - 1] \o q[i]
  BY <1>8, FlattenSteps
<1>10. PICK g \in [0..n -> Seq(Tokens)] :
         /\ g[0] = <<>> /\ FlattenSeq(q) = g[n] /\ \A i \in 1..n : g[i] = g[i - 1] \o q[i]
  BY <1>6, <1>9
<1>11. \E h \in [0..Len(words) -> Seq(STRING)] :
         /\ h[0] = <<>> /\ FlattenSeq(words) = h[Len(words)]
         /\ \A i \in 1..Len(words) : h[i] = h[i - 1] \o words[i]
  BY <1>1, FlattenSteps
<1>12. PICK h \in [0..n -> Seq(STRING)] :
         /\ h[0] = <<>> /\ FlattenSeq(words) = h[n]
         /\ \A i \in 1..n : h[i] = h[i - 1] \o words[i]
  BY <1>2, <1>11
<1>13. \A i \in 0..n : g[i] \in Keys
  <2>1. \A i \in 0..n : g[i] \in Seq(Tokens)
    OBVIOUS
  <2> QED
    BY <2>1 DEF Keys
<1> DEFINE T == {m \in Nat : m <= n => Letters(g[m]) = h[m]}
<1>14. 0 \in T
  BY <1>10, <1>12, LettersEmpty
<1>15. ASSUME NEW m \in Nat, m \in T PROVE m + 1 \in T
  <2> SUFFICES ASSUME m + 1 <= n PROVE Letters(g[m + 1]) = h[m + 1]
    OBVIOUS
  <2>1. m + 1 \in 1..n /\ (m + 1) - 1 = m /\ m \in 0..n /\ m <= n
    OBVIOUS
  <2>2. PICK a, b, c, w : a = g[m] /\ b = q[m + 1] /\ c = h[m] /\ w = words[m + 1]
    OBVIOUS
  <2>3. a \in Keys /\ b \in Keys /\ Letters(a) = c /\ Letters(b) = w
    BY <1>6, <1>13, <1>15, <2>1, <2>2
  <2>4. g[m + 1] = a \o b /\ h[m + 1] = c \o w
    BY <1>10, <1>12, <2>1, <2>2
  <2> QED
    BY <2>3, <2>4, LettersConcat
<1>16. n \in T
  <2> HIDE DEF T
  <2> QED
    BY <1>14, <1>15, SetInduction
<1>17. Letters(g[n]) = h[n] /\ n \in 0..n
  BY <1>16
<1> QED
  BY <1>7, <1>10, <1>12, <1>13, <1>17

LEMMA SpelledAre ==
    ASSUME NEW key \in Keys, NEW case
    PROVE  /\ SplitKeyWords(key) \in Words
           /\ Spelling(case, SplitKeyWords(key)) \in Keys
           /\ Letters(Spelling(case, SplitKeyWords(key))) = Letters(key)
<1>1. SplitKeyWords(key) \in Words /\ FlattenSeq(SplitKeyWords(key)) = Letters(key)
  BY WordsAre DEF SplitKeyWords
<1> QED
  BY <1>1, SpellingIs

\* Every spelling of a key has its letters, and the key is the first of them.
LEMMA VariantsAre ==
    ASSUME NEW key \in Keys
    PROVE  /\ GetCaseVariants(key) \in Seq(Keys) /\ 1 \in DOMAIN GetCaseVariants(key)
           /\ GetCaseVariants(key)[1] = key
           /\ \A i \in DOMAIN GetCaseVariants(key) : Letters(GetCaseVariants(key)[i]) = Letters(key)
<1>1. PICK words : words = SplitKeyWords(key)
  OBVIOUS
<1>2. PICK es : es = [i \in DOMAIN Cases |-> Spelling(Cases[i], words)]
  OBVIOUS
<1>3. DOMAIN Cases = 1..6
  BY DEF Cases
<1>4. \A i \in 1..6 : /\ Spelling(Cases[i], words) \in Keys
                      /\ Letters(Spelling(Cases[i], words)) = Letters(key)
  BY <1>1, SpelledAre
<1>5. /\ es \in Seq(Keys) /\ Len(es) = 6 /\ \A i \in 1..6 : Letters(es[i]) = Letters(key)
  BY <1>2, <1>3, <1>4
<1>6. PICK vs : vs = GetCaseVariants(key)
  OBVIOUS
<1>7. vs = <<key>> \/ vs = <<key>> \o es
  BY <1>1, <1>2, <1>6, Zenon DEF GetCaseVariants
<1>8. CASE vs = <<key>>
  BY <1>6, <1>8
<1>9. CASE vs = <<key>> \o es
  <2>1. /\ vs \in Seq(Keys) /\ DOMAIN vs = 1..7 /\ vs[1] = key
        /\ \A i \in 1..7 : i = 1 \/ (i - 1 \in 1..6 /\ vs[i] = es[i - 1])
    <3>1. PICK one : one = <<key>>
      OBVIOUS
    <3>2. one \in Seq(Keys) /\ Len(one) = 1 /\ one[1] = key
      BY <3>1
    <3>4. vs = one \o es
      BY <1>9, <3>1
    <3>6. /\ one \o es \in Seq(Keys) /\ Len(one \o es) = Len(one) + Len(es)
          /\ \A i \in 1..Len(one) + Len(es) :
                (one \o es)[i] = IF i <= Len(one) THEN one[i] ELSE es[i - Len(one)]
      BY <1>5, <3>2, ConcatProperties, Zenon
    <3>3. /\ vs \in Seq(Keys) /\ Len(vs) = 7
          /\ \A i \in 1..7 : vs[i] = IF i <= 1 THEN one[i] ELSE es[i - 1]
      BY <1>5, <3>2, <3>4, <3>6
    <3>5. DOMAIN vs = 1..7
      BY <3>3
    <3>7. \A i \in 1..7 : i = 1 \/ (i - 1 \in 1..6 /\ ~(i <= 1))
      OBVIOUS
    <3>8. vs[1] = key
      BY <3>2, <3>3
    <3>9. \A i \in 1..7 : i = 1 \/ (i - 1 \in 1..6 /\ vs[i] = es[i - 1])
      BY <3>3, <3>7
    <3> QED
      BY <3>3, <3>5, <3>8, <3>9
  <2>2. \A i \in 1..7 : Letters(vs[i]) = Letters(key)
    BY <1>5, <2>1
  <2> QED
    BY <1>6, <2>1, <2>2
<1> QED
  BY <1>7, <1>8, <1>9

-----------------------------------------------------------------------------
(* The keys that a conversion gives.                                       *)
LEMMA OneElement == \A S : \A x \in S : <<x>> \in Seq(S) /\ Len(<<x>>) = 1 /\ <<x>>[1] = x
OBVIOUS

LEMMA NoElement == \A S : <<>> \in Seq(S)
OBVIOUS

LEMMA SepIs == Sep \in [as : {"low", "spelt", "sep"}, w : STRING] /\ Sep \in Tokens
<1>1. PICK a, w : a = "sep" /\ w = "_"
  OBVIOUS
<1>2. w \in STRING
  BY <1>1, LiteralsAssumption
<1>3. a \in {"low", "Cap", "UP", "spelt", "sep"} /\ a \in {"low", "spelt", "sep"}
  BY <1>1
<1>4. /\ [as |-> a, w |-> w] \in Tokens
      /\ [as |-> a, w |-> w] \in [as : {"low", "spelt", "sep"}, w : STRING]
  BY <1>2, <1>3 DEF Tokens
<1> QED
  BY <1>1, <1>4 DEF Sep

LEMMA CamelKeyIs == \A key \in Keys : SnakeCaseKeyToCamelCase(key) \in Keys
<1> SUFFICES ASSUME NEW key \in Keys PROVE SnakeCaseKeyToCamelCase(key) \in Keys
  OBVIOUS
<1> DEFINE Piece(i) == IF key[i] = Sep THEN <<>>
                       ELSE IF i > 1 /\ key[i - 1] = Sep THEN <<Capital(key[i])>>
                       ELSE <<key[i]>>
<1>1. DOMAIN key = 1..Len(key) /\ Len(key) \in Nat /\ \A i \in 1..Len(key) : key[i] \in Tokens
  BY KeyTokens
<1>2. \A t \in Tokens : Capital(t) \in Tokens
  BY DEF Capital, Tokens
<1>3. \A i \in 1..Len(key) : Piece(i) \in Seq(Tokens)
  BY <1>1, <1>2, OneElement, NoElement, Zenon
<1>4. PICK ss : ss = [i \in DOMAIN key |-> Piece(i)]
  OBVIOUS
<1>5. SnakeCaseKeyToCamelCase(key) = FlattenSeq(ss)
  BY <1>4 DEF SnakeCaseKeyToCamelCase
<1> HIDE DEF Piece
<1>6. ss \in Seq(Seq(Tokens))
  BY <1>1, <1>3, <1>4
<1> QED
  BY <1>5, <1>6, FlattenType DEF Keys

LEMMA SnakeKeyIs == \A key \in Keys : CamelCaseKeyToSnakeCase(key) \in SnakeKeys
<1> SUFFICES ASSUME NEW key \in Keys PROVE CamelCaseKeyToSnakeCase(key) \in SnakeKeys
  OBVIOUS
<1> DEFINE Apart(i) == IF i > 1 THEN <<Sep>> ELSE <<>>
           Piece(i) == IF key[i].as = "Cap" THEN Apart(i) \o <<Low(key[i])>>
                       ELSE IF key[i].as = "UP"
                       THEN Apart(i) \o <<[key[i] EXCEPT !.as = "spelt"]>>
                       ELSE <<key[i]>>
           SnakeTokens == [as : {"low", "spelt", "sep"}, w : STRING]
<1>1. DOMAIN key = 1..Len(key) /\ Len(key) \in Nat /\ \A i \in 1..Len(key) : key[i] \in Tokens
  BY KeyTokens
<1>2. \A t \in Tokens : /\ Low(t) \in SnakeTokens /\ [t EXCEPT !.as = "spelt"] \in SnakeTokens
                        /\ t.as # "Cap" /\ t.as # "UP" => t \in SnakeTokens
  BY DEF Low, Tokens
<1>3. PICK S : S = SnakeTokens
  OBVIOUS
<1>4. \A i : Apart(i) \in Seq(S)
  BY <1>3, SepIs, OneElement, NoElement, Zenon
<1>5. \A i : \A x \in S : Apart(i) \o <<x>> \in Seq(S)
  <2>1. \A a \in Seq(S), x \in S : a \o <<x>> \in Seq(S)
    OBVIOUS
  <2> QED
    BY <1>4, <2>1, Zenon
<1>6. \A i \in 1..Len(key) : Piece(i) \in Seq(S)
  BY <1>1, <1>2, <1>3, <1>5, OneElement, Zenon
<1>7. PICK ss : ss = [i \in DOMAIN key |-> Piece(i)]
  OBVIOUS
<1>8. CamelCaseKeyToSnakeCase(key) = FlattenSeq(ss)
  BY <1>7 DEF CamelCaseKeyToSnakeCase
<1> HIDE DEF Piece, Apart
<1>9. ss \in Seq(Seq(S))
  BY <1>1, <1>6, <1>7
<1> QED
  BY <1>3, <1>8, <1>9, FlattenType DEF SnakeKeys

\* The keys that the conversions give, and those of an array that becomes an object.
KeysAfter(how) == IF how = "toSnake" THEN SnakeKeys ELSE Keys

LEMMA SnakeKeysAreKeys == SnakeKeys \subseteq Keys
<1>1. [as : {"low", "spelt", "sep"}, w : STRING] \subseteq Tokens
  BY DEF Tokens
<1> QED
  BY <1>1, SeqSubset DEF SnakeKeys, Keys

LEMMA NewKeysAre ==
    ASSUME NEW how, NEW key \in Keys
    PROVE  /\ NewKeys(how, key) \in Seq(KeysAfter(how)) /\ 1 \in DOMAIN NewKeys(how, key)
           /\ how \notin Formatters => \A i \in DOMAIN NewKeys(how, key) :
                                            Letters(NewKeys(how, key)[i]) = Letters(key)
           /\ how = "every" => NewKeys(how, key)[1] = key
<1>1. PICK ks : ks = NewKeys(how, key)
  OBVIOUS
<1>2. CASE how = "toCamel"
  <2>1. ks = <<SnakeCaseKeyToCamelCase(key)>> /\ KeysAfter(how) = Keys
    BY <1>1, <1>2 DEF NewKeys, KeysAfter
  <2>2. SnakeCaseKeyToCamelCase(key) \in Keys
    BY CamelKeyIs
  <2> QED
    BY <1>1, <1>2, <2>1, <2>2 DEF Formatters
<1>3. CASE how = "toSnake"
  <2>1. ks = <<CamelCaseKeyToSnakeCase(key)>> /\ KeysAfter(how) = SnakeKeys
    BY <1>1, <1>3 DEF NewKeys, KeysAfter
  <2>2. PICK e : e = CamelCaseKeyToSnakeCase(key)
    OBVIOUS
  <2>3. e \in SnakeKeys
    BY <2>2, SnakeKeyIs
  <2>4. ks \in Seq(SnakeKeys) /\ DOMAIN ks = 1..1
    BY <2>1, <2>2, <2>3
  <2>5. how \in Formatters /\ how # "every"
    BY <1>3 DEF Formatters
  <2> QED
    BY <1>1, <2>1, <2>4, <2>5
<1>4. CASE how = "every"
  <2>1. ks = GetCaseVariants(key) /\ KeysAfter(how) = Keys
    BY <1>1, <1>4 DEF NewKeys, KeysAfter
  <2> QED
    BY <1>1, <2>1, VariantsAre
<1>5. CASE how \notin {"toCamel", "toSnake", "every"}
  <2>1. ks = <<Spelling(how, SplitKeyWords(key))>> /\ KeysAfter(how) = Keys
    BY <1>1, <1>5 DEF NewKeys, KeysAfter
  <2>2. PICK e : e = Spelling(how, SplitKeyWords(key))
    OBVIOUS
  <2>3. e \in Keys /\ Letters(e) = Letters(key)
    BY <2>2, SpelledAre
  <2>4. ks \in Seq(Keys) /\ DOMAIN ks = 1..1 /\ ks[1] = e
    BY <2>1, <2>2, <2>3
  <2> QED
    BY <1>1, <1>5, <2>1, <2>3, <2>4
<1> QED
  BY <1>2, <1>3, <1>4, <1>5

LEMMA ItemIs ==
    ASSUME NEW how, NEW n \in Levels, NEW v \in Payload[n]
    PROVE  Item(how, v) \in Payload[n]
<1>1. PICK k : k = [i \in Nat |-> [j \in 1..i |-> [as |-> "low", w |-> "0"]]]
  OBVIOUS
<1>2. \A i \in Nat : k[i] \in Keys
  <2>1. PICK a, w : a = "low" /\ w = "0"
    OBVIOUS
  <2>2. w \in STRING
    BY <2>1, LiteralsAssumption
  <2>3. PICK t : t = [as |-> a, w |-> w]
    OBVIOUS
  <2>4. t \in Tokens
    BY <2>1, <2>2, <2>3 DEF Tokens
  <2>5. \A i \in Nat : [j \in 1..i |-> t] \in Seq(Tokens)
    BY <2>4
  <2>6. \A i \in Nat : k[i] = [j \in 1..i |-> t]
    BY <1>1, <2>1, <2>3
  <2> QED
    BY <2>5, <2>6 DEF Keys
<1>3. CASE Item(how, v) = v
  BY <1>3
<1>4. CASE Item(how, v) # v
  <2>1. v.is = "array" /\ Item(how, v) = WithKeys(v)
    BY <1>4 DEF Item, WithKeys
  <2>2. PICK below : below = Payload[n - 1]
    OBVIOUS
  <2>3. n # 0 /\ v.items \in Seq(below)
    <3>1. v \notin Scalars
      BY <2>1, IsScalar
    <3>2. ~IsObjectOf(v, Keys, Payload[n - 1])
      BY <2>1 DEF IsObjectOf
    <3>3. \/ n # 0 /\ IsArrayOf(v, Payload[n - 1])
          \/ n # 0 /\ IsObjectOf(v, Keys, Payload[n - 1])
      BY <3>1, FromLevel, Zenon DEF Payload
    <3> QED
      BY <2>2, <3>2, <3>3 DEF IsArrayOf
  <2>4. PICK es : es = [i \in DOMAIN v.items |->
                    [key |-> [j \in 1..i |-> [as |-> "low", w |-> "0"]], val |-> v.items[i]]]
    OBVIOUS
  <2>5. WithKeys(v) = Object(es)
    BY <2>1, <2>4, Zenon DEF WithKeys
  <2>6. PICK items : items = v.items
    OBVIOUS
  <2>7. DOMAIN items = 1..Len(items) /\ Len(items) \in Nat /\ \A i \in 1..Len(items) : items[i] \in below
    BY <2>3, <2>6
  <2>8. \A i \in 1..Len(items) : es[i] = [key |-> k[i], val |-> items[i]]
    <3>1. \A i \in 1..Len(items) : k[i] = [j \in 1..i |-> [as |-> "low", w |-> "0"]]
      BY <1>1, <2>7
    <3>2. ASSUME NEW i \in 1..Len(items)
          PROVE  es[i] = [key |-> [j \in 1..i |-> [as |-> "low", w |-> "0"]], val |-> items[i]]
      <4>1. i \in DOMAIN v.items /\ v.items[i] = items[i]
        BY <2>6, <2>7
      <4>2. es[i] = [key |-> [j \in 1..i |-> [as |-> "low", w |-> "0"]], val |-> v.items[i]]
        BY <2>4, <4>1
      <4> QED
        BY <4>1, <4>2, Zenon
    <3> QED
      BY <3>1, <3>2, Zenon
  <2>9. \A i \in 1..Len(items) : es[i] \in [key : Keys, val : below]
    <3>1. \A i \in 1..Len(items) : k[i] \in Keys /\ items[i] \in below
      BY <1>2, <2>7
    <3>2. \A x \in Keys, y \in below : [key |-> x, val |-> y] \in [key : Keys, val : below]
      OBVIOUS
    <3>3. ASSUME NEW i \in 1..Len(items) PROVE es[i] \in [key : Keys, val : below]
      <4>1. [key |-> k[i], val |-> items[i]] \in [key : Keys, val : below]
        BY <3>1, <3>2
      <4>2. es[i] = [key |-> k[i], val |-> items[i]]
        BY <2>8
      <4> QED
        BY <4>1, <4>2, Zenon
    <3> QED
      BY <3>3
  <2>10. DOMAIN es = 1..Len(items) /\ es = [i \in 1..Len(items) |-> es[i]]
    BY <2>4, <2>6, <2>7, Zenon
  <2>11. es \in Seq([key : Keys, val : below])
    BY <2>7, <2>9, <2>10
  <2>12. Object(es) \in Payload[n]
    BY <2>2, <2>3, <2>11, IntoLevel DEF Payload
  <2> QED
    BY <2>1, <2>5, <2>12
<1> QED
  BY <1>3, <1>4

-----------------------------------------------------------------------------
(* Conversions, level by level.                                            *)
\* What a conversion makes of the payloads of each level.
ConvertsBy(how, by) ==
    \A n \in Levels : by[n] = [v \in Payload[n] |-> Level(how, v, by[n - 1])]

LEMMA ScalarsStay == \A how, v, below : v \in Scalars => Level(how, v, below) = v
BY IsScalar DEF Level

LEMMA ConvertedLevels ==
    ASSUME NEW how
    PROVE  \E by : ConvertsBy(how, by) /\ Converted(how) = by[Deepest]
<1> DEFINE Body(n, f) == [v \in Payload[n] |-> Level(how, v, f[n - 1])]
           Loops(f, m) == f = [n \in 0..m |-> Body(n, f)]
           Exist == {m \in Nat : \E f : Loops(f, m)}
<1>0. \A f, g : Body(0, f) = Body(0, g)
  <2>1. Payload[0] = Scalars
    BY PayloadLevels DEF Payload
  <2>2. \A f : Body(0, f) = [v \in Scalars |-> v]
    BY <2>1, ScalarsStay
  <2> QED
    BY <2>2
<1>1. 0 \in Exist
  <2>1. PICK f : f = [n \in 0..0 |-> Body(0, <<>>)]
    OBVIOUS
  <2>2. Loops(f, 0)
    <3>1. Body(0, <<>>) = Body(0, f)
      BY <1>0
    <3>2. f = [n \in 0..0 |-> Body(0, f)]
      BY <2>1, <3>1, Zenon
    <3>3. \A n \in 0..0 : n = 0
      OBVIOUS
    <3> HIDE DEF Body
    <3> QED
      BY <3>2, <3>3
  <2> QED
    BY <2>2
<1>2. ASSUME NEW m \in Nat, m \in Exist PROVE m + 1 \in Exist
  <2>1. PICK f : Loops(f, m)
    BY <1>2
  <2>2. PICK h : h = [n \in 0..(m + 1) |-> Body(n, f)]
    OBVIOUS
  <2>3. \A n \in 0..m : h[n] = f[n]
    <3> HIDE DEF Body
    <3> QED
      BY <2>1, <2>2
  <2>4. \A n \in 0..(m + 1) : Body(n, f) = Body(n, h)
    <3> SUFFICES ASSUME NEW n \in 0..(m + 1) PROVE Body(n, f) = Body(n, h)
      OBVIOUS
    <3>1. CASE n = 0
      <4> HIDE DEF Body
      <4> QED
        BY <1>0, <3>1
    <3>2. CASE n # 0
      <4>1. n - 1 \in 0..m
        BY <3>2
      <4>2. h[n - 1] = f[n - 1]
        BY <2>3, <4>1
      <4> QED
        BY <4>2, Zenon
    <3> QED
      BY <3>1, <3>2
  <2>5. Loops(h, m + 1)
    <3> HIDE DEF Body
    <3> QED
      BY <2>2, <2>4
  <2> QED
    BY <2>5
<1>3. Deepest \in Exist
  <2> HIDE DEF Exist
  <2> QED
    BY <1>1, <1>2, SetInduction, SomeLevels
<1>4. PICK f : f = CHOOSE g : Loops(g, Deepest)
  OBVIOUS
<1>5. Loops(f, Deepest)
  BY <1>3, <1>4
<1>6. Converted(how) = f[Deepest]
  BY <1>4 DEF Converted, Levels
<1>7. \A n \in Levels : f[n] = Body(n, f)
  <2> HIDE DEF Body
  <2> QED
    BY <1>5 DEF Levels
<1>8. ConvertsBy(how, f)
  BY <1>7, Zenon DEF ConvertsBy
<1> QED
  BY <1>6, <1>8

\* What becomes of one level, if the payloads of V below it become some of W.
IntoW(how, V, W, below) == \A v \in V : below[Item(how, v)] \in W /\ below[v] \in W

LevelMakes(how, V, W, below) ==
    /\ \A v : IsArrayOf(v, V) =>
          /\ Level(how, v, below).is = "array"
          /\ Level(how, v, below).items \in Seq(W)
          /\ Level(how, v, below) = Array(Level(how, v, below).items)
    /\ \A v : IsObjectOf(v, Keys, V) =>
          /\ FlattenSeq([i \in DOMAIN v.entries |->
                  Entries(NewKeys(how, v.entries[i].key), below[v.entries[i].val])])
                \in Seq(Pairs(KeysAfter(how), W))
          /\ Level(how, v, below) =
                Assigned(FlattenSeq([i \in DOMAIN v.entries |->
                  Entries(NewKeys(how, v.entries[i].key), below[v.entries[i].val])]))
          /\ Level(how, v, below) \in Objects(KeysAfter(how), W)

LEMMA LevelIs ==
    ASSUME NEW how, NEW V, NEW W, NEW below, IntoW(how, V, W, below)
    PROVE  LevelMakes(how, V, W, below)
<1>4. PICK K : K = KeysAfter(how)
  OBVIOUS
<1>3. \A v \in V : below[Item(how, v)] \in W /\ below[v] \in W
  BY Zenon DEF IntoW
<1>1. ASSUME NEW v, IsArrayOf(v, V)
      PROVE  /\ Level(how, v, below).is = "array"
             /\ Level(how, v, below).items \in Seq(W)
             /\ Level(how, v, below) = Array(Level(how, v, below).items)
  <2>1. v.is = "array" /\ v.items \in Seq(V)
    BY <1>1, Zenon DEF IsArrayOf
  <2>2. PICK items : items = v.items
    OBVIOUS
  <2>3. DOMAIN items = 1..Len(items) /\ Len(items) \in Nat /\ \A i \in 1..Len(items) : items[i] \in V
    BY <2>1, <2>2
  <2>4. PICK new : new = [i \in DOMAIN v.items |-> below[Item(how, v.items[i])]]
    OBVIOUS
  <2>5. new \in Seq(W)
    BY <1>3, <2>2, <2>3, <2>4
  <2>6. Level(how, v, below) = Array(new)
    BY <2>1, <2>4, Zenon DEF Level
  <2> QED
    BY <2>5, <2>6 DEF Array
<1>2. ASSUME NEW v, IsObjectOf(v, Keys, V)
      PROVE  /\ FlattenSeq([i \in DOMAIN v.entries |->
                        Entries(NewKeys(how, v.entries[i].key), below[v.entries[i].val])])
                      \in Seq(Pairs(K, W))
             /\ Level(how, v, below) =
                     Assigned(FlattenSeq([i \in DOMAIN v.entries |->
                        Entries(NewKeys(how, v.entries[i].key), below[v.entries[i].val])]))
             /\ Level(how, v, below) \in Objects(K, W)
  <2>1. v.is = "object" /\ v.entries \in Seq([key : Keys, val : V])
    BY <1>2, Zenon DEF IsObjectOf
  <2>2. PICK es : es = v.entries
    OBVIOUS
  <2>3. /\ DOMAIN es = 1..Len(es) /\ Len(es) \in Nat
        /\ \A i \in 1..Len(es) : es[i] \in [key : Keys, val : V]
    <3>1. PICK P : P = [key : Keys, val : V]
      OBVIOUS
    <3>2. es \in Seq(P)
      BY <2>1, <2>2, <3>1
    <3>3. DOMAIN es = 1..Len(es) /\ Len(es) \in Nat /\ \A i \in 1..Len(es) : es[i] \in P
      BY <3>2
    <3> QED
      BY <3>1, <3>3, Zenon
  <2>4. \A i \in 1..Len(es) : es[i].key \in Keys /\ es[i].val \in V
    BY <2>3
  <2>5. PICK ss : ss = [i \in DOMAIN v.entries |->
                          Entries(NewKeys(how, v.entries[i].key), below[v.entries[i].val])]
    OBVIOUS
  <2>6. \A ks \in Seq(K), x \in W : Entries(ks, x) \in Seq(Pairs(K, W))
    <3> SUFFICES ASSUME NEW ks \in Seq(K), NEW x \in W PROVE Entries(ks, x) \in Seq(Pairs(K, W))
      OBVIOUS
    <3>1. DOMAIN ks = 1..Len(ks) /\ Len(ks) \in Nat /\ \A i \in 1..Len(ks) : ks[i] \in K
      OBVIOUS
    <3>2. \A i \in 1..Len(ks) : [key |-> ks[i], val |-> x] \in Pairs(K, W)
      BY <3>1 DEF Pairs
    <3>3. [i \in 1..Len(ks) |-> [key |-> ks[i], val |-> x]] \in Seq(Pairs(K, W))
      BY <3>1, <3>2
    <3> QED
      BY <3>1, <3>3 DEF Entries
  <2>7. \A i \in 1..Len(es) : NewKeys(how, es[i].key) \in Seq(K) /\ below[es[i].val] \in W
    BY <1>3, <1>4, <2>4, NewKeysAre
  <2>8. \A i \in 1..Len(es) : Entries(NewKeys(how, es[i].key), below[es[i].val]) \in Seq(Pairs(K, W))
    BY <2>6, <2>7
  <2>9. ss \in Seq(Seq(Pairs(K, W)))
    <3>1. ss = [i \in 1..Len(es) |-> Entries(NewKeys(how, es[i].key), below[es[i].val])]
      BY <2>2, <2>3, <2>5, Zenon
    <3> QED
      BY <2>3, <2>8, <3>1
  <2>10. FlattenSeq(ss) \in Seq(Pairs(K, W))
    BY <2>9, FlattenType
  <2>11. Level(how, v, below) = Assigned(FlattenSeq(ss))
    BY <2>1, <2>5 DEF Level
  <2>12. Assigned(FlattenSeq(ss)) \in Objects(K, W)
    BY <2>10, AssignedIs
  <2> QED
    BY <2>5, <2>10, <2>11, <2>12, Zenon
<1> QED
  BY <1>1, <1>2, <1>4, Zenon DEF LevelMakes

LEMMA ObjectsAreObjects == \A K, V : \A o \in Objects(K, V) : IsObjectOf(o, K, V)
BY DEF Objects, Pairs, IsObjectOf, Object

LEMMA ConvertedTypes ==
    ASSUME NEW how, NEW by, ConvertsBy(how, by)
    PROVE  \A m, n \in Levels : \A v \in Payload[m] : m <= n =>
              /\ by[n][v] \in PayloadsOf(KeysAfter(how))[m]
              /\ by[n][v].is = v.is
<1>1. PICK K, q : K = KeysAfter(how) /\ q = PayloadsOf(K)
  OBVIOUS
<1> DEFINE Good(m, n, v) == by[n][v] \in q[m] /\ by[n][v].is = v.is
           T == {m \in Nat : \A n \in Levels : m <= n => \A v \in Payload[m] : Good(m, n, v)}
<1>2. \A m, n \in Levels : \A v \in Payload[m] : m <= n =>
         v \in Payload[n] /\ by[n][v] = Level(how, v, by[n - 1])
  <2> SUFFICES ASSUME NEW m \in Levels, NEW n \in Levels, NEW v \in Payload[m], m <= n
               PROVE  v \in Payload[n] /\ by[n][v] = Level(how, v, by[n - 1])
    OBVIOUS
  <2>1. v \in Payload[n]
    BY MorePayloads DEF Payload
  <2>2. by[n] = [x \in Payload[n] |-> Level(how, x, by[n - 1])]
    BY Zenon DEF ConvertsBy
  <2> QED
    BY <2>1, <2>2
<1>3. \A m, n \in Levels : \A v \in Payload[m] : m <= n /\ v \in Scalars => Good(m, n, v)
  <2> SUFFICES ASSUME NEW m \in Levels, NEW n \in Levels, NEW v \in Payload[m], m <= n, v \in Scalars
               PROVE  Good(m, n, v)
    OBVIOUS
  <2>1. by[n][v] = v
    BY <1>2, ScalarsStay
  <2>2. v \in q[m]
    BY <1>1, IntoLevel
  <2> QED
    BY <2>1, <2>2
<1>4. 0 \in T
  <2>1. Payload[0] = Scalars
    BY PayloadLevels DEF Payload
  <2> QED
    BY <1>3, <2>1, SomeLevels
<1>5. ASSUME NEW m \in Nat, m \in T PROVE m + 1 \in T
  <2> SUFFICES ASSUME NEW n \in Levels, m + 1 <= n, NEW v \in Payload[m + 1] PROVE Good(m + 1, n, v)
    OBVIOUS
  <2>1. /\ n \in Nat /\ n # 0 /\ m + 1 \in Levels /\ m + 1 # 0 /\ (m + 1) - 1 = m
        /\ n - 1 \in Levels /\ m <= n - 1 /\ m \in Levels
    BY SomeLevels
  <2>2. PICK below, V, W : below = by[n - 1] /\ V = Payload[m] /\ W = q[m]
    OBVIOUS
  <2>3. \A x \in V : below[x] \in W
    BY <1>5, <2>1, <2>2
  <2>4. \A x \in V : Item(how, x) \in V
    BY <2>1, <2>2, ItemIs
  <2>5. \A x \in V : below[Item(how, x)] \in W /\ below[x] \in W
    BY <2>3, <2>4
  <2>6. by[n][v] = Level(how, v, below)
    BY <1>2, <2>1, <2>2
  <2>7. v \in Scalars \/ IsArrayOf(v, V) \/ IsObjectOf(v, Keys, V)
    BY <2>1, <2>2, FromLevel DEF Payload
  <2>8. /\ \A items \in Seq(W) : Array(items) \in q[m + 1]
        /\ \A entries \in Seq([key : K, val : W]) : Object(entries) \in q[m + 1]
    BY <1>1, <2>1, <2>2, IntoLevel, Zenon
  <2>12. /\ \A x : IsArrayOf(x, V) => /\ Level(how, x, below).is = "array"
                                     /\ Level(how, x, below).items \in Seq(W)
                                     /\ Level(how, x, below) = Array(Level(how, x, below).items)
         /\ \A x : IsObjectOf(x, Keys, V) => Level(how, x, below) \in Objects(K, W)
    <3>1. IntoW(how, V, W, below)
      BY <2>5, Zenon DEF IntoW
    <3>2. LevelMakes(how, V, W, below)
      BY <3>1, LevelIs
    <3> QED
      BY <1>1, <3>2, Zenon DEF LevelMakes
  <2>9. CASE v \in Scalars
    BY <1>3, <2>1, <2>9
  <2>10. CASE IsArrayOf(v, V)
    <3>1. by[n][v].items \in Seq(W) /\ by[n][v].is = "array" /\ by[n][v] = Array(by[n][v].items)
      BY <2>6, <2>10, <2>12, Zenon
    <3>2. v.is = "array"
      BY <2>10 DEF IsArrayOf
    <3> QED
      BY <2>8, <3>1, <3>2, Zenon
  <2>11. CASE IsObjectOf(v, Keys, V)
    <3>1. by[n][v] \in Objects(K, W)
      BY <2>6, <2>11, <2>12, Zenon
    <3>2. IsObjectOf(by[n][v], K, W)
      BY <3>1, ObjectsAreObjects
    <3>3. /\ by[n][v].is = "object" /\ by[n][v] = Object(by[n][v].entries)
          /\ by[n][v].entries \in Seq([key : K, val : W])
      BY <3>2, Zenon DEF IsObjectOf
    <3>4. v.is = "object"
      BY <2>11, Zenon DEF IsObjectOf
    <3> QED
      BY <2>8, <3>3, <3>4, Zenon
  <2> QED
    BY <2>7, <2>9, <2>10, <2>11
<1>6. Nat \subseteq T
  <2> HIDE DEF T
  <2> QED
    BY <1>4, <1>5, SetInduction
<1> QED
  BY <1>1, <1>6, SomeLevels

\* What a conversion gives of a payload, and of an object.
LEMMA ConvertedIs ==
    ASSUME NEW how, NEW n \in Levels, NEW v \in Payload[n]
    PROVE  /\ Converted(how)[v] \in PayloadsOf(KeysAfter(how))[n]
           /\ Converted(how)[v].is = v.is
<1>1. PICK by : ConvertsBy(how, by) /\ Converted(how) = by[Deepest]
  BY ConvertedLevels
<1>2. n <= Deepest /\ Deepest \in Levels
  BY SomeLevels
<1> QED
  BY <1>1, <1>2, ConvertedTypes

\* What a conversion makes of the entries of an object.
EntriesBecome(how, n, v, val) ==
    /\ \A m \in Levels : m < n => \A x \in Payload[m] :
          /\ val[x] \in PayloadsOf(KeysAfter(how))[m]
          /\ val[x].is = x.is /\ (x \in Scalars => val[x] = x)
    /\ Converted(how)[v] = Assigned(FlattenSeq([i \in DOMAIN v.entries |->
          Entries(NewKeys(how, v.entries[i].key), val[v.entries[i].val])]))

LEMMA ConvertedEntries ==
    ASSUME NEW how, NEW n \in Levels, NEW v \in Payload[n], v.is = "object"
    PROVE  \E val : EntriesBecome(how, n, v, val)
<1>1. PICK by : ConvertsBy(how, by) /\ Converted(how) = by[Deepest]
  BY ConvertedLevels
<1>2. /\ n <= Deepest /\ Deepest \in Levels /\ n # 0
      /\ Deepest \in Nat /\ n \in Nat /\ Deepest # 0 /\ Deepest - 1 \in Levels
  <2>1. n # 0
    BY PayloadLevels, IsScalar DEF Payload
  <2> QED
    BY <2>1, SomeLevels
<1>3. PICK val : val = by[Deepest - 1]
  OBVIOUS
<1>4. v \in Payload[Deepest]
  BY <1>2, MorePayloads DEF Payload
<1>5. by[Deepest][v] = Level(how, v, val)
  <2>1. by[Deepest] = [x \in Payload[Deepest] |-> Level(how, x, by[Deepest - 1])]
    BY <1>1, <1>2, Zenon DEF ConvertsBy
  <2> QED
    BY <1>3, <1>4, <2>1
<1>6. \A x \in Payload[Deepest - 1] : x \in Scalars => val[x] = x
  <2>1. by[Deepest - 1] = [x \in Payload[Deepest - 1] |-> Level(how, x, by[(Deepest - 1) - 1])]
    BY <1>1, <1>2, Zenon DEF ConvertsBy
  <2>2. \A x \in Payload[Deepest - 1] : val[x] = Level(how, x, by[(Deepest - 1) - 1])
    BY <1>3, <2>1
  <2> QED
    BY <2>2, ScalarsStay
<1>7. \A m \in Levels : m < n => \A x \in Payload[m] :
         /\ val[x] \in PayloadsOf(KeysAfter(how))[m]
         /\ val[x].is = x.is /\ (x \in Scalars => val[x] = x)
  <2> SUFFICES ASSUME NEW m \in Levels, m < n, NEW x \in Payload[m]
               PROVE  /\ val[x] \in PayloadsOf(KeysAfter(how))[m]
                      /\ val[x].is = x.is /\ (x \in Scalars => val[x] = x)
    OBVIOUS
  <2>1. m <= Deepest - 1
    <3>1. m \in Nat
      BY SomeLevels
    <3> QED
      BY <1>2, <3>1
  <2>2. x \in Payload[Deepest - 1]
    BY <1>2, <2>1, MorePayloads DEF Payload
  <2> QED
    BY <1>1, <1>2, <1>3, <1>6, <2>1, <2>2, ConvertedTypes
<1>8. Level(how, v, val) = Assigned(FlattenSeq([i \in DOMAIN v.entries |->
                    Entries(NewKeys(how, v.entries[i].key), val[v.entries[i].val])]))
  BY Zenon DEF Level
<1>9. EntriesBecome(how, n, v, val)
  BY <1>1, <1>5, <1>7, <1>8, Zenon DEF EntriesBecome
<1> QED
  BY <1>9

-----------------------------------------------------------------------------
(* What is found in a converted object.                                    *)
LEMMA FlattenFrom ==
    ASSUME NEW S, NEW ss \in Seq(Seq(S)), NEW p \in DOMAIN FlattenSeq(ss)
    PROVE  \E i \in DOMAIN ss : \E j \in DOMAIN ss[i] : FlattenSeq(ss)[p] = ss[i][j]
<1>1. Len(ss) \in Nat /\ DOMAIN ss = 1..Len(ss) /\ \A k \in 1..Len(ss) : ss[k] \in Seq(S)
  OBVIOUS
<1>2. PICK f \in [0..Len(ss) -> Seq(S)] :
         /\ f[0] = <<>> /\ FlattenSeq(ss) = f[Len(ss)]
         /\ \A k \in 1..Len(ss) : f[k] = f[k - 1] \o ss[k]
  BY FlattenSteps
<1>3. \A k \in 0..Len(ss) : f[k] \in Seq(S)
  OBVIOUS
<1> DEFINE Is(x) == \E i \in DOMAIN ss : \E j \in DOMAIN ss[i] : x = ss[i][j]
           T == {m \in Nat : m <= Len(ss) => \A q \in 1..Len(f[m]) : Is(f[m][q])}
<1>4. 0 \in T
  BY <1>2
<1>5. ASSUME NEW m \in Nat, m \in T PROVE m + 1 \in T
  <2> SUFFICES ASSUME m + 1 <= Len(ss), NEW q \in 1..Len(f[m + 1]) PROVE Is(f[m + 1][q])
    <3> HIDE DEF Is
    <3> QED
      OBVIOUS
  <2>1. m + 1 \in 1..Len(ss) /\ (m + 1) - 1 = m /\ m \in 0..Len(ss) /\ m <= Len(ss)
    BY <1>1
  <2>2. PICK a, b : a = f[m] /\ b = ss[m + 1]
    OBVIOUS
  <2>3. a \in Seq(S) /\ b \in Seq(S)
    BY <1>1, <1>3, <2>1, <2>2
  <2>4. f[m + 1] = a \o b
    BY <1>2, <2>1, <2>2
  <2>5. PICK c \in Nat, d \in Nat : c = Len(a) /\ d = Len(b)
    BY <2>3
  <2>6. /\ Len(a \o b) = c + d
        /\ \A i \in 1..(c + d) : (a \o b)[i] = IF i <= c THEN a[i] ELSE b[i - c]
    BY <2>3, <2>5, ConcatProperties
  <2>7. q \in 1..(c + d) /\ f[m + 1][q] = IF q <= c THEN a[q] ELSE b[q - c]
    BY <2>4, <2>6
  <2>8. CASE q <= c
    <3>1. q \in 1..c /\ f[m + 1][q] = a[q]
      BY <2>7, <2>8
    <3>2. \A x \in 1..Len(f[m]) : Is(f[m][x])
      <4> HIDE DEF Is
      <4> QED
        BY <1>5, <2>1
    <3> HIDE DEF Is
    <3> QED
      BY <2>2, <2>5, <3>1, <3>2
  <2>9. CASE ~(q <= c)
    <3>1. q - c \in 1..d /\ f[m + 1][q] = b[q - c]
      BY <2>7, <2>9
    <3>2. q - c \in DOMAIN ss[m + 1] /\ m + 1 \in DOMAIN ss
      BY <1>1, <2>1, <2>2, <2>3, <2>5, <3>1
    <3> QED
      BY <2>2, <3>1, <3>2
  <2> QED
    BY <2>8, <2>9
<1>6. Len(ss) \in T
  <2> HIDE DEF T
  <2> QED
    BY <1>1, <1>4, <1>5, SetInduction
<1>7. f[Len(ss)] \in Seq(S) /\ \A q \in 1..Len(f[Len(ss)]) : Is(f[Len(ss)][q])
  <2>1. Len(ss) \in 0..Len(ss) /\ Len(ss) <= Len(ss)
    BY <1>1
  <2> HIDE DEF Is
  <2> QED
    BY <1>1, <1>3, <1>6, <2>1
<1>8. DOMAIN f[Len(ss)] = 1..Len(f[Len(ss)])
  BY <1>7
<1> QED
  BY <1>2, <1>7, <1>8

\* No two keys of an object have the same letters.
OneSpelling(o) == \A i, j \in DOMAIN o.entries :
    Letters(o.entries[i].key) = Letters(o.entries[j].key) => o.entries[i] = o.entries[j]

LEMMA GetOwn ==
    ASSUME NEW K, NEW V, NEW o \in Objects(K, V), OneSpelling(o), NEW i \in DOMAIN o.entries
    PROVE  Get(o, o.entries[i].key) = o.entries[i].val
<1>1. PICK k : k = o.entries[i].key
  OBVIOUS
<1>2. At(o, k) # {}
  BY <1>1 DEF At
<1>3. PICK m : m = Min(At(o, k))
  OBVIOUS
<1>4. m \in DOMAIN o.entries /\ o.entries[m].key = k
  BY <1>2, <1>3, AtIs
<1>5. o.entries[m] = o.entries[i]
  BY <1>1, <1>4 DEF OneSpelling
<1>6. Get(o, k) = o.entries[m].val
  BY <1>2, <1>3, Zenon DEF Get
<1> QED
  BY <1>1, <1>5, <1>6

\* What a key of an object has after a conversion that keeps the letters of the keys.
LEMMA GetConverted ==
    ASSUME NEW how, how \notin Formatters, NEW n \in Levels, NEW o \in Payload[n], o.is = "object",
           OneSpelling(o), NEW i \in DOMAIN o.entries, NEW g,
           g = Get(Converted(how)[o], o.entries[i].key)
    PROVE  /\ g.is = "leaf" => o.entries[i].val = g
           /\ how = "every" /\ o.entries[i].val.is = "leaf" => o.entries[i].val = g
<1>1. n # 0 /\ IsObjectOf(o, Keys, Payload[n - 1])
  <2>1. o \notin Scalars
    BY IsScalar
  <2>2. ~IsArrayOf(o, Payload[n - 1])
    BY DEF IsArrayOf
  <2> QED
    BY <2>1, <2>2, FromLevel DEF Payload
<1>2. PICK V, es : V = Payload[n - 1] /\ es = o.entries
  OBVIOUS
<1>3. es \in Seq(Pairs(Keys, V)) /\ n - 1 \in Levels /\ n - 1 < n
  <2>1. n \in Nat
    BY SomeLevels
  <2> QED
    BY <1>1, <1>2, <2>1, SomeLevels DEF IsObjectOf, Pairs
<1>4. PICK K2, W : K2 = KeysAfter(how) /\ W = PayloadsOf(K2)[n - 1]
  OBVIOUS
<1>22. PICK val : EntriesBecome(how, n, o, val)
  BY ConvertedEntries
<1>5. /\ \A m \in Levels : m < n => \A x \in Payload[m] :
            /\ val[x] \in PayloadsOf(KeysAfter(how))[m]
            /\ val[x].is = x.is /\ (x \in Scalars => val[x] = x)
      /\ Converted(how)[o] = Assigned(FlattenSeq([j \in DOMAIN o.entries |->
            Entries(NewKeys(how, o.entries[j].key), val[o.entries[j].val])]))
  BY <1>22, Zenon DEF EntriesBecome
<1>6. \A x \in V : val[x] \in W /\ val[x].is = x.is /\ (x \in Scalars => val[x] = x)
  BY <1>2, <1>3, <1>4, <1>5
<1>7. PICK ss : ss = [j \in DOMAIN es |-> Entries(NewKeys(how, es[j].key), val[es[j].val])]
  OBVIOUS
<1>8. /\ DOMAIN es = 1..Len(es) /\ Len(es) \in Nat
      /\ \A j \in 1..Len(es) : es[j].key \in Keys /\ es[j].val \in V
  <2>1. PICK P : P = Pairs(Keys, V)
    OBVIOUS
  <2>2. DOMAIN es = 1..Len(es) /\ Len(es) \in Nat /\ \A j \in 1..Len(es) : es[j] \in P
    BY <1>3, <2>1
  <2> QED
    BY <2>1, <2>2 DEF Pairs
<1>9. \A j \in 1..Len(es) : /\ ss[j] \in Seq(Pairs(K2, W))
                            /\ 1 \in DOMAIN ss[j]
                            /\ \A p \in DOMAIN ss[j] : /\ Letters(ss[j][p].key) = Letters(es[j].key)
                                                       /\ ss[j][p].val = val[es[j].val]
                            /\ how = "every" => ss[j][1].key = es[j].key
  <2> SUFFICES ASSUME NEW j \in 1..Len(es)
               PROVE  /\ ss[j] \in Seq(Pairs(K2, W))
                      /\ 1 \in DOMAIN ss[j]
                      /\ \A p \in DOMAIN ss[j] : /\ Letters(ss[j][p].key) = Letters(es[j].key)
                                                 /\ ss[j][p].val = val[es[j].val]
                      /\ how = "every" => ss[j][1].key = es[j].key
    OBVIOUS
  <2>1. PICK k, x, ks, y : k = es[j].key /\ x = es[j].val /\ ks = NewKeys(how, k) /\ y = val[x]
    OBVIOUS
  <2>2. k \in Keys /\ y \in W
    BY <1>6, <1>8, <2>1
  <2>3. /\ ks \in Seq(K2) /\ 1 \in DOMAIN ks /\ \A p \in DOMAIN ks : Letters(ks[p]) = Letters(k)
        /\ how = "every" => ks[1] = k
    BY <1>4, <2>1, <2>2, NewKeysAre
  <2>4. ss[j] = [p \in DOMAIN ks |-> [key |-> ks[p], val |-> y]]
    BY <1>7, <1>8, <2>1 DEF Entries
  <2>5. DOMAIN ks = 1..Len(ks) /\ Len(ks) \in Nat /\ \A p \in 1..Len(ks) : ks[p] \in K2
    BY <2>3
  <2>6. ss[j] \in Seq(Pairs(K2, W))
    <3>1. \A p \in 1..Len(ks) : [key |-> ks[p], val |-> y] \in Pairs(K2, W)
      BY <2>2, <2>5 DEF Pairs
    <3> QED
      BY <2>4, <2>5, <3>1
  <2>7. \A p \in DOMAIN ks : ss[j][p].key = ks[p] /\ ss[j][p].val = y
    BY <2>4
  <2> QED
    BY <2>1, <2>3, <2>4, <2>6, <2>7
<1>10. ss \in Seq(Seq(Pairs(K2, W)))
  BY <1>7, <1>8, <1>9
<1>11. PICK fs : fs = FlattenSeq(ss)
  OBVIOUS
<1>12. fs \in Seq(Pairs(K2, W))
  BY <1>10, <1>11, FlattenType
<1>13. Converted(how)[o] = Assigned(fs)
  BY <1>2, <1>5, <1>7, <1>11
<1>14. PICK k : k = es[i].key
  OBVIOUS
<1>15. g = Get(Assigned(fs), k) /\ i \in 1..Len(es)
  BY <1>2, <1>8, <1>13, <1>14
<1>16. \A p \in 1..Len(fs) : fs[p].key = k => fs[p].val = val[es[i].val]
  <2> SUFFICES ASSUME NEW p \in 1..Len(fs), fs[p].key = k PROVE fs[p].val = val[es[i].val]
    OBVIOUS
  <2>1. p \in DOMAIN fs
    BY <1>12
  <2>2. PICK j \in DOMAIN ss : \E q \in DOMAIN ss[j] : fs[p] = ss[j][q]
    BY <1>10, <1>11, <2>1, FlattenFrom
  <2>3. PICK q \in DOMAIN ss[j] : fs[p] = ss[j][q]
    BY <2>2
  <2>4. j \in 1..Len(es)
    BY <1>7, <1>8
  <2>5. Letters(k) = Letters(es[j].key) /\ fs[p].val = val[es[j].val]
    BY <1>9, <2>3, <2>4
  <2>6. es[j] = es[i]
    BY <1>2, <1>8, <1>14, <2>4, <2>5 DEF OneSpelling
  <2> QED
    BY <2>5, <2>6
<1>17. g = val[es[i].val] \/ g = NoValue
  BY <1>12, <1>15, <1>16, GetAssigned
<1>18. how = "every" => g = val[es[i].val]
  <2> SUFFICES ASSUME how = "every" PROVE g = val[es[i].val]
    OBVIOUS
  <2>1. PICK q \in DOMAIN fs : fs[q] = ss[i][1]
    <3>1. i \in DOMAIN ss /\ 1 \in DOMAIN ss[i]
      BY <1>7, <1>8, <1>9, <1>15
    <3> QED
      BY <1>10, <1>11, <3>1, FlattenHas
  <2>2. fs[q].key = k /\ q \in 1..Len(fs)
    BY <1>9, <1>12, <1>14, <1>15, <2>1
  <2> QED
    BY <1>12, <1>15, <1>16, <2>2, GetAssigned
<1>19. \A x \in V : x.is = "leaf" => x \in Scalars
  <2>1. \A x \in V : x \in Scalars \/ x.is = "array" \/ x.is = "object"
    BY <1>2, <1>3, FromLevel DEF Payload, IsArrayOf, IsObjectOf
  <2> QED
    BY <2>1
<1>20. NoValue.is # "leaf"
  BY DEF NoValue
<1>21. es[i].val \in V
  BY <1>8, <1>15
<1> QED
  BY <1>2, <1>6, <1>17, <1>18, <1>19, <1>20, <1>21

-----------------------------------------------------------------------------
(* Validation: what is more lenient accepts more.                          *)
LEMMA ObjectLevel ==
    ASSUME NEW n \in Levels, NEW o, IsObject(o, n)
    PROVE  /\ n # 0 /\ n - 1 \in Levels
           /\ o \in Payload[n] /\ o.is = "object"
           /\ o.entries \in Seq(Pairs(Keys, Payload[n - 1]))
           /\ o \in Objects(Keys, Payload[n - 1])
<1>1. o \in Payload[n] /\ o.is = "object"
  BY DEF IsObject
<1>2. o \notin Scalars /\ ~IsArrayOf(o, Payload[n - 1])
  BY <1>1, IsScalar DEF IsArrayOf
<1>3. n # 0 /\ IsObjectOf(o, Keys, Payload[n - 1])
  BY <1>1, <1>2, FromLevel DEF Payload
<1>4. n - 1 \in Levels
  BY <1>3, SomeLevels
<1>5. o.entries \in Seq(Pairs(Keys, Payload[n - 1])) /\ o = Object(o.entries)
  BY <1>3, Zenon DEF IsObjectOf, Pairs
<1>6. PICK es : es = o.entries
  OBVIOUS
<1>7. Object(es) \in Objects(Keys, Payload[n - 1])
  BY <1>5, <1>6 DEF Object, Objects
<1> QED
  BY <1>1, <1>3, <1>4, <1>5, <1>6, <1>7, Zenon

LEMMA LevelObject ==
    ASSUME NEW n \in Levels, n # 0, NEW o \in Objects(Keys, Payload[n - 1])
    PROVE  IsObject(o, n)
<1>1. IsObjectOf(o, Keys, Payload[n - 1])
  BY ObjectsAreObjects
<1>2. /\ o.is = "object" /\ o = Object(o.entries)
      /\ o.entries \in Seq([key : Keys, val : Payload[n - 1]])
  BY <1>1, Zenon DEF IsObjectOf
<1>3. o \in Payload[n]
  BY <1>2, IntoLevel, Zenon DEF Payload
<1> QED
  BY <1>2, <1>3 DEF IsObject

LEMMA HttpRequestIs ==
    ASSUME NEW parts, \A p \in PartNames : IsObject(parts[p], Depth)
    PROVE  /\ IsObject(HttpRequest(parts), Depth)
           /\ SentOnce(parts) => OneSpelling(HttpRequest(parts))
<1>1. PICK V : V = Payload[Depth - 1]
  OBVIOUS
<1>2. Depth \in Levels /\ Depth # 0
  BY SomeLevels
<1>3. PICK os : os = PartsInOrder(parts)
  OBVIOUS
<1>4. \A i \in 1..4 : os[i].entries \in Seq(Pairs(Keys, V))
  <2>1. \A i \in 1..4 : \E p \in PartNames : os[i] = parts[p]
    BY <1>3 DEF PartsInOrder, PartNames
  <2> QED
    BY <1>1, <1>2, <2>1, ObjectLevel
<1>5. DOMAIN os = 1..4
  BY <1>3 DEF PartsInOrder
<1>6. PICK ss : ss = [i \in 1..4 |-> os[i].entries]
  OBVIOUS
<1>7. ss \in Seq(Seq(Pairs(Keys, V)))
  BY <1>4, <1>6
<1>8. PICK fs : fs = FlattenSeq(ss)
  OBVIOUS
<1>9. fs \in Seq(Pairs(Keys, V))
  BY <1>7, <1>8, FlattenType
<1>10. PICK o : o = HttpRequest(parts)
  OBVIOUS
<1>11. o = Assigned(fs)
  BY <1>3, <1>5, <1>6, <1>8, <1>10 DEF HttpRequest, Spread
<1>12. /\ o \in Objects(Keys, V)
       /\ \A i \in 1..Len(o.entries) : \E j \in 1..Len(fs) : o.entries[i] = fs[j]
  BY <1>9, <1>11, AssignedIs
<1>13. DOMAIN o.entries = 1..Len(o.entries) /\ DOMAIN fs = 1..Len(fs)
  BY <1>9, <1>12, AtIs
<1>14. IsObject(o, Depth)
  BY <1>1, <1>2, <1>12, LevelObject
<1>15. ASSUME SentOnce(parts) PROVE OneSpelling(o)
  <2>1. \A i, j \in DOMAIN fs : i # j => Letters(fs[i].key) # Letters(fs[j].key)
    <3>1. fs = FlattenSeq([i \in 1..4 |-> PartsInOrder(parts)[i].entries])
      BY <1>3, <1>6, <1>8
    <3> QED
      BY <1>15, <3>1 DEF SentOnce
  <2>2. SUFFICES ASSUME NEW i \in DOMAIN o.entries, NEW j \in DOMAIN o.entries,
                        Letters(o.entries[i].key) = Letters(o.entries[j].key)
                 PROVE  o.entries[i] = o.entries[j]
    BY DEF OneSpelling
  <2>3. PICK a \in DOMAIN fs, b \in DOMAIN fs : o.entries[i] = fs[a] /\ o.entries[j] = fs[b]
    BY <1>12, <1>13
  <2>4. Letters(fs[a].key) = Letters(fs[b].key)
    BY <2>2, <2>3
  <2> QED
    BY <2>1, <2>3, <2>4
<1> QED
  BY <1>10, <1>14, <1>15

\* How a request is accepted in each mode.
LEMMA AcceptsAre ==
    ASSUME NEW keys, NEW parts, NEW o, o = HttpRequest(parts)
    PROVE  /\ Accepts(keys, parts, [caseMode |-> "strict", strategy |-> "merge"])
                => SchemaAccepts(keys, o)
           /\ SchemaAccepts(keys, o)
                => Accepts(keys, parts, [caseMode |-> "insensitive", strategy |-> "strict"])
           /\ Accepts(keys, parts, [caseMode |-> "insensitive", strategy |-> "strict"])
                => \/ SchemaAccepts(keys, o)
                   \/ \E i \in 1..6 : SchemaAccepts(keys, Converted(Cases[i])[o])
           /\ SchemaAccepts(keys, Converted("every")[o])
                => Accepts(keys, parts, [caseMode |-> "insensitive", strategy |-> "merge"])
<1>1. PICK a, b, c : /\ a = [caseMode |-> "strict", strategy |-> "merge"]
                     /\ b = [caseMode |-> "insensitive", strategy |-> "strict"]
                     /\ c = [caseMode |-> "insensitive", strategy |-> "merge"]
  OBVIOUS
<1>2. PICK x, y, z : /\ x = BuildValidationPayloads(o, a) /\ y = BuildValidationPayloads(o, b)
                     /\ z = BuildValidationPayloads(o, c)
  OBVIOUS
<1>3. /\ Accepts(keys, parts, a) <=> \E i \in DOMAIN x : SchemaAccepts(keys, x[i])
      /\ Accepts(keys, parts, b) <=> \E i \in DOMAIN y : SchemaAccepts(keys, y[i])
      /\ Accepts(keys, parts, c) <=> \E i \in DOMAIN z : SchemaAccepts(keys, z[i])
  BY <1>2, Zenon DEF Accepts
<1>4. x = <<o>>
  BY <1>1, <1>2 DEF BuildValidationPayloads
<1>5. z = <<Converted("every")[o]>>
  BY <1>1, <1>2 DEF BuildValidationPayloads, ExpandPayloadCaseVariants
<1>6. PICK one, six : one = <<o>> /\ six = [i \in DOMAIN Cases |-> Converted(Cases[i])[o]]
  OBVIOUS
<1>7. y = one \o six
  BY <1>1, <1>2, <1>6 DEF BuildValidationPayloads, TransformPayloadKeys
<1>8. PICK S : S = {o} \cup {Converted(Cases[i])[o] : i \in 1..6}
  OBVIOUS
<1>9. DOMAIN Cases = 1..6
  BY DEF Cases
<1>10. /\ one \in Seq(S) /\ Len(one) = 1 /\ one[1] = o
       /\ six \in Seq(S) /\ Len(six) = 6 /\ \A i \in 1..6 : six[i] = Converted(Cases[i])[o]
  <2>1. o \in S /\ \A i \in 1..6 : Converted(Cases[i])[o] \in S
    BY <1>8
  <2> QED
    BY <1>6, <1>9, <2>1
<1>11. /\ Len(y) = Len(one) + Len(six) /\ y \in Seq(S)
       /\ \A i \in 1..Len(one) + Len(six) :
             y[i] = IF i <= Len(one) THEN one[i] ELSE six[i - Len(one)]
  BY <1>7, <1>10, ConcatProperties, Zenon
<1>12. DOMAIN y = 1..7 /\ \A i \in 1..7 : y[i] = IF i <= 1 THEN one[i] ELSE six[i - 1]
  BY <1>10, <1>11
<1>13. y[1] = o
  BY <1>10, <1>12
<1>14. \A i \in 1..7 : i = 1 \/ (i - 1 \in 1..6 /\ y[i] = six[i - 1])
  <2>1. \A i \in 1..7 : i = 1 \/ (i - 1 \in 1..6 /\ ~(i <= 1))
    OBVIOUS
  <2> QED
    BY <1>12, <2>1
<1>15. Accepts(keys, parts, a) => SchemaAccepts(keys, o)
  BY <1>3, <1>4
<1>16. SchemaAccepts(keys, o) => Accepts(keys, parts, b)
  <2>1. 1 \in DOMAIN y
    BY <1>12
  <2> QED
    BY <1>3, <1>13, <2>1
<1>17. Accepts(keys, parts, b) =>
          SchemaAccepts(keys, o) \/ \E i \in 1..6 : SchemaAccepts(keys, Converted(Cases[i])[o])
  BY <1>3, <1>10, <1>12, <1>13, <1>14
<1>18. SchemaAccepts(keys, Converted("every")[o]) => Accepts(keys, parts, c)
  BY <1>3, <1>5
<1> QED
  BY <1>1, <1>15, <1>16, <1>17, <1>18

LEMMA LenientModes ==
    ASSUME \A r \in Requests : \A p \in PartNames : IsObject(request[r][p], Depth)
    PROVE  LenientAcceptsMore
<1> SUFFICES ASSUME NEW r \in Requests, SentOnce(request[r]),
                    NEW e \in Range(HttpRequest(request[r]).entries)
             PROVE  /\ Accepts({e.key}, request[r], [caseMode |-> "strict", strategy |-> "merge"])
                        => Accepts({e.key}, request[r], [caseMode |-> "insensitive", strategy |-> "strict"])
                    /\ Accepts({e.key}, request[r], [caseMode |-> "insensitive", strategy |-> "strict"])
                        => Accepts({e.key}, request[r], [caseMode |-> "insensitive", strategy |-> "merge"])
  BY DEF LenientAcceptsMore
<1>1. PICK o : o = HttpRequest(request[r])
  OBVIOUS
<1>2. IsObject(o, Depth) /\ OneSpelling(o)
  BY <1>1, HttpRequestIs
<1>3. Depth \in Levels
  BY SomeLevels
<1>4. o \in Payload[Depth] /\ o.is = "object" /\ o \in Objects(Keys, Payload[Depth - 1])
  BY <1>2, <1>3, ObjectLevel
<1>5. PICK i \in DOMAIN o.entries : e = o.entries[i]
  BY <1>1 DEF Range
<1>6. Get(o, e.key) = e.val
  BY <1>2, <1>4, <1>5, GetOwn
<1>7. \A how : how \notin Formatters =>
         LET g == Get(Converted(how)[o], e.key)
         IN  /\ g.is = "leaf" => e.val = g
             /\ how = "every" /\ e.val.is = "leaf" => e.val = g
  BY <1>2, <1>3, <1>4, <1>5, GetConverted
<1>8. \A x : SchemaAccepts({e.key}, x) <=> Get(x, e.key).is = "leaf" /\ Get(x, e.key).v.text # <<>>
  BY DEF SchemaAccepts
<1>9. "every" \notin Formatters /\ \A j \in 1..6 : Cases[j] \notin Formatters
  BY DEF Cases, Formatters
<1>10. SchemaAccepts({e.key}, o) => SchemaAccepts({e.key}, Converted("every")[o])
  <2>1. e.val.is = "leaf" => e.val = Get(Converted("every")[o], e.key)
    BY <1>7, <1>9
  <2> QED
    BY <1>6, <1>8, <2>1
<1>11. \A j \in 1..6 : SchemaAccepts({e.key}, Converted(Cases[j])[o]) => SchemaAccepts({e.key}, o)
  <2> SUFFICES ASSUME NEW j \in 1..6, SchemaAccepts({e.key}, Converted(Cases[j])[o])
               PROVE  SchemaAccepts({e.key}, o)
    OBVIOUS
  <2>1. PICK g : g = Get(Converted(Cases[j])[o], e.key)
    OBVIOUS
  <2>2. g.is = "leaf" /\ g.v.text # <<>>
    BY <1>8, <2>1
  <2>3. e.val = g
    BY <1>7, <1>9, <2>1, <2>2
  <2> QED
    BY <1>6, <1>8, <2>2, <2>3
<1> QED
  BY <1>1, <1>10, <1>11, AcceptsAre

-----------------------------------------------------------------------------
(* Extraction: the last value that is not falsy.                           *)
LEMMA MaxIs ==
    ASSUME NEW S, S \subseteq Nat, NEW i \in S, \A j \in S : j <= i
    PROVE  Max(S) = i
<1>1. i >= i /\ \A j \in S : i >= j
  OBVIOUS
<1>2. PICK m : m = Max(S)
  OBVIOUS
<1>3. m \in S /\ \A j \in S : m >= j
  BY <1>1, <1>2, Zenon DEF Max
<1>4. m \in Nat /\ i \in Nat /\ m >= i /\ i >= m
  BY <1>1, <1>3
<1>5. m = i
  BY <1>4
<1> QED
  BY <1>2, <1>5

LEMMA ConfigIs ==
    /\ Len(Config) \in Nat /\ DOMAIN Config = 1..Len(Config)
    /\ \A i \in 1..Len(Config) : Config[i].name \in Keys
<1>1. PICK S : S = [name : Keys, target : STRING, path : Seq(Keys)]
  OBVIOUS
<1>2. Config \in Seq(S)
  BY <1>1, DataAssumption
<1>3. Len(Config) \in Nat /\ DOMAIN Config = 1..Len(Config) /\ \A i \in 1..Len(Config) : Config[i] \in S
  BY <1>2
<1> QED
  BY <1>1, <1>3

\* The value that an item of the configuration asks for.
Asked(r, c) == GetIn(Sources(r)[c.target], c.path)

LEMMA ExtractSteps ==
    ASSUME NEW r, NEW V, V = {Asked(r, Config[i]) : i \in 1..Len(Config)}
    PROVE  \E o \in [0..Len(Config) -> Objects(Keys, V)] :
              /\ o[0] = Object(<<>>) /\ ExtractValues(r) = o[Len(Config)]
              /\ \A i \in 1..Len(Config) : o[i] = SetKeyValue(r, o[i - 1], Config[i])
<1> DEFINE Loops(g) == g = [i \in 0..Len(Config) |-> IF i = 0 THEN Object(<<>>)
                                                     ELSE SetKeyValue(r, g[i - 1], Config[i])]
<1>1. Len(Config) \in Nat /\ \A i \in 1..Len(Config) : Config[i].name \in Keys
  BY ConfigIs
<1>2. PICK X : X = Objects(Keys, V)
  OBVIOUS
<1>3. PICK step : step = [i \in 1..Len(Config) |-> [o \in X |-> SetKeyValue(r, o, Config[i])]]
  OBVIOUS
<1>4. step \in [1..Len(Config) -> [X -> X]]
  <2>1. ASSUME NEW i \in 1..Len(Config), NEW o \in X PROVE SetKeyValue(r, o, Config[i]) \in X
    <3>1. PICK k, x : k = Config[i].name /\ x = Asked(r, Config[i])
      OBVIOUS
    <3>2. k \in Keys /\ x \in V
      BY <1>1, <3>1
    <3>3. SetKeyValue(r, o, Config[i]) \in {o, Put(o, k, x)}
      BY <3>1 DEF SetKeyValue, Asked
    <3>4. Put(o, k, x) \in X
      BY <1>2, <3>2, PutIs
    <3> QED
      BY <3>3, <3>4
  <2> QED
    BY <1>3, <2>1
<1>5. Object(<<>>) \in X
  BY <1>2, NoEntries
<1>6. PICK f \in [0..Len(Config) -> X] : Goes(f, Len(Config), X, Object(<<>>), step)
  BY <1>1, <1>4, <1>5, Iterates
<1>7. \A i \in 0..Len(Config) : f[i] \in X
  BY <1>1
<1>8. \A i \in 1..Len(Config) : i - 1 \in 0..Len(Config) /\ i # 0
  BY <1>1
<1>9. \A i \in 1..Len(Config) : f[i] = SetKeyValue(r, f[i - 1], Config[i])
  BY <1>3, <1>6, <1>7, <1>8 DEF Goes
<1>10. f[0] = Object(<<>>)
  BY <1>6 DEF Goes
<1>11. Loops(f)
  <2>1. \A i \in 0..Len(Config) : i = 0 \/ i \in 1..Len(Config)
    BY <1>1
  <2>2. \A i \in 0..Len(Config) : f[i] = IF i = 0 THEN Object(<<>>)
                                         ELSE SetKeyValue(r, f[i - 1], Config[i])
    BY <1>9, <1>10, <2>1
  <2> QED
    BY <2>2
<1>12. PICK g : g = CHOOSE h : Loops(h)
  OBVIOUS
<1>13. Loops(g)
  BY <1>11, <1>12
<1>14. g[0] = Object(<<>>) /\ \A i \in 1..Len(Config) : g[i] = SetKeyValue(r, g[i - 1], Config[i])
  BY <1>1, <1>8, <1>13
<1>15. Goes(g, Len(Config), X, Object(<<>>), step)
  BY <1>3, <1>14 DEF Goes
<1>16. \A i \in 0..Len(Config) : g[i] \in X
  BY <1>1, <1>4, <1>5, <1>15, IteratesOnce
<1>17. g \in [0..Len(Config) -> X]
  <2>1. DOMAIN g = 0..Len(Config) /\ g = [i \in 0..Len(Config) |-> g[i]]
    BY <1>13
  <2> HIDE DEF Loops
  <2> QED
    BY <1>16, <2>1
<1>18. ExtractValues(r) = g[Len(Config)]
  BY <1>12 DEF ExtractValues
<1> QED
  BY <1>2, <1>14, <1>17, <1>18, Zenon

\* x is the last of the first m values found that is not falsy, or else the first
\* that is defined.
Latest(vals, m, x) ==
    \/ \E i \in 1..m : /\ IsTruthy(vals[i]) /\ x = vals[i]
                       /\ \A j \in 1..m : IsTruthy(vals[j]) => j <= i
    \/ /\ \A j \in 1..m : ~IsTruthy(vals[j])
       /\ \E i \in 1..m : /\ vals[i] # NoValue /\ x = vals[i]
                          /\ \A j \in 1..m : vals[j] # NoValue => i <= j
    \/ x = NoValue /\ \A j \in 1..m : vals[j] = NoValue

LEMMA NothingIsFalsy == ~IsTruthy(NoValue)
BY DEF IsTruthy, NoValue

LEMMA LatestGoesOn ==
    ASSUME NEW vals, NEW m \in Nat, NEW old, NEW new, Latest(vals, m, old),
           new = IF Replaces(old, vals[m + 1]) THEN vals[m + 1] ELSE old
    PROVE  Latest(vals, m + 1, new)
<1>1. PICK f : f = vals[m + 1]
  OBVIOUS
<1>2. \A j \in 1..(m + 1) : j = m + 1 \/ j \in 1..m
  OBVIOUS
<1>3. 1..m \subseteq 1..(m + 1) /\ m + 1 \in 1..(m + 1) /\ \A j \in 1..(m + 1) : j <= m + 1
  OBVIOUS
<1>4. CASE IsTruthy(f)
  <2>1. new = f
    BY <1>1, <1>4 DEF Replaces
  <2> QED
    BY <1>1, <1>3, <1>4, <2>1 DEF Latest
<1>5. CASE ~IsTruthy(f) /\ old = NoValue
  <2>1. new = f
    BY <1>1, <1>5 DEF Replaces
  <2>2. \A j \in 1..m : vals[j] = NoValue
    BY <1>5, NothingIsFalsy DEF Latest
  <2>3. CASE f = NoValue
    <3>1. \A j \in 1..(m + 1) : vals[j] = NoValue
      BY <1>1, <1>2, <2>2, <2>3
    <3> QED
      BY <2>1, <2>3, <3>1 DEF Latest
  <2>4. CASE f # NoValue
    <3>1. \A j \in 1..(m + 1) : ~IsTruthy(vals[j])
      BY <1>1, <1>2, <1>5, <2>2, NothingIsFalsy
    <3>2. \A j \in 1..(m + 1) : vals[j] # NoValue => m + 1 <= j
      BY <1>2, <2>2
    <3> QED
      BY <1>1, <1>3, <2>1, <2>4, <3>1, <3>2 DEF Latest
  <2> QED
    BY <2>3, <2>4
<1>6. CASE ~IsTruthy(f) /\ old # NoValue
  <2>1. new = old
    BY <1>1, <1>6 DEF Replaces
  <2>2. CASE \E i \in 1..m : /\ IsTruthy(vals[i]) /\ old = vals[i]
                             /\ \A j \in 1..m : IsTruthy(vals[j]) => j <= i
    <3>1. PICK i \in 1..m : /\ IsTruthy(vals[i]) /\ old = vals[i]
                            /\ \A j \in 1..m : IsTruthy(vals[j]) => j <= i
      BY <2>2
    <3>2. \A j \in 1..(m + 1) : IsTruthy(vals[j]) => j <= i
      BY <1>1, <1>2, <1>6, <3>1
    <3> QED
      BY <1>3, <2>1, <3>1, <3>2 DEF Latest
  <2>3. CASE /\ \A j \in 1..m : ~IsTruthy(vals[j])
             /\ \E i \in 1..m : /\ vals[i] # NoValue /\ old = vals[i]
                                /\ \A j \in 1..m : vals[j] # NoValue => i <= j
    <3>1. PICK i \in 1..m : /\ vals[i] # NoValue /\ old = vals[i]
                            /\ \A j \in 1..m : vals[j] # NoValue => i <= j
      BY <2>3
    <3>2. \A j \in 1..(m + 1) : vals[j] # NoValue => i <= j
      BY <1>2, <3>1
    <3>3. \A j \in 1..(m + 1) : ~IsTruthy(vals[j])
      BY <1>1, <1>2, <1>6, <2>3
    <3> QED
      BY <1>3, <2>1, <3>1, <3>2, <3>3 DEF Latest
  <2> QED
    BY <1>6, <2>2, <2>3 DEF Latest
<1> QED
  BY <1>4, <1>5, <1>6

LEMMA LatestStays ==
    ASSUME NEW vals, NEW m \in Nat, NEW x, Latest(vals, m, x), vals[m + 1] = NoValue
    PROVE  Latest(vals, m + 1, x)
<1>1. x = IF Replaces(x, vals[m + 1]) THEN vals[m + 1] ELSE x
  BY NothingIsFalsy DEF Replaces
<1> QED
  BY <1>1, LatestGoesOn

Found(r, k) == [i \in DOMAIN Config |->
    IF Config[i].name = k /\ Config[i].target \in {"state", "request"}
    THEN GetIn(Sources(r)[Config[i].target], Config[i].path)
    ELSE NoValue]

LEMMA ExtractsOne ==
    ASSUME NEW r \in Requests, NEW c \in Range(Config), NEW vals,
           vals = Found(r, c.name),
           NEW truthy, truthy = {i \in DOMAIN Config : IsTruthy(vals[i])},
           NEW defined, defined = {i \in DOMAIN Config : vals[i] # NoValue}
    PROVE  Get(ExtractValues(r), c.name) =
              (IF truthy # {} THEN vals[Max(truthy)]
               ELSE IF defined # {} THEN vals[Min(defined)] ELSE NoValue)
<1>1. PICK k, n : k = c.name /\ n = Len(Config)
  OBVIOUS
<1>2. n \in Nat /\ DOMAIN Config = 1..n /\ \A i \in 1..n : Config[i].name \in Keys
  BY <1>1, ConfigIs
<1>3. k \in Keys
  BY <1>1, <1>2 DEF Range
<1>4. PICK V : V = {Asked(r, Config[i]) : i \in 1..Len(Config)}
  OBVIOUS
<1>5. \E o \in [0..Len(Config) -> Objects(Keys, V)] :
          /\ o[0] = Object(<<>>) /\ ExtractValues(r) = o[Len(Config)]
          /\ \A i \in 1..Len(Config) : o[i] = SetKeyValue(r, o[i - 1], Config[i])
  BY <1>4, ExtractSteps
<1>6. PICK o \in [0..n -> Objects(Keys, V)] :
          /\ o[0] = Object(<<>>) /\ ExtractValues(r) = o[n]
          /\ \A i \in 1..n : o[i] = SetKeyValue(r, o[i - 1], Config[i])
  BY <1>1, <1>5
<1>7. \A i \in 0..n : o[i] \in Objects(Keys, V)
  OBVIOUS
<1>8. \A i \in 1..n : vals[i] = IF Config[i].name = k /\ Config[i].target \in {"state", "request"}
                                 THEN Asked(r, Config[i]) ELSE NoValue
  BY <1>1, <1>2 DEF Asked, Found
<1> DEFINE T == {m \in Nat : m <= n => Latest(vals, m, Get(o[m], k))}
<1>9. 0 \in T
  <2>1. Get(Object(<<>>), k) = NoValue
    BY DEF Get, At, Object
  <2>2. Latest(vals, 0, NoValue)
    BY DEF Latest
  <2> QED
    BY <1>6, <2>1, <2>2
<1>10. ASSUME NEW m \in Nat, m \in T PROVE m + 1 \in T
  <2> SUFFICES ASSUME m + 1 <= n PROVE Latest(vals, m + 1, Get(o[m + 1], k))
    OBVIOUS
  <2>1. m + 1 \in 1..n /\ (m + 1) - 1 = m /\ m \in 0..n /\ m <= n
    BY <1>2
  <2>2. PICK a, b, d, f : a = o[m] /\ b = o[m + 1] /\ d = Config[m + 1] /\ f = Asked(r, d)
    OBVIOUS
  <2>3. a \in Objects(Keys, V) /\ d.name \in Keys /\ f \in V
    BY <1>1, <1>2, <1>4, <1>7, <2>1, <2>2
  <2>4. b = SetKeyValue(r, a, d)
    BY <1>6, <2>1, <2>2
  <2>5. Latest(vals, m, Get(a, k))
    BY <1>10, <2>1, <2>2
  <2>6. vals[m + 1] = IF d.name = k /\ d.target \in {"state", "request"} THEN f ELSE NoValue
    BY <1>8, <2>1, <2>2
  <2>7. CASE d.target \notin {"state", "request"}
    <3>1. b = a
      BY <2>4, <2>7 DEF SetKeyValue
    <3> QED
      BY <2>2, <2>5, <2>6, <2>7, <3>1, LatestStays
  <2>8. CASE d.target \in {"state", "request"}
    <3>1. b = IF Replaces(Get(a, d.name), f) THEN Put(a, d.name, f) ELSE a
      BY <2>2, <2>4, <2>8 DEF SetKeyValue, Asked
    <3>2. CASE d.name # k
      <4>1. Get(Put(a, d.name, f), k) = Get(a, k)
        BY <1>3, <2>3, <3>2, GetPut
      <4>2. Get(b, k) = Get(a, k)
        BY <3>1, <4>1
      <4> QED
        BY <2>2, <2>5, <2>6, <3>2, <4>2, LatestStays
    <3>3. CASE d.name = k
      <4>1. Get(Put(a, k, f), k) = f
        BY <1>3, <2>3, GetPut
      <4>2. Get(b, k) = IF Replaces(Get(a, k), f) THEN f ELSE Get(a, k)
        BY <3>1, <3>3, <4>1
      <4>3. vals[m + 1] = f
        BY <2>6, <2>8, <3>3
      <4> QED
        BY <2>2, <2>5, <4>2, <4>3, LatestGoesOn
    <3> QED
      BY <3>2, <3>3
  <2> QED
    BY <2>7, <2>8
<1>11. n \in T
  <2> HIDE DEF T
  <2> QED
    BY <1>2, <1>9, <1>10, SetInduction
<1>12. PICK x : x = Get(ExtractValues(r), k)
  OBVIOUS
<1>13. Latest(vals, n, x)
  BY <1>2, <1>6, <1>11, <1>12
<1>14. /\ truthy = {i \in 1..n : IsTruthy(vals[i])} /\ defined = {i \in 1..n : vals[i] # NoValue}
       /\ truthy \subseteq Nat /\ defined \subseteq Nat
  BY <1>2
<1>15. CASE \E i \in 1..n : /\ IsTruthy(vals[i]) /\ x = vals[i]
                            /\ \A j \in 1..n : IsTruthy(vals[j]) => j <= i
  <2>1. PICK i \in 1..n : /\ IsTruthy(vals[i]) /\ x = vals[i]
                          /\ \A j \in 1..n : IsTruthy(vals[j]) => j <= i
    BY <1>15
  <2>2. i \in truthy /\ \A j \in truthy : j <= i
    BY <1>14, <2>1
  <2>3. Max(truthy) = i
    BY <1>14, <2>2, MaxIs
  <2> QED
    BY <1>1, <1>12, <2>1, <2>2, <2>3
<1>16. CASE /\ \A j \in 1..n : ~IsTruthy(vals[j])
            /\ \E i \in 1..n : /\ vals[i] # NoValue /\ x = vals[i]
                               /\ \A j \in 1..n : vals[j] # NoValue => i <= j
  <2>1. PICK i \in 1..n : /\ vals[i] # NoValue /\ x = vals[i]
                          /\ \A j \in 1..n : vals[j] # NoValue => i <= j
    BY <1>16
  <2>2. truthy = {} /\ i \in defined /\ \A j \in defined : i <= j
    BY <1>14, <1>16, <2>1
  <2>3. Min(defined) \in defined /\ Min(defined) <= i
    BY <1>14, <2>2, MinIs
  <2>4. Min(defined) = i
    BY <1>14, <2>2, <2>3
  <2> QED
    BY <1>1, <1>12, <2>1, <2>2, <2>4
<1>17. CASE x = NoValue /\ \A j \in 1..n : vals[j] = NoValue
  <2>1. truthy = {} /\ defined = {}
    BY <1>14, <1>17, NothingIsFalsy
  <2> QED
    BY <1>1, <1>12, <1>17, <2>1
<1> QED
  BY <1>13, <1>15, <1>16, <1>17 DEF Latest

LEMMA Extracts == ExtractsLatest
<1> SUFFICES ASSUME NEW r \in Requests, NEW c \in Range(Config)
    PROVE
        LET vals == [i \in DOMAIN Config |->
                IF Config[i].name = c.name /\ Config[i].target \in {"state", "request"}
                THEN GetIn(Sources(r)[Config[i].target], Config[i].path)
                ELSE NoValue]
            truthy == {i \in DOMAIN Config : IsTruthy(vals[i])}
            defined == {i \in DOMAIN Config : vals[i] # NoValue}
        IN  Get(ExtractValues(r), c.name) =
                (IF truthy # {} THEN vals[Max(truthy)]
                 ELSE IF defined # {} THEN vals[Min(defined)] ELSE NoValue)
  BY DEF ExtractsLatest
<1> DEFINE vals == [i \in DOMAIN Config |->
                IF Config[i].name = c.name /\ Config[i].target \in {"state", "request"}
                THEN GetIn(Sources(r)[Config[i].target], Config[i].path)
                ELSE NoValue]
            truthy == {i \in DOMAIN Config : IsTruthy(vals[i])}
            defined == {i \in DOMAIN Config : vals[i] # NoValue}
<1>1. PICK f : f = vals
  OBVIOUS
<1>2. PICK t, d : t = {i \in DOMAIN Config : IsTruthy(f[i])} /\ d = {i \in DOMAIN Config : f[i] # NoValue}
  OBVIOUS
<1>3. Get(ExtractValues(r), c.name) =
        (IF t # {} THEN f[Max(t)] ELSE IF d # {} THEN f[Min(d)] ELSE NoValue)
  <2>1. f = Found(r, c.name)
    BY <1>1, Zenon DEF Found
  <2> HIDE DEF vals
  <2> QED
    BY <1>2, <2>1, ExtractsOne
<1>4. t = truthy /\ d = defined
  <2> HIDE DEF vals
  <2> QED
    BY <1>1, <1>2
<1> HIDE DEF vals, truthy, defined
<1>5. Get(ExtractValues(r), c.name) =
                (IF truthy # {} THEN vals[Max(truthy)]
                 ELSE IF defined # {} THEN vals[Min(defined)] ELSE NoValue)
  BY <1>1, <1>3, <1>4
<1> QED
  BY <1>5 DEF vals, truthy, defined

-----------------------------------------------------------------------------
(* Masked values.                                                          *)
\* A part of a sequence.
LEMMA PartIs ==
    ASSUME NEW S, NEW s \in Seq(S), NEW m \in Int, NEW n \in Int, 1 <= m, n <= Len(s)
    PROVE  /\ SubSeq(s, m, n) \in Seq(S)
           /\ Len(SubSeq(s, m, n)) = IF m <= n THEN n - m + 1 ELSE 0
           /\ \A i \in 1..(n - m + 1) : SubSeq(s, m, n)[i] = s[m + i - 1]
<1>1. \A i \in m..n : i \in 1..Len(s)
  OBVIOUS
<1>2. \A i \in m..n : s[i] \in S
  BY <1>1
<1> QED
  BY <1>2, SubSeqProperties

LEMMA TypesAre ==
    ASSUME NEW cache, \A k \in DOMAIN cache : cache[k] \in Types, NEW key, NEW val
    PROVE  /\ KeyType(cache, key) \in Types /\ GetSensitiveKeyType(cache, key, val) \in Types
           /\ "none" \in Types
<1>1. ClassifyKey(key) \in Types
  BY DEF ClassifyKey, Types
<1>2. KeyType(cache, key) \in Types
  BY <1>1 DEF KeyType
<1> QED
  BY <1>2 DEF GetSensitiveKeyType, Types

LEMMA StarsAre == \A n \in Int : Stars(n) \in Seq(Nat)
<1> SUFFICES ASSUME NEW n \in Int PROVE Stars(n) \in Seq(Nat)
  OBVIOUS
<1>1. Star \in Nat
  BY DEF Star
<1>2. CASE n <= 0
  <2>1. 1..n = {} /\ 1..n = 1..0
    BY <1>2
  <2>2. [i \in 1..0 |-> Star] \in Seq(Nat)
    BY <1>1
  <2> QED
    BY <2>1, <2>2 DEF Stars
<1>3. CASE n > 0
  <2>1. n \in Nat
    BY <1>3
  <2>2. [i \in 1..n |-> Star] \in Seq(Nat)
    BY <1>1, <2>1
  <2> QED
    BY <2>2 DEF Stars
<1> QED
  BY <1>2, <1>3

LEMMA DigitsAre == \A text \in Seq(Nat) : Digits(text) \in Seq(Nat)
<1> SUFFICES ASSUME NEW text \in Seq(Nat) PROVE Digits(text) \in Seq(Nat)
  OBVIOUS
<1>1. PICK ss : ss = [i \in DOMAIN text |-> IF text[i] <= 9 THEN <<text[i]>> ELSE <<>>]
  OBVIOUS
<1>2. /\ DOMAIN text = 1..Len(text) /\ Len(text) \in Nat
      /\ \A i \in 1..Len(text) : text[i] \in Nat
  OBVIOUS
<1>3. \A i \in 1..Len(text) : (IF text[i] <= 9 THEN <<text[i]>> ELSE <<>>) \in Seq(Nat)
  BY <1>2, OneElement, NoElement
<1>4. ss \in Seq(Seq(Nat))
  BY <1>1, <1>2, <1>3
<1>5. Digits(text) = FlattenSeq(ss)
  BY <1>1 DEF Digits
<1> QED
  BY <1>4, <1>5, FlattenType

LEMMA MaskCardIs == \A text \in Seq(Nat) : MaskCard(text) \in Seq(Nat)
<1> SUFFICES ASSUME NEW text \in Seq(Nat) PROVE MaskCard(text) \in Seq(Nat)
  OBVIOUS
<1>1. PICK d : d = Digits(text)
  OBVIOUS
<1>2. d \in Seq(Nat)
  BY <1>1, DigitsAre
<1>3. PICK n \in Nat : n = Len(d)
  BY <1>2
<1>4. PICK a \in Nat, b \in Nat : a = BinDigits /\ b = LastDigits
  BY MaskingAssumption
<1>5. PICK hidden \in Int : hidden = n - a - b
  OBVIOUS
<1>6. MaskCard(text) = IF hidden < 0 THEN Stars(n)
                       ELSE SubSeq(d, 1, a) \o Stars(hidden) \o SubSeq(d, n - b + 1, n)
  BY <1>1, <1>3, <1>4, <1>5 DEF MaskCard
<1>7. CASE hidden < 0
  BY <1>6, <1>7, StarsAre
<1>8. CASE ~(hidden < 0)
  <2>1. /\ 1 \in Int /\ a \in Int /\ a <= Len(d)
        /\ n - b + 1 \in Int /\ 1 <= n - b + 1 /\ n \in Int /\ n <= Len(d)
    BY <1>3, <1>5, <1>8
  <2>2. SubSeq(d, 1, a) \in Seq(Nat) /\ SubSeq(d, n - b + 1, n) \in Seq(Nat)
    BY <1>2, <2>1, PartIs
  <2>3. Stars(hidden) \in Seq(Nat)
    BY StarsAre
  <2>4. PICK x, y, z : x = SubSeq(d, 1, a) /\ y = Stars(hidden) /\ z = SubSeq(d, n - b + 1, n)
    OBVIOUS
  <2>5. x \in Seq(Nat) /\ y \in Seq(Nat) /\ z \in Seq(Nat)
    BY <2>2, <2>3, <2>4
  <2>6. x \o y \o z \in Seq(Nat)
    BY <2>5
  <2>7. MaskCard(text) = x \o y \o z
    BY <1>6, <1>8, <2>4
  <2> QED
    BY <2>6, <2>7
<1> QED
  BY <1>7, <1>8

LEMMA MaskPartialIs == \A text \in Seq(Nat) : MaskPartial(text) \in Seq(Nat)
<1> SUFFICES ASSUME NEW text \in Seq(Nat), text # <<>> PROVE MaskPartial(text) \in Seq(Nat)
  BY DEF MaskPartial
<1>1. PICK n \in Nat : n = Len(text)
  OBVIOUS
<1>2. n > 0
  BY <1>1
<1>3. PICK q \in Nat : q = (n * 4) \div 5 /\ q <= n
  OBVIOUS
<1>4. PICK h : h = Max({1, q})
  OBVIOUS
<1>5. h \in {1, q}
  <2>1. \E x \in {1, q} : \A y \in {1, q} : x >= y
    <3>1. 1 >= q \/ q >= 1
      OBVIOUS
    <3> QED
      BY <3>1
  <2>2. h = CHOOSE x \in {1, q} : \A y \in {1, q} : x >= y
    BY <1>4, Zenon DEF Max
  <2> QED
    BY <2>1, <2>2
<1>6. h \in Nat /\ h <= n
  BY <1>2, <1>3, <1>5
<1>7. MaskPartial(text) = Stars(h) \o SubSeq(text, h + 1, n)
  BY <1>1, <1>3, <1>4 DEF MaskPartial
<1>8. h + 1 \in Int /\ 1 <= h + 1 /\ n \in Int /\ n <= Len(text)
  BY <1>1, <1>6
<1>9. SubSeq(text, h + 1, n) \in Seq(Nat)
  BY <1>8, PartIs
<1>10. Stars(h) \in Seq(Nat)
  BY <1>6, StarsAre
<1>11. PICK x, y : x = Stars(h) /\ y = SubSeq(text, h + 1, n)
  OBVIOUS
<1>12. x \o y \in Seq(Nat)
  BY <1>9, <1>10, <1>11
<1> QED
  BY <1>7, <1>11, <1>12

LEMMA MaskIs ==
    ASSUME NEW v \in Scalars, IsMaskable(v), NEW type
    PROVE  ApplyMask(v, type) \in Scalars /\ ApplyMask(v, type).is = "leaf"
<1>1. v.is = "leaf" /\ v.v.text \in Seq(Nat)
  BY DEF Scalars, IsMaskable, NoValue
<1>2. PICK x : x = CASE type = "card" -> MaskCard(v.v.text)
                     [] type = "redact" -> <<Redacted>>
                     [] OTHER -> MaskPartial(v.v.text)
  OBVIOUS
<1>3. <<Redacted>> \in Seq(Nat)
  BY OneElement DEF Redacted
<1>4. x \in Seq(Nat)
  <2>1. x = MaskCard(v.v.text) \/ x = <<Redacted>> \/ x = MaskPartial(v.v.text)
    BY <1>2
  <2> QED
    BY <1>1, <1>3, <2>1, MaskCardIs, MaskPartialIs
<1>5. PICK s : s = "string"
  OBVIOUS
<1>6. s \in STRING
  BY <1>5, LiteralsAssumption
<1>7. ApplyMask(v, type) = Leaf([type |-> s, text |-> x])
  BY <1>2, <1>5 DEF ApplyMask
<1>8. Leaf([type |-> s, text |-> x]) \in Scalars
  BY <1>4, <1>6, IsScalar
<1> QED
  BY <1>7, <1>8 DEF Leaf

-----------------------------------------------------------------------------
(* Sanitized payloads.                                                     *)
TypedMemo(cache) == \A k \in DOMAIN cache : cache[k] \in Types

\* What sanitizeObject() makes of the payloads of each level.
SanitizesBy(cache, by) ==
    \A n \in Levels : by[n] = [v \in Payload[n] |->
        [parentType \in Types |-> SanitizeLevel(cache, v, parentType, by[n - 1])]]

LEMMA ScalarsAreShown ==
    \A cache, v, parentType, below : v \in Scalars => SanitizeLevel(cache, v, parentType, below) = v
BY IsScalar DEF SanitizeLevel

LEMMA SanitizedLevels ==
    ASSUME NEW cache
    PROVE  \E by : SanitizesBy(cache, by) /\ Sanitized(cache) = by[Deepest]
<1> DEFINE Body(n, f) == [v \in Payload[n] |->
                            [parentType \in Types |-> SanitizeLevel(cache, v, parentType, f[n - 1])]]
           Loops(f, m) == f = [n \in 0..m |-> Body(n, f)]
           Exist == {m \in Nat : \E f : Loops(f, m)}
<1>0. \A f, g : Body(0, f) = Body(0, g)
  <2>1. Payload[0] = Scalars
    BY PayloadLevels DEF Payload
  <2>2. \A f : Body(0, f) = [v \in Scalars |-> [parentType \in Types |-> v]]
    BY <2>1, ScalarsAreShown
  <2> QED
    BY <2>2
<1>1. 0 \in Exist
  <2>1. PICK f : f = [n \in 0..0 |-> Body(0, <<>>)]
    OBVIOUS
  <2>2. Loops(f, 0)
    <3>1. Body(0, <<>>) = Body(0, f)
      BY <1>0
    <3>2. f = [n \in 0..0 |-> Body(0, f)]
      BY <2>1, <3>1, Zenon
    <3>3. \A n \in 0..0 : n = 0
      OBVIOUS
    <3> HIDE DEF Body
    <3> QED
      BY <3>2, <3>3
  <2> QED
    BY <2>2
<1>2. ASSUME NEW m \in Nat, m \in Exist PROVE m + 1 \in Exist
  <2>1. PICK f : Loops(f, m)
    BY <1>2
  <2>2. PICK h : h = [n \in 0..(m + 1) |-> Body(n, f)]
    OBVIOUS
  <2>3. \A n \in 0..m : h[n] = f[n]
    <3> HIDE DEF Body
    <3> QED
      BY <2>1, <2>2
  <2>4. \A n \in 0..(m + 1) : Body(n, f) = Body(n, h)
    <3> SUFFICES ASSUME NEW n \in 0..(m + 1) PROVE Body(n, f) = Body(n, h)
      OBVIOUS
    <3>1. CASE n = 0
      <4> HIDE DEF Body
      <4> QED
        BY <1>0, <3>1
    <3>2. CASE n # 0
      <4>1. n - 1 \in 0..m
        BY <3>2
      <4>2. h[n - 1] = f[n - 1]
        BY <2>3, <4>1
      <4> QED
        BY <4>2, Zenon
    <3> QED
      BY <3>1, <3>2
  <2>5. Loops(h, m + 1)
    <3> HIDE DEF Body
    <3> QED
      BY <2>2, <2>4
  <2> QED
    BY <2>5
<1>3. Deepest \in Exist
  <2> HIDE DEF Exist
  <2> QED
    BY <1>1, <1>2, SetInduction, SomeLevels
<1>4. PICK f : f = CHOOSE g : Loops(g, Deepest)
  OBVIOUS
<1>5. Loops(f, Deepest)
  BY <1>3, <1>4
<1>6. Sanitized(cache) = f[Deepest]
  BY <1>4 DEF Sanitized, Levels
<1>7. \A n \in Levels : f[n] = Body(n, f)
  <2> HIDE DEF Body
  <2> QED
    BY <1>5 DEF Levels
<1>8. SanitizesBy(cache, f)
  BY <1>7, Zenon DEF SanitizesBy
<1> QED
  BY <1>6, <1>8

\* The payloads of a level, and of those above it, are sanitized one after another.
LEMMA SanitizedStep ==
    ASSUME NEW cache, NEW by, SanitizesBy(cache, by)
    PROVE  \A m, n \in Levels : m <= n => \A v \in Payload[m] : \A type \in Types :
              /\ v \in Payload[n]
              /\ by[n][v][type] = SanitizeLevel(cache, v, type, by[n - 1])
<1> SUFFICES ASSUME NEW m \in Levels, NEW n \in Levels, m <= n, NEW v \in Payload[m],
                    NEW type \in Types
             PROVE  /\ v \in Payload[n]
                    /\ by[n][v][type] = SanitizeLevel(cache, v, type, by[n - 1])
  OBVIOUS
<1>1. v \in Payload[n]
  BY MorePayloads DEF Payload
<1>2. by[n] = [x \in Payload[n] |->
                [parentType \in Types |-> SanitizeLevel(cache, x, parentType, by[n - 1])]]
  BY Zenon DEF SanitizesBy
<1> QED
  BY <1>1, <1>2

LEMMA SanitizedTypes ==
    ASSUME NEW cache, TypedMemo(cache), NEW by, SanitizesBy(cache, by)
    PROVE  \A m, n \in Levels : m <= n => \A v \in Payload[m] : \A type \in Types :
              by[n][v][type] \in Payload[m] /\ by[n][v][type].is = v.is
<1> DEFINE Good(m, n, v) == \A type \in Types : by[n][v][type] \in Payload[m]
                                                /\ by[n][v][type].is = v.is
           T == {m \in Nat : \A n \in Levels : m <= n => \A v \in Payload[m] : Good(m, n, v)}
<1>1. \A m, n \in Levels : m <= n => \A v \in Payload[m] : v \in Scalars => Good(m, n, v)
  <2> SUFFICES ASSUME NEW m \in Levels, NEW n \in Levels, NEW v \in Payload[m], m <= n,
                      v \in Scalars, NEW type \in Types
               PROVE  by[n][v][type] \in Payload[m] /\ by[n][v][type].is = v.is
    OBVIOUS
  <2>1. by[n][v][type] = v
    BY SanitizedStep, ScalarsAreShown
  <2> QED
    BY <2>1
<1>2. 0 \in T
  <2>1. Payload[0] = Scalars
    BY PayloadLevels DEF Payload
  <2> HIDE DEF Good
  <2> QED
    BY <1>1, <2>1, SomeLevels
<1>3. ASSUME NEW m \in Nat, m \in T PROVE m + 1 \in T
  <2> SUFFICES ASSUME NEW n \in Levels, m + 1 <= n, NEW v \in Payload[m + 1] PROVE Good(m + 1, n, v)
    <3> HIDE DEF Good
    <3> QED
      OBVIOUS
  <2>1. /\ n \in Nat /\ n # 0 /\ m + 1 \in Levels /\ m + 1 # 0 /\ (m + 1) - 1 = m
        /\ n - 1 \in Levels /\ m <= n - 1 /\ m \in Levels
    BY SomeLevels
  <2>2. PICK below, V : below = by[n - 1] /\ V = Payload[m]
    OBVIOUS
  <2>3. \A x \in V : \A type \in Types : below[x][type] \in V
    BY <1>3, <2>1, <2>2
  <2>4. \A type \in Types : by[n][v][type] = SanitizeLevel(cache, v, type, below)
    BY <2>1, <2>2, SanitizedStep
  <2>5. v \in Scalars \/ IsArrayOf(v, V) \/ IsObjectOf(v, Keys, V)
    BY <2>1, <2>2, FromLevel DEF Payload
  <2>6. /\ \A items \in Seq(V) : Array(items) \in Payload[m + 1]
        /\ \A entries \in Seq([key : Keys, val : V]) : Object(entries) \in Payload[m + 1]
    BY <2>1, <2>2, IntoLevel, Zenon DEF Payload
  <2>7. CASE v \in Scalars
    BY <1>1, <2>1, <2>7
  <2>8. CASE IsArrayOf(v, V)
    <3>1. v.is = "array" /\ v.items \in Seq(V)
      BY <2>8, Zenon DEF IsArrayOf
    <3>2. PICK items : items = v.items
      OBVIOUS
    <3>3. DOMAIN items = 1..Len(items) /\ Len(items) \in Nat /\ \A i \in 1..Len(items) : items[i] \in V
      BY <3>1, <3>2
    <3>4. ASSUME NEW type \in Types
          PROVE  by[n][v][type] \in Payload[m + 1] /\ by[n][v][type].is = v.is
      <4>1. PICK new : new = [i \in DOMAIN v.items |-> below[v.items[i]][type]]
        OBVIOUS
      <4>2. new \in Seq(V)
        BY <2>3, <3>2, <3>3, <4>1
      <4>3. by[n][v][type] = Array(new)
        BY <2>4, <3>1, <4>1 DEF SanitizeLevel
      <4> QED
        BY <2>6, <3>1, <4>2, <4>3 DEF Array
    <3> QED
      BY <3>4
  <2>9. CASE IsObjectOf(v, Keys, V)
    <3>1. v.is = "object" /\ v.entries \in Seq(Pairs(Keys, V))
      BY <2>9, Zenon DEF IsObjectOf, Pairs
    <3>2. PICK es, P : es = v.entries /\ P = Pairs(Keys, V)
      OBVIOUS
    <3>3. DOMAIN es = 1..Len(es) /\ Len(es) \in Nat /\ \A i \in 1..Len(es) : es[i] \in P
      BY <3>1, <3>2
    <3>4. \A i \in 1..Len(es) : es[i].key \in Keys /\ es[i].val \in V
      BY <3>2, <3>3 DEF Pairs
    <3>5. \A x \in V : IsMaskable(x) => x \in Scalars
      <4>1. \A x \in V : x \in Scalars \/ x.is = "array" \/ x.is = "object"
        BY <2>1, <2>2, FromLevel DEF Payload, IsArrayOf, IsObjectOf
      <4> QED
        BY <4>1 DEF IsMaskable
    <3>6. Scalars \subseteq V
      BY <2>1, <2>2, IntoLevel DEF Payload
    <3>7. ASSUME NEW type \in Types
          PROVE  by[n][v][type] \in Payload[m + 1] /\ by[n][v][type].is = v.is
      <4>1. PICK new : new = [i \in DOMAIN v.entries |->
                                [key |-> v.entries[i].key,
                                 val |-> SanitizeEntry(cache, v.entries[i], type, below)]]
        OBVIOUS
      <4>2. \A i \in 1..Len(es) : SanitizeEntry(cache, es[i], type, below) \in V
        <5> SUFFICES ASSUME NEW i \in 1..Len(es) PROVE SanitizeEntry(cache, es[i], type, below) \in V
          OBVIOUS
        <5>1. PICK e, x, t : e = es[i] /\ x = e.val /\ t = GetSensitiveKeyType(cache, e.key, x)
          OBVIOUS
        <5>2. x \in V /\ t \in Types
          BY <3>4, <5>1, TypesAre DEF TypedMemo
        <5>3. PICK u : u = IF t # "none" THEN t ELSE type
          OBVIOUS
        <5>4. u \in Types
          BY <5>2, <5>3
        <5>5. \/ IsMaskable(x) /\ SanitizeEntry(cache, e, type, below) = ApplyMask(x, t)
              \/ IsMaskable(x) /\ SanitizeEntry(cache, e, type, below) = ApplyMask(x, type)
              \/ SanitizeEntry(cache, e, type, below) = below[x][u]
          BY <5>1, <5>3, Zenon DEF SanitizeEntry
        <5>6. below[x][u] \in V
          BY <2>3, <5>2, <5>4
        <5>7. IsMaskable(x) => ApplyMask(x, t) \in V /\ ApplyMask(x, type) \in V
          BY <3>5, <3>6, <5>2, MaskIs
        <5> QED
          BY <5>1, <5>5, <5>6, <5>7
      <4>3. new \in Seq(P)
        <5>1. \A k \in Keys, x \in V : [key |-> k, val |-> x] \in P
          BY <3>2 DEF Pairs
        <5>2. \A i \in 1..Len(es) : [key |-> es[i].key,
                                     val |-> SanitizeEntry(cache, es[i], type, below)] \in P
          BY <3>4, <4>2, <5>1, Zenon
        <5>3. new = [i \in 1..Len(es) |-> [key |-> es[i].key,
                                     val |-> SanitizeEntry(cache, es[i], type, below)]]
          BY <3>2, <3>3, <4>1, Zenon
        <5> QED
          BY <3>3, <5>2, <5>3
      <4>4. by[n][v][type] = Object(new)
        BY <2>4, <3>1, <4>1, Zenon DEF SanitizeLevel
      <4>5. Object(new) \in Payload[m + 1]
        BY <2>6, <3>2, <4>3, Zenon DEF Pairs
      <4> QED
        BY <3>1, <4>4, <4>5 DEF Object
    <3> QED
      BY <3>7
  <2> QED
    BY <2>5, <2>7, <2>8, <2>9
<1>4. Nat \subseteq T
  <2> HIDE DEF T
  <2> QED
    BY <1>2, <1>3, SetInduction
<1> QED
  BY <1>4, SomeLevels

\* A sanitized object is an object of the same depth.
LEMMA SanitizedIs ==
    ASSUME NEW cache, TypedMemo(cache),
           NEW n \in Levels, NEW o, IsObject(o, n)
    PROVE  IsObject(SanitizeObject(cache, o, "none"), n)
<1>1. PICK by : SanitizesBy(cache, by) /\ Sanitized(cache) = by[Deepest]
  BY SanitizedLevels
<1>2. n <= Deepest /\ Deepest \in Levels /\ "none" \in Types
  BY SomeLevels DEF Types
<1>3. o \in Payload[n] /\ o.is = "object"
  BY DEF IsObject
<1>4. PICK x : x = SanitizeObject(cache, o, "none")
  OBVIOUS
<1>5. x = by[Deepest][o]["none"]
  BY <1>1, <1>4 DEF SanitizeObject
<1>6. \A m \in Levels : n <= m => \A v \in Payload[n] : \A type \in Types :
        by[m][v][type] \in Payload[n] /\ by[m][v][type].is = v.is
  <2>1. SanitizesBy(cache, by)
    BY <1>1
  <2>2. \A k, m \in Levels : k <= m => \A v \in Payload[k] : \A type \in Types :
        by[m][v][type] \in Payload[k] /\ by[m][v][type].is = v.is
    BY <2>1, SanitizedTypes
  <2> QED
    BY <2>2
<1>7. x \in Payload[n] /\ x.is = o.is
  BY <1>2, <1>3, <1>5, <1>6
<1> QED
  BY <1>3, <1>4, <1>7 DEF IsObject

-----------------------------------------------------------------------------
(* The memo of the keys: what a log is classified with.                    *)

Entry == Pairs(Keys, Payload[Deepest])

\* The entries of one level in the order they are visited.
VisitedLevel(x, below) ==
    IF x.is = "array" THEN FlattenSeq([i \in DOMAIN x.items |-> below[x.items[i]]])
    ELSE IF x.is = "object"
    THEN FlattenSeq([i \in DOMAIN x.entries |-> <<x.entries[i]>> \o below[x.entries[i].val]])
    ELSE <<>>
VisitsBy(by) == \A n \in Levels : by[n] = [x \in Payload[n] |-> VisitedLevel(x, by[n - 1])]

LEMMA VisitedLevels == \E by : VisitsBy(by) /\ \A v : Visited(v) = by[Deepest][v]
<1> DEFINE Body(n, f) == [x \in Payload[n] |-> VisitedLevel(x, f[n - 1])]
           Loops(f, m) == f = [n \in 0..m |-> Body(n, f)]
           Exist == {m \in Nat : \E f : Loops(f, m)}
<1>0. \A f, g : Body(0, f) = Body(0, g)
  <2>1. Payload[0] = Scalars
    BY PayloadLevels DEF Payload
  <2>2. \A x \in Scalars : \A below : VisitedLevel(x, below) = <<>>
    BY IsScalar DEF VisitedLevel
  <2>3. \A f : Body(0, f) = [x \in Scalars |-> <<>>]
    BY <2>1, <2>2
  <2> QED
    BY <2>3
<1>1. 0 \in Exist
  <2>1. PICK f : f = [n \in 0..0 |-> Body(0, <<>>)]
    OBVIOUS
  <2>2. Loops(f, 0)
    <3>1. Body(0, <<>>) = Body(0, f)
      BY <1>0
    <3>2. f = [n \in 0..0 |-> Body(0, f)]
      BY <2>1, <3>1, Zenon
    <3>3. \A n \in 0..0 : n = 0
      OBVIOUS
    <3> HIDE DEF Body
    <3> QED
      BY <3>2, <3>3
  <2> QED
    BY <2>2
<1>2. ASSUME NEW m \in Nat, m \in Exist PROVE m + 1 \in Exist
  <2>1. PICK f : Loops(f, m)
    BY <1>2
  <2>2. PICK h : h = [n \in 0..(m + 1) |-> Body(n, f)]
    OBVIOUS
  <2>3. \A n \in 0..m : h[n] = f[n]
    <3> HIDE DEF Body
    <3> QED
      BY <2>1, <2>2
  <2>4. \A n \in 0..(m + 1) : Body(n, f) = Body(n, h)
    <3> SUFFICES ASSUME NEW n \in 0..(m + 1) PROVE Body(n, f) = Body(n, h)
      OBVIOUS
    <3>1. CASE n = 0
      <4> HIDE DEF Body
      <4> QED
        BY <1>0, <3>1
    <3>2. CASE n # 0
      <4>1. n - 1 \in 0..m
        BY <3>2
      <4>2. h[n - 1] = f[n - 1]
        BY <2>3, <4>1
      <4> QED
        BY <4>2, Zenon
    <3> QED
      BY <3>1, <3>2
  <2>5. Loops(h, m + 1)
    <3> HIDE DEF Body
    <3> QED
      BY <2>2, <2>4
  <2> QED
    BY <2>5
<1>3. Deepest \in Exist
  <2> HIDE DEF Exist
  <2> QED
    BY <1>1, <1>2, SetInduction, SomeLevels
<1>4. PICK f : f = CHOOSE g : Loops(g, Deepest)
  OBVIOUS
<1>5. Loops(f, Deepest)
  BY <1>3, <1>4
<1>6. \A v : Visited(v) = f[Deepest][v]
  BY <1>4 DEF Visited, Levels, VisitedLevel
<1>7. \A n \in Levels : f[n] = Body(n, f)
  <2> HIDE DEF Body
  <2> QED
    BY <1>5 DEF Levels
<1>8. VisitsBy(f)
  BY <1>7, Zenon DEF VisitsBy
<1> QED
  BY <1>6, <1>8

LEMMA VisitedTypes ==
    ASSUME NEW by, VisitsBy(by)
    PROVE  \A m, n \in Levels : m <= n => \A v \in Payload[m] : by[n][v] \in Seq(Entry)
<1> DEFINE T == {m \in Nat : \A n \in Levels : m <= n => \A v \in Payload[m] : by[n][v] \in Seq(Entry)}
<1>0. \A m, n \in Levels : m <= n => \A v \in Payload[m] : by[n][v] = VisitedLevel(v, by[n - 1])
  <2> SUFFICES ASSUME NEW m \in Levels, NEW n \in Levels, m <= n, NEW v \in Payload[m]
               PROVE  by[n][v] = VisitedLevel(v, by[n - 1])
    OBVIOUS
  <2>1. v \in Payload[n]
    BY MorePayloads DEF Payload
  <2>2. by[n] = [x \in Payload[n] |-> VisitedLevel(x, by[n - 1])]
    BY Zenon DEF VisitsBy
  <2> QED
    BY <2>1, <2>2
<1>1. \A x \in Scalars : \A below : VisitedLevel(x, below) \in Seq(Entry)
  BY IsScalar, NoElement DEF VisitedLevel
<1>2. 0 \in T
  <2>1. Payload[0] = Scalars
    BY PayloadLevels DEF Payload
  <2>2. \A n \in Levels : 0 <= n
    BY SomeLevels
  <2>3. ASSUME NEW n \in Levels, NEW v \in Payload[0] PROVE by[n][v] \in Seq(Entry)
    <3>1. by[n][v] = VisitedLevel(v, by[n - 1])
      BY <1>0, <2>2, SomeLevels
    <3> QED
      BY <1>1, <2>1, <3>1
  <2> QED
    BY <2>3
<1>3. ASSUME NEW m \in Nat, m \in T PROVE m + 1 \in T
  <2> SUFFICES ASSUME NEW n \in Levels, m + 1 <= n, NEW v \in Payload[m + 1]
               PROVE  by[n][v] \in Seq(Entry)
    OBVIOUS
  <2>1. /\ n \in Nat /\ n # 0 /\ m + 1 \in Levels /\ m + 1 # 0 /\ (m + 1) - 1 = m
        /\ n - 1 \in Levels /\ m <= n - 1 /\ m \in Levels /\ m <= Deepest
    BY SomeLevels
  <2>2. PICK below, V : below = by[n - 1] /\ V = Payload[m]
    OBVIOUS
  <2>3. \A x \in V : below[x] \in Seq(Entry)
    BY <1>3, <2>1, <2>2
  <2>4. by[n][v] = VisitedLevel(v, below)
    BY <1>0, <2>1, <2>2
  <2>5. v \in Scalars \/ IsArrayOf(v, V) \/ IsObjectOf(v, Keys, V)
    BY <2>1, <2>2, FromLevel DEF Payload
  <2>6. V \subseteq Payload[Deepest]
    BY <2>1, <2>2, MorePayloads, SomeLevels DEF Payload
  <2>7. CASE v \in Scalars
    BY <1>1, <2>4, <2>7
  <2>8. CASE IsArrayOf(v, V)
    <3>1. v.is = "array" /\ v.items \in Seq(V)
      BY <2>8, Zenon DEF IsArrayOf
    <3>2. PICK items, ss : items = v.items /\ ss = [i \in DOMAIN v.items |-> below[v.items[i]]]
      OBVIOUS
    <3>3. DOMAIN items = 1..Len(items) /\ Len(items) \in Nat /\ \A i \in 1..Len(items) : items[i] \in V
      BY <3>1, <3>2
    <3>4. ss \in Seq(Seq(Entry))
      BY <2>3, <3>2, <3>3
    <3>5. FlattenSeq(ss) \in Seq(Entry)
      BY <3>4, FlattenType
    <3> QED
      BY <2>4, <3>1, <3>2, <3>5 DEF VisitedLevel
  <2>9. CASE IsObjectOf(v, Keys, V)
    <3>1. v.is = "object" /\ v.entries \in Seq(Pairs(Keys, V))
      BY <2>9, Zenon DEF IsObjectOf, Pairs
    <3>2. PICK es, ss, P, E : /\ es = v.entries /\ P = Pairs(Keys, V) /\ E = Entry
                           /\ ss = [i \in DOMAIN v.entries |->
                                        <<v.entries[i]>> \o below[v.entries[i].val]]
      OBVIOUS
    <3>3. DOMAIN es = 1..Len(es) /\ Len(es) \in Nat /\ \A i \in 1..Len(es) : es[i] \in P
      BY <3>1, <3>2
    <3>4. \A i \in 1..Len(es) : es[i].val \in V /\ es[i] \in E
      BY <2>6, <3>2, <3>3 DEF Pairs, Entry
    <3>5. \A i \in 1..Len(es) : <<es[i]>> \o below[es[i].val] \in Seq(E)
      <4> SUFFICES ASSUME NEW i \in 1..Len(es) PROVE <<es[i]>> \o below[es[i].val] \in Seq(E)
        OBVIOUS
      <4>1. PICK s : s = below[es[i].val]
        OBVIOUS
      <4>2. s \in Seq(E) /\ <<es[i]>> \in Seq(E)
        BY <2>3, <3>2, <3>4, <4>1, OneElement
      <4> QED
        BY <4>1, <4>2
    <3>6. ss \in Seq(Seq(E))
      <4>1. ss = [i \in 1..Len(es) |-> <<es[i]>> \o below[es[i].val]]
        BY <3>2, <3>3, Zenon
      <4> QED
        BY <3>3, <3>5, <4>1
    <3>7. FlattenSeq(ss) \in Seq(E)
      BY <3>6, FlattenType
    <3> QED
      BY <2>4, <3>1, <3>2, <3>7 DEF VisitedLevel
  <2> QED
    BY <2>5, <2>7, <2>8, <2>9
<1>4. Nat \subseteq T
  <2> HIDE DEF T
  <2> QED
    BY <1>2, <1>3, SetInduction
<1> QED
  BY <1>4, SomeLevels

LEMMA VisitedIs == \A v \in Payload[Deepest] : Visited(v) \in Seq(Entry)
<1> SUFFICES ASSUME NEW v \in Payload[Deepest] PROVE Visited(v) \in Seq(Entry)
  OBVIOUS
<1>1. PICK by : VisitsBy(by) /\ \A x : Visited(x) = by[Deepest][x]
  BY VisitedLevels
<1>2. VisitsBy(by)
  BY <1>1
<1>3. \A m, n \in Levels : m <= n => \A x \in Payload[m] : by[n][x] \in Seq(Entry)
  BY <1>2, VisitedTypes
<1> QED
  BY <1>1, <1>3, SomeLevels

\* The memos that fit: each key with the type that it has on its own.
CacheKeys == {S \in SUBSET Keys : IsFiniteSet(S) /\ Cardinality(S) <= CacheMax}
Cache(S) == [k \in S |-> ClassifyKey(k)]
Caches == {Cache(S) : S \in CacheKeys}

LEMMA CacheIs ==
    /\ <<>> \in Caches
    /\ \A c \in Caches : /\ TypedMemo(c) /\ IsFiniteSet(DOMAIN c)
                         /\ Cardinality(DOMAIN c) <= CacheMax
                         /\ \A k \in DOMAIN c : c[k] = ClassifyKey(k)
<1>1. {} \in CacheKeys
  BY FS_EmptySet, MaskingAssumption DEF CacheKeys
<1>2. <<>> = Cache({})
  BY DEF Cache
<1>3. \A k : ClassifyKey(k) \in Types
  BY DEF ClassifyKey, Types
<1>4. ASSUME NEW c \in Caches
      PROVE  /\ TypedMemo(c) /\ IsFiniteSet(DOMAIN c)
             /\ Cardinality(DOMAIN c) <= CacheMax
             /\ \A k \in DOMAIN c : c[k] = ClassifyKey(k)
  <2>1. PICK S \in CacheKeys : c = Cache(S)
    BY DEF Caches
  <2>2. DOMAIN c = S /\ \A k \in S : c[k] = ClassifyKey(k)
    BY <2>1 DEF Cache
  <2> QED
    BY <1>3, <2>2 DEF TypedMemo, CacheKeys
<1> QED
  BY <1>1, <1>2, <1>4 DEF Caches

LEMMA RememberIs == \A c \in Caches, e \in Entry : Remember(c, e) \in Caches
<1> SUFFICES ASSUME NEW c \in Caches, NEW e \in Entry PROVE Remember(c, e) \in Caches
  OBVIOUS
<1>1. CASE e.key \in DOMAIN c \/ Cardinality(DOMAIN c) >= CacheMax
  BY <1>1 DEF Remember
<1>2. CASE ~(e.key \in DOMAIN c \/ Cardinality(DOMAIN c) >= CacheMax)
  <2>1. PICK S \in CacheKeys : c = Cache(S)
    BY DEF Caches
  <2>2. DOMAIN c = S /\ \A k \in S : c[k] = ClassifyKey(k)
    BY <2>1 DEF Cache
  <2>3. PICK key : key = e.key
    OBVIOUS
  <2>4. key \in Keys /\ key \notin S
    BY <1>2, <2>2, <2>3 DEF Entry, Pairs
  <2>5. PICK U : U = S \cup {key}
    OBVIOUS
  <2>6. U \in CacheKeys
    <3>1. IsFiniteSet(S) /\ S \subseteq Keys /\ ~(Cardinality(S) >= CacheMax)
      BY <1>2, <2>2 DEF CacheKeys
    <3>2. IsFiniteSet(U) /\ Cardinality(U) = Cardinality(S) + 1 /\ Cardinality(S) \in Nat
      BY <2>4, <2>5, <3>1, FS_AddElement, FS_CardinalityType
    <3>3. Cardinality(U) <= CacheMax
      BY <3>1, <3>2, MaskingAssumption
    <3> QED
      BY <2>4, <2>5, <3>1, <3>2, <3>3 DEF CacheKeys
  <2>7. Remember(c, e) = [k \in U |-> IF k = key THEN Remembered(c, key, e.val) ELSE c[k]]
    BY <1>2, <2>2, <2>3, <2>5, Zenon DEF Remember
  <2>8. Remembered(c, key, e.val) = ClassifyKey(key)
    BY <2>2, <2>4 DEF Remembered, KeyType
  <2>9. Remember(c, e) = Cache(U)
    BY <2>2, <2>5, <2>7, <2>8 DEF Cache
  <2> QED
    BY <2>6, <2>9 DEF Caches
<1> QED
  BY <1>1, <1>2

LEMMA ClassifiedIs ==
    ASSUME keyTypeCache \in Caches, NEW v \in Payload[Deepest]
    PROVE  Classified(v) \in Caches
<1>1. PICK visited : visited = Visited(v)
  OBVIOUS
<1>2. PICK n : n = Len(visited)
  OBVIOUS
<1>3. n \in Nat /\ \A i \in 1..n : visited[i] \in Entry
  BY <1>1, <1>2, VisitedIs
<1>4. PICK step : step = [i \in 1..n |-> [c \in Caches |-> Remember(c, visited[i])]]
  OBVIOUS
<1>5. step \in [1..n -> [Caches -> Caches]]
  BY <1>3, <1>4, RememberIs
<1> DEFINE after == CHOOSE f : f = [i \in 0..n |->
                        IF i = 0 THEN keyTypeCache ELSE Remember(f[i - 1], visited[i])]
<1>6. PICK g : g \in [0..n -> Caches] /\ Goes(g, n, Caches, keyTypeCache, step)
  BY <1>3, <1>5, Iterates
<1>7. \A i \in 1..n : g[i] = Remember(g[i - 1], visited[i])
  <2>1. \A i \in 1..n : i - 1 \in 0..n
    BY <1>3
  <2>2. \A i \in 1..n : g[i - 1] \in Caches
    BY <1>6, <2>1
  <2> QED
    BY <1>4, <1>6, <2>2 DEF Goes
<1>8. \E f : f = [i \in 0..n |-> IF i = 0 THEN keyTypeCache ELSE Remember(f[i - 1], visited[i])]
  <2>1. g[0] = keyTypeCache
    BY <1>6, Zenon DEF Goes
  <2>2. \A i \in 0..n : i = 0 \/ (i \in 1..n /\ i # 0)
    BY <1>3
  <2>3. \A i \in 0..n : g[i] = IF i = 0 THEN keyTypeCache ELSE Remember(g[i - 1], visited[i])
    BY <1>7, <2>1, <2>2, Zenon
  <2>4. g = [i \in 0..n |-> IF i = 0 THEN keyTypeCache ELSE Remember(g[i - 1], visited[i])]
    <3>1. g = [i \in 0..n |-> g[i]]
      BY <1>6
    <3> QED
      BY <2>3, <3>1, Zenon
  <2> QED
    BY <2>4
<1>9. PICK f : f = after
  OBVIOUS
<1>10. f = [i \in 0..n |-> IF i = 0 THEN keyTypeCache ELSE Remember(f[i - 1], visited[i])]
  BY <1>8, <1>9
<1>11. Goes(f, n, Caches, keyTypeCache, step)
  <2>1. \A i \in 1..n : i \in 0..n /\ i # 0
    BY <1>3
  <2>2. \A i \in 1..n : f[i] = Remember(f[i - 1], visited[i])
    BY <1>10, <2>1, Zenon
  <2>3. \A i \in 1..n : f[i - 1] \in Caches => f[i] = step[i][f[i - 1]]
    BY <1>4, <2>2
  <2>4. 0 \in 0..n
    BY <1>3
  <2>5. f[0] = keyTypeCache
    BY <1>10, <2>4, Zenon
  <2> QED
    BY <2>3, <2>5 DEF Goes
<1>12. \A i \in 0..n : f[i] \in Caches
  BY <1>3, <1>5, <1>11, IteratesOnce
<1>13. Classified(v) = f[n]
  BY <1>1, <1>2, <1>9, Zenon DEF Classified
<1> QED
  BY <1>3, <1>12, <1>13

-----------------------------------------------------------------------------
(* The bodies of the answers, and the logs.                                *)

LEMMA TwoElements == \A S : \A x, y \in S : <<x, y>> \in Seq(S)
OBVIOUS
LEMMA ThreeElements == \A S : \A x, y, z \in S : <<x, y, z>> \in Seq(S)
OBVIOUS
LEMMA FourElements == \A S : \A x, y, z, u \in S : <<x, y, z, u>> \in Seq(S)
OBVIOUS

LEMMA NameIs == \A w \in STRING : Name(w) \in Keys /\ Name(w) \in SnakeKeys
<1> SUFFICES ASSUME NEW w \in STRING PROVE Name(w) \in Keys /\ Name(w) \in SnakeKeys
  OBVIOUS
<1>1. PICK t : t = [as |-> "low", w |-> w]
  OBVIOUS
<1>2. t \in [as : {"low", "spelt", "sep"}, w : STRING]
  BY <1>1
<1>3. PICK S : S = [as : {"low", "spelt", "sep"}, w : STRING]
  OBVIOUS
<1>4. <<t>> \in Seq(S)
  BY <1>2, <1>3, OneElement
<1> QED
  BY <1>1, <1>3, <1>4, SnakeKeysAreKeys DEF Name, SnakeKeys

LEMMA CamelNamesAre ==
    Authorization \in Keys /\ ValidateTokenKey \in Keys /\ CreateExample \in Keys
    /\ GetExample \in Keys
<1>1. \A v, w \in STRING : <<[as |-> "low", w |-> v], [as |-> "Cap", w |-> w]>> \in Keys
  <2> SUFFICES ASSUME NEW v \in STRING, NEW w \in STRING
               PROVE  <<[as |-> "low", w |-> v], [as |-> "Cap", w |-> w]>> \in Keys
    OBVIOUS
  <2>1. [as |-> "low", w |-> v] \in Tokens /\ [as |-> "Cap", w |-> w] \in Tokens
    BY DEF Tokens
  <2> QED
    BY <2>1, TwoElements DEF Keys
<1>2. \A v, w \in STRING : <<[as |-> "low", w |-> v], [as |-> "low", w |-> w]>> \in Keys
  <2> SUFFICES ASSUME NEW v \in STRING, NEW w \in STRING
               PROVE  <<[as |-> "low", w |-> v], [as |-> "low", w |-> w]>> \in Keys
    OBVIOUS
  <2>1. [as |-> "low", w |-> v] \in Tokens /\ [as |-> "low", w |-> w] \in Tokens
    BY DEF Tokens
  <2> QED
    BY <2>1, TwoElements DEF Keys
<1>3. "auth" \in STRING /\ "orization" \in STRING /\ "validate" \in STRING /\ "token" \in STRING
      /\ "create" \in STRING /\ "example" \in STRING /\ "get" \in STRING
  BY NamesAssumption
<1> QED
  BY <1>1, <1>2, <1>3, Zenon DEF Authorization, ValidateTokenKey, CreateExample, GetExample

\* The two sets of keys that bodies have.
NamedKeys == {Keys, SnakeKeys}

LEMMA FieldIs ==
    ASSUME NEW keys \in NamedKeys, NEW w \in STRING, NEW V, NEW x \in V
    PROVE  Field(w, x) \in Pairs(keys, V)
<1>1. Name(w) \in keys
  BY NameIs DEF NamedKeys
<1> QED
  BY <1>1 DEF Field, Pairs

\* An object of the entries of a level, and an array of its payloads.
LEMMA ObjectOf ==
    ASSUME NEW keys, NEW n \in Levels, n # 0, NEW es \in Seq(Pairs(keys, PayloadsOf(keys)[n - 1]))
    PROVE  Object(es) \in PayloadsOf(keys)[n] /\ Object(es).is = "object"
BY IntoLevel, Zenon DEF Pairs, Object

LEMMA EmptyIs ==
    ASSUME NEW keys, NEW n \in Levels, n # 0
    PROVE  Object(<<>>) \in PayloadsOf(keys)[n] /\ Array(<<>>) \in PayloadsOf(keys)[n]
BY IntoLevel, NoElement

LEMMA TextIs == Text \in Scalars
<1>1. "string" \in STRING /\ <<Letter>> \in Seq(Nat)
  BY LiteralsAssumption, OneElement DEF Letter
<1> QED
  BY <1>1, IsScalar DEF Text

LEMMA ResponseIs ==
    ASSUME NEW keys \in NamedKeys, NEW n \in Levels, n # 0,
           NEW payload \in PayloadsOf(keys)[n - 1], NEW error \in PayloadsOf(keys)[n - 1]
    PROVE  /\ Response(payload, error) \in PayloadsOf(keys)[n]
           /\ Response(payload, error).is = "object"
<1>1. PICK V : V = PayloadsOf(keys)[n - 1]
  OBVIOUS
<1>2. n - 1 \in Levels
  BY SomeLevels
<1>3. Text \in V
  BY <1>1, <1>2, TextIs, IntoLevel
<1>4. "message" \in STRING /\ "payload" \in STRING /\ "error" \in STRING
  BY NamesAssumption
<1>5. /\ Field("message", Text) \in Pairs(keys, V)
      /\ Field("payload", payload) \in Pairs(keys, V)
      /\ Field("error", error) \in Pairs(keys, V)
  BY <1>1, <1>3, <1>4, FieldIs
<1>6. <<Field("message", Text), Field("payload", payload), Field("error", error)>>
        \in Seq(Pairs(keys, V))
  BY <1>5, ThreeElements
<1> QED
  BY <1>1, <1>6, ObjectOf, Zenon DEF Response

LEMMA SmallLevels ==
    /\ 1 \in Levels /\ 2 \in Levels /\ 3 \in Levels /\ 4 \in Levels
    /\ Depth \in Levels /\ Depth + 1 \in Levels /\ Depth + 2 \in Levels /\ Depth + 3 \in Levels
BY SomeLevels

LEMMA FailuresAre ==
    ASSUME NEW keys \in NamedKeys
    PROVE  /\ Failed \in PayloadsOf(keys)[3] /\ Failed.is = "object"
           /\ Rejected \in PayloadsOf(keys)[3] /\ Rejected.is = "object"
<1> DEFINE P(n) == PayloadsOf(keys)[n]
<1>1. Text \in P(0)
  BY TextIs, PayloadLevels
<1>2. "message" \in STRING /\ "key" \in STRING
  BY NamesAssumption
<1>3. Field("message", Text) \in Pairs(keys, P(0)) /\ Field("key", Text) \in Pairs(keys, P(0))
  <2> HIDE DEF P
  <2> QED
    BY <1>1, <1>2, FieldIs
<1>4. /\ <<Field("message", Text)>> \in Seq(Pairs(keys, P(0)))
      /\ <<Field("message", Text), Field("key", Text)>> \in Seq(Pairs(keys, P(0)))
  <2> HIDE DEF P
  <2> QED
    BY <1>3, OneElement, TwoElements
<1>5. /\ Object(<<Field("message", Text)>>) \in P(1)
      /\ Object(<<Field("message", Text), Field("key", Text)>>) \in P(1)
  <2>1. 1 - 1 = 0 /\ 1 # 0
    OBVIOUS
  <2> QED
    BY <1>4, <2>1, SmallLevels, ObjectOf
<1>6. \A o \in P(1) : Array(<<o>>) \in P(2)
  <2>1. 2 - 1 = 1 /\ 2 # 0
    OBVIOUS
  <2>2. \A o \in P(1) : <<o>> \in Seq(P(1))
    <3> HIDE DEF P
    <3> QED
      BY OneElement
  <2>3. \A items \in Seq(PayloadsOf(keys)[2 - 1]) : Array(items) \in PayloadsOf(keys)[2]
    BY <2>1, SmallLevels, IntoLevel
  <2> QED
    BY <2>1, <2>2, <2>3
<1>7. /\ Array(<<Object(<<Field("message", Text)>>)>>) \in P(2)
      /\ Array(<<Object(<<Field("message", Text), Field("key", Text)>>)>>) \in P(2)
  <2> HIDE DEF P
  <2> QED
    BY <1>5, <1>6, Zenon
<1>8. Object(<<>>) \in P(2)
  BY SmallLevels, EmptyIs
<1>9. 3 - 1 = 2 /\ 3 # 0
  OBVIOUS
<1> QED
  BY <1>7, <1>8, <1>9, SmallLevels, ResponseIs DEF Failed, Rejected

LEMMA RefusalIs == Response(Object(<<>>), NoValue) \in Payload[2]
                   /\ Response(Object(<<>>), NoValue).is = "object"
<1>1. 2 - 1 = 1 /\ 2 # 0 /\ 1 # 0
  OBVIOUS
<1>2. Keys \in NamedKeys
  BY DEF NamedKeys
<1>3. Object(<<>>) \in PayloadsOf(Keys)[1] /\ NoValue \in PayloadsOf(Keys)[1]
  BY <1>1, SmallLevels, EmptyIs, IntoLevel, IsScalar
<1> QED
  BY <1>1, <1>2, <1>3, SmallLevels, ResponseIs DEF Payload

LEMMA SuccessIs ==
    ASSUME NEW payload \in Payload[Depth]
    PROVE  Success(payload) \in Payload[Depth + 1] /\ Success(payload).is = "object"
<1>1. Depth + 1 \in Levels /\ Depth + 1 # 0 /\ (Depth + 1) - 1 = Depth /\ Depth # 0
  BY SomeLevels, SmallLevels
<1>2. Keys \in NamedKeys
  BY DEF NamedKeys
<1>3. Array(<<>>) \in PayloadsOf(Keys)[Depth] /\ payload \in PayloadsOf(Keys)[Depth]
  BY <1>1, SmallLevels, EmptyIs DEF Payload
<1> QED
  BY <1>1, <1>2, <1>3, ResponseIs DEF Success, Payload

\* The body of serverError().
LEMMA ServerErrorIs ==
    IsObject(Object(<<[key |-> <<[as |-> "low", w |-> "status"], [as |-> "Cap", w |-> "code"]>>,
                       val |-> Text],
                      Field("body", Failed)>>), Depth + 2)
<1>1. PICK k : k = <<[as |-> "low", w |-> "status"], [as |-> "Cap", w |-> "code"]>>
  OBVIOUS
<1>2. k \in Keys
  <2>1. "status" \in STRING /\ "code" \in STRING
    BY NamesAssumption
  <2>2. [as |-> "low", w |-> "status"] \in Tokens /\ [as |-> "Cap", w |-> "code"] \in Tokens
    BY <2>1 DEF Tokens
  <2> QED
    BY <1>1, <2>2, TwoElements DEF Keys
<1>3. PICK V : V = PayloadsOf(Keys)[3]
  OBVIOUS
<1>4. Keys \in NamedKeys
  BY DEF NamedKeys
<1>5. Text \in V /\ Failed \in V
  BY <1>3, <1>4, TextIs, FailuresAre, SmallLevels, IntoLevel
<1>6. [key |-> k, val |-> Text] \in Pairs(Keys, V)
  BY <1>2, <1>5 DEF Pairs
<1>7. Field("body", Failed) \in Pairs(Keys, V)
  BY <1>4, <1>5, NamesAssumption, FieldIs
<1>8. PICK es : es = <<[key |-> k, val |-> Text], Field("body", Failed)>>
  OBVIOUS
<1>9. es \in Seq(Pairs(Keys, V))
  BY <1>6, <1>7, <1>8, TwoElements
<1>10. 4 - 1 = 3 /\ 4 # 0 /\ 4 <= Depth + 2
  BY SomeLevels
<1>11. Object(es) \in PayloadsOf(Keys)[4] /\ Object(es).is = "object"
  BY <1>3, <1>9, <1>10, SmallLevels, ObjectOf
<1>12. Object(es) \in Payload[Depth + 2]
  BY <1>10, <1>11, SmallLevels, MorePayloads DEF Payload
<1> QED
  BY <1>1, <1>8, <1>11, <1>12 DEF IsObject

\* An object is one of every level above its own.
LEMMA MoreObjects ==
    ASSUME NEW m \in Levels, NEW n \in Levels, m <= n, NEW o, IsObject(o, m)
    PROVE  IsObject(o, n)
BY MorePayloads DEF IsObject, Payload

LEMMA LogIs ==
    ASSUME NEW parts, \A p \in PartNames : IsObject(parts[p], Depth),
           NEW answer, IsObject(answer.body, Depth + 2)
    PROVE  IsObject(LogOf(parts, answer), Deepest)
<1>1. PICK V, W, B : V = Payload[Depth] /\ W = Payload[Depth + 3] /\ B = Payload[Depth + 2]
  OBVIOUS
<1>2. Keys \in NamedKeys
  BY DEF NamedKeys
<1>3. parts.body \in V /\ parts.params \in V /\ parts.query \in V /\ parts.headers \in V
  BY <1>1 DEF PartNames, IsObject
<1>4. "body" \in STRING /\ "params" \in STRING /\ "query" \in STRING /\ "headers" \in STRING
      /\ "request" \in STRING /\ "response" \in STRING
  BY NamesAssumption
<1>5. PICK es : es = <<Field("body", parts.body), Field("params", parts.params),
                       Field("query", parts.query), Field("headers", parts.headers)>>
  OBVIOUS
<1>6. es \in Seq(Pairs(Keys, V))
  <2>1. /\ Field("body", parts.body) \in Pairs(Keys, V)
        /\ Field("params", parts.params) \in Pairs(Keys, V)
        /\ Field("query", parts.query) \in Pairs(Keys, V)
        /\ Field("headers", parts.headers) \in Pairs(Keys, V)
    BY <1>2, <1>3, <1>4, FieldIs
  <2> QED
    BY <1>5, <2>1, FourElements
<1>7. PICK bs : bs = <<Field("body", answer.body)>>
  OBVIOUS
<1>8. bs \in Seq(Pairs(Keys, B))
  <2>1. answer.body \in B
    BY <1>1 DEF IsObject
  <2>2. Field("body", answer.body) \in Pairs(Keys, B)
    BY <1>2, <1>4, <2>1, FieldIs
  <2> QED
    BY <1>7, <2>2, OneElement
<1>9. Object(es) \in W /\ Object(bs) \in W
  <2>1. (Depth + 1) - 1 = Depth /\ Depth + 1 # 0 /\ Depth + 1 <= Depth + 3
        /\ (Depth + 3) - 1 = Depth + 2 /\ Depth + 3 # 0
    BY SomeLevels
  <2>2. Object(es) \in PayloadsOf(Keys)[Depth + 1]
    BY <1>1, <1>6, <2>1, SmallLevels, ObjectOf DEF Payload
  <2>3. Object(bs) \in PayloadsOf(Keys)[Depth + 3]
    BY <1>1, <1>8, <2>1, SmallLevels, ObjectOf DEF Payload
  <2> QED
    BY <1>1, <2>1, <2>2, <2>3, SmallLevels, MorePayloads DEF Payload
<1>10. PICK ls : ls = <<Field("request", Object(es)), Field("response", Object(bs))>>
  OBVIOUS
<1>11. ls \in Seq(Pairs(Keys, W))
  <2>1. Field("request", Object(es)) \in Pairs(Keys, W)
        /\ Field("response", Object(bs)) \in Pairs(Keys, W)
    BY <1>2, <1>4, <1>9, FieldIs
  <2> QED
    BY <1>10, <2>1, TwoElements
<1>12. Object(ls) \in PayloadsOf(Keys)[Deepest] /\ Object(ls).is = "object"
  <2>1. Deepest - 1 = Depth + 3 /\ Deepest # 0
    BY SomeLevels
  <2> QED
    BY <1>1, <1>11, <2>1, SomeLevels, ObjectOf DEF Payload
<1>13. LogOf(parts, answer) = Object(ls)
  BY <1>5, <1>7, <1>10, Zenon DEF LogOf
<1> QED
  BY <1>12, <1>13 DEF IsObject, Payload

-----------------------------------------------------------------------------
(* The data of the requests.                                               *)

\* Each request has answered with an object, and logged one, when it is over.
ResponseFits(x, t) ==
    /\ (x # None) <=> (t # 0)
    /\ x # None => /\ IsObject(x.body, Depth + 2)
                   /\ x.by = "handler" => x.body \in PayloadsOf(SnakeKeys)[Deepest]
LogFits(x, t) == /\ (x # None) <=> (t # 0)
                 /\ x # None => IsObject(x, Deepest)
PartsFit(parts) == \A p \in PartNames : IsObject(parts[p], Depth)

DataInv ==
    /\ HandlersInv
    /\ DOMAIN request = Requests /\ DOMAIN state = Requests
    /\ DOMAIN response = Requests /\ DOMAIN logged = Requests
    /\ \A r \in Requests : /\ PartsFit(request[r])
                           /\ IsObject(state[r], Depth + 1)
                           /\ ResponseFits(response[r], told[r])
                           /\ LogFits(logged[r], told[r])
    /\ keyTypeCache \in Caches

LEMMA DataInvGives ==
    ASSUME DataInv
    PROVE  ConversionsHold
<1>1. HandlersTypeOK
  BY HandlersInvGives DEF DataInv
<1>2. \A r \in Requests : (told[r] # 0) <=> (doing[r] = "over")
  BY <1>1 DEF HandlersTypeOK
<1>3. ASSUME NEW r \in Requests
      PROVE  /\ \A p \in PartNames : IsObject(request[r][p], Depth)
             /\ IsObject(state[r], Depth + 1)
             /\ (response[r] # None) = (doing[r] = "over")
             /\ response[r] # None => IsObject(response[r].body, Depth + 2)
             /\ (logged[r] # None) = (doing[r] = "over")
             /\ logged[r] # None => IsObject(logged[r], Deepest)
             /\ response[r] # None /\ response[r].by = "handler" =>
                    response[r].body \in PayloadsOf(SnakeKeys)[Deepest]
  <2>1. PartsFit(request[r]) /\ IsObject(state[r], Depth + 1)
        /\ ResponseFits(response[r], told[r]) /\ LogFits(logged[r], told[r])
    BY DEF DataInv
  <2>2. ((response[r] # None) <=> (doing[r] = "over")) /\ ((logged[r] # None) <=> (doing[r] = "over"))
    BY <1>2, <2>1 DEF ResponseFits, LogFits
  <2>3. (response[r] # None) = (doing[r] = "over") /\ (logged[r] # None) = (doing[r] = "over")
    BY <2>2
  <2> QED
    BY <2>1, <2>3 DEF PartsFit, ResponseFits, LogFits
<1>4. /\ Cardinality(DOMAIN keyTypeCache) <= CacheMax
      /\ \A k \in DOMAIN keyTypeCache : keyTypeCache[k] \in Types
  BY CacheIs DEF DataInv, TypedMemo
<1>5. DataTypeOK
  BY <1>3, <1>4, Zenon DEF DataTypeOK
<1>6. LenientAcceptsMore
  BY <1>3, LenientModes
<1>7. AnswersAreSnake
  BY <1>3, Zenon DEF AnswersAreSnake
<1> QED
  BY <1>5, <1>6, <1>7, Extracts DEF ConversionsHold

LEMMA DataStarts == ASSUME DataInit PROVE DataInv
<1>1. HandlersInv
  BY HandlersStart DEF DataInit
<1>2. input \in Workloads /\ told = [r \in Requests |-> 0]
  BY DEF DataInit, HandlersInit
<1>3. ASSUME NEW r \in Requests
      PROVE  /\ PartsFit(request[r]) /\ IsObject(state[r], Depth + 1)
             /\ ResponseFits(response[r], told[r]) /\ LogFits(logged[r], told[r])
  <2>1. request[r] = input[r].parts /\ state[r] = Object(<<>>)
        /\ response[r] = None /\ logged[r] = None /\ told[r] = 0
    BY <1>2 DEF DataInit
  <2>2. PartsFit(request[r])
    BY <1>2, <2>1, DataAssumption DEF PartsFit
  <2>3. Object(<<>>) \in PayloadsOf(Keys)[Depth + 1]
    <3>1. Depth + 1 \in Levels /\ Depth + 1 # 0
      BY SmallLevels, SomeLevels
    <3> QED
      BY <3>1, EmptyIs
  <2>4. IsObject(state[r], Depth + 1)
    BY <2>1, <2>3 DEF IsObject, Payload, Object
  <2> QED
    BY <2>1, <2>2, <2>4 DEF ResponseFits, LogFits
<1>4. DOMAIN request = Requests /\ DOMAIN state = Requests
      /\ DOMAIN response = Requests /\ DOMAIN logged = Requests
  BY DEF DataInit
<1>5. keyTypeCache \in Caches
  BY CacheIs DEF DataInit, MaskingInit
<1> QED
  BY <1>1, <1>3, <1>4, <1>5 DEF DataInv

\* A request that is over does not move, and each step answers its own request.
Alone(r) == doing[r] # "over" /\ \A q \in Requests : q # r => told'[q] = told[q]

LEMMA MovesAlone ==
    ASSUME NEW r \in Requests, HandlerStep(r)
    PROVE  Alone(r)
<1>1. ASSUME NEW status, Tell(r, status) PROVE \A q \in Requests : q # r => told'[q] = told[q]
  BY <1>1 DEF Tell
<1> QED
  BY <1>1 DEF HandlerStep, Alone, Arrive, FlowEnds, Validate, AskToken, TokenSettles, Create, Begin,
     InsertOk, InsertFails, RollBack, RollBackFails, RolledBack, StartCommit, Commit, CommitFails,
     Committed, ReadExample, ListExample, Calls, Continue, Await, Fail, AfterCommitFails

\* What a step leaves of the answers and of the memo.
AnswersFit ==
    /\ DOMAIN response = Requests /\ DOMAIN logged = Requests
    /\ \A q \in Requests : ResponseFits(response[q], told[q]) /\ LogFits(logged[q], told[q])
    /\ keyTypeCache \in Caches

StateFits == DOMAIN state = Requests /\ \A q \in Requests : IsObject(state[q], Depth + 1)
RequestFits == DOMAIN request = Requests /\ \A q \in Requests : PartsFit(request[q])

LEMMA DataInvIs == DataInv <=> HandlersInv /\ AnswersFit /\ StateFits /\ RequestFits
BY DEF DataInv, AnswersFit, StateFits, RequestFits

LEMMA Silent ==
    ASSUME NEW r \in Requests, DataInv, HandlersInv', Alone(r), told'[r] = told[r],
           UNCHANGED <<response, logged, keyTypeCache>>
    PROVE  AnswersFit'
<1>1. \A q \in Requests : told'[q] = told[q] /\ response'[q] = response[q] /\ logged'[q] = logged[q]
  BY DEF Alone
<1>2. \A q \in Requests : ResponseFits(response'[q], told'[q]) /\ LogFits(logged'[q], told'[q])
  BY <1>1 DEF DataInv
<1> QED
  BY <1>2 DEF AnswersFit, DataInv

\* The body of an answer; a handler's has its keys in snake case.
BodyFits(by, body) == /\ IsObject(body, Depth + 2)
                      /\ by = "handler" => body \in PayloadsOf(SnakeKeys)[Deepest]

LEMMA Sends ==
    ASSUME NEW r \in Requests, DataInv, HandlersInv', Alone(r),
           NEW by, NEW body, BodyFits(by, body), Send(r, by, body)
    PROVE  AnswersFit'
<1>1. CASE told'[r] = told[r]
  <2>1. UNCHANGED <<response, logged, keyTypeCache>>
    BY <1>1 DEF Send
  <2> QED
    BY <1>1, <2>1, Silent
<1>2. CASE told'[r] # told[r]
  <2>1. told[r] = 0
    BY HandlersInvGives DEF DataInv, HandlersTypeOK, Alone
  <2>2. PICK answer, log, cache : /\ answer = [is |-> "answer", by |-> by, body |-> body]
                                  /\ log = LogOf(request[r], answer)
                                  /\ cache = Classified(log)
    OBVIOUS
  <2>3. PICK masked : masked = SanitizeObject(cache, log, "none")
    OBVIOUS
  <2>4. /\ response' = [response EXCEPT ![r] = answer]
        /\ keyTypeCache' = cache
        /\ logged' = [logged EXCEPT ![r] = masked]
    BY <1>2, <2>2, <2>3, Zenon DEF Send
  <2>5. answer.body = body /\ answer.by = by /\ answer # None
    BY <2>2 DEF None
  <2>6. IsObject(log, Deepest)
    BY <2>2, <2>5, LogIs DEF DataInv, PartsFit, BodyFits
  <2>7. cache \in Caches
    BY <2>2, <2>6, ClassifiedIs DEF DataInv, IsObject
  <2>8. TypedMemo(cache)
    BY <2>7, CacheIs
  <2>9. IsObject(masked, Deepest)
    BY <2>3, <2>6, <2>8, SomeLevels, SanitizedIs
  <2>10. masked # None
    BY <2>9 DEF IsObject, None
  <2>11. ResponseFits(answer, told'[r]) /\ LogFits(masked, told'[r])
    BY <1>2, <2>1, <2>5, <2>9, <2>10 DEF ResponseFits, LogFits, BodyFits
  <2>12. /\ DOMAIN response' = Requests /\ DOMAIN logged' = Requests
         /\ response'[r] = answer /\ logged'[r] = masked
         /\ \A q \in Requests : q # r => response'[q] = response[q] /\ logged'[q] = logged[q]
    BY <2>4 DEF DataInv
  <2>13. ASSUME NEW q \in Requests
         PROVE  ResponseFits(response'[q], told'[q]) /\ LogFits(logged'[q], told'[q])
    <3>1. CASE q = r
      BY <2>11, <2>12, <3>1
    <3>2. CASE q # r
      <4>1. told'[q] = told[q] /\ response'[q] = response[q] /\ logged'[q] = logged[q]
        BY <2>12, <3>2 DEF Alone
      <4> QED
        BY <4>1 DEF DataInv
    <3> QED
      BY <3>1, <3>2
  <2> QED
    BY <2>4, <2>7, <2>12, <2>13 DEF AnswersFit
<1> QED
  BY <1>1, <1>2

LEMMA SmallBodies ==
    /\ BodyFits("server", Failed) /\ BodyFits("handler", Rejected)
    /\ IsObject(Failed, Depth + 2) /\ IsObject(Rejected, Depth + 2)
<1>1. Keys \in NamedKeys /\ SnakeKeys \in NamedKeys
  BY DEF NamedKeys
<1>2. 3 <= Depth + 2 /\ 3 <= Deepest
  BY SomeLevels
<1>3. Failed \in Payload[3] /\ Rejected \in Payload[3] /\ Failed.is = "object" /\ Rejected.is = "object"
  BY <1>1, FailuresAre DEF Payload
<1>4. IsObject(Failed, 3) /\ IsObject(Rejected, 3)
  BY <1>3 DEF IsObject
<1>5. IsObject(Failed, Depth + 2) /\ IsObject(Rejected, Depth + 2)
  BY <1>2, <1>4, SmallLevels, MoreObjects
<1>6. Rejected \in PayloadsOf(SnakeKeys)[Deepest]
  <2>1. Rejected \in PayloadsOf(SnakeKeys)[3]
    BY <1>1, FailuresAre
  <2>2. PayloadsOf(SnakeKeys)[3] \subseteq PayloadsOf(SnakeKeys)[Deepest]
    BY <1>2, SmallLevels, SomeLevels, MorePayloads
  <2> QED
    BY <2>1, <2>2
<1> QED
  BY <1>5, <1>6 DEF BodyFits

\* A handler's response, converted.
LEMMA Responds ==
    ASSUME NEW body, IsObject(body, Depth + 2)
    PROVE  BodyFits("handler", Convert("toSnake", body))
<1>1. PICK n : n = Depth + 2
  OBVIOUS
<1>2. n \in Levels /\ n <= Deepest
  BY <1>1, SmallLevels, SomeLevels
<1>3. PICK x : x = Converted("toSnake")[body]
  OBVIOUS
<1>4. x \in PayloadsOf(KeysAfter("toSnake"))[n] /\ x.is = body.is
  BY <1>1, <1>2, <1>3, ConvertedIs DEF IsObject
<1>5. x \in PayloadsOf(SnakeKeys)[n] /\ x.is = "object"
  BY <1>4 DEF KeysAfter, IsObject
<1>6. /\ PayloadsOf(SnakeKeys)[n] \subseteq PayloadsOf(Keys)[n]
      /\ PayloadsOf(SnakeKeys)[n] \subseteq PayloadsOf(SnakeKeys)[Deepest]
  <2>1. n <= n
    BY <1>2, SomeLevels
  <2> QED
    BY <1>2, <2>1, SnakeKeysAreKeys, SomeLevels, MorePayloads
<1> QED
  BY <1>1, <1>3, <1>5, <1>6, Zenon DEF BodyFits, Convert, IsObject, Payload

LEMMA Keeping ==
    ASSUME StateFits, NEW r \in Requests, NEW key \in Keys, NEW value \in Payload[Depth],
           Keeps(r, key, value)
    PROVE  StateFits'
<1>1. PICK n : n = Depth + 1
  OBVIOUS
<1>2. n \in Levels /\ n # 0 /\ n - 1 = Depth
  BY <1>1, SmallLevels, SomeLevels
<1>3. IsObject(state[r], n)
  BY <1>1 DEF StateFits
<1>4. state[r] \in Objects(Keys, Payload[Depth])
  BY <1>2, <1>3, ObjectLevel
<1>5. Put(state[r], key, value) \in Objects(Keys, Payload[Depth])
  BY <1>4, PutIs
<1>6. IsObject(Put(state[r], key, value), n)
  BY <1>2, <1>5, LevelObject
<1>7. /\ DOMAIN state' = Requests /\ state'[r] = Put(state[r], key, value)
      /\ \A q \in Requests : q # r => state'[q] = state[q]
  BY DEF Keeps, StateFits
<1> QED
  BY <1>1, <1>6, <1>7 DEF StateFits

LEMMA Normalizes ==
    ASSUME RequestFits, NEW r \in Requests,
           request' = [request EXCEPT ![r] = Normalized(@)]
    PROVE  RequestFits'
<1>1. PICK parts : parts = request[r]
  OBVIOUS
<1>2. PartsFit(parts)
  BY <1>1 DEF RequestFits
<1>3. ASSUME NEW v, IsObject(v, Depth) PROVE IsObject(Convert("toCamel", v), Depth)
  <2>1. PICK x : x = Converted("toCamel")[v]
    OBVIOUS
  <2>2. x \in PayloadsOf(KeysAfter("toCamel"))[Depth] /\ x.is = v.is
    BY <1>3, <2>1, SmallLevels, ConvertedIs DEF IsObject
  <2>3. KeysAfter("toCamel") = Keys
    BY DEF KeysAfter
  <2> QED
    BY <1>3, <2>1, <2>2, <2>3, Zenon DEF IsObject, Payload, Convert
<1>4. PartsFit(Normalized(parts))
  BY <1>2, <1>3, Zenon DEF PartsFit, Normalized
<1>5. /\ DOMAIN request' = Requests /\ request'[r] = Normalized(parts)
      /\ \A q \in Requests : q # r => request'[q] = request[q]
  BY <1>1 DEF RequestFits
<1> QED
  BY <1>4, <1>5 DEF RequestFits

-----------------------------------------------------------------------------
(* The steps, with their data.                                             *)

\* What holds whichever step of a handler it is.
LEMMA HandlerMoves ==
    ASSUME DataInv, NEW r \in Requests, HandlerStep(r)
    PROVE  HandlersInv' /\ TransactionsMove /\ Alone(r)
<1>1. HandlersNext
  BY Zenon DEF HandlersNext
<1>2. [HandlersNext]_handlerVars
  BY <1>1
<1> QED
  BY <1>2, HandlersStepMoves, MovesAlone DEF DataInv

DataKept == HandlersInv' /\ TransactionsMove /\ AnswersFit' /\ StateFits' /\ RequestFits'

\* A step that may send a body.
LEMMA SendKeeps ==
    ASSUME DataInv, NEW r \in Requests, HandlerStep(r),
           NEW by, NEW body, BodyFits(by, body), Send(r, by, body), StateFits', RequestFits'
    PROVE  DataKept
BY HandlerMoves, Sends DEF DataKept

LEMMA SilentKeeps ==
    ASSUME DataInv, NEW r \in Requests, HandlerStep(r), told' = told,
           UNCHANGED <<response, logged, keyTypeCache>>, StateFits', RequestFits'
    PROVE  DataKept
BY HandlerMoves, Silent DEF DataKept

LEMMA Stays ==
    ASSUME DataInv
    PROVE  /\ UNCHANGED state => StateFits'
           /\ UNCHANGED request => RequestFits'
BY DataInvIs DEF StateFits, RequestFits

LEMMA Keepings ==
    ASSUME DataInv, NEW r \in Requests, NEW key \in {ValidateTokenKey, CreateExample, GetExample},
           NEW value \in {Object(<<>>), Example}, Keeps(r, key, value)
    PROVE  StateFits'
<1>1. key \in Keys
  BY CamelNamesAre
<1>2. Object(<<>>) \in Payload[Depth] /\ Example \in Payload[Depth]
  BY SomeLevels, SmallLevels, EmptyIs, DataAssumption DEF Payload
<1> QED
  BY <1>1, <1>2, Keeping, DataInvIs

LEMMA ArrivesKept ==
    ASSUME DataInv, NEW r \in Requests, RequestArrives(r)
    PROVE  DataKept
<1>1. HandlerStep(r) /\ told' = told
  BY DEF RequestArrives, HandlerStep, Arrive, Continue
<1>2. RequestFits' /\ StateFits'
  BY Normalizes, Stays, DataInvIs DEF RequestArrives
<1> QED
  BY <1>1, <1>2, SilentKeeps DEF RequestArrives

LEMMA FlowEndsKept ==
    ASSUME DataInv, NEW r \in Requests, NobodyAnswers(r)
    PROVE  DataKept
<1>1. HandlerStep(r)
  BY DEF NobodyAnswers, HandlerStep
<1>2. RequestFits' /\ StateFits'
  BY Stays DEF NobodyAnswers
<1> QED
  BY <1>1, <1>2, SmallBodies, SendKeeps DEF NobodyAnswers

LEMMA ValidatedKept ==
    ASSUME DataInv, NEW r \in Requests, RequestIsValidated(r)
    PROVE  DataKept
<1>1. PICK x : x = Accepts(SchemaKeys, request[r], input[r].options)
  OBVIOUS
<1>2. Validate(r, x) /\ Send(r, "handler", Rejected) /\ UNCHANGED <<request, state>>
  BY <1>1, Zenon DEF RequestIsValidated
<1>3. \E accepted \in BOOLEAN : Validate(r, accepted)
  BY <1>2 DEF Validate
<1>4. HandlerStep(r)
  BY <1>3 DEF HandlerStep
<1>5. RequestFits' /\ StateFits'
  BY <1>2, Stays
<1> QED
  BY <1>2, <1>4, <1>5, SmallBodies, SendKeeps

LEMMA TokenKept ==
    ASSUME DataInv, NEW r \in Requests, TokenIsValidated(r)
    PROVE  DataKept
<1>1. RequestFits'
  BY Stays DEF TokenIsValidated
<1>2. ASSUME NEW x, AskToken(r, x), Respond(r, Response(Object(<<>>), NoValue)), UNCHANGED state
      PROVE  DataKept
  <2>1. \E authorized \in BOOLEAN : AskToken(r, authorized)
    BY <1>2 DEF AskToken
  <2>2. HandlerStep(r)
    BY <2>1 DEF HandlerStep
  <2>3. PICK body : body = Response(Object(<<>>), NoValue)
    OBVIOUS
  <2>4. IsObject(body, Depth + 2)
    <3>1. 2 <= Depth + 2
      BY SomeLevels
    <3>2. IsObject(body, 2)
      BY <2>3, RefusalIs DEF IsObject
    <3> QED
      BY <3>1, <3>2, SmallLevels, MoreObjects
  <2>5. BodyFits("handler", Convert("toSnake", body))
    BY <2>4, Responds
  <2>6. Send(r, "handler", Convert("toSnake", body))
    BY <1>2, <2>3, Zenon DEF Respond
  <2>7. StateFits'
    BY <1>2, Stays
  <2> QED
    BY <1>1, <2>2, <2>5, <2>6, <2>7, SendKeeps
<1>3. ASSUME NEW status \in {200, 401, 500}, TokenSettles(r, status), Respond(r, Failed),
             IF status = 200 THEN Keeps(r, ValidateTokenKey, Object(<<>>)) ELSE UNCHANGED state
      PROVE  DataKept
  <2>1. HandlerStep(r)
    BY <1>3 DEF HandlerStep
  <2>2. StateFits'
    BY <1>3, Stays, Keepings
  <2>3. BodyFits("handler", Convert("toSnake", Failed)) /\ Send(r, "handler", Convert("toSnake", Failed))
    BY <1>3, SmallBodies, Responds DEF Respond
  <2> QED
    BY <1>1, <2>1, <2>2, <2>3, SendKeeps
<1> QED
  BY <1>2, <1>3 DEF TokenIsValidated

LEMMA CreatedKept ==
    ASSUME DataInv, NEW r \in Requests, ExampleIsCreated(r)
    PROVE  DataKept
<1>1. PICK x : x = SchemaAccepts(CreateKeys, ExtractValues(r))
  OBVIOUS
<1>2. /\ \/ Create(r, x) /\ UNCHANGED state
         \/ \E ok \in BOOLEAN : Begin(r, x, ok) /\ UNCHANGED state
         \/ /\ InsertOk(r)
            /\ IF collected[r] = NoTransactions THEN UNCHANGED state
               ELSE Keeps(r, CreateExample, Example)
         \/ InsertFails(r) /\ UNCHANGED state
      /\ UNCHANGED <<request, response, logged, keyTypeCache>>
  BY <1>1, Zenon DEF ExampleIsCreated
<1>3. RequestFits'
  BY <1>2, Stays
<1>4. StateFits'
  BY <1>2, Stays, Keepings
<1>5. told' = told
  BY <1>2 DEF Create, Begin, InsertOk, InsertFails, Await, Continue, Fail
<1>6. HandlerStep(r)
  <2>1. Create(r, x) => \E accepted \in BOOLEAN : Create(r, accepted)
    BY DEF Create
  <2>2. \A ok \in BOOLEAN : Begin(r, x, ok) => \E accepted, ok2 \in BOOLEAN : Begin(r, accepted, ok2)
    <3> SUFFICES ASSUME NEW ok \in BOOLEAN, Begin(r, x, ok) PROVE Begin(r, TRUE, ok)
      OBVIOUS
    <3> QED
      BY DEF Begin
  <2> QED
    BY <1>2, <2>1, <2>2 DEF HandlerStep
<1> QED
  BY <1>2, <1>3, <1>4, <1>5, <1>6, SilentKeeps

\* An error that leaves the flow.
LEMMA ErrorKept ==
    ASSUME DataInv, NEW r \in Requests, HandlerStep(r), ErrorLeaves(r), StateFits', RequestFits'
    PROVE  DataKept
<1>1. PICK body : body = Object(<<[key |-> <<[as |-> "low", w |-> "status"],
                                            [as |-> "Cap", w |-> "code"]>>, val |-> Text],
                                  Field("body", Failed)>>)
  OBVIOUS
<1>2. BodyFits("server", body)
  BY <1>1, ServerErrorIs DEF BodyFits
<1>3. Send(r, "server", body)
  BY <1>1, Zenon DEF ErrorLeaves
<1> QED
  BY <1>2, <1>3, SendKeeps

LEMMA UndoneKept ==
    ASSUME DataInv, NEW r \in Requests, CreatesAreUndone(r)
    PROVE  DataKept
<1>1. RequestFits' /\ StateFits'
  BY Stays DEF CreatesAreUndone
<1>2. CASE RollBack(r) /\ UNCHANGED <<response, logged, keyTypeCache>>
  <2>1. HandlerStep(r) /\ told' = told
    BY <1>2 DEF HandlerStep, RollBack
  <2> QED
    BY <1>1, <1>2, <2>1, SilentKeeps
<1>3. CASE RollBackFails(r) /\ ErrorLeaves(r)
  <2>1. HandlerStep(r)
    BY <1>3 DEF HandlerStep
  <2> QED
    BY <1>1, <1>3, <2>1, ErrorKept
<1>4. CASE RolledBack(r) /\ Respond(r, IF failure[r] = 422 THEN Rejected ELSE Failed)
  <2>1. HandlerStep(r)
    BY <1>4 DEF HandlerStep
  <2>2. PICK body : body = IF failure[r] = 422 THEN Rejected ELSE Failed
    OBVIOUS
  <2>3. IsObject(body, Depth + 2)
    BY <2>2, SmallBodies
  <2>4. BodyFits("handler", Convert("toSnake", body)) /\ Send(r, "handler", Convert("toSnake", body))
    BY <1>4, <2>2, <2>3, Responds DEF Respond
  <2> QED
    BY <1>1, <2>1, <2>4, SendKeeps
<1> QED
  BY <1>2, <1>3, <1>4 DEF CreatesAreUndone

\* The body of a success.
LEMMA SucceedsWith ==
    ASSUME NEW payload \in Payload[Depth]
    PROVE  BodyFits("handler", Convert("toSnake", Success(payload)))
<1>1. Depth + 1 <= Depth + 2
  BY SomeLevels
<1>2. PICK body : body = Success(payload)
  OBVIOUS
<1>3. IsObject(body, Depth + 1)
  BY <1>2, SuccessIs DEF IsObject
<1>4. IsObject(body, Depth + 2)
  BY <1>1, <1>3, SmallLevels, MoreObjects
<1> QED
  BY <1>2, <1>4, Responds

LEMMA CommittedKept ==
    ASSUME DataInv, NEW r \in Requests, CreatesAreCommitted(r)
    PROVE  DataKept
<1>1. RequestFits' /\ StateFits'
  BY Stays DEF CreatesAreCommitted
<1>2. CASE StartCommit(r) /\ ErrorLeaves(r)
  <2>1. HandlerStep(r)
    BY <1>2 DEF HandlerStep
  <2> QED
    BY <1>1, <1>2, <2>1, ErrorKept
<1>3. CASE Commit(r) /\ UNCHANGED <<response, logged, keyTypeCache>>
  <2>1. HandlerStep(r) /\ told' = told
    BY <1>3 DEF HandlerStep, Commit
  <2> QED
    BY <1>1, <1>3, <2>1, SilentKeeps
<1>4. CASE CommitFails(r) /\ ErrorLeaves(r)
  <2>1. HandlerStep(r)
    BY <1>4 DEF HandlerStep
  <2> QED
    BY <1>1, <1>4, <2>1, ErrorKept
<1>5. CASE Committed(r) /\ Respond(r, Success(Object(<<>>)))
  <2>1. HandlerStep(r)
    BY <1>5 DEF HandlerStep
  <2>2. PICK o : o = Object(<<>>)
    OBVIOUS
  <2>3. o \in Payload[Depth]
    BY <2>2, SomeLevels, SmallLevels, EmptyIs DEF Payload
  <2>4. BodyFits("handler", Convert("toSnake", Success(o)))
    BY <2>3, SucceedsWith
  <2>5. Send(r, "handler", Convert("toSnake", Success(o)))
    BY <1>5, <2>2, Zenon DEF Respond
  <2> QED
    BY <1>1, <2>1, <2>4, <2>5, SendKeeps
<1> QED
  BY <1>2, <1>3, <1>4, <1>5 DEF CreatesAreCommitted

\* What is found in the state of a request.
LEMMA StateHas ==
    ASSUME DataInv, NEW r \in Requests, NEW key
    PROVE  Get(state[r], key) \in Payload[Depth]
<1>1. PICK o, V, n : o = state[r] /\ V = Payload[Depth] /\ n = Depth + 1
  OBVIOUS
<1>2. n \in Levels /\ n # 0 /\ n - 1 = Depth
  BY <1>1, SmallLevels, SomeLevels
<1>3. IsObject(o, n)
  BY <1>1 DEF DataInv
<1>4. o \in Objects(Keys, V)
  BY <1>1, <1>2, <1>3, ObjectLevel
<1>5. NoValue \in V
  BY <1>1, SmallLevels, IntoLevel, IsScalar DEF Payload
<1>6. CASE At(o, key) = {}
  BY <1>1, <1>5, <1>6 DEF Get
<1>7. CASE At(o, key) # {}
  <2>1. PICK i : i = Min(At(o, key))
    OBVIOUS
  <2>2. i \in 1..Len(o.entries) /\ o.entries[i] \in Pairs(Keys, V)
    BY <1>4, <1>7, <2>1, AtIs
  <2>3. o.entries[i].val \in V
    BY <2>2 DEF Pairs
  <2> QED
    BY <1>1, <1>7, <2>1, <2>3 DEF Get
<1> QED
  BY <1>6, <1>7

LEMMA ReadKept ==
    ASSUME DataInv, NEW r \in Requests, ExampleIsRead(r)
    PROVE  DataKept
<1>1. RequestFits'
  BY Stays DEF ExampleIsRead
<1>2. ASSUME NEW ok \in BOOLEAN, ReadExample(r, ok), Respond(r, Failed),
             IF ok THEN Keeps(r, GetExample, Example) ELSE UNCHANGED state
      PROVE  DataKept
  <2>1. HandlerStep(r)
    BY <1>2 DEF HandlerStep
  <2>2. StateFits'
    BY <1>2, Stays, Keepings
  <2>3. BodyFits("handler", Convert("toSnake", Failed)) /\ Send(r, "handler", Convert("toSnake", Failed))
    BY <1>2, SmallBodies, Responds DEF Respond
  <2> QED
    BY <1>1, <2>1, <2>2, <2>3, SendKeeps
<1>3. CASE ListExample(r) /\ Respond(r, Success(Get(state[r], GetExample))) /\ UNCHANGED state
  <2>1. HandlerStep(r)
    BY <1>3 DEF HandlerStep
  <2>2. StateFits'
    BY <1>3, Stays
  <2>3. PICK x : x = Get(state[r], GetExample)
    OBVIOUS
  <2>4. BodyFits("handler", Convert("toSnake", Success(x)))
    BY <2>3, StateHas, SucceedsWith
  <2>5. Send(r, "handler", Convert("toSnake", Success(x)))
    BY <1>3, <2>3, Zenon DEF Respond
  <2> QED
    BY <1>1, <2>1, <2>2, <2>4, <2>5, SendKeeps
<1> QED
  BY <1>2, <1>3 DEF ExampleIsRead

LEMMA DataStepKeeps ==
    ASSUME DataInv, [DataNext]_dataVars
    PROVE  DataInv' /\ TransactionsMove
<1>1. ASSUME NEW r \in Requests, Step(r) PROVE DataKept
  BY <1>1, ArrivesKept, FlowEndsKept, ValidatedKept, TokenKept, CreatedKept, UndoneKept,
     CommittedKept, ReadKept DEF Step
<1>2. CASE UNCHANGED dataVars
  <2>1. UNCHANGED handlerVars /\ UNCHANGED <<request, state, response, logged, keyTypeCache>>
    BY <1>2 DEF dataVars
  <2>2. HandlersInv' /\ TransactionsMove
    BY <2>1, HandlersStepMoves DEF DataInv
  <2>3. UNCHANGED told
    BY <2>1 DEF handlerVars
  <2> QED
    BY <2>1, <2>2, <2>3 DEF DataInv
<1>3. DataKept => DataInv' /\ TransactionsMove
  BY DEF DataKept, DataInv, AnswersFit, StateFits, RequestFits
<1> QED
  BY <1>1, <1>2, <1>3 DEF DataNext

\* Whatever the payloads, the keys and the table of extraction: the types of the
\* data, no lenient way of comparing keys that refuses what a stricter one accepts,
\* the latest value that is not falsy under each extracted name, and answers of
\* handlers in snake case at every depth. It does not compare an answer's values.
THEOREM ConversionsAlwaysHold == DataSpec => []ConversionsHold
<1>1. DataInit => DataInv
  BY DataStarts
<1>2. DataInv /\ [DataNext]_dataVars => DataInv'
  BY DataStepKeeps
<1>3. DataInv => ConversionsHold
  BY DataInvGives
<1> QED
  BY <1>1, <1>2, <1>3, PTL DEF DataSpec

\* The same for the transactions: the handlers with their data do to the database
\* what Transactions lets them do, whatever their parameters come to.
THEOREM CreatesStayAtomic == DataSpec => CreateIsAtomic
<1>1. DataInit => DataInv
  BY DataStarts
<1>2. DataInv /\ [DataNext]_dataVars => DataInv'
  BY DataStepKeeps
<1>3. DataInv => HandlersTypeOK /\ CreatedIsCommitted /\ FailedCreateUndone
  BY HandlersInvGives DEF DataInv
<1>4. DataInv /\ [DataNext]_dataVars =>
        [\A r \in Requests : \A i \in DOMAIN tx[r] :
            tx[r][i] # "open" => tx'[r][i] = tx[r][i]]_handlerVars
  BY DataStepKeeps DEF TransactionsMove, OnlyOpenMove
<1> QED
  BY <1>1, <1>2, <1>3, <1>4, PTL DEF DataSpec, CreateIsAtomic, SettledOnce

-----------------------------------------------------------------------------
(* Fragments that a key is made of.                                        *)
\* The pieces of a fragment from one of them on.
RestOf(f, a) == SubSeq(f, a, Len(f))
Places(f) == 1..(Len(f) + 1)
KnownFrom(f, g, a) ==
    \/ RestOf(f, a) = <<>>
    \/ RestOf(f, a) \in KeyFragments
    \/ /\ Len(RestOf(f, a)) <= MaxFragment
       /\ \E next \in (a + 1)..Len(f) : SubSeq(f, a, next - 1) \in KeyFragments /\ g[next]
Cuts(f, cuts) ==
    \A a \in cuts : \/ a = Len(f) + 1
                    \/ \E b \in cuts : b > a /\ SubSeq(f, a, b - 1) \in KeyFragments
CutFrom(f, a) == \E cuts \in SUBSET Places(f) : a \in cuts /\ Cuts(f, cuts)
Fragments(f, a) ==
    \/ RestOf(f, a) = <<>>
    \/ RestOf(f, a) \in KeyFragments
    \/ Len(RestOf(f, a)) <= MaxFragment /\ CutFrom(f, a)

LEMMA RestIs ==
    ASSUME NEW f \in Seq(STRING), NEW a \in Places(f)
    PROVE  /\ Len(f) \in Nat /\ Len(RestOf(f, a)) = Len(f) + 1 - a
           /\ RestOf(f, a) = <<>> <=> a = Len(f) + 1
           /\ RestOf(f, 1) = f
<1>1. Len(f) \in Nat
  OBVIOUS
<1>2. a \in Int /\ Len(f) \in Int /\ 1 <= a /\ Len(f) <= Len(f) /\ a <= Len(f) + 1
  BY <1>1 DEF Places
<1>3. /\ SubSeq(f, a, Len(f)) \in Seq(STRING)
      /\ Len(SubSeq(f, a, Len(f))) = IF a <= Len(f) THEN Len(f) - a + 1 ELSE 0
  BY <1>2, PartIs
<1>4. SubSeq(f, 1, Len(f)) = f
  BY SubSeqFull
<1>5. PICK rest : rest = RestOf(f, a)
  OBVIOUS
<1>6. rest \in Seq(STRING) /\ Len(rest) = Len(f) + 1 - a
  BY <1>1, <1>2, <1>3, <1>5 DEF RestOf
<1>7. rest = <<>> <=> Len(rest) = 0
  BY <1>6, EmptySeq
<1> QED
  BY <1>1, <1>2, <1>4, <1>5, <1>6, <1>7 DEF RestOf

\* A fragment is known from a place on where it can be cut there.
LEMMA CutsGoOn ==
    ASSUME NEW f \in Seq(STRING), NEW g, \A a \in Places(f) : g[a] <=> Fragments(f, a)
    PROVE  \A a \in Places(f) : g[a] <=> KnownFrom(f, g, a)
<1> SUFFICES ASSUME NEW a \in Places(f) PROVE Fragments(f, a) <=> KnownFrom(f, g, a)
  OBVIOUS
<1>1. Len(f) \in Nat /\ Places(f) \subseteq Nat /\ Len(f) + 1 \in Places(f)
  BY DEF Places
<1>2. ASSUME RestOf(f, a) # <<>>, RestOf(f, a) \notin KeyFragments,
             Len(RestOf(f, a)) <= MaxFragment, NEW cuts \in SUBSET Places(f), a \in cuts, Cuts(f, cuts)
      PROVE  \E next \in (a + 1)..Len(f) : SubSeq(f, a, next - 1) \in KeyFragments /\ g[next]
  <2>1. a # Len(f) + 1
    BY <1>2, RestIs
  <2>2. PICK b \in cuts : b > a /\ SubSeq(f, a, b - 1) \in KeyFragments
    BY <1>2, <2>1 DEF Cuts
  <2>3. b \in Places(f)
    BY <1>2
  <2>4. b # Len(f) + 1
    <3>1. b = Len(f) + 1 => b - 1 = Len(f)
      BY <1>1
    <3> QED
      BY <1>2, <2>2, <3>1 DEF RestOf
  <2>5. b \in (a + 1)..Len(f)
    BY <1>1, <2>2, <2>3, <2>4 DEF Places
  <2>6. CutFrom(f, b)
    BY <1>2, <2>2 DEF CutFrom
  <2>7. Len(RestOf(f, b)) <= MaxFragment
    <3>1. Len(RestOf(f, b)) = Len(f) + 1 - b /\ Len(RestOf(f, a)) = Len(f) + 1 - a
      BY <2>3, RestIs
    <3>2. MaxFragment \in Nat
      BY MaskingAssumption
    <3> QED
      BY <1>1, <1>2, <2>2, <2>3, <3>1, <3>2
  <2>8. g[b]
    BY <2>3, <2>6, <2>7 DEF Fragments
  <2> QED
    BY <2>2, <2>5, <2>8
<1>3. ASSUME NEW next \in (a + 1)..Len(f), SubSeq(f, a, next - 1) \in KeyFragments, g[next]
      PROVE  CutFrom(f, a)
  <2>1. next \in Places(f) /\ next > a /\ next # Len(f) + 1
    BY <1>1 DEF Places
  <2>2. Fragments(f, next) /\ RestOf(f, next) # <<>>
    BY <1>3, <2>1, RestIs
  <2>3. PICK cuts \in SUBSET Places(f) : next \in cuts /\ Cuts(f, cuts)
    <3>1. CASE CutFrom(f, next)
      BY <3>1 DEF CutFrom
    <3>2. CASE RestOf(f, next) \in KeyFragments
      <4>1. PICK cuts : cuts = {next, Len(f) + 1}
        OBVIOUS
      <4>2. (Len(f) + 1) - 1 = Len(f) /\ Len(f) + 1 > next
        BY <1>1
      <4>3. SubSeq(f, next, (Len(f) + 1) - 1) \in KeyFragments
        BY <3>2, <4>2 DEF RestOf
      <4>4. Cuts(f, cuts)
        BY <4>1, <4>2, <4>3 DEF Cuts
      <4> QED
        BY <1>1, <2>1, <4>1, <4>4
    <3> QED
      BY <2>2, <3>1, <3>2 DEF Fragments
  <2>4. PICK all : all = cuts \cup {a}
    OBVIOUS
  <2>5. Cuts(f, all)
    BY <1>3, <2>1, <2>3, <2>4 DEF Cuts
  <2>6. all \in SUBSET Places(f) /\ a \in all
    BY <2>3, <2>4
  <2> QED
    BY <2>5, <2>6 DEF CutFrom
<1>4. Fragments(f, a) => KnownFrom(f, g, a)
  BY <1>2 DEF Fragments, KnownFrom, CutFrom
<1>5. KnownFrom(f, g, a) => Fragments(f, a)
  BY <1>3 DEF Fragments, KnownFrom
<1> QED
  BY <1>4, <1>5

\* What goes by the rest of the fragment is all that can be cut.
LEMMA CutsOnce ==
    ASSUME NEW f \in Seq(STRING), NEW g, Len(f) <= MaxFragment,
           \A a \in Places(f) : g[a] <=> KnownFrom(f, g, a),
           NEW cuts \in SUBSET Places(f), Cuts(f, cuts)
    PROVE  \A a \in cuts : g[a]
<1> DEFINE T == {k \in Nat : \A a \in cuts : Len(f) + 1 - a <= k => g[a]}
<1>1. Len(f) \in Nat /\ Places(f) \subseteq Nat /\ Len(f) + 1 \in Places(f) /\ MaxFragment \in Nat
  BY MaskingAssumption DEF Places
<1>2. \A a \in Places(f) : a = Len(f) + 1 => g[a]
  <2>1. \A a \in Places(f) : RestOf(f, a) = <<>> <=> a = Len(f) + 1
    BY RestIs
  <2> QED
    BY <2>1 DEF KnownFrom
<1>3. 0 \in T
  <2> SUFFICES ASSUME NEW a \in cuts, Len(f) + 1 - a <= 0 PROVE g[a]
    OBVIOUS
  <2>1. a \in Places(f) /\ a = Len(f) + 1
    BY <1>1 DEF Places
  <2> QED
    BY <1>2, <2>1
<1>4. ASSUME NEW k \in Nat, k \in T PROVE k + 1 \in T
  <2> SUFFICES ASSUME NEW a \in cuts, Len(f) + 1 - a <= k + 1 PROVE g[a]
    OBVIOUS
  <2>1. a \in Places(f)
    OBVIOUS
  <2>2. CASE a = Len(f) + 1
    BY <1>2, <2>1, <2>2
  <2>3. CASE a # Len(f) + 1
    <3>1. PICK b \in cuts : b > a /\ SubSeq(f, a, b - 1) \in KeyFragments
      BY <2>3 DEF Cuts
    <3>2. b \in Places(f)
      OBVIOUS
    <3>3. Len(f) + 1 - b <= k
      BY <1>1, <2>1, <3>1, <3>2
    <3>4. g[b]
      BY <1>4, <3>3
    <3>5. Len(RestOf(f, a)) <= MaxFragment
      <4>1. Len(RestOf(f, a)) = Len(f) + 1 - a /\ a >= 1
        BY <1>1, <2>1, RestIs DEF Places
      <4> QED
        BY <1>1, <2>1, <4>1
    <3>6. CASE b = Len(f) + 1
      <4>1. b - 1 = Len(f)
        BY <1>1, <3>6
      <4>2. RestOf(f, a) \in KeyFragments
        BY <3>1, <4>1 DEF RestOf
      <4> QED
        BY <2>1, <4>2 DEF KnownFrom
    <3>7. CASE b # Len(f) + 1
      <4>1. b \in (a + 1)..Len(f)
        BY <1>1, <2>1, <3>1, <3>2, <3>7 DEF Places
      <4> QED
        BY <2>1, <3>1, <3>4, <3>5, <4>1 DEF KnownFrom
    <3> QED
      BY <3>6, <3>7
  <2> QED
    BY <2>2, <2>3
<1>5. Nat \subseteq T
  <2> HIDE DEF T
  <2> QED
    BY <1>3, <1>4, SetInduction
<1>6. \A a \in cuts : Len(f) + 1 - a \in Nat
  BY <1>1 DEF Places
<1> QED
  BY <1>5, <1>6

LEMMA KnownFragments ==
    ASSUME NEW f \in Seq(STRING)
    PROVE  IsKnownFragment(f) <=> Cuttable(f)
<1> DEFINE Loops(g) == g = [a \in 1..(Len(f) + 1) |->
                \/ SubSeq(f, a, Len(f)) = <<>>
                \/ SubSeq(f, a, Len(f)) \in KeyFragments
                \/ /\ Len(SubSeq(f, a, Len(f))) <= MaxFragment
                   /\ \E next \in (a + 1)..Len(f) : SubSeq(f, a, next - 1) \in KeyFragments /\ g[next]]
<1>1. \A g : g = [a \in Places(f) |-> KnownFrom(f, g, a)] <=> Loops(g)
  BY Zenon DEF KnownFrom, RestOf, Places
<1>2. PICK g : g = [a \in Places(f) |-> Fragments(f, a)]
  OBVIOUS
<1>3. \A a \in Places(f) : KnownFrom(f, g, a) \in BOOLEAN /\ Fragments(f, a) \in BOOLEAN
  BY DEF KnownFrom, Fragments
<1>4. \A a \in Places(f) : g[a] <=> Fragments(f, a)
  BY <1>2, Zenon
<1>5. \A a \in Places(f) : g[a] <=> KnownFrom(f, g, a)
  BY <1>4, CutsGoOn
<1>6. \A a \in Places(f) : Fragments(f, a) = KnownFrom(f, g, a)
  BY <1>3, <1>4, <1>5, Zenon
<1>7. g = [a \in Places(f) |-> KnownFrom(f, g, a)]
  BY <1>2, <1>6, Zenon
<1>8. Loops(g)
  BY <1>1, <1>7, Zenon
<1>9. PICK h : h = CHOOSE k : Loops(k)
  OBVIOUS
<1>10. Loops(h)
  BY <1>8, <1>9, Zenon
<1>11. IsKnownFragment(f) <=> h[1]
  BY <1>9, Zenon DEF IsKnownFragment
<1>12. h = [a \in Places(f) |-> KnownFrom(f, h, a)]
  BY <1>1, <1>10, Zenon
<1> HIDE DEF Loops
<1>13. \A a \in Places(f) : h[a] <=> KnownFrom(f, h, a)
  BY <1>12, Zenon
<1>14. Len(f) \in Nat /\ 1 \in Places(f) /\ MaxFragment \in Nat /\ RestOf(f, 1) = f
  BY RestIs, MaskingAssumption DEF Places
<1>15. ASSUME Cuttable(f) PROVE h[1]
  <2>1. CASE f = <<>> \/ f \in KeyFragments
    BY <1>13, <1>14, <2>1 DEF KnownFrom
  <2>2. CASE Len(f) <= MaxFragment /\ CutFrom(f, 1)
    <3>1. PICK cuts \in SUBSET Places(f) : 1 \in cuts /\ Cuts(f, cuts)
      BY <2>2 DEF CutFrom
    <3> QED
      BY <1>13, <2>2, <3>1, CutsOnce
  <2> QED
    BY <1>15, <2>1, <2>2, Zenon DEF Cuttable, CutFrom, Cuts, Places
<1>16. ASSUME h[1], f # <<>>, f \notin KeyFragments PROVE Cuttable(f)
  <2>1. Len(f) <= MaxFragment
    BY <1>13, <1>14, <1>16 DEF KnownFrom
  <2>2. PICK cuts : cuts = {a \in Places(f) : h[a]}
    OBVIOUS
  <2>3. Cuts(f, cuts)
    <3> SUFFICES ASSUME NEW a \in cuts, a # Len(f) + 1
                 PROVE  \E b \in cuts : b > a /\ SubSeq(f, a, b - 1) \in KeyFragments
      BY DEF Cuts
    <3>1. a \in Places(f) /\ h[a] /\ KnownFrom(f, h, a) /\ RestOf(f, a) # <<>>
      BY <1>13, <2>2, RestIs
    <3>2. CASE RestOf(f, a) \in KeyFragments
      <4>1. PICK b : b = Len(f) + 1
        OBVIOUS
      <4>2. b \in Places(f) /\ b > a /\ b - 1 = Len(f)
        BY <1>14, <3>1, <4>1 DEF Places
      <4>3. h[b]
        BY <1>13, <4>1, <4>2, RestIs DEF KnownFrom
      <4> QED
        BY <2>2, <3>2, <4>2, <4>3 DEF RestOf
    <3>3. CASE \E next \in (a + 1)..Len(f) : SubSeq(f, a, next - 1) \in KeyFragments /\ h[next]
      <4>1. PICK next \in (a + 1)..Len(f) : SubSeq(f, a, next - 1) \in KeyFragments /\ h[next]
        BY <3>3
      <4>2. next \in Places(f) /\ next > a
        BY <1>14, <3>1 DEF Places
      <4> QED
        BY <2>2, <4>1, <4>2
    <3> QED
      BY <3>1, <3>2, <3>3 DEF KnownFrom
  <2>4. cuts \in SUBSET Places(f) /\ 1 \in cuts
    BY <1>14, <1>16, <2>2
  <2> QED
    BY <2>1, <2>3, <2>4, Zenon DEF Cuttable, Cuts, Places
<1>17. f = <<>> \/ f \in KeyFragments => Cuttable(f)
  BY DEF Cuttable
<1> QED
  BY <1>11, <1>15, <1>16, <1>17

-----------------------------------------------------------------------------
(* The words of a key.                                                     *)
\* The words of a key are parts of it, one behind the other.
PartOf(word, s, n) == \E a, b \in 1..n : a <= b /\ word = SubSeq(s, a, b)
EndsAt(word, s, n) == \E a \in 1..n : word = SubSeq(s, a, n)
WordsFit(ws, s, key, n) ==
    /\ ws \in Words
    /\ \A j \in 1..Len(ws) : PartOf(ws[j], s, n)
    /\ n # 0 /\ key[n] # Sep => ws # <<>> /\ EndsAt(ws[Len(ws)], s, n)

LEMMA SplitGoesOn ==
    ASSUME NEW key \in Keys, NEW begins, NEW s \in Seq(STRING), Len(s) = Len(key),
           \A i \in 1..Len(key) : s[i] = key[i].w,
           NEW m \in 1..Len(key), NEW ws, WordsFit(ws, s, key, m - 1)
    PROVE  WordsFit(WithToken(ws, key, m, begins), s, key, m)
<1>a. PICK n, w : n = m - 1 /\ w = key[m].w
  OBVIOUS
<1>1. /\ m \in 1..Len(key) /\ m \in Nat /\ m # 0 /\ Len(key) \in Nat /\ m - 1 = n
      /\ n \in Nat /\ m = n + 1 /\ w \in STRING /\ s[m] = w /\ key[m].w = w
      /\ WordsFit(ws, s, key, n)
  BY <1>a, KeyTokens
<1>2. ws \in Seq(Seq(STRING)) /\ Len(ws) \in Nat
  BY <1>1 DEF WordsFit, Words
<1>0. 1..n \subseteq 1..m /\ m \in 1..m /\ \A a \in 1..m : a <= m
  BY <1>1
<1>3. \A word : PartOf(word, s, n) => PartOf(word, s, m)
  BY <1>0, Zenon DEF PartOf
<1>4. \A word : EndsAt(word, s, m) => PartOf(word, s, m)
  BY <1>0, Zenon DEF PartOf, EndsAt
<1>5. CASE key[m] = Sep
  <2>1. WithToken(ws, key, m, begins) = ws
    BY <1>5, Zenon DEF WithToken
  <2> QED
    BY <1>1, <1>3, <1>5, <2>1 DEF WordsFit
<1>6. CASE key[m] # Sep /\ (ws = <<>> \/ key[m - 1] = Sep \/ m \in begins)
  <2>1. PICK new : new = Append(ws, <<w>>)
    OBVIOUS
  <2>2. WithToken(ws, key, m, begins) = new
    BY <1>1, <1>6, <2>1, Zenon DEF WithToken
  <2>3. <<w>> = SubSeq(s, m, m)
    <3>1. PICK t : t = SubSeq(s, m, m)
      OBVIOUS
    <3>2. m \in Int /\ 1 <= m /\ m <= Len(s) /\ m - m + 1 = 1 /\ m + 1 - 1 = m
      BY <1>1
    <3>3. t \in Seq(STRING) /\ Len(t) = 1 /\ t[1] = s[m]
      <4>1. /\ SubSeq(s, m, m) \in Seq(STRING)
            /\ Len(SubSeq(s, m, m)) = IF m <= m THEN m - m + 1 ELSE 0
            /\ \A i \in 1..(m - m + 1) : SubSeq(s, m, m)[i] = s[m + i - 1]
        BY <3>2, PartIs
      <4> QED
        BY <3>1, <3>2, <4>1
    <3> QED
      BY <1>1, <3>1, <3>3
  <2>4. EndsAt(<<w>>, s, m)
    BY <1>1, <2>3 DEF EndsAt
  <2>5. <<w>> \in Seq(STRING)
    BY <1>1
  <2>6. /\ new \in Seq(Seq(STRING)) /\ new # <<>> /\ Len(new) = Len(ws) + 1
        /\ new[Len(new)] = <<w>> /\ \A j \in 1..Len(ws) : new[j] = ws[j]
    <3>1. PICK x : x = <<w>>
      OBVIOUS
    <3>2. x \in Seq(STRING) /\ new = Append(ws, x)
      BY <2>1, <2>5, <3>1
    <3>3. /\ new \in Seq(Seq(STRING)) /\ Len(new) = Len(ws) + 1
          /\ \A j \in 1..Len(ws) : new[j] = ws[j] /\ new[Len(ws) + 1] = x
      BY <1>2, <3>2, AppendProperties
    <3>4. new # <<>> /\ new[Len(ws) + 1] = x
      BY <1>2, <3>2, AppendProperties
    <3> QED
      BY <3>1, <3>3, <3>4
  <2>7. \A j \in 1..Len(new) : j \in 1..Len(ws) \/ j = Len(new)
    BY <1>2, <2>6
  <2>8. \A j \in 1..Len(new) : PartOf(new[j], s, m)
    BY <1>1, <1>3, <1>4, <2>4, <2>6, <2>7 DEF WordsFit
  <2>9. EndsAt(new[Len(new)], s, m)
    BY <2>4, <2>6
  <2> QED
    BY <2>2, <2>6, <2>8, <2>9 DEF WordsFit, Words
<1>7. CASE key[m] # Sep /\ ~(ws = <<>> \/ key[m - 1] = Sep \/ m \in begins)
  <2>1. PICK last, k : k = Len(ws) /\ last = ws[k]
    OBVIOUS
  <2>2. PICK new : new = [ws EXCEPT ![Len(ws)] = Append(@, w)]
    OBVIOUS
  <2>3. WithToken(ws, key, m, begins) = new
    BY <1>1, <1>7, <2>2, Zenon DEF WithToken
  <2>4. k \in 1..Len(ws) /\ last \in Seq(STRING) /\ k = Len(ws)
    BY <1>2, <1>7, <2>1
  <2>5. n # 0 /\ EndsAt(last, s, n)
    <3>1. n = 0 => ws = <<>>
      <4>1. ASSUME n = 0 PROVE Len(ws) = 0
        <5>1. \A a : a \notin 1..n
          BY <4>1
        <5> QED
          BY <1>1, <2>4, <5>1 DEF WordsFit, PartOf
      <4> QED
        BY <1>2, <4>1
    <3> QED
      BY <1>1, <1>7, <2>1, <3>1 DEF WordsFit
  <2>6. PICK a \in 1..n : last = SubSeq(s, a, n)
    BY <2>5 DEF EndsAt
  <2>7. PICK longer : longer = Append(last, w)
    OBVIOUS
  <2>8. longer = SubSeq(s, a, m)
    <3>1. a \in 1..Len(s) /\ n \in Int /\ a \in Int /\ 1 <= a /\ n <= Len(s) /\ m <= Len(s) /\ a <= n
      BY <1>1
    <3>2. PICK t : t = SubSeq(s, a, m)
      OBVIOUS
    <3>3. /\ t \in Seq(STRING) /\ Len(t) = m - a + 1
          /\ \A i \in 1..(m - a + 1) : t[i] = s[a + i - 1]
      BY <1>1, <3>1, <3>2, PartIs
    <3>4. /\ Len(last) = n - a + 1
          /\ \A i \in 1..(n - a + 1) : last[i] = s[a + i - 1]
      BY <2>6, <3>1, PartIs
    <3>5. /\ longer \in Seq(STRING) /\ Len(longer) = Len(last) + 1 /\ longer[Len(last) + 1] = w
          /\ \A i \in 1..Len(last) : longer[i] = last[i]
      BY <1>1, <2>4, <2>7
    <3>6. Len(longer) = Len(t)
      BY <1>1, <3>1, <3>3, <3>4, <3>5
    <3>7. ASSUME NEW i \in 1..Len(t) PROVE longer[i] = t[i]
      <4>1. CASE i = m - a + 1
        <5>1. a + i - 1 = m /\ i = Len(last) + 1
          BY <1>1, <3>1, <3>4, <4>1
        <5> QED
          BY <1>1, <3>3, <3>5, <5>1
      <4>2. CASE i # m - a + 1
        <5>1. i \in 1..(n - a + 1) /\ i \in 1..Len(last) /\ i \in 1..(m - a + 1)
          BY <1>1, <3>1, <3>3, <3>4, <4>2
        <5> QED
          BY <3>3, <3>4, <3>5, <5>1
      <4> QED
        BY <4>1, <4>2
    <3>8. longer = t
      <4>1. longer \in Seq(STRING) /\ t \in Seq(STRING) /\ Len(longer) = Len(t)
            /\ \A i \in 1..Len(longer) : longer[i] = t[i]
        BY <3>3, <3>5, <3>6, <3>7
      <4> QED
        BY <4>1, SeqEqual
    <3> QED
      BY <3>2, <3>8
  <2>9. EndsAt(longer, s, m)
    BY <1>0, <2>8, Zenon DEF EndsAt
  <2>10. longer \in Seq(STRING)
    BY <1>1, <2>4, <2>7
  <2>11. new = [ws EXCEPT ![k] = longer]
    BY <2>1, <2>2, <2>7
  <2>12. /\ new \in Seq(Seq(STRING)) /\ Len(new) = Len(ws) /\ new # <<>> /\ new[k] = longer
         /\ \A j \in 1..Len(ws) : j # k => new[j] = ws[j]
    BY <1>2, <2>4, <2>10, <2>11
  <2>13. \A j \in 1..Len(new) : PartOf(new[j], s, m)
    BY <1>1, <1>3, <1>4, <2>9, <2>12 DEF WordsFit
  <2>14. EndsAt(new[Len(new)], s, m)
    BY <2>4, <2>9, <2>12
  <2> QED
    BY <2>3, <2>12, <2>13, <2>14 DEF WordsFit, Words
<1> QED
  BY <1>5, <1>6, <1>7

LEMMA WordsAreParts ==
    ASSUME NEW key \in Keys, NEW begins, NEW s \in Seq(STRING), Len(s) = Len(key),
           \A i \in 1..Len(key) : s[i] = key[i].w
    PROVE  /\ WordsBy(key, begins) \in Words
           /\ \A j \in DOMAIN WordsBy(key, begins) : PartOf(WordsBy(key, begins)[j], s, Len(s))
<1>1. PICK ws \in [0..Len(key) -> Words] :
         /\ ws[0] = <<>> /\ WordsBy(key, begins) = ws[Len(key)]
         /\ \A i \in 1..Len(key) : ws[i] = WithToken(ws[i - 1], key, i, begins)
  BY WordsSteps
<1>2. Len(key) \in Nat
  BY KeyTokens
<1> DEFINE T == {n \in Nat : n <= Len(key) => WordsFit(ws[n], s, key, n)}
<1>3. 0 \in T
  <2>1. ws[0] = <<>> /\ <<>> \in Words /\ Len(<<>>) = 0
    BY <1>1 DEF Words
  <2> QED
    BY <2>1 DEF WordsFit
<1>4. ASSUME NEW n \in Nat, n \in T PROVE n + 1 \in T
  <2> SUFFICES ASSUME n + 1 <= Len(key) PROVE WordsFit(ws[n + 1], s, key, n + 1)
    OBVIOUS
  <2>1. n + 1 \in 1..Len(key) /\ (n + 1) - 1 = n /\ n <= Len(key)
    BY <1>2
  <2>2. ws[n + 1] = WithToken(ws[n], key, n + 1, begins) /\ WordsFit(ws[n], s, key, n)
    BY <1>1, <1>4, <2>1
  <2> QED
    BY <2>2, SplitGoesOn
<1>5. Len(key) \in T
  <2> HIDE DEF T
  <2> QED
    BY <1>2, <1>3, <1>4, SetInduction
<1>6. PICK all : all = WordsBy(key, begins)
  OBVIOUS
<1>7. WordsFit(all, s, key, Len(s))
  BY <1>1, <1>2, <1>5, <1>6
<1>8. all \in Words /\ \A j \in 1..Len(all) : PartOf(all[j], s, Len(s))
  BY <1>7 DEF WordsFit
<1>9. DOMAIN all = 1..Len(all)
  BY <1>8 DEF Words
<1> QED
  BY <1>6, <1>8, <1>9

-----------------------------------------------------------------------------
(* The type of a key.                                                      *)
LEMMA PiecesAre ==
    ASSUME NEW key \in Keys
    PROVE  /\ Pieces(key) \in Keys /\ Len(Pieces(key)) = Len(key)
           /\ LowerKey(key) \in Seq(STRING) /\ Len(LowerKey(key)) = Len(Pieces(key))
           /\ \A i \in 1..Len(Pieces(key)) : LowerKey(key)[i] = Pieces(key)[i].w
<1>1. Len(key) \in Nat /\ DOMAIN key = 1..Len(key) /\ \A i \in 1..Len(key) : key[i] \in Tokens
  BY KeyTokens
<1>2. PICK p : p = Pieces(key)
  OBVIOUS
<1>3. \A t \in Tokens : [t EXCEPT !.w = "?"] \in Tokens
  <2>1. "?" \in STRING
    BY LiteralsAssumption
  <2> QED
    BY <2>1 DEF Tokens
<1>4. p = [i \in 1..Len(key) |-> IF key[i].as = "spelt" THEN [key[i] EXCEPT !.w = "?"] ELSE key[i]]
  BY <1>1, <1>2, Zenon DEF Pieces
<1>5. \A i \in 1..Len(key) :
        (IF key[i].as = "spelt" THEN [key[i] EXCEPT !.w = "?"] ELSE key[i]) \in Tokens
  BY <1>1, <1>3, Zenon
<1>6. p \in [1..Len(key) -> Tokens]
  BY <1>4, <1>5
<1>7. p \in Keys /\ Len(p) = Len(key)
  BY <1>1, <1>6 DEF Keys
<1>8. PICK s : s = LowerKey(key)
  OBVIOUS
<1>9. s = [i \in 1..Len(key) |-> p[i].w]
  BY <1>1, <1>2, <1>8 DEF LowerKey
<1>10. \A i \in 1..Len(key) : p[i].w \in STRING
  BY <1>7, KeyTokens
<1>11. s \in Seq(STRING) /\ Len(s) = Len(key) /\ \A i \in 1..Len(key) : s[i] = p[i].w
  BY <1>1, <1>9, <1>10
<1> QED
  BY <1>2, <1>7, <1>8, <1>11

LEMMA SplitWordsAre ==
    ASSUME NEW key \in Keys
    PROVE  /\ SplitKeyIntoWords(key) \in Words
           /\ \A j \in DOMAIN SplitKeyIntoWords(key) :
                PartOf(SplitKeyIntoWords(key)[j], LowerKey(key), Len(LowerKey(key)))
<1>1. PICK p, s, begins : /\ p = Pieces(key) /\ s = LowerKey(key)
                          /\ begins = {i \in 2..Len(key) : key[i - 1].as # "UP" /\ key[i].as \in {"Cap", "UP"}}
  OBVIOUS
<1>2. p \in Keys /\ s \in Seq(STRING) /\ Len(s) = Len(p) /\ \A i \in 1..Len(p) : s[i] = p[i].w
  BY <1>1, PiecesAre
<1>3. /\ WordsBy(p, begins) \in Words
      /\ \A j \in DOMAIN WordsBy(p, begins) : PartOf(WordsBy(p, begins)[j], s, Len(s))
  BY <1>2, WordsAreParts
<1>4. SplitKeyIntoWords(key) = WordsBy(p, begins)
  BY <1>1, Zenon DEF SplitKeyIntoWords
<1> QED
  BY <1>1, <1>3, <1>4, Zenon

LEMMA KeywordsAre == \A k \in Keywords : k \in Seq(STRING) /\ Len(k) \in Nat /\ Len(k) >= 1
<1>1. \A k \in Keywords : k \in Seq(STRING) /\ k # <<>>
  BY FragmentsAssumption DEF KeyFragments
<1>2. ASSUME NEW k \in Keywords PROVE k \in Seq(STRING) /\ Len(k) \in Nat /\ Len(k) >= 1
  BY <1>1
<1> QED
  BY <1>2

\* What a part of a key includes the key does.
LEMMA PartIncludes ==
    ASSUME NEW s \in Seq(STRING), NEW word, PartOf(word, s, Len(s)), NEW k \in Keywords,
           NEW i \in 0..(Len(word) - Len(k)), SubSeq(word, i + 1, i + Len(k)) = k
    PROVE  Includes(s, k)
<1>1. PICK a, b \in 1..Len(s) : a <= b /\ word = SubSeq(s, a, b)
  BY DEF PartOf
<1>2. k \in Seq(STRING) /\ Len(k) \in Nat /\ Len(k) >= 1
  BY KeywordsAre
<1>3. /\ a \in Int /\ b \in Int /\ 1 <= a /\ b <= Len(s) /\ Len(s) \in Nat /\ a <= b
  BY <1>1
<1>4. word \in Seq(STRING) /\ Len(word) = b - a + 1
  BY <1>1, <1>3, PartIs
<1>5. i + 1 \in 1..(b - a + 1) /\ i + Len(k) \in 1..(b - a + 1) /\ i \in Nat
  BY <1>2, <1>3, <1>4
<1>6. SubSeq(SubSeq(s, a, b), i + 1, i + Len(k)) = SubSeq(s, a + (i + 1) - 1, a + (i + Len(k)) - 1)
  BY <1>1, <1>5, SubSeqOfSubSeq
<1>7. PICK j : j = a + i - 1
  OBVIOUS
<1>8. /\ j \in 0..(Len(s) - Len(k)) /\ a + (i + 1) - 1 = j + 1 /\ a + (i + Len(k)) - 1 = j + Len(k)
  BY <1>2, <1>3, <1>5, <1>7
<1>9. SubSeq(s, j + 1, j + Len(k)) = k
  BY <1>1, <1>6, <1>8
<1> QED
  BY <1>8, <1>9 DEF Includes

LEMMA FragmentsFit ==
    ASSUME NEW word \in Seq(STRING), NEW k \in Keywords
    PROVE  HasKeywordFragment(word, k) <=>
              \E j \in 0..(Len(word) - Len(k)) :
                    /\ SubSeq(word, j + 1, j + Len(k)) = k
                    /\ Cuttable(SubSeq(word, 1, j))
                    /\ Cuttable(SubSeq(word, j + Len(k) + 1, Len(word)))
<1>1. Len(k) \in Nat /\ Len(k) >= 1 /\ Len(word) \in Nat
  BY KeywordsAre
<1>2. ASSUME NEW j \in 0..(Len(word) - Len(k))
      PROVE  /\ IsKnownFragment(SubSeq(word, 1, j)) <=> Cuttable(SubSeq(word, 1, j))
             /\ IsKnownFragment(SubSeq(word, j + Len(k) + 1, Len(word)))
                    <=> Cuttable(SubSeq(word, j + Len(k) + 1, Len(word)))
  <2>1. /\ j \in Int /\ j <= Len(word) /\ 1 \in Int /\ 1 <= 1
        /\ j + Len(k) + 1 \in Int /\ 1 <= j + Len(k) + 1 /\ Len(word) \in Int /\ Len(word) <= Len(word)
    BY <1>1
  <2>2. SubSeq(word, 1, j) \in Seq(STRING)
    BY <2>1, PartIs
  <2>3. SubSeq(word, j + Len(k) + 1, Len(word)) \in Seq(STRING)
    BY <2>1, PartIs
  <2> QED
    BY <2>2, <2>3, KnownFragments
<1> QED
  BY <1>2, Zenon DEF HasKeywordFragment

\* A key shows a keyword as classifyKey() finds it, and includes it then.
LEMMA NamesAre ==
    ASSUME NEW key \in Keys, NEW k \in Keywords
    PROVE  /\ Names(key, k) <=> (IF k \in ShortKeywords
                                 THEN \E i \in DOMAIN SplitKeyIntoWords(key) :
                                        HasKeywordFragment(SplitKeyIntoWords(key)[i], k)
                                 ELSE Includes(LowerKey(key), k))
           /\ Names(key, k) => Includes(LowerKey(key), k)
<1>1. PICK ws, s : ws = SplitKeyIntoWords(key) /\ s = LowerKey(key)
  OBVIOUS
<1>2. ws \in Words /\ s \in Seq(STRING) /\ \A j \in DOMAIN ws : PartOf(ws[j], s, Len(s))
  BY <1>1, PiecesAre, SplitWordsAre
<1>3. \A j \in DOMAIN ws : ws[j] \in Seq(STRING)
  BY <1>2 DEF Words
<1>4. Names(key, k) <=> IF k \notin ShortKeywords THEN Includes(s, k)
                        ELSE \E i \in DOMAIN ws : HasKeywordFragment(ws[i], k)
  <2>1. \A i \in DOMAIN ws : HasKeywordFragment(ws[i], k) <=>
              \E j \in 0..(Len(ws[i]) - Len(k)) :
                    /\ SubSeq(ws[i], j + 1, j + Len(k)) = k
                    /\ Cuttable(SubSeq(ws[i], 1, j))
                    /\ Cuttable(SubSeq(ws[i], j + Len(k) + 1, Len(ws[i])))
    BY <1>3, FragmentsFit
  <2> QED
    BY <1>1, <2>1, Zenon DEF Names
<1>5. ASSUME NEW i \in DOMAIN ws, HasKeywordFragment(ws[i], k) PROVE Includes(s, k)
  <2>1. PICK j \in 0..(Len(ws[i]) - Len(k)) : SubSeq(ws[i], j + 1, j + Len(k)) = k
    BY <1>5 DEF HasKeywordFragment
  <2>2. PartOf(ws[i], s, Len(s))
    BY <1>2
  <2> QED
    BY <1>2, <2>1, <2>2, PartIncludes
<1> QED
  BY <1>1, <1>4, <1>5, Zenon

\* classifyKey() gives a key the type that its words show.
LEMMA KeyHasType ==
    ASSUME NEW key \in Keys
    PROVE  ClassifyKey(key) = TypeOfKey(key) /\ TypeOfKey(key) \in Types
<1>1. /\ CardKeywords \subseteq Keywords /\ RedactKeywords \subseteq Keywords
      /\ PartialKeywords \subseteq Keywords
  BY DEF Keywords
<1>2. \A K : K \subseteq Keywords => (MatchesKeywords(K, key) <=> \E k \in K : Names(key, k))
  BY NamesAre DEF MatchesKeywords
<1>3. \A k \in Keywords : Names(key, k) => Includes(LowerKey(key), k)
  BY NamesAre
<1> DEFINE C == \E k \in CardKeywords : Names(key, k)
           R == \E k \in RedactKeywords : Names(key, k)
           P == \E k \in PartialKeywords : Names(key, k)
           A == \E k \in Keywords : Includes(LowerKey(key), k)
<1>4. C \/ R \/ P => A
  BY <1>1, <1>3
<1>5. ClassifyKey(key) = IF ~A THEN "none" ELSE IF C THEN "card" ELSE IF R THEN "redact"
                         ELSE IF P THEN "partial" ELSE "none"
  BY <1>1, <1>2 DEF ClassifyKey
<1>6. (\E k \in CardKeywords \cup RedactKeywords : Names(key, k)) <=> C \/ R
  OBVIOUS
<1>7. TypeOfKey(key) = CASE C -> "card" [] ~C /\ R -> "redact" [] ~(C \/ R) /\ P -> "partial"
                         [] OTHER -> "none"
  BY <1>6 DEF TypeOfKey
<1> HIDE DEF A, C, R, P
<1>8. TypeOfKey(key) = IF C THEN "card" ELSE IF R THEN "redact" ELSE IF P THEN "partial" ELSE "none"
  BY <1>7
<1>9. ClassifyKey(key) = TypeOfKey(key)
  BY <1>4, <1>5, <1>8
<1> QED
  BY <1>8, <1>9 DEF Types

-----------------------------------------------------------------------------
(* The digits of a value.                                                  *)
\* One pass over the characters of a value.
PanState == [ok : BOOLEAN, digits : Nat, sum : Nat, alternate : BOOLEAN]
PanStart == [ok |-> TRUE, digits |-> 0, sum |-> 0, alternate |-> FALSE]

LEMMA TextIsText ==
    ASSUME NEW text \in Seq(Nat)
    PROVE  /\ Len(text) \in Nat /\ DOMAIN text = 1..Len(text)
           /\ \A i \in 1..Len(text) : text[i] \in Nat
  OBVIOUS

LEMMA PanStepIs == \A s \in PanState, c \in Nat : PanStep(s, c) \in PanState
<1> SUFFICES ASSUME NEW s \in PanState, NEW c \in Nat PROVE PanStep(s, c) \in PanState
  OBVIOUS
<1>1. /\ s.ok \in BOOLEAN /\ s.digits \in Nat /\ s.sum \in Nat /\ s.alternate \in BOOLEAN
      /\ PanMax \in Nat
  BY MaskingAssumption DEF PanState
<1>2. CASE ~s.ok \/ c = Separator
  BY <1>2 DEF PanStep
<1>3. CASE ~(~s.ok \/ c = Separator) /\ c > 9
  BY <1>3 DEF PanStep, PanState
<1>4. CASE ~(~s.ok \/ c = Separator) /\ ~(c > 9)
  <2>1. PICK w : w = IF s.alternate THEN IF 2 * c > 9 THEN 2 * c - 9 ELSE 2 * c ELSE c
    OBVIOUS
  <2>2. w \in Nat
    BY <2>1
  <2>3. PanStep(s, c) = [ok |-> s.digits < PanMax, digits |-> s.digits + 1, sum |-> s.sum + w,
                         alternate |-> ~s.alternate]
    BY <1>4, <2>1, Zenon DEF PanStep
  <2> QED
    BY <1>1, <2>2, <2>3 DEF PanState
<1> QED
  BY <1>2, <1>3, <1>4

LEMMA PanSteps ==
    ASSUME NEW text \in Seq(Nat)
    PROVE  \E a \in [0..Len(text) -> PanState] :
              /\ a[0] = PanStart /\ PanPass(text) = a[Len(text)]
              /\ \A i \in 1..Len(text) : a[i] = PanStep(a[i - 1], text[Len(text) + 1 - i])
<1> DEFINE n == Len(text)
           Loops(g) == g = [i \in 0..Len(text) |->
                IF i = 0 THEN [ok |-> TRUE, digits |-> 0, sum |-> 0, alternate |-> FALSE]
                ELSE PanStep(g[i - 1], text[Len(text) + 1 - i])]
<1>1. n \in Nat /\ \A i \in 1..n : text[n + 1 - i] \in Nat
  <2>1. \A i \in 1..n : n + 1 - i \in 1..n
    OBVIOUS
  <2> QED
    BY <2>1, TextIsText
<1>2. PICK step : step = [i \in 1..n |-> [s \in PanState |-> PanStep(s, text[n + 1 - i])]]
  OBVIOUS
<1>3. step \in [1..n -> [PanState -> PanState]]
  BY <1>1, <1>2, PanStepIs
<1>4. PanStart \in PanState
  BY DEF PanStart, PanState
<1>5. PICK f \in [0..n -> PanState] : Goes(f, n, PanState, PanStart, step)
  BY <1>1, <1>3, <1>4, Iterates
<1>6. \A i \in 0..n : f[i] \in PanState
  BY <1>1
<1>7. \A i \in 1..n : i - 1 \in 0..n /\ i # 0
  BY <1>1
<1>8. \A i \in 1..n : f[i] = PanStep(f[i - 1], text[n + 1 - i])
  BY <1>2, <1>5, <1>6, <1>7 DEF Goes
<1>9. f[0] = PanStart
  BY <1>5 DEF Goes
<1>10. Loops(f)
  <2>1. \A i \in 0..n : i = 0 \/ i \in 1..n
    BY <1>1
  <2>2. \A i \in 0..n : f[i] = IF i = 0 THEN PanStart ELSE PanStep(f[i - 1], text[n + 1 - i])
    BY <1>8, <1>9, <2>1
  <2>3. f = [i \in 0..n |-> IF i = 0 THEN PanStart ELSE PanStep(f[i - 1], text[n + 1 - i])]
    BY <2>2
  <2> QED
    BY <2>3, Zenon DEF PanStart
<1>11. PICK g : g = CHOOSE h : Loops(h)
  OBVIOUS
<1>12. Loops(g)
  BY <1>10, <1>11, Zenon
<1>13. g = [i \in 0..n |-> IF i = 0 THEN PanStart ELSE PanStep(g[i - 1], text[n + 1 - i])]
  BY <1>12, Zenon DEF PanStart
<1>14. PanPass(text) = g[n]
  BY <1>11 DEF PanPass
<1> HIDE DEF Loops
<1>15. g[0] = PanStart /\ \A i \in 1..n : g[i] = PanStep(g[i - 1], text[n + 1 - i])
  BY <1>1, <1>7, <1>13
<1>16. Goes(g, n, PanState, PanStart, step)
  BY <1>2, <1>15 DEF Goes
<1>17. \A i \in 0..n : g[i] \in PanState
  BY <1>1, <1>3, <1>4, <1>16, IteratesOnce
<1>18. g \in [0..n -> PanState]
  <2>1. DOMAIN g = 0..n /\ g = [i \in 0..n |-> g[i]]
    BY <1>13
  <2> QED
    BY <1>17, <2>1
<1> QED
  BY <1>14, <1>15, <1>18, Zenon

\* The digits behind a place.
LEMMA DigitsCount ==
    ASSUME NEW text \in Seq(Nat)
    PROVE  /\ DigitsAfter(text, Len(text)) = 0
           /\ \A k \in 0..Len(text) : DigitsAfter(text, k) \in Nat
           /\ \A k \in 1..Len(text) : DigitsAfter(text, k - 1) =
                    DigitsAfter(text, k) + (IF text[k] <= 9 THEN 1 ELSE 0)
           /\ \A k \in 0..Len(text) : DigitsAfter(text, k) <= Len(text) - k
<1> DEFINE n == Len(text)
           Places9(k) == {j \in (k + 1)..n : text[j] <= 9}
<1>1. n \in Nat /\ \A i \in 1..n : text[i] \in Nat
  BY TextIsText
<1>2. ASSUME NEW k \in 0..n
      PROVE  /\ IsFiniteSet(Places9(k)) /\ Cardinality(Places9(k)) \in Nat
             /\ Cardinality(Places9(k)) <= n - k
  <2>1. IsFiniteSet((k + 1)..n) /\ Cardinality((k + 1)..n) = IF k + 1 > n THEN 0 ELSE n - (k + 1) + 1
    <3>1. k + 1 \in Int /\ n \in Int
      BY <1>1
    <3> HIDE DEF n
    <3> QED
      BY <3>1, FS_Interval
  <2>2. Places9(k) \subseteq (k + 1)..n
    OBVIOUS
  <2>3. IsFiniteSet(Places9(k)) /\ Cardinality(Places9(k)) <= Cardinality((k + 1)..n)
    BY <2>1, <2>2, FS_Subset
  <2>4. Cardinality(Places9(k)) \in Nat
    BY <2>3, FS_CardinalityType
  <2> HIDE DEF Places9
  <2> QED
    BY <1>1, <2>1, <2>3, <2>4
<1>3. Places9(n) = {}
  BY <1>1
<1>4. Cardinality(Places9(n)) = 0
  BY <1>3, FS_EmptySet
<1>5. ASSUME NEW k \in 1..n
      PROVE  Cardinality(Places9(k - 1)) = Cardinality(Places9(k)) + (IF text[k] <= 9 THEN 1 ELSE 0)
  <2>1. k \in 0..n /\ k - 1 \in 0..n /\ (k - 1) + 1 = k
    BY <1>1
  <2>2. \A j : j \in k..n <=> j = k \/ j \in (k + 1)..n
    BY <1>1
  <2>3. CASE text[k] <= 9
    <3>1. Places9(k - 1) = Places9(k) \cup {k} /\ k \notin Places9(k)
      BY <1>1, <2>1, <2>2, <2>3
    <3>2. IsFiniteSet(Places9(k)) /\ Cardinality(Places9(k)) \in Nat
      BY <1>2, <2>1
    <3> HIDE DEF Places9
    <3>3. Cardinality(Places9(k) \cup {k}) = Cardinality(Places9(k)) + 1
      BY <3>1, <3>2, FS_AddElement
    <3> QED
      BY <2>3, <3>1, <3>3
  <2>4. CASE ~(text[k] <= 9)
    <3>1. Places9(k - 1) = Places9(k)
      BY <1>1, <2>1, <2>2, <2>4
    <3>2. Cardinality(Places9(k)) \in Nat
      BY <1>2, <2>1
    <3> HIDE DEF Places9
    <3> QED
      BY <2>4, <3>1, <3>2
  <2> QED
    BY <2>3, <2>4
<1>6. \A k : DigitsAfter(text, k) = Cardinality(Places9(k))
  BY DEF DigitsAfter
<1> HIDE DEF Places9
<1> QED
  BY <1>1, <1>2, <1>4, <1>5, <1>6

-----------------------------------------------------------------------------
(* Card numbers.                                                           *)
\* A doubled digit less 9 is the sum of its own two digits.
LEMMA DoubledDigit ==
    ASSUME NEW c \in 0..9
    PROVE  /\ (IF 2 * c > 9 THEN 2 * c - 9 ELSE 2 * c) = ((2 * c) \div 10) + ((2 * c) % 10)
           /\ ((2 * c) \div 10) + ((2 * c) % 10) \in Nat
<1>1. PICK x \in 0..18 : x = 2 * c
  OBVIOUS
<1>2. (IF x > 9 THEN x - 9 ELSE x) = (x \div 10) + (x % 10) /\ (x \div 10) + (x % 10) \in Nat
  OBVIOUS
<1> QED
  BY <1>1, <1>2

LEMMA NextIsOdd ==
    ASSUME NEW d \in Nat
    PROVE  d % 2 # 0 <=> ~((d + 1) % 2 # 0)
  OBVIOUS

LEMMA WeightIs ==
    ASSUME NEW text \in Seq(Nat), NEW i \in 1..Len(text)
    PROVE  Weight(text, i) \in Nat
<1>1. text[i] \in Nat /\ i \in 0..Len(text)
  BY TextIsText
<1>2. DigitsAfter(text, i) \in Nat
  BY <1>1, DigitsCount
<1>3. CASE text[i] > 9
  BY <1>3 DEF Weight
<1>4. CASE ~(text[i] > 9)
  <2>1. PICK c : c = text[i]
    OBVIOUS
  <2>2. c \in 0..9
    <3>1. c \in Nat /\ ~(c > 9)
      BY <1>1, <1>4, <2>1, Zenon
    <3> QED
      BY <3>1
  <2>3. ((2 * c) \div 10) + ((2 * c) % 10) \in Nat
    BY <2>2, DoubledDigit
  <2> QED
    BY <1>4, <2>1, <2>2, <2>3 DEF Weight
<1> QED
  BY <1>3, <1>4

LEMMA LuhnSteps ==
    ASSUME NEW text \in Seq(Nat)
    PROVE  \E sum \in [0..Len(text) -> Nat] :
              /\ sum[0] = 0 /\ Luhn(text) = sum[Len(text)]
              /\ \A i \in 1..Len(text) : sum[i] = sum[i - 1] + Weight(text, i)
<1> DEFINE n == Len(text)
           Loops(g) == g = [i \in 0..Len(text) |-> IF i = 0 THEN 0 ELSE g[i - 1] + Weight(text, i)]
<1>1. n \in Nat /\ \A i \in 1..n : Weight(text, i) \in Nat
  BY TextIsText, WeightIs
<1>2. PICK step : step = [i \in 1..n |-> [s \in Nat |-> s + Weight(text, i)]]
  OBVIOUS
<1>3. step \in [1..n -> [Nat -> Nat]]
  <2>1. \A i \in 1..n, s \in Nat : s + Weight(text, i) \in Nat
    BY <1>1
  <2> QED
    BY <1>2, <2>1
<1>5. PICK f \in [0..n -> Nat] : Goes(f, n, Nat, 0, step)
  BY <1>1, <1>3, Iterates
<1>6. \A i \in 0..n : f[i] \in Nat
  BY <1>1
<1>7. \A i \in 1..n : i - 1 \in 0..n /\ i # 0
  BY <1>1
<1>8. \A i \in 1..n : f[i] = f[i - 1] + Weight(text, i)
  BY <1>2, <1>5, <1>6, <1>7 DEF Goes
<1>9. f[0] = 0
  BY <1>5 DEF Goes
<1>10. Loops(f)
  <2>1. \A i \in 0..n : i = 0 \/ i \in 1..n
    BY <1>1
  <2>2. \A i \in 0..n : f[i] = IF i = 0 THEN 0 ELSE f[i - 1] + Weight(text, i)
    BY <1>8, <1>9, <2>1
  <2> QED
    BY <2>2
<1>11. PICK g : g = CHOOSE h : Loops(h)
  OBVIOUS
<1>12. Loops(g)
  BY <1>10, <1>11
<1>13. g[0] = 0 /\ \A i \in 1..n : g[i] = g[i - 1] + Weight(text, i)
  BY <1>1, <1>7, <1>12
<1>14. Goes(g, n, Nat, 0, step)
  BY <1>2, <1>13 DEF Goes
<1>15. \A i \in 0..n : g[i] \in Nat
  BY <1>1, <1>3, <1>14, IteratesOnce
<1>16. g \in [0..n -> Nat]
  <2>1. DOMAIN g = 0..n /\ g = [i \in 0..n |-> g[i]]
    BY <1>12
  <2> HIDE DEF Loops
  <2> QED
    BY <1>15, <2>1
<1>17. Luhn(text) = g[n]
  BY <1>11 DEF Luhn
<1> QED
  BY <1>13, <1>16, <1>17, Zenon

\* What the pass knows when it has read the characters behind a place.
PanFits(s, text, sum, k) ==
    /\ s.ok <=> /\ \A j \in (k + 1)..Len(text) : text[j] <= Separator
                /\ DigitsAfter(text, k) <= PanMax
    /\ s.ok => /\ s.digits = DigitsAfter(text, k)
               /\ s.alternate <=> DigitsAfter(text, k) % 2 # 0
               /\ s.sum = sum[Len(text)] - sum[k]

LEMMA PassGoesOn ==
    ASSUME NEW text \in Seq(Nat), NEW sum \in [0..Len(text) -> Nat],
           \A i \in 1..Len(text) : sum[i] = sum[i - 1] + Weight(text, i),
           NEW k \in 1..Len(text), NEW s \in PanState, PanFits(s, text, sum, k)
    PROVE  PanFits(PanStep(s, text[k]), text, sum, k - 1)
<1>1. PICK n, c, d, e, t : /\ n = Len(text) /\ c = text[k] /\ t = PanStep(s, c)
                           /\ d = DigitsAfter(text, k) /\ e = DigitsAfter(text, k - 1)
  OBVIOUS
<1>2. /\ n \in Nat /\ k \in Nat /\ k >= 1 /\ k <= n /\ c \in Nat /\ PanMax \in Nat
      /\ k - 1 \in 0..n /\ k \in 0..n /\ (k - 1) + 1 = k
  BY <1>1, TextIsText, MaskingAssumption
<1>3. /\ d \in Nat /\ e \in Nat /\ e = d + (IF c <= 9 THEN 1 ELSE 0)
  BY <1>1, <1>2, DigitsCount
<1>4. /\ sum[n] \in Nat /\ sum[k] \in Nat /\ sum[k - 1] \in Nat
      /\ sum[k] = sum[k - 1] + Weight(text, k)
  <2>1. k \in 1..Len(text) /\ sum \in [0..n -> Nat]
    BY <1>1, Zenon
  <2>2. n \in 0..n
    BY <1>2
  <2> QED
    BY <1>2, <2>1, <2>2
<1>5. (\A j \in k..n : text[j] <= Separator) <=> (c <= Separator /\ \A j \in (k + 1)..n : text[j] <= Separator)
  <2>1. \A j : j \in k..n <=> j = k \/ j \in (k + 1)..n
    BY <1>2
  <2> QED
    BY <1>1, <2>1
<1>6. s.ok \in BOOLEAN /\ s.digits \in Nat /\ s.sum \in Nat /\ s.alternate \in BOOLEAN
  BY DEF PanState
<1> DEFINE Behind == \A j \in (k + 1)..n : text[j] <= Separator
<1>7. /\ s.ok <=> Behind /\ d <= PanMax
      /\ s.ok => s.digits = d /\ (s.alternate <=> d % 2 # 0) /\ s.sum = sum[n] - sum[k]
  BY <1>1 DEF PanFits
<1>8. SUFFICES /\ t.ok <=> c <= Separator /\ Behind /\ e <= PanMax
               /\ t.ok => t.digits = e /\ (t.alternate <=> e % 2 # 0) /\ t.sum = sum[n] - sum[k - 1]
  BY <1>1, <1>2, <1>5 DEF PanFits
<1> HIDE DEF Behind
<1>9. Separator = 10
  BY DEF Separator
<1>10. CASE ~s.ok
  <2>1. t = s
    BY <1>1, <1>10, Zenon DEF PanStep
  <2>2. d > PanMax => e > PanMax
    BY <1>2, <1>3
  <2> QED
    BY <1>2, <1>3, <1>7, <1>10, <2>1, <2>2
<1>11. CASE s.ok /\ c = Separator
  <2>1. t = s
    BY <1>1, <1>11, Zenon DEF PanStep
  <2>2. Weight(text, k) = 0 /\ e = d
    BY <1>1, <1>3, <1>9, <1>11 DEF Weight
  <2>3. sum[k - 1] = sum[k]
    BY <1>4, <2>2
  <2> QED
    BY <1>7, <1>9, <1>11, <2>1, <2>2, <2>3
<1>12. CASE s.ok /\ c # Separator /\ c > 9
  <2>1. t = [s EXCEPT !.ok = FALSE]
    BY <1>1, <1>12, Zenon DEF PanStep
  <2>2. ~t.ok
    BY <2>1 DEF PanState
  <2>3. ~(c <= Separator)
    BY <1>2, <1>9, <1>12
  <2> QED
    BY <2>2, <2>3
<1>13. CASE s.ok /\ c # Separator /\ ~(c > 9)
  <2>1. PICK w : w = IF s.alternate THEN IF 2 * c > 9 THEN 2 * c - 9 ELSE 2 * c ELSE c
    OBVIOUS
  <2>2. t = [ok |-> s.digits < PanMax, digits |-> s.digits + 1, sum |-> s.sum + w,
             alternate |-> ~s.alternate]
    BY <1>1, <1>13, <2>1, Zenon DEF PanStep
  <2>3. c \in 0..9 /\ e = d + 1 /\ c <= Separator
    BY <1>2, <1>3, <1>9, <1>13
  <2>4. w = Weight(text, k)
    <3>1. Weight(text, k) = IF d % 2 = 0 THEN c ELSE ((2 * c) \div 10) + ((2 * c) % 10)
      BY <1>1, <1>13, Zenon DEF Weight
    <3>2. (IF 2 * c > 9 THEN 2 * c - 9 ELSE 2 * c) = ((2 * c) \div 10) + ((2 * c) % 10)
      BY <2>3, DoubledDigit
    <3> QED
      BY <1>7, <1>13, <2>1, <3>1, <3>2, Zenon
  <2>5. w \in Nat
    BY <2>1, <2>3
  <2>6. d % 2 # 0 <=> ~(e % 2 # 0)
    BY <1>3, <2>3, NextIsOdd
  <2>7. t.sum = sum[n] - sum[k - 1]
    <3>1. t.sum = s.sum + w /\ s.sum = sum[n] - sum[k]
      BY <1>7, <1>13, <2>2
    <3> QED
      BY <1>4, <2>4, <2>5, <3>1
  <2>8. t.digits = e /\ (t.alternate <=> e % 2 # 0)
    BY <1>7, <1>13, <2>2, <2>3, <2>6
  <2>9. t.ok <=> e <= PanMax
    <3>1. t.ok = (d < PanMax)
      BY <1>7, <1>13, <2>2
    <3>2. d < PanMax <=> e <= PanMax
      BY <1>2, <1>3, <2>3
    <3> QED
      BY <3>1, <3>2
  <2> QED
    BY <1>7, <1>13, <2>3, <2>7, <2>8, <2>9
<1> QED
  BY <1>10, <1>11, <1>12, <1>13

\* Luhn's check in one pass finds the card numbers.
PassFinds(p, text, d, sum) ==
    /\ p.ok <=> (\A j \in 1..Len(text) : text[j] <= Separator) /\ d <= PanMax
    /\ p.ok => p.digits = d /\ p.sum = sum

LEMMA PassIsLuhn ==
    ASSUME NEW text \in Seq(Nat)
    PROVE  Luhn(text) \in Nat /\ PassFinds(PanPass(text), text, DigitsAfter(text, 0), Luhn(text))
<1>1. PICK n : n = Len(text)
  OBVIOUS
<1>2. PICK sum \in [0..n -> Nat] :
        sum[0] = 0 /\ Luhn(text) = sum[n] /\ \A i \in 1..n : sum[i] = sum[i - 1] + Weight(text, i)
  BY <1>1, LuhnSteps
<1>3. PICK a \in [0..n -> PanState] :
        /\ a[0] = PanStart /\ PanPass(text) = a[n]
        /\ \A i \in 1..n : a[i] = PanStep(a[i - 1], text[n + 1 - i])
  BY <1>1, PanSteps
<1>4. n \in Nat
  BY <1>1, TextIsText
<1> DEFINE T == {i \in Nat : i <= n => PanFits(a[i], text, sum, n - i)}
<1>5. 0 \in T
  <2>1. /\ PanStart.ok = TRUE /\ PanStart.digits = 0 /\ PanStart.alternate = FALSE
        /\ PanStart.sum = 0
    BY DEF PanStart
  <2>2. n - 0 = n /\ \A j : j \notin (n + 1)..n
    BY <1>4
  <2>3. DigitsAfter(text, n) = 0 /\ PanMax \in Nat /\ sum[n] \in Nat
    <3>1. DigitsAfter(text, Len(text)) = 0
      BY DigitsCount
    <3>2. n \in 0..n
      BY <1>4
    <3>3. sum[n] \in Nat
      BY <1>2, <3>2
    <3> QED
      BY <1>1, <3>1, <3>3, MaskingAssumption
  <2>4. 0 % 2 = 0 /\ 0 <= PanMax /\ sum[n] - sum[n] = 0
    BY <2>3
  <2>5. PanFits(a[0], text, sum, n)
    BY <1>1, <1>3, <2>1, <2>2, <2>3, <2>4 DEF PanFits
  <2> QED
    BY <2>2, <2>5
<1>6. ASSUME NEW i \in Nat, i \in T PROVE i + 1 \in T
  <2> SUFFICES ASSUME i + 1 <= n PROVE PanFits(a[i + 1], text, sum, n - (i + 1))
    OBVIOUS
  <2>1. PICK k : k = n - i
    OBVIOUS
  <2>2. /\ k \in 1..n /\ k - 1 = n - (i + 1) /\ i + 1 \in 1..n /\ (i + 1) - 1 = i
        /\ n + 1 - (i + 1) = k /\ i \in 0..n
    BY <1>4, <2>1
  <2>3. a[i + 1] = PanStep(a[i], text[k]) /\ PanFits(a[i], text, sum, k) /\ a[i] \in PanState
    <3>1. a[i + 1] = PanStep(a[i], text[k])
      <4>1. a[i + 1] = PanStep(a[(i + 1) - 1], text[n + 1 - (i + 1)])
        BY <1>3, <2>2
      <4> QED
        BY <2>2, <4>1
    <3>2. PanFits(a[i], text, sum, k)
      BY <1>6, <2>1, <2>2
    <3> QED
      BY <1>3, <2>2, <3>1, <3>2
  <2>4. PanFits(PanStep(a[i], text[k]), text, sum, k - 1)
    BY <1>1, <1>2, <2>2, <2>3, PassGoesOn
  <2> QED
    BY <2>2, <2>3, <2>4
<1>7. n \in T
  <2> HIDE DEF T
  <2> QED
    BY <1>4, <1>5, <1>6, SetInduction
<1>8. n - n = 0 /\ n \in 0..n /\ 0 + 1 = 1
  BY <1>4
<1>9. PanFits(a[n], text, sum, 0)
  BY <1>4, <1>7, <1>8
<1>10. sum[n] - sum[0] = sum[n] /\ sum[n] \in Nat
  BY <1>2, <1>8
<1> QED
  BY <1>1, <1>2, <1>3, <1>8, <1>9, <1>10 DEF PanFits, PassFinds

LEMMA CardsAreFound ==
    ASSUME NEW v \in Scalars
    PROVE  IsPAN(v) <=> LooksLikePAN(v)
<1>1. CASE ~IsMaskable(v)
  BY <1>1 DEF IsPAN, LooksLikePAN
<1>2. CASE IsMaskable(v)
  <2>1. v.v.text \in Seq(Nat)
    BY <1>2 DEF IsMaskable, Scalars, NoValue
  <2>2. PICK text, p, n, d : /\ text = v.v.text /\ p = PanPass(text) /\ n = Len(text)
                             /\ d = DigitsAfter(text, 0)
    OBVIOUS
  <2>3. text \in Seq(Nat)
    BY <2>1, <2>2
  <2>4. n \in Nat /\ DOMAIN text = 1..n /\ PanMin \in Nat /\ PanMax \in Nat
    BY <2>2, <2>3, TextIsText, MaskingAssumption
  <2>5. d \in Nat /\ d <= n
    <3>1. 0 \in 0..Len(text)
      BY <2>2, <2>4
    <3>2. DigitsAfter(text, 0) \in Nat /\ DigitsAfter(text, 0) <= Len(text) - 0
      BY <2>3, <3>1, DigitsCount
    <3> QED
      BY <2>2, <2>4, <3>2
  <2>6. PICK sum : sum = Luhn(text)
    OBVIOUS
  <2>a. sum \in Nat /\ PassFinds(p, text, d, sum)
    BY <2>2, <2>3, <2>6, PassIsLuhn
  <2> DEFINE Plain9 == \A j \in 1..n : text[j] <= Separator
  <2>7. IsPAN(v) <=> /\ n \in PanMin..(2 * PanMax) /\ p.ok /\ p.digits >= PanMin /\ p.sum % 10 = 0
    BY <1>2, <2>2, Zenon DEF IsPAN
  <2>8. LooksLikePAN(v) <=> /\ Plain9 /\ n <= 2 * PanMax /\ d \in PanMin..PanMax /\ sum % 10 = 0
    BY <1>2, <2>2, <2>4, <2>6, Zenon DEF LooksLikePAN
  <2> HIDE DEF Plain9
  <2>9. p.ok <=> Plain9 /\ d <= PanMax
    BY <2>2, <2>a, Zenon DEF Plain9, PassFinds
  <2>10. ASSUME p.ok PROVE IsPAN(v) <=> LooksLikePAN(v)
    <3>1. p.digits = d /\ p.sum = sum /\ Plain9 /\ d <= PanMax
      BY <2>a, <2>9, <2>10 DEF PassFinds
    <3>2. p.digits >= PanMin <=> d >= PanMin
      BY <3>1
    <3>3. n \in PanMin..(2 * PanMax) /\ d >= PanMin <=> n <= 2 * PanMax /\ d \in PanMin..PanMax
      BY <2>4, <2>5, <3>1
    <3>4. p.sum % 10 = 0 <=> sum % 10 = 0
      BY <3>1
    <3> QED
      BY <2>7, <2>8, <2>10, <3>1, <3>2, <3>3, <3>4, Zenon
  <2>11. ASSUME ~p.ok PROVE IsPAN(v) <=> LooksLikePAN(v)
    <3>1. ~(Plain9 /\ d <= PanMax)
      BY <2>9, <2>11
    <3> QED
      BY <2>4, <2>5, <2>7, <2>8, <2>11, <3>1
  <2> QED
    BY <2>10, <2>11
<1> QED
  BY <1>1, <1>2

-----------------------------------------------------------------------------
(* The leaves of a payload.                                                *)
\* The leaves of one level.
ArrayStep == [into |-> "array", key |-> <<>>]
KeyStep(k) == [into |-> "object", key |-> k]
LeavesLevel(x, path, below) ==
    IF x.is = "array"
    THEN FlattenSeq([i \in DOMAIN x.items |-> below[x.items[i]][Append(path, ArrayStep)]])
    ELSE IF x.is = "object"
    THEN FlattenSeq([i \in DOMAIN x.entries |->
            below[x.entries[i].val][Append(path, KeyStep(x.entries[i].key))]])
    ELSE <<[path |-> path, leaf |-> x]>>
LeavesBy(by) ==
    \A n \in Levels : by[n] = [x \in Payload[n] |->
        [path \in Seq(PathSteps) |-> LeavesLevel(x, path, by[n - 1])]]

LEMMA LeavesLevels == \E by : LeavesBy(by) /\ \A v : Leaves(v) = by[Deepest][v][<<>>]
<1> DEFINE Body(n, f) == [x \in Payload[n] |->
                            [path \in Seq(PathSteps) |-> LeavesLevel(x, path, f[n - 1])]]
           Loops(f, m) == f = [n \in 0..m |-> Body(n, f)]
           Exist == {m \in Nat : \E f : Loops(f, m)}
<1>0. \A f, g : Body(0, f) = Body(0, g)
  <2>1. Payload[0] = Scalars
    BY PayloadLevels DEF Payload
  <2>2. \A x \in Scalars : \A path, below :
            LeavesLevel(x, path, below) = <<[path |-> path, leaf |-> x]>>
    BY IsScalar DEF LeavesLevel
  <2>3. \A f : Body(0, f) = [x \in Scalars |->
                                [path \in Seq(PathSteps) |-> <<[path |-> path, leaf |-> x]>>]]
    BY <2>1, <2>2
  <2> QED
    BY <2>3
<1>1. 0 \in Exist
  <2>1. PICK f : f = [n \in 0..0 |-> Body(0, <<>>)]
    OBVIOUS
  <2>2. Loops(f, 0)
    <3>1. Body(0, <<>>) = Body(0, f)
      BY <1>0
    <3>2. f = [n \in 0..0 |-> Body(0, f)]
      BY <2>1, <3>1, Zenon
    <3>3. \A n \in 0..0 : n = 0
      OBVIOUS
    <3> HIDE DEF Body
    <3> QED
      BY <3>2, <3>3
  <2> QED
    BY <2>2
<1>2. ASSUME NEW m \in Nat, m \in Exist PROVE m + 1 \in Exist
  <2>1. PICK f : Loops(f, m)
    BY <1>2
  <2>2. PICK h : h = [n \in 0..(m + 1) |-> Body(n, f)]
    OBVIOUS
  <2>3. \A n \in 0..m : h[n] = f[n]
    <3> HIDE DEF Body
    <3> QED
      BY <2>1, <2>2
  <2>4. \A n \in 0..(m + 1) : Body(n, f) = Body(n, h)
    <3> SUFFICES ASSUME NEW n \in 0..(m + 1) PROVE Body(n, f) = Body(n, h)
      OBVIOUS
    <3>1. CASE n = 0
      <4> HIDE DEF Body
      <4> QED
        BY <1>0, <3>1
    <3>2. CASE n # 0
      <4>1. n - 1 \in 0..m
        BY <3>2
      <4>2. h[n - 1] = f[n - 1]
        BY <2>3, <4>1
      <4> QED
        BY <4>2, Zenon
    <3> QED
      BY <3>1, <3>2
  <2>5. Loops(h, m + 1)
    <3> HIDE DEF Body
    <3> QED
      BY <2>2, <2>4
  <2> QED
    BY <2>5
<1>3. Deepest \in Exist
  <2> HIDE DEF Exist
  <2> QED
    BY <1>1, <1>2, SetInduction, SomeLevels
<1>4. PICK f : f = CHOOSE g : Loops(g, Deepest)
  OBVIOUS
<1>5. Loops(f, Deepest)
  BY <1>3, <1>4
<1>6. \A v : Leaves(v) = f[Deepest][v][<<>>]
  BY <1>4 DEF Leaves, Levels, LeavesLevel, ArrayStep, KeyStep
<1>7. \A n \in Levels : f[n] = Body(n, f)
  <2> HIDE DEF Body
  <2> QED
    BY <1>5 DEF Levels
<1>8. LeavesBy(f)
  BY <1>7, Zenon DEF LeavesBy
<1> QED
  BY <1>6, <1>8

LEMMA LeavesStep ==
    ASSUME NEW by, LeavesBy(by)
    PROVE  \A m, n \in Levels : m <= n => \A v \in Payload[m] : \A path \in Seq(PathSteps) :
              by[n][v][path] = LeavesLevel(v, path, by[n - 1])
<1> SUFFICES ASSUME NEW m \in Levels, NEW n \in Levels, m <= n, NEW v \in Payload[m],
                    NEW path \in Seq(PathSteps)
             PROVE  by[n][v][path] = LeavesLevel(v, path, by[n - 1])
  OBVIOUS
<1>1. v \in Payload[n]
  BY MorePayloads DEF Payload
<1>2. by[n] = [x \in Payload[n] |-> [p \in Seq(PathSteps) |-> LeavesLevel(x, p, by[n - 1])]]
  BY Zenon DEF LeavesBy
<1> QED
  BY <1>1, <1>2

LEMMA LeafOfScalar == \A x \in Scalars : \A path, below :
                        LeavesLevel(x, path, below) = <<[path |-> path, leaf |-> x]>>
  BY IsScalar DEF LeavesLevel

LEMMA PathsAre ==
    /\ ArrayStep \in PathSteps /\ <<>> \in Seq(PathSteps)
    /\ \A k \in Keys : KeyStep(k) \in PathSteps
    /\ \A path \in Seq(PathSteps) : \A st \in PathSteps : Append(path, st) \in Seq(PathSteps)
<1>1. <<>> \in Keys
  BY DEF Keys
<1>2. ArrayStep \in PathSteps
  BY <1>1 DEF ArrayStep, PathSteps
<1>3. \A k \in Keys : KeyStep(k) \in PathSteps
  BY DEF KeyStep, PathSteps
<1>4. \A S : \A path \in Seq(S) : \A st \in S : Append(path, st) \in Seq(S)
  BY AppendProperties
<1> QED
  BY <1>2, <1>3, <1>4, NoElement

LeafOf == [path : Seq(PathSteps), leaf : Scalars]

LEMMA LeavesTypes ==
    ASSUME NEW by, LeavesBy(by)
    PROVE  \A m, n \in Levels : m <= n => \A v \in Payload[m] : \A path \in Seq(PathSteps) :
              by[n][v][path] \in Seq(LeafOf)
<1> DEFINE Good(n, v) == \A path \in Seq(PathSteps) : by[n][v][path] \in Seq(LeafOf)
           T == {m \in Nat : \A n \in Levels : m <= n => \A v \in Payload[m] : Good(n, v)}
<1>1. \A m, n \in Levels : m <= n => \A v \in Payload[m] : v \in Scalars => Good(n, v)
  <2> SUFFICES ASSUME NEW m \in Levels, NEW n \in Levels, NEW v \in Payload[m], m <= n,
                      v \in Scalars, NEW path \in Seq(PathSteps)
               PROVE  by[n][v][path] \in Seq(LeafOf)
    OBVIOUS
  <2>1. by[n][v][path] = LeavesLevel(v, path, by[n - 1])
    BY LeavesStep
  <2>2. by[n][v][path] = <<[path |-> path, leaf |-> v]>>
    BY <2>1, LeafOfScalar
  <2>3. [path |-> path, leaf |-> v] \in LeafOf
    BY DEF LeafOf
  <2> QED
    BY <2>2, <2>3, OneElement
<1>2. 0 \in T
  <2>1. Payload[0] = Scalars
    BY PayloadLevels DEF Payload
  <2> HIDE DEF Good
  <2> QED
    BY <1>1, <2>1, SomeLevels
<1>3. ASSUME NEW m \in Nat, m \in T PROVE m + 1 \in T
  <2> SUFFICES ASSUME NEW n \in Levels, m + 1 <= n, NEW v \in Payload[m + 1] PROVE Good(n, v)
    <3> HIDE DEF Good
    <3> QED
      OBVIOUS
  <2>1. /\ n \in Nat /\ n # 0 /\ m + 1 \in Levels /\ m + 1 # 0 /\ (m + 1) - 1 = m
        /\ n - 1 \in Levels /\ m <= n - 1 /\ m \in Levels
    BY SomeLevels
  <2>2. PICK below, V : below = by[n - 1] /\ V = Payload[m]
    OBVIOUS
  <2>3. \A x \in V : \A path \in Seq(PathSteps) : below[x][path] \in Seq(LeafOf)
    BY <1>3, <2>1, <2>2
  <2>4. \A path \in Seq(PathSteps) : by[n][v][path] = LeavesLevel(v, path, below)
    BY <2>1, <2>2, LeavesStep
  <2>5. v \in Scalars \/ IsArrayOf(v, V) \/ IsObjectOf(v, Keys, V)
    BY <2>1, <2>2, FromLevel DEF Payload
  <2>6. CASE v \in Scalars
    BY <1>1, <2>1, <2>6
  <2>7. CASE IsArrayOf(v, V)
    <3>1. v.is = "array" /\ v.items \in Seq(V)
      BY <2>7, Zenon DEF IsArrayOf
    <3>2. PICK items : items = v.items
      OBVIOUS
    <3>3. DOMAIN items = 1..Len(items) /\ Len(items) \in Nat /\ \A i \in 1..Len(items) : items[i] \in V
      BY <3>1, <3>2
    <3>4. ASSUME NEW path \in Seq(PathSteps) PROVE by[n][v][path] \in Seq(LeafOf)
      <4>1. PICK q : q = Append(path, ArrayStep)
        OBVIOUS
      <4>2. q \in Seq(PathSteps)
        BY <4>1, PathsAre
      <4>3. PICK ss : ss = [i \in DOMAIN items |-> below[items[i]][q]]
        OBVIOUS
      <4>4. \A i \in 1..Len(items) : below[items[i]][q] \in Seq(LeafOf)
        BY <2>3, <3>3, <4>2
      <4>5. ss \in Seq(Seq(LeafOf))
        BY <3>3, <4>3, <4>4
      <4>6. by[n][v][path] = FlattenSeq(ss)
        BY <2>4, <3>1, <3>2, <4>1, <4>3, Zenon DEF LeavesLevel
      <4> QED
        BY <4>5, <4>6, FlattenType
    <3> QED
      BY <3>4
  <2>8. CASE IsObjectOf(v, Keys, V)
    <3>1. v.is = "object" /\ v.entries \in Seq(Pairs(Keys, V))
      BY <2>8, Zenon DEF IsObjectOf, Pairs
    <3>2. PICK es, P : es = v.entries /\ P = Pairs(Keys, V)
      OBVIOUS
    <3>3. DOMAIN es = 1..Len(es) /\ Len(es) \in Nat /\ \A i \in 1..Len(es) : es[i] \in P
      BY <3>1, <3>2
    <3>4. \A i \in 1..Len(es) : es[i].key \in Keys /\ es[i].val \in V
      BY <3>2, <3>3 DEF Pairs
    <3>5. ASSUME NEW path \in Seq(PathSteps) PROVE by[n][v][path] \in Seq(LeafOf)
      <4>1. \A i \in 1..Len(es) : Append(path, KeyStep(es[i].key)) \in Seq(PathSteps)
        BY <3>4, PathsAre
      <4>2. PICK ss : ss = [i \in DOMAIN es |-> below[es[i].val][Append(path, KeyStep(es[i].key))]]
        OBVIOUS
      <4>3. \A i \in 1..Len(es) : below[es[i].val][Append(path, KeyStep(es[i].key))] \in Seq(LeafOf)
        BY <2>3, <3>4, <4>1, Zenon
      <4>4. ss \in Seq(Seq(LeafOf))
        BY <3>3, <4>2, <4>3
      <4>5. by[n][v][path] = FlattenSeq(ss)
        BY <2>4, <3>1, <3>2, <4>2, Zenon DEF LeavesLevel
      <4> QED
        BY <4>4, <4>5, FlattenType
    <3> QED
      BY <3>5
  <2> QED
    BY <2>5, <2>6, <2>7, <2>8
<1>4. Nat \subseteq T
  <2> HIDE DEF T
  <2> QED
    BY <1>2, <1>3, SetInduction
<1> QED
  BY <1>4, SomeLevels

-----------------------------------------------------------------------------
(* The leaves of a log, and the types on their paths.                      *)
\* What a log shows of some leaves.
MaskedLeaf(l) == [path |-> l.path, leaf |-> Shown(l)]
MaskedLeaves(s) == [i \in DOMAIN s |-> MaskedLeaf(s[i])]
MaskedOf(S) == {MaskedLeaf(l) : l \in S}

LEMMA MaskedIs ==
    ASSUME NEW S, NEW s \in Seq(S)
    PROVE  MaskedLeaves(s) \in Seq(MaskedOf(S)) /\ Len(MaskedLeaves(s)) = Len(s)
<1>1. PICK n \in Nat : n = Len(s)
  OBVIOUS
<1>2. DOMAIN s = 1..n /\ \A i \in 1..n : s[i] \in S
  BY <1>1
<1>3. \A i \in 1..n : MaskedLeaf(s[i]) \in MaskedOf(S)
  BY <1>2, Zenon DEF MaskedOf
<1>4. MaskedLeaves(s) = [i \in 1..n |-> MaskedLeaf(s[i])]
  BY <1>2, Zenon DEF MaskedLeaves
<1>5. ASSUME NEW T, NEW f, f = [i \in 1..n |-> MaskedLeaf(s[i])],
             \A i \in 1..n : MaskedLeaf(s[i]) \in T
      PROVE  f \in Seq(T) /\ Len(f) = n
  BY <1>5
<1> QED
  BY <1>1, <1>3, <1>4, <1>5

LEMMA MaskedJoin ==
    ASSUME NEW S, NEW a \in Seq(S), NEW b \in Seq(S)
    PROVE  MaskedLeaves(a \o b) = MaskedLeaves(a) \o MaskedLeaves(b)
<1>1. PICK c, T, p, q : c = a \o b /\ T = MaskedOf(S) /\ p = MaskedLeaves(a) /\ q = MaskedLeaves(b)
  OBVIOUS
<1>2. PICK m \in Nat, n \in Nat : m = Len(a) /\ n = Len(b)
  OBVIOUS
<1>3. /\ c \in Seq(S) /\ Len(c) = m + n
      /\ \A i \in 1..m : c[i] = a[i]
      /\ \A i \in 1..n : c[m + i] = b[i]
  BY <1>1, <1>2
<1>4. /\ p \in Seq(T) /\ Len(p) = m /\ q \in Seq(T) /\ Len(q) = n
      /\ MaskedLeaves(c) \in Seq(T) /\ Len(MaskedLeaves(c)) = m + n
  BY <1>1, <1>2, <1>3, MaskedIs
<1>5. PICK r : r = MaskedLeaves(c)
  OBVIOUS
<1>6. /\ \A i \in 1..m : p[i] = MaskedLeaf(a[i])
      /\ \A i \in 1..n : q[i] = MaskedLeaf(b[i])
      /\ \A i \in 1..(m + n) : r[i] = MaskedLeaf(c[i])
  <2>1. DOMAIN a = 1..m /\ DOMAIN b = 1..n /\ DOMAIN c = 1..(m + n)
    BY <1>2, <1>3
  <2> QED
    BY <1>1, <1>5, <2>1, Zenon DEF MaskedLeaves
<1>7. \A i \in 1..(m + n) : r[i] = (p \o q)[i]
  <2> SUFFICES ASSUME NEW i \in 1..(m + n) PROVE r[i] = (p \o q)[i]
    OBVIOUS
  <2>1. r[i] = MaskedLeaf(c[i])
    BY <1>6
  <2>2. CASE i \in 1..m
    <3>1. (p \o q)[i] = p[i]
      BY <1>4, <2>2
    <3> QED
      BY <1>3, <1>6, <2>1, <2>2, <3>1
  <2>3. CASE i \notin 1..m
    <3>1. i - m \in 1..n /\ m + (i - m) = i
      BY <2>3
    <3>2. (p \o q)[i] = q[i - m]
      BY <1>4, <2>3, <3>1
    <3>3. c[i] = b[i - m]
      BY <1>3, <3>1
    <3>4. q[i - m] = MaskedLeaf(b[i - m])
      BY <1>6, <3>1
    <3> QED
      BY <2>1, <3>2, <3>3, <3>4
  <2> QED
    BY <2>2, <2>3
<1>8. r \in Seq(T) /\ (p \o q) \in Seq(T) /\ Len(r) = Len(p \o q) /\ Len(r) = m + n
  BY <1>4, <1>5
<1>9. r = p \o q
  BY <1>7, <1>8, SeqEqual
<1> QED
  BY <1>1, <1>5, <1>9

\* Masking what several parts hold is masking it part by part.
LEMMA MaskedFlatten ==
    ASSUME NEW S, NEW ss \in Seq(Seq(S)), NEW tt, tt = [i \in DOMAIN ss |-> MaskedLeaves(ss[i])]
    PROVE  FlattenSeq(tt) = MaskedLeaves(FlattenSeq(ss))
<1>0. PICK T : T = MaskedOf(S)
  OBVIOUS
<1>1. PICK n \in Nat : n = Len(ss)
  OBVIOUS
<1>2. DOMAIN ss = 1..n /\ \A i \in 1..n : ss[i] \in Seq(S)
  BY <1>1
<1>3. \A i \in 1..n : MaskedLeaves(ss[i]) \in Seq(T)
  BY <1>0, <1>2, MaskedIs
<1>4. tt \in Seq(Seq(T)) /\ Len(tt) = n /\ \A i \in 1..n : tt[i] = MaskedLeaves(ss[i])
  BY <1>2, <1>3
<1>5. PICK f \in [0..Len(ss) -> Seq(S)] :
              /\ f[0] = <<>> /\ FlattenSeq(ss) = f[Len(ss)]
              /\ \A i \in 1..Len(ss) : f[i] = f[i - 1] \o ss[i]
  BY FlattenSteps
<1>10. tt \in Seq(Seq(T))
  BY <1>4
<1>6. PICK g \in [0..Len(tt) -> Seq(T)] :
              /\ g[0] = <<>> /\ FlattenSeq(tt) = g[Len(tt)]
              /\ \A i \in 1..Len(tt) : g[i] = g[i - 1] \o tt[i]
  BY ONLY <1>10, FlattenSteps
<1> DEFINE A == {i \in Nat : i <= n => g[i] = MaskedLeaves(f[i])}
<1>7. 0 \in A
  <2>1. MaskedLeaves(<<>>) = <<>>
    BY DEF MaskedLeaves
  <2> QED
    BY <1>5, <1>6, <2>1
<1>8. ASSUME NEW m \in Nat, m \in A PROVE m + 1 \in A
  <2> SUFFICES ASSUME m + 1 <= n PROVE g[m + 1] = MaskedLeaves(f[m + 1])
    OBVIOUS
  <2>1. m <= n /\ m + 1 \in 1..n /\ (m + 1) - 1 = m /\ m \in 0..n
    OBVIOUS
  <2>2. g[m] = MaskedLeaves(f[m])
    BY <1>8, <2>1
  <2>3. f[m + 1] = f[m] \o ss[m + 1] /\ f[m] \in Seq(S)
    BY <1>1, <1>5, <2>1
  <2>4. g[m + 1] = g[m] \o MaskedLeaves(ss[m + 1])
    BY <1>4, <1>6, <2>1
  <2>5. MaskedLeaves(f[m] \o ss[m + 1]) = MaskedLeaves(f[m]) \o MaskedLeaves(ss[m + 1])
    BY <1>2, <2>1, <2>3, MaskedJoin
  <2> QED
    BY <2>2, <2>3, <2>4, <2>5, Zenon
<1>9. n \in A
  <2> HIDE DEF A
  <2> QED
    BY <1>7, <1>8, SetInduction
<1> QED
  BY <1>1, <1>4, <1>5, <1>6, <1>9

LEMMA MaskedSingle ==
    ASSUME NEW x, NEW l, x = <<l>> PROVE MaskedLeaves(x) = <<MaskedLeaf(l)>>
BY DEF MaskedLeaves

LEMMA MaskedCopyIs ==
    ASSUME NEW masked, NEW v, Leaves(masked) = MaskedLeaves(Leaves(v))
    PROVE  IsMaskedCopy(masked, v)
<1>1. PICK leaves : leaves = Leaves(v)
  OBVIOUS
<1>2. \A l : MaskedLeaf(l) = [path |-> l.path, leaf |-> Shown(l)]
  BY Zenon DEF MaskedLeaf
<1>3. MaskedLeaves(leaves) = [i \in DOMAIN leaves |-> MaskedLeaf(leaves[i])]
  BY Zenon DEF MaskedLeaves
<1>4. MaskedLeaves(leaves) = [i \in DOMAIN leaves |->
            [path |-> leaves[i].path, leaf |-> Shown(leaves[i])]]
  BY <1>2, <1>3
<1> QED
  BY <1>1, <1>4, Zenon DEF IsMaskedCopy
-----------------------------------------------------------------------------
\* The type of a step of a path, and of the last step that has one.
StepType(st) == IF st.into = "array" THEN "none" ELSE TypeOfKey(st.key)

LEMMA StepTypes ==
    /\ StepType(ArrayStep) = "none"
    /\ \A k \in Keys : StepType(KeyStep(k)) = TypeOfKey(k)
    /\ \A st \in PathSteps : StepType(st) \in Types
    /\ "none" \in Types
<1>1. StepType(ArrayStep) = "none"
  BY DEF StepType, ArrayStep
<1>2. \A k \in Keys : StepType(KeyStep(k)) = TypeOfKey(k)
  BY DEF StepType, KeyStep
<1>3. "none" \in Types
  BY DEF Types
<1>4. \A st \in PathSteps : st.key \in Keys
  BY DEF PathSteps
<1>5. \A st \in PathSteps : StepType(st) \in Types
  BY <1>3, <1>4, KeyHasType DEF StepType
<1> QED
  BY <1>1, <1>2, <1>3, <1>5

LEMMA TypeAtIs == \A path, i : TypeAt(path, i) = StepType(path[i])
BY Zenon DEF TypeAt, StepType

LEMMA PathEnds ==
    ASSUME NEW S, NEW path \in Seq(S), NEW st \in S, NEW q, q = Append(path, st)
    PROVE  /\ q \in Seq(S) /\ Len(q) = Len(path) + 1 /\ q[Len(q)] = st /\ Front(q) = path
           /\ DOMAIN q = 1..(Len(path) + 1) /\ DOMAIN path = 1..Len(path) /\ Len(path) \in Nat
           /\ \A i \in 1..Len(path) : q[i] = path[i]
<1>1. PICK n \in Nat : n = Len(path)
  OBVIOUS
<1>2. /\ q \in Seq(S) /\ Len(q) = n + 1 /\ q[n + 1] = st /\ \A i \in 1..n : q[i] = path[i]
      /\ DOMAIN q = 1..(n + 1) /\ DOMAIN path = 1..n
  BY <1>1
<1>3. Front(q) = SubSeq(q, 1, n)
  BY <1>2 DEF Front
<1>4. SubSeq(q, 1, n) \in Seq(S) /\ Len(SubSeq(q, 1, n)) = n
      /\ \A i \in 1..n : SubSeq(q, 1, n)[i] = path[i]
  BY <1>2
<1>5. PICK z : z = SubSeq(q, 1, n)
  OBVIOUS
<1>6. z = path
  BY <1>1, <1>4, <1>5, SeqEqual
<1> QED
  BY <1>1, <1>2, <1>3, <1>5, <1>6

LEMMA MaxOfSome ==
    ASSUME NEW n \in Nat, NEW S, S \subseteq 1..n, S # {}
    PROVE  Max(S) \in S
<1> DEFINE A == {m \in Nat : \A R : R \subseteq 1..m /\ R # {} => \E i \in R : \A j \in R : j <= i}
<1>1. 0 \in A
  <2>1. 1..0 = {}
    OBVIOUS
  <2> QED
    BY <2>1
<1>2. ASSUME NEW m \in Nat, m \in A PROVE m + 1 \in A
  <2> SUFFICES ASSUME NEW R, R \subseteq 1..(m + 1), R # {}
               PROVE  \E i \in R : \A j \in R : j <= i
    OBVIOUS
  <2>1. CASE m + 1 \in R
    <3>1. \A j \in R : j <= m + 1
      OBVIOUS
    <3> QED
      BY <2>1, <3>1
  <2>2. CASE m + 1 \notin R
    <3>1. R \subseteq 1..m
      BY <2>2
    <3> QED
      BY <1>2, <3>1
  <2> QED
    BY <2>1, <2>2
<1>3. n \in A
  <2> HIDE DEF A
  <2> QED
    BY <1>1, <1>2, SetInduction
<1>4. PICK i \in S : \A j \in S : j <= i
  BY <1>3
<1>5. S \subseteq Nat
  OBVIOUS
<1>6. Max(S) = i
  BY <1>4, <1>5, MaxIs
<1> QED
  BY <1>4, <1>6

LEMMA NoTypeAround == TypeAround(<<>>) = "none"
<1>1. PICK e : e = <<>>
  OBVIOUS
<1>2. DOMAIN e = {}
  BY <1>1
<1>3. {i \in DOMAIN e : TypeAt(e, i) # "none"} = {}
  BY <1>2, Zenon
<1>4. TypeAround(e) = "none"
  BY <1>3, Zenon DEF TypeAround
<1> QED
  BY <1>1, <1>4

LEMMA TypesAround ==
    ASSUME NEW path \in Seq(PathSteps), NEW st \in PathSteps, NEW q, q = Append(path, st)
    PROVE  TypeAround(q) = IF StepType(st) # "none" THEN StepType(st) ELSE TypeAround(path)
<1> DEFINE Typed(p) == {i \in DOMAIN p : TypeAt(p, i) # "none"}
<1>1. PICK n \in Nat : n = Len(path)
  OBVIOUS
<1>2. /\ q \in Seq(PathSteps) /\ Len(q) = n + 1 /\ q[n + 1] = st
      /\ DOMAIN q = 1..(n + 1) /\ DOMAIN path = 1..n
      /\ \A i \in 1..n : q[i] = path[i]
  BY <1>1, PathEnds
<1>3. \A i \in 1..n : TypeAt(q, i) = TypeAt(path, i)
  BY <1>2, TypeAtIs
<1>4. TypeAt(q, n + 1) = StepType(st)
  BY <1>2, TypeAtIs
<1>5. CASE StepType(st) # "none"
  <2>1. PICK S : S = Typed(q)
    OBVIOUS
  <2>2. n + 1 \in S /\ S \subseteq 1..(n + 1)
    BY <1>2, <1>4, <1>5, <2>1
  <2>3. S \subseteq Nat /\ \A j \in S : j <= n + 1
    BY <2>2
  <2>4. Max(S) = n + 1
    BY <2>2, <2>3, MaxIs
  <2>5. TypeAround(q) = IF S = {} THEN "none" ELSE TypeAt(q, Max(S))
    BY <2>1, Zenon DEF TypeAround
  <2> QED
    BY <1>4, <1>5, <2>2, <2>4, <2>5
<1>6. CASE StepType(st) = "none"
  <2>1. Typed(q) = Typed(path)
    BY <1>2, <1>3, <1>4, <1>6
  <2>2. PICK S : S = Typed(path)
    OBVIOUS
  <2>3. TypeAround(q) = (IF S = {} THEN "none" ELSE TypeAt(q, Max(S)))
    BY <2>1, <2>2, Zenon DEF TypeAround
  <2>4. TypeAround(path) = (IF S = {} THEN "none" ELSE TypeAt(path, Max(S)))
    BY <2>2, Zenon DEF TypeAround
  <2>5. CASE S = {}
    BY <1>6, <2>3, <2>4, <2>5
  <2>6. CASE S # {}
    <3>1. S \subseteq 1..n
      BY <1>2, <2>2
    <3>2. Max(S) \in S
      BY <2>6, <3>1, MaxOfSome
    <3>3. TypeAt(q, Max(S)) = TypeAt(path, Max(S))
      BY <1>3, <3>1, <3>2
    <3> QED
      BY <1>6, <2>3, <2>4, <2>6, <3>3
  <2> QED
    BY <2>5, <2>6
<1> QED
  BY <1>5, <1>6

LEMMA AroundTypes == \A path \in Seq(PathSteps) : TypeAround(path) \in Types
<1> SUFFICES ASSUME NEW path \in Seq(PathSteps) PROVE TypeAround(path) \in Types
  OBVIOUS
<1>1. PICK S : S = {i \in DOMAIN path : TypeAt(path, i) # "none"}
  OBVIOUS
<1>2. TypeAround(path) = (IF S = {} THEN "none" ELSE TypeAt(path, Max(S)))
  BY <1>1, Zenon DEF TypeAround
<1>3. PICK n \in Nat : n = Len(path)
  OBVIOUS
<1>4. DOMAIN path = 1..n /\ \A i \in 1..n : path[i] \in PathSteps
  BY <1>3
<1>5. \A i \in 1..n : TypeAt(path, i) \in Types
  BY <1>4, TypeAtIs, StepTypes
<1>6. S \subseteq 1..n
  BY <1>1, <1>4
<1>7. CASE S = {}
  BY <1>2, <1>7, StepTypes
<1>8. CASE S # {}
  <2>1. Max(S) \in 1..n
    BY <1>6, <1>8, MaxOfSome
  <2> QED
    BY <1>2, <1>5, <1>8, <2>1
<1> QED
  BY <1>7, <1>8

\* What is shown of a value below a step.
ShownBelow(path, st, x) ==
    LET type == IF StepType(st) # "none" THEN StepType(st)
                ELSE IF st.into = "array" THEN "none"
                ELSE IF LooksLikePAN(x) THEN "card"
                ELSE IF st.key \in SubValues THEN TypeAround(path)
                ELSE "none"
    IN  IF type # "none" /\ IsMaskable(x) THEN ApplyMask(x, type) ELSE x

LEMMA LastOfPath ==
    ASSUME NEW path \in Seq(PathSteps), NEW st \in PathSteps, NEW q, q = Append(path, st)
    PROVE  q[Len(q)] = st
BY PathEnds

LEMMA FrontOfPath ==
    ASSUME NEW path \in Seq(PathSteps), NEW st \in PathSteps, NEW q, q = Append(path, st)
    PROVE  Front(q) = path
BY PathEnds

LEMMA ShownIs ==
    ASSUME NEW path \in Seq(PathSteps), NEW st \in PathSteps, NEW q, q = Append(path, st),
           NEW x, NEW l, l = [path |-> q, leaf |-> x]
    PROVE  Shown(l) = ShownBelow(path, st, x)
<1>1. q[Len(q)] = st /\ Front(q) = path
  BY LastOfPath, FrontOfPath
<1>2. TypeAt(q, Len(q)) = StepType(st)
  BY <1>1, TypeAtIs
<1>3. l.path = q /\ l.leaf = x
  OBVIOUS
<1> QED
  BY <1>1, <1>2, <1>3, Zenon DEF Shown, ShownBelow

LEMMA ShownInScalars ==
    ASSUME NEW path, NEW st, NEW x \in Scalars
    PROVE  ShownBelow(path, st, x) \in Scalars
<1>1. \A type : IsMaskable(x) => ApplyMask(x, type) \in Scalars
  BY MaskIs
<1> QED
  BY <1>1, Zenon DEF ShownBelow

LEMMA MemoIsRight ==
    ASSUME NEW cache \in Caches, NEW key \in Keys
    PROVE  KeyType(cache, key) = TypeOfKey(key)
BY CacheIs, KeyHasType DEF KeyType

\* An entry whose value is a leaf, and one whose value is not.
LEMMA LeafEntryIs ==
    ASSUME NEW cache \in Caches, NEW e, e.key \in Keys, e.val \in Scalars,
           NEW path \in Seq(PathSteps),
           NEW below, \A type \in Types : below[e.val][type] = e.val
    PROVE  SanitizeEntry(cache, e, TypeAround(path), below)
           = ShownBelow(path, KeyStep(e.key), e.val)
<1>1. PICK k, x, u : k = e.key /\ x = e.val /\ u = TypeAround(path)
  OBVIOUS
<1>2. u \in Types
  BY <1>1, AroundTypes
<1>3. PICK t : t = TypeOfKey(k)
  OBVIOUS
<1>4. k \in Keys /\ x \in Scalars /\ t \in Types
  BY <1>1, <1>3, KeyHasType
<1>5. PICK st : st = KeyStep(k)
  OBVIOUS
<1>6. StepType(st) = t /\ st.into = "object" /\ st.key = k
  BY <1>3, <1>4, <1>5, StepTypes DEF KeyStep
<1>7. PICK g : g = GetSensitiveKeyType(cache, k, x)
  OBVIOUS
<1>8. g = IF t # "none" THEN t ELSE IF LooksLikePAN(x) THEN "card" ELSE "none"
  <2>1. KeyType(cache, k) = t
    BY <1>3, <1>4, MemoIsRight
  <2>2. IsPAN(x) <=> LooksLikePAN(x)
    BY <1>4, CardsAreFound
  <2> QED
    BY <1>7, <2>1, <2>2, Zenon DEF GetSensitiveKeyType
<1>9. g \in Types
  BY <1>4, <1>8 DEF Types
<1>10. SanitizeEntry(cache, e, u, below) =
          IF g # "none" /\ IsMaskable(x) THEN ApplyMask(x, g)
          ELSE IF u # "none" /\ k \in SubValues /\ IsMaskable(x) THEN ApplyMask(x, u)
          ELSE below[x][IF g # "none" THEN g ELSE u]
  BY <1>1, <1>7, Zenon DEF SanitizeEntry
<1>11. below[x][IF g # "none" THEN g ELSE u] = x
  BY <1>1, <1>2, <1>9
<1>12. \A type : type = (IF t # "none" THEN t ELSE IF LooksLikePAN(x) THEN "card"
                         ELSE IF k \in SubValues THEN u ELSE "none") =>
          ShownBelow(path, st, x) = IF type # "none" /\ IsMaskable(x) THEN ApplyMask(x, type) ELSE x
  <2>1. "object" # "array"
    OBVIOUS
  <2> QED
    BY <1>1, <1>6, <2>1, Zenon DEF ShownBelow
<1>13. SanitizeEntry(cache, e, u, below) = ShownBelow(path, st, x)
  <2>1. "card" # "none"
    OBVIOUS
  <2>2. CASE t # "none"
    BY <1>8, <1>10, <1>11, <1>12, <2>2
  <2>3. CASE t = "none" /\ LooksLikePAN(x)
    <3>1. IsMaskable(x)
      BY <2>3 DEF LooksLikePAN
    <3> QED
      BY <1>8, <1>10, <1>11, <1>12, <2>1, <2>3, <3>1
  <2>4. CASE t = "none" /\ ~LooksLikePAN(x)
    <3>1. g = "none"
      BY <1>8, <2>4
    <3> QED
      BY <1>10, <1>11, <1>12, <2>4, <3>1
  <2> QED
    BY <2>2, <2>3, <2>4
<1> QED
  BY <1>1, <1>5, <1>13

LEMMA NestedEntryIs ==
    ASSUME NEW cache \in Caches, NEW e, e.key \in Keys, e.val.is # "leaf",
           NEW path \in Seq(PathSteps), NEW below
    PROVE  SanitizeEntry(cache, e, TypeAround(path), below)
           = below[e.val][TypeAround(Append(path, KeyStep(e.key)))]
<1>0. PICK q : q = Append(path, KeyStep(e.key))
  OBVIOUS
<1>1. PICK t : t = TypeOfKey(e.key)
  OBVIOUS
<1>2. ~IsMaskable(e.val) /\ ~IsPAN(e.val)
  BY DEF IsMaskable, IsPAN
<1>3. KeyType(cache, e.key) = t
  BY <1>1, MemoIsRight
<1>4. GetSensitiveKeyType(cache, e.key, e.val) = t
  BY <1>2, <1>3, Zenon DEF GetSensitiveKeyType
<1>5. SanitizeEntry(cache, e, TypeAround(path), below)
      = below[e.val][IF t # "none" THEN t ELSE TypeAround(path)]
  BY <1>2, <1>4, Zenon DEF SanitizeEntry
<1>6. KeyStep(e.key) \in PathSteps /\ StepType(KeyStep(e.key)) = t
  BY <1>1, PathsAre, StepTypes
<1>7. TypeAround(q) = IF t # "none" THEN t ELSE TypeAround(path)
  BY <1>0, <1>6, TypesAround
<1> QED
  BY <1>0, <1>5, <1>7

-----------------------------------------------------------------------------
(* Each payload is masked by its paths.                                    *)
\* What sanitizeObject() makes of a payload has its leaves, masked.
Masks(sb, lb, n, v) ==
    \A path \in Seq(PathSteps) :
        lb[n][sb[n][v][TypeAround(path)]][path] = MaskedLeaves(lb[n][v][path])
MasksBelow(sb, lb, n, V) == \A v \in V : v \notin Scalars => Masks(sb, lb, n, v)

LEMMA LeafIs ==
    ASSUME NEW lb, LeavesBy(lb), NEW n \in Levels, NEW x \in Scalars, NEW path \in Seq(PathSteps)
    PROVE  lb[n][x][path] = <<[path |-> path, leaf |-> x]>>
<1>1. Payload[0] = Scalars
  BY PayloadLevels DEF Payload
<1>2. 0 \in Levels /\ 0 <= n
  BY SomeLevels
<1>3. lb[n][x][path] = LeavesLevel(x, path, lb[n - 1])
  BY <1>1, <1>2, LeavesStep
<1> QED
  BY <1>3, LeafOfScalar

LEMMA LeafStays ==
    ASSUME NEW cache, NEW sb, SanitizesBy(cache, sb), NEW n \in Levels, NEW x \in Scalars,
           NEW type \in Types
    PROVE  sb[n][x][type] = x
<1>1. Payload[0] = Scalars
  BY PayloadLevels DEF Payload
<1>2. 0 \in Levels /\ 0 <= n
  BY SomeLevels
<1>3. sb[n][x][type] = SanitizeLevel(cache, x, type, sb[n - 1])
  BY <1>1, <1>2, SanitizedStep
<1> QED
  BY <1>3, ScalarsAreShown

LEMMA LeafIsMasked ==
    ASSUME NEW lb, LeavesBy(lb), NEW n \in Levels, NEW x \in Scalars,
           NEW path \in Seq(PathSteps), NEW st \in PathSteps
    PROVE  lb[n][ShownBelow(path, st, x)][Append(path, st)] = MaskedLeaves(lb[n][x][Append(path, st)])
<1>0. PICK q : q = Append(path, st)
  OBVIOUS
<1>1. q \in Seq(PathSteps)
  BY <1>0, PathsAre
<1>2. PICK y : y = ShownBelow(path, st, x)
  OBVIOUS
<1>3. y \in Scalars
  BY <1>2, ShownInScalars
<1>4. PICK l : l = [path |-> q, leaf |-> x]
  OBVIOUS
<1>5. Shown(l) = y
  BY <1>0, <1>2, <1>4, ShownIs
<1>6. MaskedLeaf(l) = [path |-> q, leaf |-> y]
  BY <1>4, <1>5 DEF MaskedLeaf
<1>7. lb[n][x][q] = <<l>> /\ lb[n][y][q] = <<[path |-> q, leaf |-> y]>>
  <2>1. lb[n][x][q] = <<[path |-> q, leaf |-> x]>> /\ lb[n][y][q] = <<[path |-> q, leaf |-> y]>>
    BY <1>1, <1>3, LeafIs, Zenon
  <2> QED
    BY <1>4, <2>1
<1>8. MaskedLeaves(lb[n][x][q]) = <<MaskedLeaf(l)>>
  BY <1>7, MaskedSingle
<1> QED
  BY <1>0, <1>2, <1>6, <1>7, <1>8

LEMMA ItemIsMasked ==
    ASSUME NEW cache, NEW sb, SanitizesBy(cache, sb), NEW lb, LeavesBy(lb), NEW n \in Levels,
           NEW V, MasksBelow(sb, lb, n, V), NEW x \in V,
           NEW path \in Seq(PathSteps)
    PROVE  lb[n][sb[n][x][TypeAround(path)]][Append(path, ArrayStep)]
           = MaskedLeaves(lb[n][x][Append(path, ArrayStep)])
<1>0. PICK q : q = Append(path, ArrayStep)
  OBVIOUS
<1>1. ArrayStep \in PathSteps /\ StepType(ArrayStep) = "none"
  BY PathsAre, StepTypes
<1>2. q \in Seq(PathSteps) /\ TypeAround(path) \in Types
  BY <1>0, <1>1, PathsAre, AroundTypes
<1>3. CASE x \in Scalars
  <2>1. sb[n][x][TypeAround(path)] = x
    BY <1>2, <1>3, LeafStays
  <2>2. ShownBelow(path, ArrayStep, x) = x
    <3>1. ArrayStep.into = "array"
      BY DEF ArrayStep
    <3> QED
      BY <1>1, <3>1 DEF ShownBelow
  <2>3. lb[n][ShownBelow(path, ArrayStep, x)][Append(path, ArrayStep)]
        = MaskedLeaves(lb[n][x][Append(path, ArrayStep)])
    BY <1>1, <1>3, LeafIsMasked, Zenon
  <2> QED
    BY <1>0, <2>1, <2>2, <2>3
<1>4. CASE x \notin Scalars
  <2>1. Masks(sb, lb, n, x)
    BY <1>4, Zenon DEF MasksBelow
  <2>2. lb[n][sb[n][x][TypeAround(q)]][q] = MaskedLeaves(lb[n][x][q])
    BY <1>2, <2>1, Zenon DEF Masks
  <2>3. TypeAround(q) = TypeAround(path)
    BY <1>0, <1>1, TypesAround
  <2> QED
    BY <1>0, <2>2, <2>3
<1> QED
  BY <1>0, <1>3, <1>4

LEMMA EntryIsMasked ==
    ASSUME NEW cache \in Caches, NEW sb, SanitizesBy(cache, sb), NEW lb, LeavesBy(lb),
           NEW n \in Levels, NEW V, MasksBelow(sb, lb, n, V), \A x \in V : x \in Scalars \/ x.is # "leaf",
           NEW e, e.key \in Keys, e.val \in V,
           NEW path \in Seq(PathSteps)
    PROVE  lb[n][SanitizeEntry(cache, e, TypeAround(path), sb[n])][Append(path, KeyStep(e.key))]
           = MaskedLeaves(lb[n][e.val][Append(path, KeyStep(e.key))])
<1>0. PICK q : q = Append(path, KeyStep(e.key))
  OBVIOUS
<1>1. KeyStep(e.key) \in PathSteps
  BY PathsAre
<1>2. q \in Seq(PathSteps)
  BY <1>0, <1>1, PathsAre
<1>3. CASE e.val \in Scalars
  <2>1. \A type \in Types : sb[n][e.val][type] = e.val
    BY <1>3, LeafStays
  <2>2. SanitizeEntry(cache, e, TypeAround(path), sb[n]) = ShownBelow(path, KeyStep(e.key), e.val)
    BY <1>3, <2>1, LeafEntryIs
  <2>3. lb[n][ShownBelow(path, KeyStep(e.key), e.val)][Append(path, KeyStep(e.key))]
        = MaskedLeaves(lb[n][e.val][Append(path, KeyStep(e.key))])
    BY <1>1, <1>3, LeafIsMasked, Zenon
  <2> QED
    BY <2>2, <2>3
<1>4. CASE e.val \notin Scalars
  <2>1. Masks(sb, lb, n, e.val)
    BY <1>4, Zenon DEF MasksBelow
  <2>2. lb[n][sb[n][e.val][TypeAround(q)]][q] = MaskedLeaves(lb[n][e.val][q])
    BY <1>2, <2>1, Zenon DEF Masks
  <2>3. e.val.is # "leaf"
    BY <1>4
  <2>4. SanitizeEntry(cache, e, TypeAround(path), sb[n]) = sb[n][e.val][TypeAround(Append(path, KeyStep(e.key)))]
    <3>1. KeyStep(e.key) \in PathSteps /\ e.key \in Keys
      BY <1>1
    <3> QED
      BY <2>3, NestedEntryIs, Zenon
  <2> QED
    BY <1>0, <2>2, <2>4
<1> QED
  BY <1>3, <1>4

LEMMA ArrayIsMasked ==
    ASSUME NEW cache \in Caches, NEW sb, SanitizesBy(cache, sb), NEW lb, LeavesBy(lb),
           NEW m \in Levels, NEW n \in Levels, NEW k \in Levels, k = n - 1, m <= k, m + 1 \in Levels, m + 1 <= n,
           MasksBelow(sb, lb, k, Payload[m]),
           NEW v \in Payload[m + 1], IsArrayOf(v, Payload[m])
    PROVE  Masks(sb, lb, n, v)
<1> SUFFICES ASSUME NEW path \in Seq(PathSteps)
             PROVE  lb[n][sb[n][v][TypeAround(path)]][path] = MaskedLeaves(lb[n][v][path])
  BY Zenon DEF Masks
<1>1. PICK u, q, V : u = TypeAround(path) /\ q = Append(path, ArrayStep) /\ V = Payload[m]
  OBVIOUS
<1>2. u \in Types /\ q \in Seq(PathSteps)
  BY <1>1, AroundTypes, PathsAre
<1>3. v.is = "array" /\ v.items \in Seq(V)
  BY <1>1, Zenon DEF IsArrayOf
<1>4. PICK items : items = v.items
  OBVIOUS
<1>5. DOMAIN items = 1..Len(items) /\ Len(items) \in Nat /\ \A i \in 1..Len(items) : items[i] \in V
  BY <1>3, <1>4
<1>6. PICK new : new = [i \in DOMAIN items |-> sb[k][items[i]][u]]
  OBVIOUS
<1>7. sb[n][v][u] = Array(new)
  <2>1. sb[n][v][u] = SanitizeLevel(cache, v, u, sb[k])
    BY <1>2, SanitizedStep
  <2> QED
    BY <1>3, <1>4, <1>6, <2>1, Zenon DEF SanitizeLevel
<1>8. Array(new) \in Payload[m + 1]
  <2>1. TypedMemo(cache)
    BY CacheIs
  <2>2. sb[n][v][u] \in Payload[m + 1]
    BY <1>2, <2>1, SanitizedTypes
  <2> QED
    BY <1>7, <2>2
<1>9. lb[n][v][path] = LeavesLevel(v, path, lb[k]) /\ lb[n][Array(new)][path] = LeavesLevel(Array(new), path, lb[k])
  BY <1>8, LeavesStep
<1>10. PICK ss : ss = [i \in DOMAIN items |-> lb[k][items[i]][q]]
  OBVIOUS
<1>11. PICK tt : tt = [i \in DOMAIN items |-> lb[k][new[i]][q]]
  OBVIOUS
<1>12. lb[n][v][path] = FlattenSeq(ss)
  BY <1>1, <1>3, <1>4, <1>9, <1>10, Zenon DEF LeavesLevel
<1>13. lb[n][Array(new)][path] = FlattenSeq(tt)
  <2>1. Array(new).is = "array" /\ Array(new).items = new /\ DOMAIN new = DOMAIN items
    BY <1>6 DEF Array
  <2> QED
    BY <1>1, <1>9, <1>11, <2>1, Zenon DEF LeavesLevel
<1>14. ss \in Seq(Seq(LeafOf)) /\ DOMAIN ss = DOMAIN items
  <2>1. \A x \in V : lb[k][x][q] \in Seq(LeafOf)
    BY <1>1, <1>2, LeavesTypes
  <2>2. \A i \in 1..Len(items) : lb[k][items[i]][q] \in Seq(LeafOf)
    BY <1>5, <2>1
  <2> QED
    BY <1>5, <1>10, <2>2
<1>15. \A i \in DOMAIN items : lb[k][new[i]][q] = MaskedLeaves(ss[i])
  <2> SUFFICES ASSUME NEW i \in DOMAIN items PROVE lb[k][new[i]][q] = MaskedLeaves(ss[i])
    OBVIOUS
  <2>1. PICK x \in V : x = items[i]
    BY <1>5
  <2>2. MasksBelow(sb, lb, k, V) /\ q = Append(path, ArrayStep)
    BY <1>1
  <2>3. lb[k][sb[k][x][TypeAround(path)]][Append(path, ArrayStep)]
        = MaskedLeaves(lb[k][x][Append(path, ArrayStep)])
    BY <2>2, ItemIsMasked
  <2> QED
    BY <1>1, <1>6, <1>10, <2>1, <2>3
<1>16. tt = [i \in DOMAIN ss |-> MaskedLeaves(ss[i])]
  BY <1>11, <1>14, <1>15
<1>17. FlattenSeq(tt) = MaskedLeaves(FlattenSeq(ss))
  BY <1>14, <1>16, MaskedFlatten
<1> QED
  BY <1>1, <1>7, <1>12, <1>13, <1>17

LEMMA ObjectIsMasked ==
    ASSUME NEW cache \in Caches, NEW sb, SanitizesBy(cache, sb), NEW lb, LeavesBy(lb),
           NEW m \in Levels, NEW n \in Levels, NEW k \in Levels, k = n - 1, m <= k, m + 1 \in Levels, m + 1 <= n,
           MasksBelow(sb, lb, k, Payload[m]), \A x \in Payload[m] : x \in Scalars \/ x.is # "leaf",
           NEW v \in Payload[m + 1], IsObjectOf(v, Keys, Payload[m])
    PROVE  Masks(sb, lb, n, v)
<1> SUFFICES ASSUME NEW path \in Seq(PathSteps)
             PROVE  lb[n][sb[n][v][TypeAround(path)]][path] = MaskedLeaves(lb[n][v][path])
  BY Zenon DEF Masks
<1>1. PICK u, V : u = TypeAround(path) /\ V = Payload[m]
  OBVIOUS
<1>2. u \in Types
  BY <1>1, AroundTypes
<1>3. v.is = "object" /\ v.entries \in Seq(Pairs(Keys, V))
  BY <1>1, Zenon DEF IsObjectOf, Pairs
<1>4. PICK es, P : es = v.entries /\ P = Pairs(Keys, V)
  OBVIOUS
<1>5. DOMAIN es = 1..Len(es) /\ Len(es) \in Nat /\ \A i \in 1..Len(es) : es[i] \in P
  BY <1>3, <1>4
<1>6. \A i \in 1..Len(es) : es[i].key \in Keys /\ es[i].val \in V
  BY <1>4, <1>5 DEF Pairs
<1>7. PICK vals : vals = [i \in DOMAIN es |-> SanitizeEntry(cache, es[i], u, sb[k])]
  OBVIOUS
<1>8. PICK new : new = [i \in DOMAIN es |-> [key |-> es[i].key,
                                              val |-> SanitizeEntry(cache, es[i], u, sb[k])]]
  OBVIOUS
<1>9. DOMAIN new = DOMAIN es /\ \A i \in DOMAIN es : new[i].key = es[i].key /\ new[i].val = vals[i]
  BY <1>7, <1>8
<1>10. sb[n][v][u] = Object(new)
  <2>1. sb[n][v][u] = SanitizeLevel(cache, v, u, sb[k])
    BY <1>2, SanitizedStep
  <2> QED
    BY <1>3, <1>4, <1>8, <2>1, Zenon DEF SanitizeLevel
<1>11. Object(new) \in Payload[m + 1]
  <2>1. TypedMemo(cache)
    BY CacheIs
  <2>2. sb[n][v][u] \in Payload[m + 1]
    BY <1>2, <2>1, SanitizedTypes
  <2> QED
    BY <1>10, <2>2
<1>12. lb[n][v][path] = LeavesLevel(v, path, lb[k]) /\ lb[n][Object(new)][path] = LeavesLevel(Object(new), path, lb[k])
  BY <1>11, LeavesStep
<1>13. PICK to : to = [i \in DOMAIN es |-> Append(path, KeyStep(es[i].key))]
  OBVIOUS
<1>14. PICK ss : ss = [i \in DOMAIN es |-> lb[k][es[i].val][Append(path, KeyStep(es[i].key))]]
  OBVIOUS
<1>15. PICK tt : tt = [i \in DOMAIN new |-> lb[k][new[i].val][Append(path, KeyStep(new[i].key))]]
  OBVIOUS
<1>16. lb[n][v][path] = FlattenSeq(ss)
  BY <1>3, <1>4, <1>12, <1>14, Zenon DEF LeavesLevel
<1>17. lb[n][Object(new)][path] = FlattenSeq(tt)
  <2>1. Object(new).is = "object" /\ Object(new).entries = new /\ Object(new).is # "array"
    BY DEF Object
  <2> QED
    BY <1>12, <1>15, <2>1, Zenon DEF LeavesLevel
<1>18. \A i \in DOMAIN es : ss[i] = lb[k][es[i].val][to[i]] /\ tt[i] = lb[k][vals[i]][to[i]]
  <2>1. \A i \in DOMAIN es : ss[i] = lb[k][es[i].val][Append(path, KeyStep(es[i].key))]
    BY <1>14
  <2>2. \A i \in DOMAIN es : tt[i] = lb[k][new[i].val][Append(path, KeyStep(new[i].key))]
    BY <1>9, <1>15
  <2>3. \A i \in DOMAIN es : to[i] = Append(path, KeyStep(es[i].key))
    BY <1>13
  <2>4. ASSUME NEW i \in DOMAIN es
        PROVE  ss[i] = lb[k][es[i].val][to[i]] /\ tt[i] = lb[k][vals[i]][to[i]]
    <3>1. new[i].key = es[i].key /\ new[i].val = vals[i]
      BY <1>9
    <3>2. tt[i] = lb[k][vals[i]][Append(path, KeyStep(es[i].key))]
      BY <2>2, <3>1, Zenon
    <3> QED
      BY <2>1, <2>3, <3>2, Zenon
  <2> QED
    BY <2>4
<1>19. ss \in Seq(Seq(LeafOf)) /\ DOMAIN ss = DOMAIN es
  <2>1. \A x \in V : \A q \in Seq(PathSteps) : lb[k][x][q] \in Seq(LeafOf)
    BY <1>1, LeavesTypes
  <2>2. \A i \in 1..Len(es) : to[i] \in Seq(PathSteps)
    BY <1>5, <1>6, <1>13, PathsAre
  <2>3. \A i \in 1..Len(es) : ss[i] \in Seq(LeafOf)
    BY <1>5, <1>6, <1>18, <2>1, <2>2, Zenon
  <2>4. DOMAIN ss = DOMAIN es
    BY <1>14
  <2>5. ss = [i \in 1..Len(es) |-> ss[i]]
    BY <1>5, <1>14
  <2> QED
    BY <1>5, <2>3, <2>4, <2>5
<1>20. \A i \in DOMAIN es : tt[i] = MaskedLeaves(ss[i])
  <2> SUFFICES ASSUME NEW i \in DOMAIN es PROVE tt[i] = MaskedLeaves(ss[i])
    OBVIOUS
  <2>1. PICK e, q : e = es[i] /\ q = to[i]
    OBVIOUS
  <2>2. e.key \in Keys /\ e.val \in V /\ q = Append(path, KeyStep(e.key))
    BY <1>5, <1>6, <1>13, <2>1
  <2>3. \A x \in V : x \in Scalars \/ x.is # "leaf"
    BY <1>1
  <2>7. MasksBelow(sb, lb, k, V)
    BY <1>1
  <2>8. lb[k][SanitizeEntry(cache, e, TypeAround(path), sb[k])][Append(path, KeyStep(e.key))]
        = MaskedLeaves(lb[k][e.val][Append(path, KeyStep(e.key))])
    BY <2>2, <2>3, <2>7, EntryIsMasked
  <2>4. lb[k][SanitizeEntry(cache, e, u, sb[k])][q] = MaskedLeaves(lb[k][e.val][q])
    BY <1>1, <2>2, <2>8
  <2>5. vals[i] = SanitizeEntry(cache, e, u, sb[k])
    BY <1>7, <2>1
  <2>6. ss[i] = lb[k][e.val][q] /\ tt[i] = lb[k][vals[i]][q]
    BY <1>18, <2>1
  <2> QED
    BY <2>4, <2>5, <2>6
<1>21. tt = [i \in DOMAIN ss |-> MaskedLeaves(ss[i])]
  <2>1. DOMAIN tt = DOMAIN es
    BY <1>9, <1>15
  <2>2. tt = [i \in DOMAIN es |-> tt[i]]
    BY <2>1, <1>15
  <2> QED
    BY <1>19, <1>20, <2>2
<1>22. FlattenSeq(tt) = MaskedLeaves(FlattenSeq(ss))
  BY <1>19, <1>21, MaskedFlatten
<1> QED
  BY <1>1, <1>10, <1>16, <1>17, <1>22

\* A payload that is no leaf keeps the number, the order and the paths of its
\* leaves, and each is masked by what is on its path.
LEMMA PayloadIsMasked ==
    ASSUME NEW cache \in Caches, NEW sb, SanitizesBy(cache, sb), NEW lb, LeavesBy(lb)
    PROVE  \A m, n \in Levels : m <= n => MasksBelow(sb, lb, n, Payload[m])
<1> DEFINE T == {m \in Nat : m \in Levels => \A n \in Levels : m <= n => MasksBelow(sb, lb, n, Payload[m])}
<1>1. 0 \in T
  <2>1. Payload[0] = Scalars
    BY PayloadLevels DEF Payload
  <2> QED
    BY <2>1 DEF MasksBelow
<1>2. ASSUME NEW m \in Nat, m \in T PROVE m + 1 \in T
  <2> SUFFICES ASSUME m + 1 \in Levels, NEW n \in Levels, m + 1 <= n, NEW v \in Payload[m + 1],
                      v \notin Scalars
               PROVE  Masks(sb, lb, n, v)
    BY DEF MasksBelow
  <2>1. /\ n \in Nat /\ n # 0 /\ m + 1 # 0 /\ (m + 1) - 1 = m /\ n - 1 \in Levels
        /\ m <= n - 1 /\ m \in Levels
    BY SomeLevels
  <2>2. PICK k \in Levels : k = n - 1
    BY <2>1
  <2>3. m <= k
    BY <2>1, <2>2
  <2>4. MasksBelow(sb, lb, k, Payload[m])
    BY <1>2, <2>1, <2>3
  <2>5. IsArrayOf(v, Payload[m]) \/ IsObjectOf(v, Keys, Payload[m])
    BY <2>1, FromLevel DEF Payload
  <2>6. \A x \in Payload[m] : x \in Scalars \/ x.is # "leaf"
    BY <2>1, FromLevel DEF Payload, IsArrayOf, IsObjectOf
  <2>7. CASE IsArrayOf(v, Payload[m])
    BY <2>1, <2>2, <2>3, <2>4, <2>7, ArrayIsMasked
  <2>8. CASE IsObjectOf(v, Keys, Payload[m])
    BY <2>1, <2>2, <2>3, <2>4, <2>6, <2>8, ObjectIsMasked
  <2> QED
    BY <2>5, <2>7, <2>8
<1>3. Nat \subseteq T
  <2> HIDE DEF T
  <2> QED
    BY <1>1, <1>2, SetInduction
<1> QED
  BY <1>3, SomeLevels

LEMMA CopyIsMasked ==
    ASSUME NEW cache \in Caches, NEW o, IsObject(o, Deepest)
    PROVE  IsMaskedCopy(SanitizeObject(cache, o, "none"), o)
<1>1. PICK sb : SanitizesBy(cache, sb) /\ Sanitized(cache) = sb[Deepest]
  BY SanitizedLevels
<1>2. PICK lb : LeavesBy(lb) /\ \A v : Leaves(v) = lb[Deepest][v][<<>>]
  BY LeavesLevels
<1>3. SanitizesBy(cache, sb) /\ LeavesBy(lb)
  BY <1>1, <1>2
<1>4. MasksBelow(sb, lb, Deepest, Payload[Deepest])
  <2>1. \A m, n \in Levels : m <= n => MasksBelow(sb, lb, n, Payload[m])
    BY <1>3, PayloadIsMasked
  <2> QED
    BY <2>1, SomeLevels
<1>5. o \in Payload[Deepest] /\ o \notin Scalars
  BY IsScalar DEF IsObject
<1>6. Masks(sb, lb, Deepest, o)
  BY <1>4, <1>5, Zenon DEF MasksBelow
<1>7. <<>> \in Seq(PathSteps) /\ TypeAround(<<>>) = "none"
  BY PathsAre, NoTypeAround
<1>8. lb[Deepest][sb[Deepest][o][TypeAround(<<>>)]][<<>>] = MaskedLeaves(lb[Deepest][o][<<>>])
  BY <1>6, <1>7, Zenon DEF Masks
<1>9. PICK x : x = SanitizeObject(cache, o, "none")
  OBVIOUS
<1>10. x = sb[Deepest][o]["none"]
  BY <1>1, <1>9, Zenon DEF SanitizeObject
<1>11. Leaves(x) = MaskedLeaves(Leaves(o))
  <2>1. Leaves(x) = lb[Deepest][x][<<>>] /\ Leaves(o) = lb[Deepest][o][<<>>]
    BY <1>2
  <2> QED
    BY <1>7, <1>8, <1>10, <2>1, Zenon
<1> QED
  BY <1>9, <1>11, MaskedCopyIs
-----------------------------------------------------------------------------
\* Only an answer is logged, and the request it is for stays as it is.
LEMMA StepLogs ==
    ASSUME NEW r, Step(r)
    PROVE  \/ UNCHANGED logged
           \/ UNCHANGED request /\ \E by, body : Send(r, by, body)
<1>1. \A body : Respond(r, body) => \E by, b : Send(r, by, b)
  BY Zenon DEF Respond
<1>2. ErrorLeaves(r) => \E by, b : Send(r, by, b)
  BY Zenon DEF ErrorLeaves
<1>3. RequestArrives(r) => UNCHANGED logged
  BY DEF RequestArrives
<1>4. NobodyAnswers(r) => UNCHANGED request /\ \E by, body : Send(r, by, body)
  BY Zenon DEF NobodyAnswers
<1>5. RequestIsValidated(r) => UNCHANGED request /\ \E by, body : Send(r, by, body)
  BY Zenon DEF RequestIsValidated
<1>6. TokenIsValidated(r) => UNCHANGED request /\ \E by, body : Send(r, by, body)
  <2>1. TokenIsValidated(r) => UNCHANGED request
    BY DEF TokenIsValidated
  <2>2. TokenIsValidated(r) => \/ Respond(r, Response(Object(<<>>), NoValue))
                               \/ Respond(r, Failed)
    BY DEF TokenIsValidated
  <2> QED
    BY <1>1, <2>1, <2>2
<1>7. ExampleIsCreated(r) => UNCHANGED logged
  BY DEF ExampleIsCreated
<1>8. CreatesAreUndone(r) => \/ UNCHANGED logged
                             \/ UNCHANGED request /\ \E by, body : Send(r, by, body)
  <2>1. CreatesAreUndone(r) => UNCHANGED request
    BY DEF CreatesAreUndone
  <2>2. CreatesAreUndone(r) => UNCHANGED logged \/ \E by, body : Send(r, by, body)
    BY <1>1, <1>2 DEF CreatesAreUndone
  <2> QED
    BY <2>1, <2>2
<1>9. CreatesAreCommitted(r) => \/ UNCHANGED logged
                                \/ UNCHANGED request /\ \E by, body : Send(r, by, body)
  <2>1. CreatesAreCommitted(r) => UNCHANGED request
    BY DEF CreatesAreCommitted
  <2>2. CreatesAreCommitted(r) => UNCHANGED logged \/ \E by, body : Send(r, by, body)
    BY <1>1, <1>2 DEF CreatesAreCommitted
  <2> QED
    BY <2>1, <2>2
<1>10. ExampleIsRead(r) => UNCHANGED request /\ \E by, body : Send(r, by, body)
  BY <1>1, Zenon DEF ExampleIsRead
<1> QED
  BY <1>3, <1>4, <1>5, <1>6, <1>7, <1>8, <1>9, <1>10 DEF Step

LEMMA SentIsMasked ==
    ASSUME NEW r \in Requests, DataInv, DataInv', UNCHANGED request,
           NEW by, NEW body, Send(r, by, body)
    PROVE  \A q \in Requests : logged'[q] # logged[q] =>
              IsMaskedCopy(logged'[q], LogOf(request'[q], response'[q]))
<1>1. CASE told'[r] = told[r]
  BY <1>1 DEF Send
<1>2. CASE told'[r] # told[r]
  <2>1. PICK answer, log, cache : /\ answer = [is |-> "answer", by |-> by, body |-> body]
                                  /\ log = LogOf(request[r], answer)
                                  /\ cache = Classified(log)
    OBVIOUS
  <2>2. PICK masked : masked = SanitizeObject(cache, log, "none")
    OBVIOUS
  <2>3. /\ response' = [response EXCEPT ![r] = answer]
        /\ logged' = [logged EXCEPT ![r] = masked]
    BY <1>2, <2>1, <2>2, Zenon DEF Send
  <2>4. /\ response'[r] = answer /\ logged'[r] = masked
        /\ \A q \in Requests : q # r => logged'[q] = logged[q]
    BY <2>3 DEF DataInv
  <2>5. IsObject(answer.body, Depth + 2)
    <3>1. ResponseFits(answer, told'[r])
      BY <2>4 DEF DataInv
    <3>2. answer # None
      BY <2>1 DEF None
    <3> QED
      BY <3>1, <3>2 DEF ResponseFits
  <2>6. IsObject(log, Deepest)
    BY <2>1, <2>5, LogIs DEF DataInv, PartsFit
  <2>7. cache \in Caches
    BY <2>1, <2>6, ClassifiedIs DEF DataInv, IsObject
  <2>8. IsMaskedCopy(masked, log)
    BY <2>2, <2>6, <2>7, CopyIsMasked
  <2>9. log = LogOf(request'[r], response'[r])
    BY <2>1, <2>4
  <2> QED
    BY <2>4, <2>8, <2>9, Zenon
<1> QED
  BY <1>1, <1>2

LEMMA StepMasks ==
    ASSUME DataInv, [DataNext]_dataVars
    PROVE  [\A r \in Requests : logged'[r] # logged[r] =>
              IsMaskedCopy(logged'[r], LogOf(request'[r], response'[r]))]_dataVars
<1>1. DataInv'
  BY DataStepKeeps
<1>2. CASE UNCHANGED dataVars
  BY <1>2
<1>3. ASSUME NEW r \in Requests, Step(r)
      PROVE  \A q \in Requests : logged'[q] # logged[q] =>
                IsMaskedCopy(logged'[q], LogOf(request'[q], response'[q]))
  <2>1. CASE UNCHANGED logged
    BY <2>1
  <2>2. CASE UNCHANGED request /\ \E by, body : Send(r, by, body)
    <3>1. PICK by, body : Send(r, by, body)
      BY <2>2
    <3> QED
      BY <1>1, <2>2, <3>1, SentIsMasked
  <2> QED
    BY <1>3, <2>1, <2>2, StepLogs
<1> QED
  BY <1>2, <1>3, Zenon DEF DataNext

\* A log has each value of the request and of the answer, masked by what its own
\* path says, whatever the payloads that were logged before left in the memo of
\* the keys.
THEOREM LogsAreMasked == DataSpec => LogIsMasked
<1>1. DataInit => DataInv
  BY DataStarts
<1>2. DataInv /\ [DataNext]_dataVars => DataInv'
  BY DataStepKeeps
<1>3. DataInv /\ [DataNext]_dataVars =>
        [\A r \in Requests : logged'[r] # logged[r] =>
            IsMaskedCopy(logged'[r], LogOf(request'[r], response'[r]))]_dataVars
  BY StepMasks
<1> QED
  BY <1>1, <1>2, <1>3, PTL DEF DataSpec, LogIsMasked
=============================================================================
