----------------------------- MODULE RequestFlow -----------------------------
(***************************************************************************)
(* The pipeline of middlewares that serves one HTTP request or one message:*)
(* makeFlow() (src/main/adapters/flow-adapter.ts) with single middlewares, *)
(* parallelize() groups and flowManager() branches, the hooks and the      *)
(* handler of WebServer that end it with an answer, and jobAdapter().      *)
(*                                                                         *)
(* The behaviour of a handler is free: it may call next() or not, answer,  *)
(* return nothing or throw, and a group's handlers settle in any order.    *)
(* Calls of next() after a handler settled are not read by anyone.         *)
(***************************************************************************)
EXTENDS FlowManager, FiniteSets

CONSTANTS Handlers,     \* middlewares, controllers, jobs and functions, each named for its place
          SyncHandlers, \* those that are not async functions
          Hook,         \* callbacks of the route.use() hook
          Route,        \* callbacks of the route, or jobs of the consumer
          Kinds,        \* subset of {"http", "job"}
          Modes,        \* modes of parallelize()
          Paths,        \* paths the conditions look at
          Values        \* values found there

ChainOf(s) == IF s = "hook" THEN Hook ELSE Route

\* The handlers of a callback's k-th option, or, for 0, its own.
Line(c, k) == IF k = 0 THEN c.parts ELSE c.options[k].sub

\* The types of ParallelizeOptions and Option, and what the adapters accept.
ASSUME RouteAssumption ==
    /\ Kinds \subseteq {"http", "job"}
    /\ Modes \subseteq {"all", "allSettled", "any", "race"}
    /\ Handlers \cap {"none", "500", "502", "resolved", "rejected"} = {}
    /\ \A s \in {"hook", "route"} :
          /\ ChainOf(s) \in Seq({ChainOf(s)[i] : i \in DOMAIN ChainOf(s)})
          /\ \A i \in DOMAIN ChainOf(s) :
                LET c == ChainOf(s)[i]
                IN  /\ c.kind \in {"single", "parallel", "branch"}
                    /\ c.kind = "single" => Len(c.parts) = 1
                    /\ c.options \in Seq({c.options[k] : k \in DOMAIN c.options})
                    /\ \A k \in 0..Len(c.options) : /\ Line(c, k) \in Seq(Handlers)
                                                    /\ k # 0 => Line(c, k) # <<>>

\* A middleware that a route uses twice is two handlers.
ASSUME PlacesAssumption ==
    \A s, t \in {"hook", "route"} : \A i \in DOMAIN ChainOf(s), j \in DOMAIN ChainOf(t) :
        \A k \in 0..Len(ChainOf(s)[i].options), l \in 0..Len(ChainOf(t)[j].options) :
            \A m \in DOMAIN Line(ChainOf(s)[i], k), n \in DOMAIN Line(ChainOf(t)[j], l) :
                Line(ChainOf(s)[i], k)[m] = Line(ChainOf(t)[j], l)[n]
                    => s = t /\ i = j /\ k = l /\ m = n

VARIABLES kind,    \* what is served
          mode,    \* options.mode of the groups
          found,   \* what getIn() finds in the request
          stage,   \* the flow that runs: the hook's, the route's, or over
          at,      \* the callback it is at
          pc,      \* call, wait for it, resolve or reject
          sub,     \* the chain of the option a branch took
          subAt,   \* where it is
          phase,   \* of each handler: idle, running, returned, threw
          called,  \* handlers that called next() before they settled
          group,   \* the promise of the group: none, pending, ...
          reply    \* who answered

flowVars == <<stage, at, pc, sub, subAt>>
inputs == <<kind, mode, found>>
vars == <<inputs, flowVars, phase, called, group, reply>>

Chain == ChainOf(stage)

\* The types of the state; the flow calls nothing past the end of its chain.
TypeOK == /\ kind \in Kinds
          /\ mode \in Modes
          /\ found \in [Paths -> Values]
          /\ stage \in {"hook", "route", "over"}
          /\ at \in Nat
          /\ stage # "over" => at \in 1..(Len(Chain) + 1)
          /\ pc \in {"call", "wait", "resolve", "reject"}
          /\ sub \in Seq(Handlers)
          /\ subAt \in 1..(Len(sub) + 1)
          /\ phase \in [Handlers -> {"idle", "running", "returned", "threw"}]
          /\ called \subseteq Handlers
          /\ group \in {"none", "pending", "fulfilled", "rejected"}
          /\ reply \in Handlers \cup {"none", "500", "502", "resolved", "rejected"}

Init == /\ kind \in Kinds
        /\ mode \in Modes
        /\ found \in [Paths -> Values]
        /\ stage = IF kind = "http" THEN "hook" ELSE "route"
        /\ at = 1
        /\ pc = "call"
        /\ sub = <<>>
        /\ subAt = 1
        /\ phase = [h \in Handlers |-> "idle"]
        /\ called = {}
        /\ group = "none"
        /\ reply = "none"

Running(p) == stage # "over" /\ pc = p
Current(k) == at <= Len(Chain) /\ Chain[at].kind = k
InSub == subAt <= Len(sub)

\* The parts of the callback that the flow is at.
Parts == {Chain[at].parts[i] : i \in DOMAIN Chain[at].parts}

-----------------------------------------------------------------------------
(* The flow calls its next callback.                                       *)

\* handler(); the flow awaits it.
CallSingle ==
    /\ Running("call") /\ Current("single")
    /\ phase' = [h \in Handlers |-> IF h \in Parts THEN "running" ELSE phase[h]]
    /\ pc' = "wait"
    /\ UNCHANGED <<inputs, stage, at, sub, subAt, called, group, reply>>

\* parallelize() maps over its handlers; one that throws before it returns a
\* promise ends the map, and the handlers after it are not called.
CallParallel(n) ==
    /\ Running("call") /\ Current("parallel")
    /\ LET parts == Chain[at].parts
       IN  /\ n \in 1..(Len(parts) + 1)
           /\ n <= Len(parts) => parts[n] \in SyncHandlers
           /\ phase' = [h \in Handlers |->
                IF \E i \in 1..(n - 1) : i \in DOMAIN parts /\ parts[i] = h THEN "running"
                ELSE IF n \in DOMAIN parts /\ parts[n] = h THEN "threw"
                ELSE phase[h]]
           /\ group' = IF n \in DOMAIN parts THEN "rejected" ELSE "pending"
    /\ pc' = "wait"
    /\ UNCHANGED <<inputs, stage, at, sub, subAt, called, reply>>

\* flowManager() without a satisfied option returns without next(); a
\* condition that throws rejects the flow.
CallNoBranch ==
    /\ Running("call") /\ Current("branch") /\ ~InSub
    /\ LET options == Chain[at].options
           i == Deciding(options, found)
       IN  \/ /\ i = 0
              /\ pc' = "resolve"
           \/ /\ i # 0
              /\ Satisfied(options[i], found) = "throws"
              /\ pc' = "reject"
    /\ UNCHANGED <<inputs, stage, at, sub, subAt, phase, called, group, reply>>

\* The option's httpAdapter() or messageAdapter() runs a flow of its own.
CallBranch ==
    /\ Running("call") /\ Current("branch") /\ ~InSub
    /\ LET options == Chain[at].options
           i == Deciding(options, found)
       IN  /\ i # 0
           /\ Satisfied(options[i], found) = "yes"
           /\ sub' = options[i].sub
           /\ subAt' = 1
           /\ phase' = [phase EXCEPT ![options[i].sub[1]] = "running"]
    /\ pc' = "wait"
    /\ UNCHANGED <<inputs, stage, at, called, group, reply>>

-----------------------------------------------------------------------------
(* A handler settles, and the flow goes on.                                *)

\* The callback that the flow, or its branch, awaits is this handler.
Awaited(h) == /\ Running("wait")
              /\ \/ Current("single") /\ h \in Parts
                 \/ Current("branch") /\ InSub /\ sub[subAt] = h

InGroup(h) == Running("wait") /\ Current("parallel") /\ group = "pending" /\ h \in Parts

NextCalled_Ignored(h, next) == TRUE

\* nextFunctionWasCalled, once the callback is settled.
NextCalled(h, next) == next

\* reply.send(): the first answer counts, the others are ignored by Fastify.
Answer(h, answers) == IF answers /\ reply = "none" /\ kind = "http" THEN h ELSE reply

\* The flow emits NEXT.
EmitNext == /\ at' = at + 1
            /\ pc' = "call"
            /\ UNCHANGED stage

Settles(h, p) == /\ phase[h] = "running"
                 /\ phase' = [phase EXCEPT ![h] = p]
                 /\ UNCHANGED <<inputs, stage>>

\* An adapted middleware returns, having called next() or not, and its
\* response, if any, is sent.
ReturnSingle(h, next, answers) ==
    /\ Awaited(h) /\ Current("single")
    /\ Settles(h, "returned")
    /\ called' = IF next THEN called \cup {h} ELSE called
    /\ reply' = Answer(h, answers)
    /\ IF NextCalled(h, next) THEN EmitNext ELSE pc' = "resolve" /\ UNCHANGED at
    /\ UNCHANGED <<sub, subAt, group>>

\* After the branch's own flow httpAdapter() goes on unless an answer was
\* sent, messageAdapter() only if its last job called next().
Finish(next) == IF kind = "http" THEN reply' = "none" ELSE next

\* The same in a branch; its last handler ends the branch's flow.
ReturnInBranch(h, next, answers) ==
    /\ Awaited(h) /\ Current("branch")
    /\ called' = IF next THEN called \cup {h} ELSE called
    /\ reply' = Answer(h, answers)
    /\ \/ /\ NextCalled(h, next) /\ subAt < Len(sub)
          /\ phase[h] = "running"
          /\ phase' = [phase EXCEPT ![h] = "returned", ![sub[subAt + 1]] = "running"]
          /\ subAt' = subAt + 1
          /\ UNCHANGED <<inputs, stage, at, pc, sub>>
       \/ /\ ~NextCalled(h, next) \/ subAt = Len(sub)
          /\ Settles(h, "returned")
          /\ sub' = <<>> /\ subAt' = 1
          /\ IF Finish(NextCalled(h, next)) THEN EmitNext
                                            ELSE pc' = "resolve" /\ UNCHANGED at
    /\ UNCHANGED group

\* The awaited middleware throws: the flow is rejected.
Throw(h) ==
    /\ Awaited(h)
    /\ Settles(h, "threw")
    /\ pc' = "reject"
    /\ UNCHANGED <<at, sub, subAt, called, group, reply>>

ResolveByMode_Race(parts, after) ==
    IF \E p \in parts : after[p] = "returned" THEN "fulfilled"
    ELSE IF \E p \in parts : after[p] = "threw" THEN "rejected" ELSE "pending"

\* resolveByMode(), once a handler has settled.
ResolveByMode(parts, after) ==
    LET some(p) == \E h \in parts : after[h] = p
        every(p) == \A h \in parts : after[h] = p
    IN  CASE mode = "all" /\ some("threw") -> "rejected"
          [] mode = "all" /\ every("returned") -> "fulfilled"
          [] mode = "any" /\ some("returned") -> "fulfilled"
          [] mode = "any" /\ every("threw") -> "rejected"
          [] mode = "race" /\ some("returned") -> "fulfilled"
          [] mode = "race" /\ some("threw") -> "rejected"
          [] mode = "allSettled" /\ ~some("running") -> "fulfilled"
          [] OTHER -> "pending"

\* A handler of the group settles while its promise is pending. What it
\* returns and its next() are not looked at, but it can use the reply.
SettleInGroup(h, p, answers) ==
    /\ InGroup(h)
    /\ Settles(h, p)
    /\ group' = ResolveByMode(Parts, phase')
    /\ reply' = Answer(h, answers)
    /\ UNCHANGED <<at, pc, sub, subAt, called>>

\* A handler the flow no longer waits for settles; nobody sees how.
SettleStray(h, p, answers) ==
    /\ ~Awaited(h) /\ ~InGroup(h)
    /\ Settles(h, p)
    /\ reply' = Answer(h, answers)
    /\ UNCHANGED <<at, pc, sub, subAt, called, group>>

\* parallelize() resumes after its await and calls the flow's next().
GroupResumes ==
    /\ Running("wait") /\ Current("parallel")
    /\ \/ group = "fulfilled" /\ EmitNext
       \/ group = "rejected" /\ pc' = "reject" /\ UNCHANGED <<at, stage>>
    /\ group' = "none"
    /\ UNCHANGED <<inputs, sub, subAt, phase, called, reply>>

-----------------------------------------------------------------------------
(* The flow ends.                                                          *)

\* NEXT with an empty callStack.
PastEnd == /\ Running("call") /\ at > Len(Chain)
           /\ pc' = "resolve"
           /\ UNCHANGED <<inputs, stage, at, sub, subAt, phase, called, group, reply>>

\* The hook's flow resolved: Fastify goes on to the handler of the route unless
\* an answer was sent.
HookResolves ==
    /\ Running("resolve") /\ stage = "hook"
    /\ stage' = IF reply = "none" THEN "route" ELSE "over"
    /\ at' = 1
    /\ pc' = "call"
    /\ UNCHANGED <<inputs, sub, subAt, phase, called, group, reply>>

EndWith_NoBadGateway(resolved) ==
    IF kind = "job" THEN IF resolved THEN "resolved" ELSE "rejected"
    ELSE IF reply = "none" /\ ~resolved THEN "500" ELSE reply

\* What the end of the flow answers: nothing more if an answer was sent, 502 if
\* it resolved without one, 500 if it was rejected.
EndWith(resolved) ==
    IF kind = "job" THEN IF resolved THEN "resolved" ELSE "rejected"
    ELSE IF reply # "none" THEN reply
    ELSE IF resolved THEN "502" ELSE "500"

\* The flow of the route, or of the job, resolved.
RouteResolves ==
    /\ Running("resolve") /\ stage = "route"
    /\ stage' = "over"
    /\ reply' = EndWith(TRUE)
    /\ UNCHANGED <<inputs, at, pc, sub, subAt, phase, called, group>>

\* The flow of the hook, the route or the job was rejected.
Rejects ==
    /\ Running("reject")
    /\ stage' = "over"
    /\ reply' = EndWith(FALSE)
    /\ UNCHANGED <<inputs, at, pc, sub, subAt, phase, called, group>>

Handler(h) ==
    /\ phase[h] = "running"
    /\ \/ Throw(h)
       \/ \E answers \in BOOLEAN :
             \/ \E next \in BOOLEAN : \/ ReturnSingle(h, next, answers)
                                      \/ ReturnInBranch(h, next, answers)
             \/ \E p \in {"returned", "threw"} : \/ SettleInGroup(h, p, answers)
                                                 \/ SettleStray(h, p, answers)

Flow == \/ CallSingle
        \/ \E n \in 1..(Cardinality(Handlers) + 1) : CallParallel(n)
        \/ CallNoBranch
        \/ CallBranch
        \/ GroupResumes
        \/ PastEnd
        \/ HookResolves
        \/ RouteResolves
        \/ Rejects

Next == (\E h \in Handlers : Handler(h)) \/ Flow

\* Continuations run and handlers settle, since their drivers have timeouts.
\* Each step happens at most once, so the fairness of Next gives each of them.
Fairness == WF_vars(Next)

Spec == Init /\ [][Next]_vars /\ Fairness

-----------------------------------------------------------------------------
(* Properties.                                                             *)

Started(h) == phase[h] # "idle"

\* The handlers that the flow or a branch of it awaits, one by one; of a group
\* it does not look at the calls of next().
InFlow == LET range(f) == {f[i] : i \in DOMAIN f}
              of(c) == range(c.parts) \cup UNION {range(o.sub) : o \in range(c.options)}
          IN  UNION {of(c) : c \in {d \in range(Hook) \cup range(Route) : d.kind # "parallel"}}

\* Such a handler that returned without calling next().
Refused(h) == h \in InFlow /\ phase[h] = "returned" /\ h \notin called

\* After a middleware that answers and does not call next(), as a guard does
\* with a 401, no handler is started: neither by its flow, nor behind its
\* branch, nor by the route after its hook (flow-adapter.ts 30-34,
\* http-adapter.ts, Fastify's reply.sent).
RefusalIsFinal ==
    [][(reply \in Handlers /\ Refused(reply))
          => \A g \in Handlers : Started(g)' => Started(g)]_vars

\* What the mode asks of the handlers of a group.
Obeyed(parts) ==
    CASE mode = "all" -> \A h \in parts : phase[h] = "returned"
      [] mode = "allSettled" -> \A h \in parts : phase[h] \in {"returned", "threw"}
      [] mode \in {"any", "race"} -> \E h \in parts : phase[h] = "returned"

\* When a callback behind a group runs, the group has done what its mode says
\* (the comments at parallelize-adapter.ts 10-13): so with allSettled and all
\* nothing of the group still writes the state that the callback reads.
ModeIsObeyed ==
    \A i \in DOMAIN Route :
        stage = "route" /\ at > i /\ Route[i].kind = "parallel" =>
            Obeyed({Route[i].parts[j] : j \in DOMAIN Route[i].parts})

\* Whatever the handlers do, the request is answered or the message's job ends.
EveryFlowEnds == <>(stage = "over" /\ reply # "none")

\* A branch is entered only by a request that the options before it refused:
\* guarded options in front of a default are never skipped.
DefaultIsLast ==
    \A i \in DOMAIN Route : \A k \in DOMAIN Route[i].options :
        Started(Route[i].options[k].sub[1]) =>
            \A j \in 1..(k - 1) : Satisfied(Route[i].options[j], found) = "no"

\* A route's groups and branches wait for, and choose, what they declare.
RouteIsObeyed == TypeOK /\ ModeIsObeyed /\ DefaultIsLast
=============================================================================
