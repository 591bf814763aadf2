-------------------------- MODULE ConsumerLoading --------------------------
(***************************************************************************)
(* How RabbitMqServer comes to its consumers: the constructor reads        *)
(* CONSUMER_LIST and RABBIT_OPTIONS, consumersDirectory() runs the files   *)
(* of src/main/consumers, makeConsumer() decides and consume() opens a     *)
(* channel, limits it and consumes.  The broker is external: it delivers   *)
(* to a consumer as many messages as the prefetch of its channel allows.   *)
(* Pairs of RABBIT_OPTIONS are [queue, field, text]; texts are "True",     *)
(* "False", "no" (any other word), "" and numbers, and "missing" is a pair *)
(* without an equals sign.                                                 *)
(***************************************************************************)
EXTENDS LoaderLists

CONSTANTS Queues,
          Lists,            \* lists to start with
          Settings,         \* values of RABBIT_OPTIONS: sequences of pairs
          Directories,      \* sequences of files [kind, queue, form, enabled, prefetch]
          DefaultPrefetch,  \* RABBIT.DEFAULT_PREFETCH
          MaxHeld           \* bound: messages a consumer holds

\* A queue is no wildcard; the texts are all that are told apart.
ASSUME LoadingAssumption ==
    /\ DefaultPrefetch \in Nat \ {0} /\ MaxHeld \in Nat
    /\ "*" \notin Queues
    /\ \A l \in Lists :
          l \in Seq([deny : BOOLEAN, name : {l[i].name : i \in DOMAIN l}])
    /\ \A s \in Settings :
          s \in Seq([queue : {s[i].queue : i \in DOMAIN s}, field : {"enabled", "prefetch"},
                     text : {"True", "False", "no", "", "0", "1", "3", "missing"}])

\* The type of ConsumerOptions; a queue has one consumer.
ASSUME DirectoriesAssumption ==
    \A d \in Directories :
        /\ d \in Seq([kind : {"setup", "broken", "noFunction", "throws"}, queue : Queues,
                      form : {"options", "string"}, enabled : {"undefined", "true", "false"},
                      prefetch : {"undefined", "0", "1", "3"}])
        /\ \A i, j \in DOMAIN d : d[i].queue = d[j].queue => i = j

VARIABLES list,      \* CONSUMER.LIST
          setting,   \* RABBIT_OPTIONS
          files,     \* the valid files of the directory
          loading,   \* new, built, loaded, or failed: bootstrap() rejects
          consumer,  \* of each queue: none, channel, prefetch, consume, online, failed
          limit,     \* the prefetch of its channel, 0 for none
          held       \* messages it has that are not acknowledged

scenario == <<list, setting, files>>
loadingVars == <<scenario, loading, consumer, limit, held>>

\* The state of the consumers.
LoadingTypeOK ==
    /\ loading \in {"new", "built", "loaded", "failed"}
    /\ consumer \in [Queues -> {"none", "channel", "prefetch", "consume", "online", "failed"}]
    /\ limit \in [Queues -> Nat]
    /\ held \in [Queues -> 0..MaxHeld]

LoadingInit == /\ list \in Lists /\ setting \in Settings /\ files \in Directories
               /\ loading = "new"
               /\ consumer = [q \in Queues |-> "none"]
               /\ limit = [q \in Queues |-> 0]
               /\ held = [q \in Queues |-> 0]

-----------------------------------------------------------------------------
(* The options.                                                            *)

\* parseValue(): Number("") is 0.
Value(text) == CASE text = "True"  -> "true"
                 [] text = "False" -> "false"
                 [] text = ""      -> "0"
                 [] OTHER          -> text

\* optionsFromEnv: a later pair overwrites an earlier one.
FromEnv(queue, field) ==
    LET pairs == {i \in DOMAIN setting : setting[i].queue = queue /\ setting[i].field = field}
    IN  IF pairs = {} THEN "undefined" ELSE Value(setting[Max(pairs)].text)

\* env ?? own ?? default
FirstDefined(env, own, default) ==
    IF env # "undefined" THEN env ELSE IF own # "undefined" THEN own ELSE default

\* A word other than false is true.
IsEnabled(value) == value \notin {"false", "0"}

\* makeConsumer() with a string has no options, from the environment neither.
Option(file, field, default) ==
    IF file.form = "string" THEN default
    ELSE FirstDefined(FromEnv(file.queue, field), file[field], default)

Selected(file) == Consumes(list, file.queue, IsEnabled(Option(file, "enabled", "true")))

PrefetchFor(file) == Option(file, "prefetch", "default")

\* if (options?.prefetch)
Limits(value) == value \notin {"0", "false"}

Number(value) == CASE value = "default" -> DefaultPrefetch
                   [] value = "1"       -> 1
                   [] value = "3"       -> 3
                   [] OTHER             -> 0

\* amqplib refuses a prefetch that is no number.
Invalid(value) == value \in {"true", "no"}

-----------------------------------------------------------------------------
(* Startup.                                                                *)

\* new RabbitMqServer(): a pair without a value has no toLowerCase().
Construct ==
    /\ loading = "new"
    /\ loading' = IF \E i \in DOMAIN setting : setting[i].text = "missing" THEN "failed" ELSE "built"
    /\ UNCHANGED <<scenario, consumer, limit, held>>

RunFiles_AllOrNothing == IF \E i \in DOMAIN files : files[i].kind = "broken"
                         THEN {} ELSE DOMAIN files

\* The files whose setup runs: one that cannot be imported, or exports no
\* function, is skipped; a setup that throws ends the loop.
RunFiles == {i \in DOMAIN files : /\ files[i].kind = "setup"
                                  /\ \A j \in 1..i : files[j].kind # "throws"}

\* The file that defines the consumer of a queue.
FileOf(q) == {i \in DOMAIN files : files[i].queue = q}

\* consumersDirectory(): consume() is called for each selected consumer, and
\* nobody waits for it.
LoadConsumers ==
    /\ loading = "built"
    /\ loading' = IF \E i \in DOMAIN files : files[i].kind = "throws" THEN "failed" ELSE "loaded"
    /\ consumer' = [q \in Queues |->
          IF \E i \in RunFiles \cap FileOf(q) : Selected(files[i]) THEN "channel" ELSE "none"]
    /\ UNCHANGED <<scenario, limit, held>>

-----------------------------------------------------------------------------
(* consume() of the consumer of queue q.                                   *)

Definition(q) == files[CHOOSE i \in FileOf(q) : TRUE]

Consuming(q, from, to) == /\ loading = "loaded"
                          /\ consumer[q] = from
                          /\ consumer' = [consumer EXCEPT ![q] = to]
                          /\ UNCHANGED <<scenario, loading>>

AfterChannel_ConsumesFirst(q) == "consume"

\* The channel is limited before it consumes.
AfterChannel(q) == IF Limits(PrefetchFor(Definition(q))) THEN "prefetch" ELSE "consume"

ChannelOpens(q) == /\ Consuming(q, "channel", AfterChannel(q))
                   /\ UNCHANGED <<limit, held>>

PrefetchSet(q) == /\ ~Invalid(PrefetchFor(Definition(q)))
                  /\ Consuming(q, "prefetch", "consume")
                  /\ limit' = [limit EXCEPT ![q] = Number(PrefetchFor(Definition(q)))]
                  /\ UNCHANGED held

\* The channel's consume() answers; the consumer enters this.consumers.
ConsumeAnswers(q) == /\ Consuming(q, "consume", "online")
                     /\ UNCHANGED <<limit, held>>

\* A call rejects: consume() logs it, and the startup goes on.
ConsumeFails(q) == /\ \E from \in {"channel", "prefetch", "consume"} : Consuming(q, from, "failed")
                   /\ UNCHANGED <<limit, held>>

\* The broker delivers, also before consume() has its answer.
Deliver(q) == /\ loading = "loaded" /\ consumer[q] \in {"consume", "online"}
              /\ held[q] < MaxHeld /\ (limit[q] > 0 => held[q] < limit[q])
              /\ held' = [held EXCEPT ![q] = @ + 1]
              /\ UNCHANGED <<scenario, loading, consumer, limit>>

\* The callback's finally acknowledges.
Ack(q) == /\ loading = "loaded" /\ held[q] > 0
          /\ held' = [held EXCEPT ![q] = @ - 1]
          /\ UNCHANGED <<scenario, loading, consumer, limit>>

LoadingNext ==
    \/ Construct \/ LoadConsumers
    \/ \E q \in Queues : \/ ChannelOpens(q) \/ PrefetchSet(q) \/ ConsumeAnswers(q)
                         \/ ConsumeFails(q) \/ Deliver(q) \/ Ack(q)

\* Calls settle; the broker delivers what it wants.
LoadingSpec == /\ LoadingInit /\ [][LoadingNext]_loadingVars
               /\ WF_loadingVars(Construct) /\ WF_loadingVars(LoadConsumers)
               /\ \A q \in Queues : WF_loadingVars(ChannelOpens(q) \/ PrefetchSet(q)
                                                    \/ ConsumeAnswers(q) \/ ConsumeFails(q))

-----------------------------------------------------------------------------
(* Properties.                                                             *)

Mentions(name, deny) == \E i \in DOMAIN list : list[i] = [deny |-> deny, name |-> name]

LastWildcard == LET wild == {i \in DOMAIN list : list[i].name = "*"}
                IN  IF wild = {} THEN "none" ELSE IF list[Max(wild)].deny THEN "deny" ELSE "allow"

\* What the list says of a queue wins over every option: !name, then name, then
\* the last wildcard; only then the options count (doc/en-us/messaging.md
\* 37-44), whichever files fail around it.
ListDecides ==
    loading = "loaded" => \A i \in RunFiles :
        LET q == files[i].queue
            disabled == FromEnv(q, "enabled") \in {"false", "0"}
                        \/ /\ FromEnv(q, "enabled") = "undefined"
                           /\ files[i].enabled = "false"
        IN  (consumer[q] # "none") <=>
               /\ ~Mentions(q, TRUE)
               /\ \/ Mentions(q, FALSE)
                  \/ LastWildcard = "allow"
                  \/ LastWildcard = "none" /\ (files[i].form = "options" => ~disabled)

\* A consumer and a worker of the same name, options and list are started or
\* left out together: WORKER_LIST has the semantics of CONSUMER_LIST
\* (doc/en-us/configuration.md 21).
SameSemantics ==
    loading = "loaded" => \A i \in RunFiles :
        (consumer[files[i].queue] # "none") <=>
            Registers(list, files[i].queue, IsEnabled(Option(files[i], "enabled", "true")))

\* A consumer without a prefetch of its own never holds more messages than the
\* default, nor one with a prefetch more than that (environment.ts 90-91): the
\* limit is there before the first delivery.
HeldIsBounded ==
    \A q \in Queues : held[q] > 0 =>
        LET value == PrefetchFor(Definition(q)) IN Limits(value) => held[q] <= Number(value)

Due(q) == /\ loading = "built"
          /\ \E i \in FileOf(q) : files[i].kind = "setup" /\ Selected(files[i])

\* A file that fails costs the other files nothing: each consumer that is
\* selected ends online or with its error logged, unless a setup throws, which
\* ends the startup.
EachIsTried ==
    \A q \in Queues : Due(q) ~> consumer[q] \in {"online", "failed"} \/ loading = "failed"

\* A consumer is started when the list, and else its options, say so, and as a
\* worker of its name would be.
StartsAsListed == LoadingTypeOK /\ ListDecides /\ SameSemantics
=============================================================================
