------------------------ MODULE SocketPollingProofs ------------------------
(***************************************************************************)
(* What cached reads and the messages of a socket guarantee for every      *)
(* cache, option, registration of handlers and number of messages, reads   *)
(* and keys.                                                               *)
(***************************************************************************)
EXTENDS SocketPolling, WellFoundedInduction, TLAPS

-----------------------------------------------------------------------------
(* The inductive invariant.                                                *)

Typed == TypeOK /\ step = [m \in Messages |-> step[m]]

\* What is cached under the key of a read is what the upstream said to one that
\* fits, what other programs wrote is in Memcached, and what is still to be saved
\* is the upstream's word.
Cached ==
    /\ \A r \in saving : at[r] \in {"answered", "used"} /\ answer[r] = Target[r]
    /\ \A k \in Keys \ ValueKeys : cache[k] # Value
    /\ \A k \in Keys : cache[k] \in Foreigners => ~InProcess(k)
    /\ \A k \in Keys : cache[k] \in Responses =>
          \E r \in Reads \ Large : k = KeyOf(r) /\ cache[k] = Target[r]
    /\ \A r \in Reads : at[r] \in {"new", "reading", "asking"} => answer[r] = None

\* What failed was refused, and a refused read goes on only to be used.
Refused == \A r \in refused : at[r] \in {"failed", "used"}

\* A repeater was started by the last handler of its message, before its ticks,
\* and a refused tick that was used has ended it.
Polls ==
    /\ \A m \in Messages : repeater[m] # "none" => step[m] = Over(m)
    /\ \A r \in Reads, m \in Messages : tick[r] = m =>
          /\ repeater[m] # "none"
          /\ r \in refused /\ at[r] = "used" => repeater[m] = "ended"
    /\ \A r \in Reads : at[r] = "new" <=> tick[r] = None

Inv == Typed /\ Cached /\ AnswersMatch /\ Refused /\ CacheFailsNoRequest /\ Polls
          /\ StateIsPerMessage

-----------------------------------------------------------------------------
(* Keys, entries and handlers.                                             *)

LEMMA KeyFacts ==
    ASSUME NEW r \in Reads
    PROVE  /\ KeyOf(r) \in Keys /\ KeyOf(r) \notin ValueKeys
           /\ Target[r] \in Responses
           /\ Target[r] \notin {None, Value, Error} /\ Target[r] \notin Foreigners
<1>1. KeyOfTarget(Target[r], {}) \in ReadKeys /\ KeyOfTarget(Target[r], {"token"}) \in ReadKeys
  <2>1. {} \in {{}, {"token"}} /\ {"token"} \in {{}, {"token"}}
    OBVIOUS
  <2> QED
    BY <2>1, SMT DEF ReadKeys
<1>2. /\ "token" \in options.headersFields => KeyOf(r) = KeyOfTarget(Target[r], {"token"})
      /\ "token" \notin options.headersFields => KeyOf(r) = KeyOfTarget(Target[r], {})
  BY DEF KeyOf, KeyOfTarget
<1>3. KeyOf(r) \in ReadKeys
  BY <1>1, <1>2
<1>4. KeyOf(r) \in Keys /\ KeyOf(r) \notin ValueKeys
  BY <1>3, KeysAssumption DEF Keys
<1> QED
  BY <1>4, EntriesAssumption DEF Responses

\* What a read is to be answered with: the response to a read of the same data
\* as far as the key shows them, whatever the credentials.
Matches(r, a) ==
    /\ a.what = Target[r].what
    /\ "token" \in options.headersFields => a.token = Target[r].token
    /\ BodyText[a.body] = BodyText[Target[r].body]

\* Reads with one key ask for the same.
LEMMA SameKey ==
    ASSUME NEW r \in Reads, NEW q \in Reads, KeyOf(r) = KeyOf(q)
    PROVE  Matches(r, Target[q])
<1>1. /\ KeyOf(r).what = KeyOf(q).what /\ KeyOf(r).token = KeyOf(q).token
      /\ KeyOf(r).body = KeyOf(q).body
  OBVIOUS
<1> QED
  BY <1>1 DEF KeyOf, KeyOfTarget, Matches

LEMMA ResponsesAreEntries ==
    Responses \cap {None, Value, Error} = {} /\ Responses \cap Foreigners = {}
BY EntriesAssumption DEF Responses

LEMMA EntriesDiffer ==
    /\ None \notin Foreigners /\ Value \notin Foreigners /\ Error \notin Foreigners
    /\ None # Value /\ None # Error /\ Value # Error
BY EntriesAssumption

\* A read under whose key there was an entry takes it, or asks.
LEMMA TakenIs ==
    ASSUME NEW entry, NEW a \in Taken(entry)
    PROVE  a = entry \/ (entry = Foreign /\ a = None)
BY DEF Taken

\* get() gives the entry of the key, or fails outside the process.
LEMMA GetFacts ==
    ASSUME NEW k, NEW entry \in Get(k)
    PROVE  entry = cache[k] \/ (entry = Error /\ ~InProcess(k))
BY DEF Get

LEMMA SetFacts ==
    ASSUME NEW k, NEW v, NEW set \in Set(k, v)
    PROVE  set.cache = cache \/ set.cache = [cache EXCEPT ![k] = v]
BY DEF Set

LEMMA LeastElement ==
    ASSUME NEW T, T \subseteq Nat, T # {}
    PROVE  \E i \in T : \A j \in T : i <= j
<1>1. PICK R : R = OpToRel(<, Nat)
  OBVIOUS
<1>2. IsWellFoundedOn(R, Nat)
  BY <1>1, NatLessThanWellFounded
<1>3. \A x, y \in Nat : <<x, y>> \in R <=> x < y
  BY <1>1 DEF OpToRel
<1>4. PICK i \in T : \A j \in T : ~ (<<j, i>> \in R)
  BY <1>2, WFMin
<1>5. \A j \in T : ~ (j < i)
  BY <1>3, <1>4
<1>6. \A j \in T : i <= j
  BY <1>5
<1> QED
  BY <1>6

\* The handlers of a message are a sequence, of which each has a value's key.
LEMMA HandlersFacts ==
    ASSUME NEW m \in Messages
    PROVE  /\ Len(Handlers(m)) \in Nat /\ DOMAIN Handlers(m) = 1..Len(Handlers(m))
           /\ \A i \in DOMAIN Handlers(m) : Handlers(m)[i].key \in ValueKeys
<1> DEFINE of == {i \in DOMAIN Registrations : Registrations[i].event = EventOf[m]}
<1>0. PICK E : E = {Registrations[i].event : i \in DOMAIN Registrations}
  OBVIOUS
<1>1. PICK H : H = [op : {"get", "save", "repeat"}, key : ValueKeys, throws : BOOLEAN]
  OBVIOUS
<1> Registrations \in Seq([event : E, handlers : Seq(H)])
  BY <1>0, <1>1, SocketAssumption, Zenon
<1>2. PICK S : Registrations \in Seq(S) /\ \A g \in S : g.handlers \in Seq(H)
  <2>1. \A g \in [event : E, handlers : Seq(H)] : g.handlers \in Seq(H)
    OBVIOUS
  <2> QED
    BY <2>1, Zenon
<1>3. \A h \in H : h.key \in ValueKeys
  BY <1>1
<1>4. Handlers(m) = <<>> \/ Handlers(m) \in Seq(H)
  <2>1. CASE of = {}
    BY <2>1 DEF Handlers
  <2>2. CASE of # {}
    <3>1. of \subseteq Nat
      BY <1>2
    <3>4. PICK i \in of : \A j \in of : i <= j
      BY <2>2, <3>1, LeastElement
    <3>5. Min(of) \in of
      BY <3>4 DEF Min
    <3>6. Handlers(m) = Registrations[Min(of)].handlers
      BY <2>2 DEF Handlers
    <3>7. Registrations[Min(of)] \in S
      BY <1>2, <3>5
    <3> QED
      BY <1>2, <3>6, <3>7
  <2> QED
    BY <2>1, <2>2
<1>5. PICK s : s = Handlers(m)
  OBVIOUS
<1>6. /\ Len(s) \in Nat /\ DOMAIN s = 1..Len(s)
      /\ \A i \in DOMAIN s : s[i].key \in ValueKeys
  BY <1>3, <1>4, <1>5
<1> QED
  BY <1>5, <1>6

-----------------------------------------------------------------------------
(* Which steps change what.                                                *)

USE DEF Next, Message, CachedRead, Connect, Disconnect, Expires, Corrupted, Start, ReadCache,
        Answers, Refuses, Save, ServiceStarts, Receive, GetValue, SaveValue, StartRepeater,
        Throws, Tick, ReadIsUsed, TickResolves, TickFails, TickRejects, TimerFires,
        ClientLeaves, cacheVars, socketVars, vars

LEMMA CacheFrame ==
    ASSUME [Next]_vars
    PROVE  /\ UNCHANGED options
           /\ \/ UNCHANGED cache
              \/ \E r \in Reads : Save(r)
              \/ \E m \in Messages : SaveValue(m)
              \/ \E k \in Keys : Expires(k) \/ Corrupted(k)
OBVIOUS

LEMMA ReadFrame ==
    ASSUME [Next]_vars
    PROVE  \/ UNCHANGED <<at, answer, saving, refused>>
           \/ \E r \in Reads : \/ ReadCache(r) \/ Answers(r) \/ Refuses(r) \/ Save(r)
                               \/ TickResolves(r) \/ TickFails(r)
           \/ \E m \in Messages, r \in Reads : Tick(m, r)
OBVIOUS

LEMMA SocketFrame ==
    ASSUME [Next]_vars
    PROVE  /\ \/ UNCHANGED <<open, step, state, got, repeater, tick>>
              \/ \E m \in Messages : \/ Receive(m) \/ GetValue(m) \/ SaveValue(m)
                                     \/ StartRepeater(m) \/ Throws(m) \/ TimerFires(m)
                                     \/ \E r \in Reads : Tick(m, r)
              \/ \E r \in Reads : TickResolves(r) \/ TickFails(r)
              \/ ClientLeaves
           /\ connected' = connected \/ connected' \in BOOLEAN
OBVIOUS

HIDE DEF Next, Message, CachedRead, Connect, Disconnect, Expires, Corrupted, Start, ReadCache,
         Answers, Refuses, Save, ServiceStarts, Receive, GetValue, SaveValue, StartRepeater,
         Throws, Tick, ReadIsUsed, TickResolves, TickFails, TickRejects, TimerFires,
         ClientLeaves, cacheVars, socketVars, vars

-----------------------------------------------------------------------------
(* The types.                                                              *)

LEMMA CacheTypes == ASSUME Typed, Cached, [Next]_vars PROVE CacheTypeOK'
<1> USE DEF Typed, TypeOK, CacheTypeOK
<1>1. options' \in Options /\ connected' \in BOOLEAN
  BY CacheFrame, SocketFrame
<1>2. cache' \in [Keys -> Entries]
  <2>1. ASSUME NEW k, NEW e \in Entries PROVE [cache EXCEPT ![k] = e] \in [Keys -> Entries]
    BY <2>1
  <2>2. ASSUME NEW r \in Reads, Save(r) PROVE cache' \in [Keys -> Entries]
    <3>1. answer[r] \in Entries
      BY <2>2, KeyFacts DEF Save, Cached, Entries
    <3>2. cache' = cache \/ cache' = [cache EXCEPT ![KeyOf(r)] = answer[r]]
      <4>1. cache' = cache \/ \E set \in Set(KeyOf(r), answer[r]) : cache' = set.cache
        BY <2>2 DEF Save
      <4> QED
        BY <4>1, SetFacts, Zenon
    <3> QED
      BY <2>1, <3>1, <3>2
  <2>3. ASSUME NEW m \in Messages, SaveValue(m) PROVE cache' \in [Keys -> Entries]
    <3>1. \E set \in Set(Handler(m).key, Value) : cache' = set.cache
      BY <2>3, Zenon DEF SaveValue
    <3>2. cache' = cache \/ cache' = [cache EXCEPT ![Handler(m).key] = Value]
      BY <3>1, SetFacts, Zenon
    <3> QED
      BY <2>1, <3>2 DEF Entries
  <2>4. ASSUME NEW k \in Keys, Expires(k) \/ Corrupted(k) PROVE cache' \in [Keys -> Entries]
    BY <2>1, <2>4 DEF Expires, Corrupted, Entries
  <2> QED
    BY <2>2, <2>3, <2>4, CacheFrame
<1>3. /\ at' \in [Reads -> {"new", "reading", "asking", "answered", "failed", "unhandled", "used"}]
      /\ answer' \in [Reads -> Responses \cup Foreigners \cup {None}]
      /\ saving' \subseteq Reads /\ refused' \subseteq Reads
  <2>1. ASSUME NEW r \in Reads, ReadCache(r)
        PROVE  /\ at' \in [Reads -> {"new", "reading", "asking", "answered", "failed",
                                     "unhandled", "used"}]
               /\ answer' \in [Reads -> Responses \cup Foreigners \cup {None}]
    <3>1. PICK entry \in Get(KeyOf(r)) :
             \/ at' = [at EXCEPT ![r] = CacheFails(r)] /\ UNCHANGED answer
             \/ /\ entry # Error
                /\ \E a \in Taken(entry) :
                      /\ at' = [at EXCEPT ![r] = IF a = None THEN "asking" ELSE "answered"]
                      /\ answer' = [answer EXCEPT ![r] = a]
      BY <2>1, Zenon DEF ReadCache
    <3>2. KeyOf(r) \in Keys /\ KeyOf(r) \notin ValueKeys
      BY KeyFacts
    <3>3. entry # Error => entry = cache[KeyOf(r)]
      BY GetFacts
    <3>4. cache[KeyOf(r)] \in Entries /\ cache[KeyOf(r)] # Value
      BY <3>2 DEF Cached
    <3>5. \A a \in Taken(entry) : entry # Error => a \in Responses \cup Foreigners \cup {None}
      BY <3>3, <3>4, TakenIs DEF Entries
    <3>6. CacheFails(r) \in {"unhandled", "asking"}
      BY DEF CacheFails
    <3> QED
      BY <3>1, <3>5, <3>6
  <2>2. ASSUME NEW r \in Reads,
               Answers(r) \/ Refuses(r) \/ Save(r) \/ TickResolves(r) \/ TickFails(r)
        PROVE  /\ at' \in [Reads -> {"new", "reading", "asking", "answered", "failed",
                                     "unhandled", "used"}]
               /\ answer' \in [Reads -> Responses \cup Foreigners \cup {None}]
               /\ saving' \subseteq Reads /\ refused' \subseteq Reads
    BY <2>2, KeyFacts DEF Answers, Refuses, Save, TickResolves, TickFails, ReadIsUsed
  <2>3. ASSUME NEW r \in Reads, NEW m \in Messages, Tick(m, r)
        PROVE  /\ at' = [at EXCEPT ![r] = "reading"] /\ UNCHANGED <<answer, saving, refused>>
    BY <2>3 DEF Tick, Start
  <2>4. \A r \in Reads : ReadCache(r) => UNCHANGED <<saving, refused>>
    BY DEF ReadCache
  <2> QED
    BY <2>1, <2>2, <2>3, <2>4, ReadFrame
<1> QED
  BY <1>1, <1>2, <1>3

\* The step of a message's flow stays between its handlers.
LEMMA StepFrame ==
    ASSUME Typed, [Next]_vars
    PROVE  /\ step' = [m \in Messages |-> step'[m]]
           /\ \A m \in Messages :
                 \/ step'[m] = step[m]
                 \/ step[m] = 0 /\ step'[m] = 1 /\ Handlers(m) # <<>>
                 \/ step[m] \in DOMAIN Handlers(m) /\ step'[m] \in {step[m] + 1, Over(m)}
<1> DEFINE Moves(m) == \/ step[m] = 0 /\ step' = [step EXCEPT ![m] = @ + 1] /\ Handlers(m) # <<>>
                       \/ /\ step[m] \in DOMAIN Handlers(m)
                          /\ \/ step' = [step EXCEPT ![m] = @ + 1]
                             \/ step' = [step EXCEPT ![m] = Over(m)]
<1>1. \/ step' = step
      \/ \E m \in Messages : Moves(m)
  BY SocketFrame DEF Receive, GetValue, SaveValue, StartRepeater, Throws, TimerFires, Tick,
       TickResolves, TickFails, ClientLeaves, Handling, Continues, Resolves
<1>2. CASE step' = step
  BY <1>2 DEF Typed
<1>3. ASSUME NEW n \in Messages, Moves(n)
      PROVE  /\ step' = [m \in Messages |-> step'[m]]
             /\ \A m \in Messages :
                   \/ step'[m] = step[m]
                   \/ step[m] = 0 /\ step'[m] = 1 /\ Handlers(m) # <<>>
                   \/ step[m] \in DOMAIN Handlers(m) /\ step'[m] \in {step[m] + 1, Over(m)}
  BY <1>3 DEF Typed
<1> HIDE DEF Moves
<1> QED
  BY <1>1, <1>2, <1>3

LEMMA TypedStep == ASSUME Typed, Cached, [Next]_vars PROVE Typed'
<1>1. CacheTypeOK'
  BY CacheTypes
<1>2. open' \in BOOLEAN
  BY SocketFrame DEF Receive, GetValue, SaveValue, StartRepeater, Throws, TimerFires, Tick,
       TickResolves, TickFails, ClientLeaves, Typed, TypeOK
<1>3. \A m \in Messages : step'[m] \in 0..Over(m)
  <2>1. ASSUME NEW m \in Messages PROVE step'[m] \in 0..Over(m)
    <3>1. /\ Len(Handlers(m)) \in Nat /\ DOMAIN Handlers(m) = 1..Len(Handlers(m))
          /\ step[m] \in 0..Over(m)
      BY HandlersFacts DEF Typed, TypeOK
    <3> QED
      BY <3>1, StepFrame DEF Over
  <2> QED
    BY <2>1
<1>4. /\ state' \in [Messages -> SUBSET [by : Messages, key : ValueKeys]]
      /\ got' \in [Messages -> SUBSET ValueKeys]
  <2>1. ASSUME NEW m \in Messages, GetValue(m)
        PROVE  /\ state' \in [Messages -> SUBSET [by : Messages, key : ValueKeys]]
               /\ got' \in [Messages -> SUBSET ValueKeys]
    <3>1. Handler(m).key \in ValueKeys
      BY <2>1, HandlersFacts DEF GetValue, Handling, Handler
    <3>2. PICK k : k = Handler(m).key
      OBVIOUS
    <3>3. \/ UNCHANGED <<state, got>>
          \/ /\ state' = [n \in Messages |->
                    IF n \in StateOf(m) THEN SetCacheValue(state[n], [by |-> m, key |-> k])
                                        ELSE state[n]]
             /\ got' = [got EXCEPT ![m] = @ \cup {k}]
      BY <2>1, <3>2, Zenon DEF GetValue
    <3> QED
      BY <3>1, <3>2, <3>3 DEF SetCacheValue, Typed, TypeOK
  <2>2. UNCHANGED <<state, got>> \/ \E m \in Messages : GetValue(m)
    BY SocketFrame DEF Receive, SaveValue, StartRepeater, Throws, TimerFires, Tick,
         TickResolves, TickFails, ClientLeaves
  <2> QED
    BY <2>1, <2>2 DEF Typed, TypeOK
<1>5. repeater' \in [Messages -> {"none", "on", "ended"}]
  <2>1. \/ repeater' = repeater
        \/ \E m : \/ repeater' = [repeater EXCEPT ![m] = "on"]
                  \/ repeater' = [repeater EXCEPT ![m] = "ended"]
    BY SocketFrame DEF Receive, GetValue, SaveValue, StartRepeater, Throws, TimerFires, Tick,
         TickResolves, TickFails, TickRejects, ClientLeaves, ClearAll
  <2> QED
    BY <2>1 DEF Typed, TypeOK
<1>6. tick' \in [Reads -> Messages \cup {None}]
  BY SocketFrame DEF Receive, GetValue, SaveValue, StartRepeater, Throws, TimerFires, Tick,
       TickResolves, TickFails, ClientLeaves, Typed, TypeOK
<1> QED
  BY <1>1, <1>2, <1>3, <1>4, <1>5, <1>6, StepFrame DEF Typed, TypeOK

-----------------------------------------------------------------------------
(* The cache, and what a read may do.                                      *)

\* The cache keeps what it has but for one entry: a response that fits, under
\* the key of its read; a value, under a value's key; nothing; or, in Memcached, text of another program.
LEMMA CacheChanges ==
    ASSUME [Next]_vars
    PROVE  \/ cache' = cache
           \/ \E r \in saving \cap Reads :
                 r \notin Large /\ cache' = [cache EXCEPT ![KeyOf(r)] = answer[r]]
           \/ \E k \in ValueKeys : cache' = [cache EXCEPT ![k] = Value]
           \/ \E k \in Keys : cache' = [cache EXCEPT ![k] = None]
           \/ \E k \in Keys, e \in Foreigners : /\ cache' = [cache EXCEPT ![k] = e]
                                               /\ ~InProcess(k)
<1>1. ASSUME NEW r \in Reads, Save(r)
      PROVE  \/ cache' = cache
             \/ /\ r \in saving /\ r \notin Large
                /\ cache' = [cache EXCEPT ![KeyOf(r)] = answer[r]]
  <2>1. \/ cache' = cache
        \/ r \notin Large /\ \E set \in Set(KeyOf(r), answer[r]) : cache' = set.cache
    BY <1>1 DEF Save, TooLarge
  <2>2. r \in saving
    BY <1>1 DEF Save
  <2> QED
    BY <2>1, <2>2, SetFacts, Zenon
<1>2. ASSUME NEW m \in Messages, SaveValue(m)
      PROVE  cache' = cache \/ \E k \in ValueKeys : cache' = [cache EXCEPT ![k] = Value]
  <2>1. \E set \in Set(Handler(m).key, Value) : cache' = set.cache
    BY <1>2, Zenon DEF SaveValue
  <2>2. cache' = cache \/ cache' = [cache EXCEPT ![Handler(m).key] = Value]
    BY <2>1, SetFacts, Zenon
  <2>3. Handler(m).key \in ValueKeys
    BY <1>2, HandlersFacts DEF SaveValue, Handling, Handler
  <2> QED
    BY <2>2, <2>3, Zenon
<1>3. ASSUME NEW k \in Keys, Expires(k) \/ Corrupted(k)
      PROVE  \/ cache' = [cache EXCEPT ![k] = None]
             \/ \E e \in Foreigners : cache' = [cache EXCEPT ![k] = e] /\ ~InProcess(k)
  BY <1>3 DEF Expires, Corrupted
<1> QED
  BY <1>1, <1>2, <1>3, CacheFrame

LEMMA CacheAt ==
    ASSUME Typed, [Next]_vars, NEW k \in Keys
    PROVE  \/ cache'[k] = cache[k]
           \/ \E r \in saving \cap Reads :
                 r \notin Large /\ k = KeyOf(r) /\ cache'[k] = answer[r]
           \/ k \in ValueKeys /\ cache'[k] = Value
           \/ cache'[k] = None
           \/ cache'[k] \in Foreigners /\ ~InProcess(k)
<1>1. ASSUME NEW l, NEW e, cache' = [cache EXCEPT ![l] = e]
      PROVE  cache'[k] = cache[k] \/ (k = l /\ cache'[k] = e)
  BY <1>1 DEF Typed, TypeOK, CacheTypeOK
<1> QED
  BY <1>1, CacheChanges

\* Read r goes to a with v as its answer.
Goes(r, a, v) == /\ at' = [at EXCEPT ![r] = a]
                 /\ answer' = [answer EXCEPT ![r] = v]

\* What the step of a read does.
ReadMoves(r) ==
    \/ saving' = saving \ {r} /\ UNCHANGED <<at, answer, refused>>
    \/ at[r] = "new" /\ Goes(r, "reading", None) /\ UNCHANGED <<saving, refused>>
    \/ at[r] = "reading" /\ Goes(r, "asking", None) /\ UNCHANGED <<saving, refused>>
    \/ /\ at[r] = "reading" /\ Goes(r, "unhandled", None) /\ UNCHANGED <<saving, refused>>
       /\ r \in Queries /\ options.cacheService = "memjs"
    \/ /\ at[r] = "reading" /\ Goes(r, "answered", cache[KeyOf(r)])
       /\ \/ cache[KeyOf(r)] \in Responses
          \/ /\ options.cacheService = "memjs"
             /\ cache[KeyOf(r)] \in (IF r \in Queries THEN Foreigners ELSE {Foreign})
       /\ UNCHANGED <<saving, refused>>
    \/ /\ at[r] = "asking" /\ Goes(r, "answered", Target[r])
       /\ saving' \in {saving, saving \cup {r}} /\ UNCHANGED refused
    \/ at[r] = "asking" /\ Goes(r, "failed", None) /\ refused' = refused \cup {r} /\ UNCHANGED saving
    \/ /\ at[r] = "answered" /\ Goes(r, "used", answer[r]) /\ UNCHANGED <<saving, refused>>
    \/ /\ at[r] = "failed" /\ Goes(r, "used", answer[r]) /\ UNCHANGED <<saving, refused>>

LEMMA ReadCacheMoves ==
    ASSUME Typed, Cached, NEW r \in Reads, ReadCache(r)
    PROVE  ReadMoves(r)
<1>1. PICK key : key = KeyOf(r)
  OBVIOUS
<1>2. key \in Keys /\ key \notin ValueKeys
  BY <1>1, KeyFacts
<1>3. at[r] = "reading" /\ answer[r] = None /\ UNCHANGED <<saving, refused>>
  BY <1>1 DEF ReadCache, Cached
<1>4. answer = [answer EXCEPT ![r] = None]
  BY <1>3 DEF Typed, TypeOK, CacheTypeOK
<1>5. PICK entry \in Get(key) :
         \/ /\ entry = Error \/ (entry = Garbage /\ r \notin Queries)
            /\ at' = [at EXCEPT ![r] = CacheFails(r)] /\ UNCHANGED answer
         \/ /\ entry # Error /\ ~(entry = Garbage /\ r \notin Queries)
            /\ \E a \in Taken(entry) :
                  /\ at' = [at EXCEPT ![r] = IF a = None THEN "asking" ELSE "answered"]
                  /\ answer' = [answer EXCEPT ![r] = a]
  BY <1>1, Zenon DEF ReadCache
<1>6. entry = cache[key] \/ (entry = Error /\ options.cacheService = "memjs")
  BY <1>2, GetFacts, ReadsAssumption DEF InProcess, Typed, TypeOK, CacheTypeOK
<1>7. cache[key] \in Responses \cup Foreigners \cup {None}
  BY <1>2 DEF Cached, Entries, Typed, TypeOK, CacheTypeOK
<1>8. entry = Error => options.cacheService = "memjs"
  BY <1>6, <1>7, EntriesDiffer, ResponsesAreEntries
<1>9. cache[key] \in Foreigners => options.cacheService = "memjs"
  BY <1>2, ReadsAssumption DEF Cached, InProcess, Typed, TypeOK, CacheTypeOK
<1>10. CASE /\ entry = Error \/ (entry = Garbage /\ r \notin Queries)
            /\ at' = [at EXCEPT ![r] = CacheFails(r)] /\ UNCHANGED answer
  <2>1. \/ r \in Queries /\ CacheFails(r) = "unhandled" /\ options.cacheService = "memjs"
        \/ CacheFails(r) = "asking"
    BY <1>8, <1>10 DEF CacheFails
  <2>2. answer' = [answer EXCEPT ![r] = None]
    BY <1>4, <1>10
  <2> QED
    BY <1>3, <1>10, <2>1, <2>2, Zenon DEF ReadMoves, Goes
<1>11. CASE /\ entry # Error /\ ~(entry = Garbage /\ r \notin Queries)
            /\ \E a \in Taken(entry) :
                  /\ at' = [at EXCEPT ![r] = IF a = None THEN "asking" ELSE "answered"]
                  /\ answer' = [answer EXCEPT ![r] = a]
  <2>1. PICK a \in Taken(entry) :
              /\ at' = [at EXCEPT ![r] = IF a = None THEN "asking" ELSE "answered"]
              /\ answer' = [answer EXCEPT ![r] = a]
    BY <1>11
  <2>2. entry = cache[key] /\ (a = entry \/ a = None)
    BY <1>6, <1>11, TakenIs
  <2>3. CASE a = None
    <3>1. at' = [at EXCEPT ![r] = "asking"] /\ answer' = [answer EXCEPT ![r] = None]
      BY <2>1, <2>3
    <3> QED
      BY <1>3, <3>1, Zenon DEF ReadMoves, Goes
  <2>4. CASE a # None
    <3>1. a = cache[key]
      BY <2>2, <2>4
    <3>2. at' = [at EXCEPT ![r] = "answered"] /\ answer' = [answer EXCEPT ![r] = cache[key]]
      BY <2>1, <2>4, <3>1
    <3>3. \/ cache[key] \in Responses
          \/ /\ options.cacheService = "memjs"
             /\ cache[key] \in (IF r \in Queries THEN Foreigners ELSE {Foreign})
      BY <1>7, <1>9, <1>11, <2>2, <2>4, <3>1 DEF Foreigners
    <3> QED
      BY <1>1, <1>3, <3>2, <3>3, Zenon DEF ReadMoves, Goes
  <2> QED
    BY <2>3, <2>4
<1> QED
  BY <1>5, <1>10, <1>11

LEMMA ReadChanges ==
    ASSUME Typed, Cached, [Next]_vars
    PROVE  UNCHANGED <<at, answer, saving, refused>> \/ \E r \in Reads : ReadMoves(r)
<1>1. ASSUME NEW r \in Reads PROVE answer = [answer EXCEPT ![r] = answer[r]]
  BY DEF Typed, TypeOK, CacheTypeOK
<1>2. \A r \in Reads : at[r] \in {"new", "reading", "asking"} => answer[r] = None
  BY DEF Cached
<1>3. ASSUME NEW r \in Reads, Answers(r) PROVE ReadMoves(r)
  BY <1>3 DEF Answers, ReadMoves, Goes
<1>4. ASSUME NEW r \in Reads, Refuses(r) PROVE ReadMoves(r)
  BY <1>1, <1>2, <1>4, Zenon DEF Refuses, ReadMoves, Goes
<1>5. ASSUME NEW r \in Reads, Save(r) PROVE ReadMoves(r)
  BY <1>5, Zenon DEF Save, ReadMoves
<1>6. ASSUME NEW r \in Reads, TickResolves(r) \/ TickFails(r) PROVE ReadMoves(r)
  BY <1>1, <1>6, Zenon DEF TickResolves, TickFails, ReadIsUsed, ReadMoves, Goes
<1>7. ASSUME NEW m \in Messages, NEW r \in Reads, Tick(m, r) PROVE ReadMoves(r)
  BY <1>1, <1>2, <1>7, Zenon DEF Tick, Start, ReadMoves, Goes
<1> QED
  BY <1>3, <1>4, <1>5, <1>6, <1>7, ReadFrame, ReadCacheMoves

\* The read that moves is another one, or this one.
LEMMA GoesTo ==
    ASSUME Typed, NEW r \in Reads, NEW a, NEW v, Goes(r, a, v)
    PROVE  /\ at'[r] = a /\ answer'[r] = v
           /\ \A q \in Reads : q # r => at'[q] = at[q] /\ answer'[q] = answer[q]
BY DEF Goes, Typed, TypeOK, CacheTypeOK

-----------------------------------------------------------------------------
(* Each part of the invariant is kept.                                     *)

\* The key of a read stays.
LEMMA SameKeys == ASSUME [Next]_vars, NEW r \in Reads PROVE KeyOf(r)' = KeyOf(r)
BY CacheFrame DEF KeyOf

LEMMA CachedStep == ASSUME Typed, Cached, [Next]_vars PROVE Cached'
<1>1. \A r \in saving' : at'[r] \in {"answered", "used"} /\ answer'[r] = Target[r]
  <2>1. saving \subseteq Reads
    BY DEF Typed, TypeOK, CacheTypeOK
  <2>2. ASSUME NEW q \in Reads, ReadMoves(q), NEW r \in saving'
        PROVE  at'[r] \in {"answered", "used"} /\ answer'[r] = Target[r]
    <3>1. r = q \/ r \in saving
      BY <2>2 DEF ReadMoves
    <3>2. r \in saving => at[r] \in {"answered", "used"} /\ answer[r] = Target[r]
      BY DEF Cached
    <3> QED
      BY <2>1, <2>2, <3>1, <3>2, GoesTo DEF ReadMoves
  <2>3. CASE UNCHANGED <<at, answer, saving, refused>>
    BY <2>3 DEF Cached
  <2> QED
    BY <2>2, <2>3, ReadChanges
<1>2. ASSUME NEW k \in Keys \ ValueKeys PROVE cache'[k] # Value
  <2>1. cache'[k] = cache[k] => cache'[k] # Value
    BY DEF Cached
  <2>2. \A r \in saving \cap Reads : answer[r] # Value
    BY KeyFacts DEF Cached
  <2> QED
    BY <2>1, <2>2, CacheAt, EntriesDiffer
<1>6. ASSUME NEW k \in Keys, cache'[k] \in Foreigners PROVE ~InProcess(k)'
  <2>1. InProcess(k)' = InProcess(k)
    BY CacheFrame DEF InProcess
  <2>2. cache[k] \in Foreigners => ~InProcess(k)
    BY DEF Cached
  <2>3. \A r \in saving \cap Reads : answer[r] \notin Foreigners
    BY KeyFacts DEF Cached
  <2> QED
    BY <1>6, <2>1, <2>2, <2>3, CacheAt, EntriesDiffer
<1>3. ASSUME NEW k \in Keys, cache'[k] \in Responses
      PROVE  \E r \in Reads \ Large : k = KeyOf(r)' /\ cache'[k] = Target[r]
  <2>1. CASE cache'[k] = cache[k]
    <3>1. PICK r \in Reads \ Large : k = KeyOf(r) /\ cache[k] = Target[r]
      BY <1>3, <2>1 DEF Cached
    <3> QED
      BY <2>1, <3>1, SameKeys
  <2>2. CASE cache'[k] # cache[k]
    <3>1. PICK r \in saving \cap Reads : r \notin Large /\ k = KeyOf(r) /\ cache'[k] = answer[r]
      BY <1>3, <2>2, CacheAt, ResponsesAreEntries
    <3> QED
      BY <3>1, SameKeys DEF Cached
  <2> QED
    BY <2>1, <2>2
<1>4. \A r \in Reads : at'[r] \in {"new", "reading", "asking"} => answer'[r] = None
  <2>1. ASSUME NEW q \in Reads, ReadMoves(q), NEW r \in Reads,
               at'[r] \in {"new", "reading", "asking"}
        PROVE  answer'[r] = None
    <3>1. at[r] \in {"new", "reading", "asking"} => answer[r] = None
      BY DEF Cached
    <3> QED
      BY <2>1, <3>1, GoesTo DEF ReadMoves
  <2>2. CASE UNCHANGED <<at, answer, saving, refused>>
    BY <2>2 DEF Cached
  <2> QED
    BY <2>1, <2>2, ReadChanges
<1>5. Keys' = Keys /\ Responses' = Responses
  BY DEF Keys, Responses
<1> QED
  BY <1>1, <1>2, <1>3, <1>4, <1>5, <1>6 DEF Cached

LEMMA AnswersMatchStep == ASSUME Typed, Cached, AnswersMatch, [Next]_vars PROVE AnswersMatch'
<1> DEFINE Theirs(r, a) == /\ options.cacheService = "memjs"
                           /\ a \in (IF r \in Queries THEN Foreigners ELSE {Foreign})
<1>1. ASSUME NEW r \in Reads, cache[KeyOf(r)] \in Responses
      PROVE  Matches(r, cache[KeyOf(r)])
  <2>1. PICK q \in Reads \ Large : KeyOf(r) = KeyOf(q) /\ cache[KeyOf(r)] = Target[q]
    BY <1>1, KeyFacts DEF Cached
  <2> QED
    BY <2>1, SameKey
<1>2. ASSUME NEW r \in Reads, answer'[r] # None
      PROVE  (answer'[r] \in Responses /\ Matches(r, answer'[r])) \/ Theirs(r, answer'[r])
  <2>1. answer[r] # None => (answer[r] \in Responses /\ Matches(r, answer[r])) \/ Theirs(r, answer[r])
    BY DEF AnswersMatch, Matches
  <2>2. Target[r] \in Responses /\ Matches(r, Target[r])
    BY KeyFacts DEF Matches
  <2>3. \/ answer'[r] \in {answer[r], None, Target[r]}
        \/ /\ answer'[r] = cache[KeyOf(r)]
           /\ cache[KeyOf(r)] \in Responses \/ Theirs(r, cache[KeyOf(r)])
    <3>1. ASSUME NEW q \in Reads, ReadMoves(q)
          PROVE  \/ answer'[r] \in {answer[r], None, Target[r]}
                 \/ /\ answer'[r] = cache[KeyOf(r)]
                    /\ cache[KeyOf(r)] \in Responses \/ Theirs(r, cache[KeyOf(r)])
      BY <3>1, GoesTo DEF ReadMoves
    <3> QED
      BY <3>1, ReadChanges
  <2> HIDE DEF Theirs
  <2> QED
    BY <1>1, <1>2, <2>1, <2>2, <2>3
<1>3. options' = options /\ Responses' = Responses /\ Keys' = Keys
  BY CacheFrame DEF Responses, Keys
<1>4. \A k \in Keys : cache'[k] \in Responses => \E r \in Reads \ Large : cache'[k] = Target[r]
  <2>1. Cached'
    BY CachedStep
  <2> QED
    BY <1>3, <2>1 DEF Cached
<1> QED
  BY <1>2, <1>3, <1>4 DEF AnswersMatch, Matches

LEMMA RefusedStep == ASSUME Typed, Cached, Refused, [Next]_vars PROVE Refused'
<1>1. refused \subseteq Reads
  BY DEF Typed, TypeOK, CacheTypeOK
<1>2. ASSUME NEW q \in Reads, ReadMoves(q), NEW r \in refused' PROVE at'[r] \in {"failed", "used"}
  <2>1. r = q \/ r \in refused
    BY <1>2 DEF ReadMoves
  <2>2. r \in refused => at[r] \in {"failed", "used"}
    BY DEF Refused
  <2> QED
    BY <1>1, <1>2, <2>1, <2>2, GoesTo DEF ReadMoves
<1> QED
  BY <1>2, ReadChanges DEF Refused

LEMMA CacheFailsNoRequestStep ==
    ASSUME Typed, Cached, CacheFailsNoRequest, [Next]_vars PROVE CacheFailsNoRequest'
<1>1. options' = options
  BY CacheFrame
<1>2. ASSUME NEW q \in Reads, ReadMoves(q), NEW r \in Reads
      PROVE  /\ at'[r] = "failed" => r \in refused'
             /\ at'[r] = "unhandled" => r \in Queries /\ options.cacheService = "memjs"
  <2>1. /\ at[r] = "failed" => r \in refused
        /\ at[r] = "unhandled" => r \in Queries /\ options.cacheService = "memjs"
    BY DEF CacheFailsNoRequest
  <2>2. refused \subseteq refused'
    BY <1>2 DEF ReadMoves
  <2> QED
    BY <1>2, <2>1, <2>2, GoesTo DEF ReadMoves
<1> QED
  BY <1>1, <1>2, ReadChanges DEF CacheFailsNoRequest

\* What happens to the repeaters and to the ticks.
LEMMA RepeaterChanges ==
    ASSUME [Next]_vars
    PROVE  /\ \/ UNCHANGED repeater
              \/ \E m \in Messages : StartRepeater(m) \/ TimerFires(m)
              \/ \E r \in Reads : TickResolves(r) \/ TickFails(r)
           /\ \/ UNCHANGED tick
              \/ \E m \in Messages, r \in Reads : Tick(m, r)
BY SocketFrame DEF Receive, GetValue, SaveValue, StartRepeater, Throws, TimerFires, Tick,
     TickResolves, TickFails, ClientLeaves

\* A repeater starts once, at the end of its message's flow, and never again.
LEMMA RepeaterMoves ==
    ASSUME Typed, Polls, [Next]_vars, NEW m \in Messages
    PROVE  \/ repeater'[m] = repeater[m]
           \/ repeater[m] = "none" /\ repeater'[m] = "on" /\ step'[m] = Over(m)
           \/ repeater[m] # "none" /\ repeater'[m] = "ended"
<1>1. ASSUME NEW n \in Messages, StartRepeater(n)
      PROVE  \/ repeater'[m] = repeater[m]
             \/ repeater[m] = "none" /\ repeater'[m] = "on" /\ step'[m] = Over(m)
  <2>1. /\ step[n] \in DOMAIN Handlers(n)
        /\ step' = [step EXCEPT ![n] = Over(n)] /\ repeater' = [repeater EXCEPT ![n] = "on"]
    BY <1>1 DEF StartRepeater, Handling, Resolves
  <2>2. step[n] # Over(n)
    BY <2>1, HandlersFacts DEF Over
  <2>3. repeater[n] = "none"
    BY <2>2 DEF Polls
  <2> QED
    BY <2>1, <2>3 DEF Typed, TypeOK
<1>2. ASSUME NEW n \in Messages, TimerFires(n)
      PROVE  repeater'[m] = repeater[m] \/ (repeater[m] # "none" /\ repeater'[m] = "ended")
  BY <1>2 DEF TimerFires, ClearAll, Typed, TypeOK
<1>3. ASSUME NEW r \in Reads, TickResolves(r) \/ TickFails(r)
      PROVE  repeater'[m] = repeater[m] \/ (repeater[m] # "none" /\ repeater'[m] = "ended")
  <2>1. tick[r] \in Messages /\ repeater[tick[r]] # "none"
    BY <1>3 DEF TickResolves, TickFails, Polls, Typed, TypeOK
  <2>2. repeater' = repeater \/ repeater' = [repeater EXCEPT ![tick[r]] = "ended"]
    BY <1>3 DEF TickResolves, TickFails, TickRejects, ClearAll
  <2> QED
    BY <2>1, <2>2 DEF Typed, TypeOK
<1> QED
  BY <1>1, <1>2, <1>3, RepeaterChanges

\* The tick of a repeater starts a read, and only while the repeater is on.
LEMMA TickMoves ==
    ASSUME Typed, [Next]_vars, NEW r \in Reads
    PROVE  \/ tick'[r] = tick[r]
           \/ \E m \in Messages : /\ Tick(m, r) /\ tick'[r] = m /\ repeater[m] = "on"
                                  /\ at[r] = "new" /\ at'[r] = "reading" /\ repeater' = repeater
<1>1. ASSUME NEW m \in Messages, NEW q \in Reads, Tick(m, q)
      PROVE  /\ tick' = [tick EXCEPT ![q] = m] /\ repeater[m] = "on" /\ at[q] = "new"
             /\ at' = [at EXCEPT ![q] = "reading"] /\ repeater' = repeater
  BY <1>1 DEF Tick, Start
<1> QED
  BY <1>1, RepeaterChanges DEF Typed, TypeOK, CacheTypeOK

\* Only a tick starts a read.
LEMMA NewMoves ==
    ASSUME Typed, [Next]_vars, NEW r \in Reads, ~ \E m \in Messages : Tick(m, r)
    PROVE  at'[r] = "new" <=> at[r] = "new"
<1>1. ASSUME NEW q \in Reads, at[q] # "new", NEW a, a # "new", at' = [at EXCEPT ![q] = a]
      PROVE  at'[r] = "new" <=> at[r] = "new"
  BY <1>1 DEF Typed, TypeOK, CacheTypeOK
<1>2. ASSUME NEW q \in Reads, ReadCache(q)
      PROVE  at[q] # "new" /\ \E a : a # "new" /\ at' = [at EXCEPT ![q] = a]
  BY <1>2 DEF ReadCache, CacheFails
<1>3. ASSUME NEW q \in Reads,
             Answers(q) \/ Refuses(q) \/ Save(q) \/ TickResolves(q) \/ TickFails(q)
      PROVE  \/ at' = at
             \/ at[q] # "new" /\ \E a : a # "new" /\ at' = [at EXCEPT ![q] = a]
  BY <1>3 DEF Answers, Refuses, Save, TickResolves, TickFails, ReadIsUsed
<1>4. ASSUME NEW q \in Reads, NEW m \in Messages, Tick(m, q) PROVE at'[r] = at[r]
  BY <1>4 DEF Tick, Start, Typed, TypeOK, CacheTypeOK
<1> QED
  BY <1>1, <1>2, <1>3, <1>4, ReadFrame

\* A refused read becomes used when its tick fails.
LEMMA UsedMoves ==
    ASSUME Typed, Refused, [Next]_vars, NEW r \in refused', at'[r] = "used",
           ~ (r \in refused /\ at[r] = "used")
    PROVE  TickFails(r)
<1>1. r \in refused => at[r] = "failed"
  BY DEF Refused
<1>2. refused \subseteq Reads
  BY DEF Typed, TypeOK, CacheTypeOK
<1>3. ASSUME NEW q \in Reads, Refuses(q) PROVE FALSE
  BY <1>1, <1>2, <1>3 DEF Refuses, Typed, TypeOK, CacheTypeOK
<1>4. ASSUME NEW q \in Reads,
             ReadCache(q) \/ Answers(q) \/ Save(q) \/ TickResolves(q) \/ TickFails(q)
      PROVE  q = r /\ TickFails(q)
  <2>1. refused' = refused
    BY <1>4 DEF ReadCache, Answers, Save, TickResolves, TickFails, ReadIsUsed
  <2>2. at[r] = "failed" /\ r \in Reads
    BY <1>1, <1>2, <2>1
  <2>3. /\ at' = at \/ \E a : at' = [at EXCEPT ![q] = a]
        /\ at[q] \in {"reading", "asking", "answered", "failed"} \/ at' = at
        /\ at[q] = "failed" => TickFails(q) \/ at' = at
    BY <1>4 DEF ReadCache, Answers, Save, TickResolves, TickFails, ReadIsUsed
  <2> QED
    BY <2>2, <2>3 DEF Typed, TypeOK, CacheTypeOK
<1>5. ASSUME NEW q \in Reads, NEW m \in Messages, Tick(m, q) PROVE FALSE
  BY <1>1, <1>2, <1>5 DEF Tick, Start, Typed, TypeOK, CacheTypeOK
<1> QED
  BY <1>1, <1>3, <1>4, <1>5, ReadFrame

LEMMA PollsStep == ASSUME Typed, Cached, Refused, Polls, [Next]_vars PROVE Polls'
<1>1. ASSUME NEW m \in Messages, repeater'[m] # "none" PROVE step'[m] = Over(m)
  <2>1. repeater[m] # "none" => step[m] = Over(m)
    BY DEF Polls
  <2>2. step[m] = Over(m) => step'[m] = Over(m)
    <3>1. /\ Len(Handlers(m)) \in Nat /\ DOMAIN Handlers(m) = 1..Len(Handlers(m))
      BY HandlersFacts
    <3> QED
      BY <3>1, StepFrame DEF Over
  <2> QED
    BY <1>1, <2>1, <2>2, RepeaterMoves
<1>2. ASSUME NEW r \in Reads PROVE at'[r] = "new" <=> tick'[r] = None
  <2>1. at[r] = "new" <=> tick[r] = None
    BY DEF Polls
  <2>2. CASE \E m \in Messages : Tick(m, r)
    <3>1. PICK m \in Messages : Tick(m, r)
      BY <2>2
    <3>2. tick'[r] = m /\ at'[r] = "reading"
      BY <3>1 DEF Tick, Start, Typed, TypeOK, CacheTypeOK
    <3> QED
      BY <3>2, SocketAssumption
  <2>3. CASE ~ \E m \in Messages : Tick(m, r)
    BY <2>1, <2>3, NewMoves, TickMoves
  <2> QED
    BY <2>2, <2>3
<1>3. ASSUME NEW r \in Reads, NEW m \in Messages, tick'[r] = m
      PROVE  /\ repeater'[m] # "none"
             /\ r \in refused' /\ at'[r] = "used" => repeater'[m] = "ended"
  <2>1. CASE tick'[r] = tick[r]
    <3>1. /\ repeater[m] # "none"
          /\ r \in refused /\ at[r] = "used" => repeater[m] = "ended"
      BY <1>3, <2>1 DEF Polls
    <3>2. /\ repeater'[m] # "none"
          /\ repeater[m] = "ended" => repeater'[m] = "ended"
      BY <3>1, RepeaterMoves
    <3>3. r \in refused /\ at[r] = "used" => repeater'[m] = "ended"
      BY <3>1, <3>2
    <3>4. ASSUME r \in refused', at'[r] = "used", ~ (r \in refused /\ at[r] = "used")
          PROVE  repeater'[m] = "ended"
      <4>1. TickFails(r)
        BY <3>4, UsedMoves
      <4>2. repeater' = [repeater EXCEPT ![m] = "ended"]
        BY <1>3, <2>1, <4>1 DEF TickFails, TickRejects, ClearAll
      <4> QED
        BY <4>2 DEF Typed, TypeOK
    <3> QED
      BY <3>2, <3>3, <3>4
  <2>2. CASE tick'[r] # tick[r]
    BY <1>3, <2>2, TickMoves
  <2> QED
    BY <2>1, <2>2
<1> QED
  BY <1>1, <1>2, <1>3, Zenon DEF Polls, Over, Handlers

LEMMA RecordSetAdd ==
    ASSUME NEW n, NEW K, NEW k
    PROVE  [by : {n}, key : K \cup {k}] = [by : {n}, key : K] \cup {[by |-> n, key |-> k]}
<1>1. ASSUME NEW x \in [by : {n}, key : K \cup {k}]
      PROVE  x \in [by : {n}, key : K] \cup {[by |-> n, key |-> k]}
  <2>1. x = [by |-> n, key |-> x.key] /\ x.key \in K \cup {k}
    OBVIOUS
  <2>2. x.key \in K => [by |-> n, key |-> x.key] \in [by : {n}, key : K]
    OBVIOUS
  <2>3. x.key = k => x = [by |-> n, key |-> k]
    BY <2>1, Zenon
  <2> QED
    BY <2>1, <2>2, <2>3
<1>2. ASSUME NEW x \in [by : {n}, key : K] PROVE x \in [by : {n}, key : K \cup {k}]
  OBVIOUS
<1>3. [by |-> n, key |-> k] \in [by : {n}, key : K \cup {k}]
  OBVIOUS
<1> QED
  BY <1>1, <1>2, <1>3

LEMMA StateIsPerMessageStep ==
    ASSUME Typed, StateIsPerMessage, [Next]_vars PROVE StateIsPerMessage'
<1>1. UNCHANGED <<state, got>> \/ \E m \in Messages : GetValue(m)
  BY SocketFrame DEF Receive, SaveValue, StartRepeater, Throws, TimerFires, Tick,
       TickResolves, TickFails, ClientLeaves
<1>2. ASSUME NEW m \in Messages, GetValue(m), NEW n \in Messages
      PROVE  state'[n] = [by : {n}, key : got'[n]]
  <2>1. PICK k : k = Handler(m).key
    OBVIOUS
  <2>2. \/ UNCHANGED <<state, got>>
        \/ /\ state' = [l \in Messages |->
                  IF l \in StateOf(m) THEN SetCacheValue(state[l], [by |-> m, key |-> k])
                                      ELSE state[l]]
           /\ got' = [got EXCEPT ![m] = @ \cup {k}]
    BY <1>2, <2>1, Zenon DEF GetValue
  <2>3. state[n] = [by : {n}, key : got[n]]
    BY DEF StateIsPerMessage
  <2>4. CASE UNCHANGED <<state, got>>
    BY <2>3, <2>4
  <2>5. CASE /\ state' = [l \in Messages |->
                   IF l \in StateOf(m) THEN SetCacheValue(state[l], [by |-> m, key |-> k])
                                       ELSE state[l]]
             /\ got' = [got EXCEPT ![m] = @ \cup {k}]
    <3>1. CASE n = m
      <4>1. state'[n] = state[n] \cup {[by |-> n, key |-> k]} /\ got'[n] = got[n] \cup {k}
        BY <2>5, <3>1 DEF StateOf, SetCacheValue, Typed, TypeOK
      <4>2. [by : {n}, key : got[n] \cup {k}] = [by : {n}, key : got[n]] \cup {[by |-> n, key |-> k]}
        BY RecordSetAdd
      <4> QED
        BY <2>3, <4>1, <4>2
    <3>2. CASE n # m
      BY <2>3, <2>5, <3>2 DEF StateOf, Typed, TypeOK
    <3> QED
      BY <3>1, <3>2
  <2> QED
    BY <2>2, <2>4, <2>5
<1> QED
  BY <1>1, <1>2 DEF StateIsPerMessage

-----------------------------------------------------------------------------
(* The theorems.                                                           *)

LEMMA InitInv == Init => Inv
<1> SUFFICES ASSUME Init PROVE Inv
  OBVIOUS
<1> USE DEF Init, CacheInit
<1>1. ASSUME NEW m \in Messages PROVE 0 \in 0..Over(m)
  BY HandlersFacts DEF Over
<1>2. Typed
  BY <1>1 DEF Typed, TypeOK, CacheTypeOK, Entries
<1>3. Cached
  BY EntriesAssumption DEF Cached, Responses
<1>4. AnswersMatch
  BY EntriesAssumption DEF AnswersMatch, Responses
<1>5. Refused /\ CacheFailsNoRequest
  BY DEF Refused, CacheFailsNoRequest
<1>6. Polls
  BY SocketAssumption DEF Polls
<1>7. StateIsPerMessage
  BY DEF StateIsPerMessage
<1> QED
  BY <1>2, <1>3, <1>4, <1>5, <1>6, <1>7 DEF Inv

LEMMA NextInv == Inv /\ [Next]_vars => Inv'
BY TypedStep, CachedStep, AnswersMatchStep, RefusedStep, CacheFailsNoRequestStep, PollsStep,
   StateIsPerMessageStep DEF Inv

THEOREM Safety == Spec => []Inv
<1> QED
  BY InitInv, NextInv, PTL DEF Spec

\* Whatever happens to the cache: a read is answered with what the upstream said
\* to a read of the same method and url, configured headers and body as JSON shows
\* it, be it for other credentials, unless Memcached held text of another program;
\* what is cached fits; and no failure of the cache makes a request fail
\* (cache-request-adapter.ts, turbo-interceptor.ts).
THEOREM CacheNeverHarms == Spec => []CacheIsHarmless
<1>1. Inv => CacheIsHarmless
  BY DEF Inv, Typed, CacheIsHarmless
<1> QED
  BY <1>1, Safety, PTL

\* The state of each message's flow has the values that its own get-middlewares
\* found and no other, however the messages of the socket interleave
\* (websocket-server.ts, get-cache-value-middleware.ts).
THEOREM StatesAreKeptApart == Spec => []StateIsPerMessage
<1>1. Inv => StateIsPerMessage
  BY DEF Inv
<1> QED
  BY <1>1, Safety, PTL

\* A repeater that a refused tick or a closed socket ended starts no tick again
\* (use-timed-repeater.ts).
THEOREM EndedPollingStaysEnded == Spec => EndIsFinal
<1> DEFINE Final == \A m \in Messages : \A r \in Reads :
               tick[r] = None /\ tick'[r] = m =>
                  /\ repeater[m] # "ended"
                  /\ \A q \in Reads : tick[q] = m /\ at[q] = "used" => q \notin refused
<1>1. Inv /\ [Next]_vars => Final
  <2> SUFFICES ASSUME Inv, [Next]_vars, NEW m \in Messages, NEW r \in Reads,
                      tick[r] = None, tick'[r] = m
               PROVE  /\ repeater[m] # "ended"
                      /\ \A q \in Reads : tick[q] = m /\ at[q] = "used" => q \notin refused
    OBVIOUS
  <2>1. tick'[r] # tick[r]
    BY SocketAssumption
  <2>2. repeater[m] = "on"
    BY <2>1, TickMoves DEF Inv
  <2> QED
    BY <2>2 DEF Inv, Polls
<1>2. Inv /\ [Next]_vars => [Final]_vars
  BY <1>1
<1> HIDE DEF Final
<1>3. Spec => [][Final]_vars
  BY <1>2, Safety, PTL DEF Spec
<1> QED
  BY <1>3, Zenon DEF EndIsFinal, Final
=============================================================================
