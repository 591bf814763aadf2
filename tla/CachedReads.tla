----------------------------- MODULE CachedReads -----------------------------
(***************************************************************************)
(* Reads that go through a cache: CachedRequestAdapter over RequestAdapter *)
(* (src/infra/http/service/adapters) and the turbo queries of knex         *)
(* (turbo-interceptor.ts), over CacheServer (Memcached) or node-cache, and *)
(* the values that the cache middlewares read and write.                   *)
(*                                                                         *)
(* Memcached and the upstream are external: a call may fail, an entry may  *)
(* expire at any time or be overwritten with text of another program.      *)
(***************************************************************************)
EXTENDS Naturals, Sequences, FiniteSetsExt

CONSTANTS Reads,         \* calls of request(), and awaited turbo queries
          Queries,       \* those of them that are queries
          Target,        \* [what, token, body, auth]: method and url, a header,
                         \* body and auth of Data; or sql and, as body, bindings
          BodyText,      \* of each body or bindings: what serializeBody() gives
          Large,         \* reads with a result over MAX_RESULT_SIZE
          Options,       \* [cacheService: memjs or node-cache, headersFields], the
                         \* reads that the program makes, and as theirs the keys
                         \* that other programs write under
          ValueKeys,     \* keys of the cache middlewares
          None, Value, Error,  \* no entry, an entry of theirs, a failed get()
          Garbage, Foreign     \* text of another program: no JSON, and JSON

ASSUME ReadsAssumption ==
    /\ Queries \subseteq Reads
    /\ \A o \in Options : o.cacheService \in {"memjs", "node-cache"} /\ o.reads \subseteq Reads
    /\ \A q \in Queries : Target[q].token = "" /\ Target[q].auth = ""

Foreigners == {Garbage, Foreign}

\* generateCacheKey() has the headers that it is told of and of the body what JSON
\* shows of it: '' for one that is absent or cannot be written, such as a stream.
\* It has nothing of auth. cacheKey() has the sql and JSON of the bindings.
KeyOfTarget(target, headersFields) ==
    [what |-> target.what,
     token |-> IF "token" \in headersFields THEN target.token ELSE "",
     body |-> BodyText[target.body]]

ReadKeys == {KeyOfTarget(Target[r], fields) : r \in Reads, fields \in {{}, {"token"}}}

\* The text of a query is no url, and the keys of reads are hashes, which the
\* middlewares do not use.
ASSUME KeysAssumption ==
    /\ \A q \in Queries, r \in Reads \ Queries : Target[q].what # Target[r].what
    /\ ReadKeys \cap ValueKeys = {}

ASSUME EntriesAssumption ==
    /\ None \notin Foreigners \cup {Value, Error}
    /\ Value \notin Foreigners \cup {Error} /\ Error \notin Foreigners
    /\ Garbage # Foreign
    /\ \A r \in Reads : Target[r] \notin Foreigners \cup {None, Value, Error}

VARIABLES options,    \* those that the program uses; cacheClient for queries
          connected,  \* CacheServer.connected
          cache,      \* the entry of each key
          at,         \* where each read is
          answer,     \* what it returned
          saving,     \* reads whose setImmediate() has not saved yet
          refused     \* reads that the upstream or the database refused

cacheVars == <<options, connected, cache, at, answer, saving, refused>>

KeyOf_NoHeaders(r) == KeyOfTarget(Target[r], {})
KeyOf(r) == KeyOfTarget(Target[r], options.headersFields)

\* A response is known by all of the request that the upstream answered with it.
Keys == ReadKeys \cup ValueKeys
Responses == {Target[r] : r \in Reads}
Entries == Responses \cup Foreigners \cup {None, Value}

CacheTypeOK == /\ options \in Options
               /\ connected \in BOOLEAN
               /\ cache \in [Keys -> Entries]
               /\ at \in [Reads -> {"new", "reading", "asking", "answered", "failed",
                                    "unhandled", "used"}]
               /\ answer \in [Reads -> Responses \cup Foreigners \cup {None}]
               /\ saving \subseteq Reads
               /\ refused \subseteq Reads

CacheInit == /\ options \in Options
             /\ connected = FALSE
             /\ cache = [k \in Keys |-> None]
             /\ at = [r \in Reads |-> "new"]
             /\ answer = [r \in Reads |-> None]
             /\ saving = {}
             /\ refused = {}

-----------------------------------------------------------------------------
(* CacheServer, and node-cache, which neither disconnects nor fails.       *)

\* Only a ping that was answered sets connected.
Connect == /\ ~connected
           /\ connected' = TRUE
           /\ UNCHANGED <<options, cache, at, answer, saving, refused>>

Disconnect == /\ connected
              /\ connected' = FALSE
              /\ UNCHANGED <<options, cache, at, answer, saving, refused>>

InProcess(key) == options.cacheService = "node-cache" /\ key \notin ValueKeys

\* What get() gives: checkConnection(), and the call itself, may throw.
Get(key) ==
    IF InProcess(key) THEN {cache[key]}
    ELSE IF connected THEN {cache[key], Error} ELSE {Error}

\* Whether set() succeeds, and the cache after it.
Set(key, value) ==
    LET ok == [saved |-> TRUE, cache |-> [cache EXCEPT ![key] = value]]
        fails == [saved |-> FALSE, cache |-> cache]
    IN  IF InProcess(key) THEN {ok} ELSE IF connected THEN {ok, fails} ELSE {fails}

Expires(key) == /\ cache[key] # None
                /\ cache' = [cache EXCEPT ![key] = None]
                /\ UNCHANGED <<options, connected, at, answer, saving, refused>>

\* Another program writes under the key.
Corrupted(key) == /\ ~InProcess(key) /\ key \in options.theirs
                  /\ cache[key] \notin Foreigners
                  /\ \E text \in Foreigners : cache' = [cache EXCEPT ![key] = text]
                  /\ UNCHANGED <<options, connected, at, answer, saving, refused>>

-----------------------------------------------------------------------------
(* A cached read.                                                          *)

Start(r) == /\ at[r] = "new" /\ r \in options.reads
            /\ at' = [at EXCEPT ![r] = "reading"]
            /\ UNCHANGED <<options, connected, cache, answer, saving, refused>>

CacheFails_Throws(r) == "failed"
\* getCachedResponse() takes an error and text that does not parse for a miss.
\* getCachedQuery() throws in the proxy of then(): nobody handles that.
CacheFails(r) == IF r \in Queries THEN "unhandled" ELSE "asking"

\* What a read makes of an entry: its answer, or None for a miss. request() takes
\* JSON of another program for a response if it has more than one key; a query
\* takes any text, but for JSON of a falsy value.
Taken(entry) == IF entry = Foreign THEN {Foreign, None} ELSE {entry}

ReadCache(r) ==
    /\ at[r] = "reading"
    /\ \E entry \in Get(KeyOf(r)) :
          IF entry = Error \/ (entry = Garbage /\ r \notin Queries)
          THEN at' = [at EXCEPT ![r] = CacheFails(r)] /\ UNCHANGED answer
          ELSE \E a \in Taken(entry) :
                  /\ at' = [at EXCEPT ![r] = IF a = None THEN "asking" ELSE "answered"]
                  /\ answer' = [answer EXCEPT ![r] = a]
    /\ UNCHANGED <<options, connected, cache, saving, refused>>

\* The upstream answers, with any status; a query also skips the cache while
\* the heap is full.
Answers(r) ==
    /\ at[r] = "asking"
    /\ at' = [at EXCEPT ![r] = "answered"]
    /\ answer' = [answer EXCEPT ![r] = Target[r]]
    /\ \/ saving' = saving \cup {r}
       \/ r \in Queries /\ saving' = saving
    /\ UNCHANGED <<options, connected, cache, refused>>

\* ABORTED_REQUEST or REQUEST_ERROR; or the database's error.
Refuses(r) ==
    /\ at[r] = "asking"
    /\ at' = [at EXCEPT ![r] = "failed"]
    /\ refused' = refused \cup {r}
    /\ UNCHANGED <<options, connected, cache, answer, saving>>

\* A response over MAX_RESULT_SIZE is not saved.
TooLarge(r) == r \in Large

\* saveToCache(), in a later turn; its errors are logged.
Save(r) ==
    /\ r \in saving
    /\ saving' = saving \ {r}
    /\ IF TooLarge(r) THEN UNCHANGED cache
       ELSE \E set \in Set(KeyOf(r), answer[r]) : cache' = set.cache
    /\ UNCHANGED <<options, connected, at, answer, refused>>

CachedRead(r) == ReadCache(r) \/ Answers(r) \/ Refuses(r) \/ Save(r)

-----------------------------------------------------------------------------
(* Properties.                                                             *)

\* A read that got an answer got what the upstream said to a read of the same
\* method and url (or sql), the same configured headers, and a body (or bindings)
\* that JSON shows to be the same; all that is cached fits in the cache
\* (cache-request-adapter.ts 24-62, 98-105; turbo-interceptor.ts 30-32, 83-96).
\* It may be the answer to other credentials: auth is not compared, as the key
\* has nothing of it. And with Memcached it may be text of another program: any
\* text for a query, what parses to several keys for a request.
AnswersMatch ==
    /\ \A r \in Reads : answer[r] # None =>
          \/ /\ answer[r] \in Responses
             /\ answer[r].what = Target[r].what
             /\ "token" \in options.headersFields => answer[r].token = Target[r].token
             /\ BodyText[answer[r].body] = BodyText[Target[r].body]
          \/ /\ options.cacheService = "memjs"
             /\ answer[r] \in (IF r \in Queries THEN Foreigners ELSE {Foreign})
    /\ \A k \in Keys : cache[k] \in Responses => \E r \in Reads \ Large : cache[k] = Target[r]

\* Whatever the cache does, a request fails only when the upstream refused it
\* (the test "should handle cache server errors gracefully"); a query is lost
\* only to Memcached.
CacheFailsNoRequest ==
    \A r \in Reads : /\ at[r] = "failed" => r \in refused
                     /\ at[r] = "unhandled" => r \in Queries /\ options.cacheService = "memjs"
=============================================================================
