----------------------------- MODULE RequestData -----------------------------
(***************************************************************************)
(* What becomes of the data of HTTP requests: the server normalises their  *)
(* keys, requestValidationAdapter() checks them, the middlewares and       *)
(* controllers of the example (src/presentation) extract values and keep   *)
(* them in the state of the request; an answer is converted and a masked   *)
(* copy of everything is logged.  Transactions says which handler runs and *)
(* what it does to the database; its parameters are decided here.          *)
(*                                                                         *)
(* yup is external: a schema asks for keys with a text that is not empty.  *)
(***************************************************************************)
EXTENDS Masking, Transactions

CONSTANTS SchemaKeys,     \* required by the schema of requestValidationAdapter()
          Config,         \* valuesToExtract: sequence of [name, target, path]
          CreateKeys,     \* required by createExampleSchema
          Example         \* what the database returns of an example

PartNames == {"body", "params", "query", "headers"}
IsObject(v, n) == v \in Payload[n] /\ v.is = "object"

ASSUME DataAssumption ==
    /\ \A w \in Workloads, r \in Requests : \A p \in PartNames : IsObject(w[r].parts[p], Depth)
    /\ SchemaKeys \subseteq Keys /\ CreateKeys \subseteq Keys
    /\ Config \in Seq([name : Keys, target : STRING, path : Seq(Keys)])
    /\ Example \in Payload[Depth]

\* The words of the names that are written here; see LiteralsAssumption.
ASSUME NamesAssumption ==
    {"request", "response", "body", "params", "query", "headers", "message", "payload", "error",
     "key", "status", "code", "auth", "orization", "validate", "token", "create", "example",
     "get"} \subseteq STRING

VARIABLES request,   \* the body, params, query and headers of each request
          state,     \* the shared state of its handlers
          response,  \* the answer
          logged     \* its log

dataVars == <<handlerVars, request, state, response, logged, keyTypeCache>>

None == [is |-> "none"]

\* The types of the state.
DataTypeOK ==
    /\ \A r \in Requests :
          /\ \A p \in PartNames : IsObject(request[r][p], Depth)
          /\ IsObject(state[r], Depth + 1)
          /\ (response[r] # None) = (doing[r] = "over")
          /\ response[r] # None => IsObject(response[r].body, Depth + 2)
          /\ (logged[r] # None) = (doing[r] = "over")
          /\ logged[r] # None => IsObject(logged[r], Deepest)
    /\ Cardinality(DOMAIN keyTypeCache) <= CacheMax
    /\ \A k \in DOMAIN keyTypeCache : keyTypeCache[k] \in Types

DataInit == /\ HandlersInit
            /\ request = [r \in Requests |-> input[r].parts]
            /\ state = [r \in Requests |-> Object(<<>>)]
            /\ response = [r \in Requests |-> None]
            /\ logged = [r \in Requests |-> None]
            /\ MaskingInit

-----------------------------------------------------------------------------
(* The web server: the flow of a route, its answers and its log.           *)

\* normalizeRequestCasing() leaves the headers alone.
Normalized(parts) == [p \in PartNames |-> IF p = "headers" THEN parts[p]
                                          ELSE Convert("toCamel", parts[p])]

Name(w) == <<[as |-> "low", w |-> w]>>
Field(w, val) == [key |-> Name(w), val |-> val]

\* What the http loggers are given.
LogOf(parts, answer) ==
    Object(<<Field("request", Object(<<Field("body", parts.body),
                                       Field("params", parts.params),
                                       Field("query", parts.query),
                                       Field("headers", parts.headers)>>)),
             Field("response", Object(<<Field("body", answer.body)>>))>>)

\* What the answer holds, if the step gives one; the logger has decorated
\* reply.status().send().
Send(r, by, body) ==
    IF told'[r] = told[r] THEN UNCHANGED <<response, logged, keyTypeCache>>
    ELSE LET answer == [is |-> "answer", by |-> by, body |-> body]
             log == LogOf(request[r], answer)
             cache == Classified(log)
         IN  /\ response' = [response EXCEPT ![r] = answer]
             /\ keyTypeCache' = cache
             /\ logged' = [logged EXCEPT ![r] = SanitizeObject(cache, log, "none")]

Text == Leaf([type |-> "string", text |-> <<Letter>>])
Response(payload, error) == Object(<<Field("message", Text), Field("payload", payload),
                                     Field("error", error)>>)
Failed == Response(Object(<<>>), Array(<<Object(<<Field("message", Text)>>)>>))
Rejected == Response(Object(<<>>), Array(<<Object(<<Field("message", Text), Field("key", Text)>>)>>))
Success(payload) == Response(payload, Array(<<>>))

Respond_AsIs(r, body) == Send(r, "handler", body)

\* A handler's response is converted.
Respond(r, body) == Send(r, "handler", Convert("toSnake", body))

\* An error that leaves the flow; serverError() is sent as it is.
ErrorLeaves(r) ==
    Send(r, "server",
         Object(<<[key |-> <<[as |-> "low", w |-> "status"], [as |-> "Cap", w |-> "code"]>>,
                   val |-> Text],
                  Field("body", Failed)>>))

-----------------------------------------------------------------------------
(* requestValidationAdapter()                                              *)

SchemaAccepts(keys, payload) ==
    \A k \in keys : Get(payload, k).is = "leaf" /\ Get(payload, k).v.text # <<>>

PartsInOrder(parts) == <<parts.body, parts.params, parts.query, parts.headers>>
HttpRequest(parts) == Spread(PartsInOrder(parts))

Accepts(keys, parts, options) ==
    LET payloads == BuildValidationPayloads(HttpRequest(parts), options)
    IN  \E i \in DOMAIN payloads : SchemaAccepts(keys, payloads[i])

-----------------------------------------------------------------------------
(* The values of CreateExampleMiddleware                                   *)

Sources(r) == [state |-> state[r],
               request |-> Object(<<Field("body", request[r].body),
                                    Field("params", request[r].params),
                                    Field("query", request[r].query)>>)]

Replaces_Always(old, new) == TRUE

\* A later value replaces an earlier one unless it is falsy.
Replaces(old, new) == old = NoValue \/ IsTruthy(new)

\* What setKeyValue() leaves of o for an item of the configuration.
SetKeyValue(r, o, c) ==
    IF c.target \notin {"state", "request"} THEN o
    ELSE LET found == GetIn(Sources(r)[c.target], c.path)
         IN  IF Replaces(Get(o, c.name), found) THEN Put(o, c.name, found) ELSE o
ExtractValues(r) ==
    LET o[i \in 0..Len(Config)] ==
          IF i = 0 THEN Object(<<>>) ELSE SetKeyValue(r, o[i - 1], Config[i])
    IN  o[Len(Config)]

-----------------------------------------------------------------------------
(* The handlers, with their data.                                          *)

Authorization == <<[as |-> "low", w |-> "auth"], [as |-> "low", w |-> "orization"]>>
ValidateTokenKey == <<[as |-> "low", w |-> "validate"], [as |-> "Cap", w |-> "token"]>>
CreateExample == <<[as |-> "low", w |-> "create"], [as |-> "Cap", w |-> "example"]>>
GetExample == <<[as |-> "low", w |-> "get"], [as |-> "Cap", w |-> "example"]>>

Keeps(r, key, value) == state' = [state EXCEPT ![r] = Put(@, key, value)]

RequestArrives(r) ==
    /\ Arrive(r)
    /\ request' = [request EXCEPT ![r] = Normalized(@)]
    /\ UNCHANGED <<state, response, logged, keyTypeCache>>

NobodyAnswers(r) == FlowEnds(r) /\ Send(r, "server", Failed) /\ UNCHANGED <<request, state>>

RequestIsValidated(r) ==
    /\ Validate(r, Accepts(SchemaKeys, request[r], input[r].options))
    /\ Send(r, "handler", Rejected)
    /\ UNCHANGED <<request, state>>

TokenIsValidated(r) ==
    /\ \/ /\ AskToken(r, IsTruthy(Get(request[r].headers, Authorization)))
          /\ Respond(r, Response(Object(<<>>), NoValue))
          /\ UNCHANGED state
       \/ \E status \in {200, 401, 500} :
          /\ TokenSettles(r, status)
          /\ Respond(r, Failed)
          /\ IF status = 200 THEN Keeps(r, ValidateTokenKey, Object(<<>>)) ELSE UNCHANGED state
    /\ UNCHANGED request

ExampleIsCreated(r) ==
    LET accepted == SchemaAccepts(CreateKeys, ExtractValues(r))
    IN  /\ \/ Create(r, accepted) /\ UNCHANGED state
           \/ \E ok \in BOOLEAN : Begin(r, accepted, ok) /\ UNCHANGED state
           \/ /\ InsertOk(r)
              /\ IF collected[r] = NoTransactions THEN UNCHANGED state
                 ELSE Keeps(r, CreateExample, Example)
           \/ InsertFails(r) /\ UNCHANGED state
        /\ UNCHANGED <<request, response, logged, keyTypeCache>>

CreatesAreUndone(r) ==
    /\ \/ RollBack(r) /\ UNCHANGED <<response, logged, keyTypeCache>>
       \/ RollBackFails(r) /\ ErrorLeaves(r)
       \/ RolledBack(r) /\ Respond(r, IF failure[r] = 422 THEN Rejected ELSE Failed)
    /\ UNCHANGED <<request, state>>

CreatesAreCommitted(r) ==
    /\ \/ StartCommit(r) /\ ErrorLeaves(r)
       \/ Commit(r) /\ UNCHANGED <<response, logged, keyTypeCache>>
       \/ CommitFails(r) /\ ErrorLeaves(r)
       \/ Committed(r) /\ Respond(r, Success(Object(<<>>)))
    /\ UNCHANGED <<request, state>>

ExampleIsRead(r) ==
    /\ \/ \E ok \in BOOLEAN :
          /\ ReadExample(r, ok)
          /\ Respond(r, Failed)
          /\ IF ok THEN Keeps(r, GetExample, Example) ELSE UNCHANGED state
       \/ /\ ListExample(r)
          /\ Respond(r, Success(Get(state[r], GetExample)))
          /\ UNCHANGED state
    /\ UNCHANGED request

Step(r) == \/ RequestArrives(r) \/ NobodyAnswers(r) \/ RequestIsValidated(r)
           \/ TokenIsValidated(r) \/ ExampleIsCreated(r) \/ CreatesAreUndone(r)
           \/ CreatesAreCommitted(r) \/ ExampleIsRead(r)

DataNext == (\E r \in Requests : Step(r)) \/ (Answered /\ UNCHANGED dataVars)

\* No step repeats: see HandlersSpec.
DataSpec == DataInit /\ [][DataNext]_dataVars

-----------------------------------------------------------------------------
(* Properties.                                                             *)

\* No two keys of the request are spellings of one another.
Letters(key) == FlattenSeq([i \in DOMAIN key |-> IF key[i] = Sep THEN <<>> ELSE <<key[i].w>>])
SentOnce(parts) ==
    LET es == FlattenSeq([i \in 1..4 |-> PartsInOrder(parts)[i].entries])
    IN  \A i, j \in DOMAIN es : i # j => Letters(es[i].key) # Letters(es[j].key)

\* Each way of comparing the case of keys accepts what the stricter ones do,
\* whichever field of the request the schema asks for:
\* expandPayloadCaseVariants() keeps a key as it came among its spellings.
LenientAcceptsMore ==
    \A r \in Requests : Calls(r, "validate") /\ SentOnce(request[r]) =>
        \A e \in Range(HttpRequest(request[r]).entries) :
            LET Ok(caseMode, strategy) ==
                    Accepts({e.key}, request[r], [caseMode |-> caseMode, strategy |-> strategy])
            IN  /\ Ok("strict", "merge") => Ok("insensitive", "strict")
                /\ Ok("insensitive", "strict") => Ok("insensitive", "merge")

\* What ExtractValues finds under a name is the last value of its sources that
\* is not falsy, and if there is none the first that is not undefined.
ExtractsLatest ==
    \A r \in Requests : \A c \in Range(Config) :
        LET found == [i \in DOMAIN Config |->
                        IF Config[i].name = c.name /\ Config[i].target \in {"state", "request"}
                        THEN GetIn(Sources(r)[Config[i].target], Config[i].path)
                        ELSE NoValue]
            truthy == {i \in DOMAIN Config : IsTruthy(found[i])}
            defined == {i \in DOMAIN Config : found[i] # NoValue}
        IN  Get(ExtractValues(r), c.name) =
                (IF truthy # {} THEN found[Max(truthy)]
                 ELSE IF defined # {} THEN found[Min(defined)] ELSE NoValue)

\* Every key of the response of a handler is in snake case, at any depth, also
\* where the database gave it in camel case.
SnakeKeys == Seq([as : {"low", "spelt", "sep"}, w : STRING])
AnswersAreSnake ==
    \A r \in Requests : response[r] # None /\ response[r].by = "handler" =>
        response[r].body \in PayloadsOf(SnakeKeys)[Deepest]

\* A log has each value of the request and of the answer, masked by what its
\* own path says, whatever the payloads that were logged before left in the
\* memo of the keys.
LogIsMasked ==
    [][\A r \in Requests : logged'[r] # logged[r] =>
            IsMaskedCopy(logged'[r], LogOf(request'[r], response'[r]))]_dataVars

\* What doc/en-us/http.md says of the default options: a field that is sent as
\* clientId, client_id, CLIENT_ID, ClientId or clientid is accepted.
DocumentedSpellings(k) ==
    {Spelling(case, SplitKeyWords(k)) :
        case \in {"camel", "snake", "UPPER_SNAKE", "pascal", "lower"}}
EverySpellingAccepted ==
    \A r \in Requests :
        /\ input[r].options = [caseMode |-> "insensitive", strategy |-> "merge"]
        /\ \A k \in SchemaKeys : \E s \in DocumentedSpellings(k) :
                SchemaAccepts({s}, HttpRequest(input[r].parts))
        => told[r] # 400

\* What the conversions of a request promise, and no more: the data have their
\* types; a field that is accepted under the strict way of comparing keys is
\* accepted under the lenient ones; what is extracted under a name is the latest
\* value of its sources that is not falsy; and the answers of handlers leave in
\* snake case at any depth. Neither that every spelling is accepted
\* (EverySpellingAccepted shows the contrary) nor which values an answer has.
ConversionsHold == DataTypeOK /\ LenientAcceptsMore /\ ExtractsLatest /\ AnswersAreSnake
=============================================================================
