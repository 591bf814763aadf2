---------------------------- MODULE SocketPolling ----------------------------
(***************************************************************************)
(* WebSocketServer and SocketHandler (src/infra/http/util), with the cache *)
(* middlewares (src/presentation/middlewares/cache) and useTimedRepeater() *)
(* (src/main/adapters/socket) as the handlers of an event: one socket that *)
(* sends several messages, each served by a flow with a state of its own,  *)
(* whose repeater then polls through CachedReads until its timer fires.    *)
(***************************************************************************)
EXTENDS CachedReads

CONSTANTS Messages,      \* event messages that the client sends
          EventOf,       \* the event of each
          Registrations, \* calls of Route.ws(): sequence of [event, handlers]
          Enabled        \* options.enabled

ASSUME SocketAssumption ==
    /\ None \notin Messages
    /\ Registrations \in
          Seq([event : {Registrations[i].event : i \in DOMAIN Registrations},
               handlers : Seq([op : {"get", "save", "repeat"}, key : ValueKeys,
                               throws : BOOLEAN])])

VARIABLES open,      \* ~socket.disconnected
          step,      \* the handler that each message's flow is at; 0: not sent
          state,     \* the values in the state of each flow: [by, key]
          got,       \* keys that a message's get-middlewares found
          repeater,  \* of each message: none, on, ended
          tick       \* the message whose repeater made the read

socketVars == <<open, step, state, got, repeater, tick>>
vars == <<cacheVars, socketVars>>

\* setSocketHandlersCallbacks() keeps the first registration of an event.
Handlers(m) ==
    LET of == {i \in DOMAIN Registrations : Registrations[i].event = EventOf[m]}
    IN  IF of = {} THEN <<>> ELSE Registrations[Min(of)].handlers

Over(m) == Len(Handlers(m)) + 1

\* The types of the state.
TypeOK == /\ CacheTypeOK
          /\ open \in BOOLEAN
          /\ \A m \in Messages : step[m] \in 0..Over(m)
          /\ state \in [Messages -> SUBSET [by : Messages, key : ValueKeys]]
          /\ got \in [Messages -> SUBSET ValueKeys]
          /\ repeater \in [Messages -> {"none", "on", "ended"}]
          /\ tick \in [Reads -> Messages \cup {None}]

Init == /\ CacheInit
        /\ open = TRUE
        /\ step = [m \in Messages |-> 0]
        /\ state = [m \in Messages |-> {}]
        /\ got = [m \in Messages |-> {}]
        /\ repeater = [m \in Messages |-> "none"]
        /\ tick = [r \in Reads |-> None]

\* The handler that the message's flow is at.
Handling(m, op) == step[m] \in DOMAIN Handlers(m) /\ Handlers(m)[step[m]].op = op
Handler(m) == Handlers(m)[step[m]]

Continues(m) == step' = [step EXCEPT ![m] = @ + 1]
Resolves(m) == step' = [step EXCEPT ![m] = Over(m)]

-----------------------------------------------------------------------------
(* Messages.                                                               *)

\* bootstrap() connects Memcached, if it is enabled, before the server listens.
ServiceStarts == (\A m \in Messages : step[m] = 0) /\ Connect /\ UNCHANGED socketVars

\* The server calls the callback of the event, if it is enabled and has one.
Receive(m) == /\ Enabled /\ open /\ step[m] = 0 /\ Handlers(m) # <<>>
              /\ Continues(m)
              /\ UNCHANGED <<cacheVars, open, state, got, repeater, tick>>

StateOf_Shared(m) == Messages

\* The states that a message's handlers write: the one made for the message.
StateOf(m) == {m}

\* cacheValues, spread when the value has come, plus the new one.
SetCacheValue(values, value) == values \cup {value}

\* GetCacheValueMiddleware, with parseToJson: setState() and next(), whoever wrote
\* the value; when the cache fails, next() alone, or, with args.throws, a server
\* error and no next(), which a value that is falsy gets as well.
GetValue(m) ==
    /\ Handling(m, "get")
    /\ LET h == Handler(m)
       IN  \E entry \in Get(h.key) :
             \/ /\ entry \in {Error, Garbage} \/ (h.throws /\ entry \in {None, Foreign})
                /\ IF h.throws THEN Resolves(m) ELSE Continues(m)
                /\ UNCHANGED <<state, got>>
             \/ /\ entry \notin {Error, Garbage} /\ ~(h.throws /\ entry = None)
                /\ Continues(m)
                /\ state' = [n \in Messages |->
                      IF n \in StateOf(m) THEN SetCacheValue(state[n], [by |-> m, key |-> h.key])
                                          ELSE state[n]]
                /\ got' = [got EXCEPT ![m] = @ \cup {h.key}]
    /\ UNCHANGED <<cacheVars, open, repeater, tick>>

\* SaveInCacheMiddleware: next() when it saved, or need not.
SaveValue(m) ==
    /\ Handling(m, "save")
    /\ \E set \in Set(Handler(m).key, Value) :
          /\ cache' = set.cache
          /\ IF ~set.saved /\ Handler(m).throws THEN Resolves(m) ELSE Continues(m)
    /\ UNCHANGED <<options, connected, at, answer, saving, refused, open, state, got, repeater, tick>>

\* useTimedRepeater() starts its interval and its timer, and returns.
StartRepeater(m) == /\ Handling(m, "repeat")
                    /\ repeater' = [repeater EXCEPT ![m] = "on"]
                    /\ Resolves(m)
                    /\ UNCHANGED <<cacheVars, open, state, got, tick>>

\* A handler throws: the callback of the event disconnects the socket.
Throws(m) == /\ step[m] \in DOMAIN Handlers(m)
             /\ open' = FALSE
             /\ Resolves(m)
             /\ UNCHANGED <<cacheVars, state, got, repeater, tick>>

-----------------------------------------------------------------------------
(* The repeater.                                                           *)

\* clearAll(): the interval and the timer are cleared, once.
ClearAll(m) == repeater' = [repeater EXCEPT ![m] = "ended"]

\* The interval fires, however many of its flows still run.
Tick(m, r) == /\ repeater[m] = "on"
              /\ Start(r)
              /\ tick' = [tick EXCEPT ![r] = m]
              /\ UNCHANGED <<open, step, state, got, repeater>>

ReadIsUsed(r) == /\ at' = [at EXCEPT ![r] = "used"]
                 /\ UNCHANGED <<options, connected, cache, answer, saving, refused>>

\* The flow of a tick resolves: its response is emitted, options.close
\* disconnects, and a disconnected socket ends the repeater.
TickResolves(r) ==
    /\ at[r] = "answered"
    /\ ReadIsUsed(r)
    /\ \E close \in BOOLEAN : open' = (open /\ ~close)
    /\ IF open' THEN UNCHANGED repeater ELSE ClearAll(tick[r])
    /\ UNCHANGED <<step, state, got, tick>>

TickRejects_Logs(r) == UNCHANGED repeater

\* The catch of the interval.
TickRejects(r) == ClearAll(tick[r])

TickFails(r) == /\ at[r] = "failed"
                /\ ReadIsUsed(r)
                /\ TickRejects(r)
                /\ UNCHANGED <<open, step, state, got, tick>>

TimerClears_IfOpen(m) == open

\* Whether the timer's callback goes on to clearAll().
TimerClears(m) == TRUE

TimerFires(m) == /\ repeater[m] = "on"
                 /\ open' = FALSE
                 /\ IF TimerClears(m) THEN ClearAll(m) ELSE UNCHANGED repeater
                 /\ UNCHANGED <<cacheVars, step, state, got, tick>>

ClientLeaves == /\ open
                /\ open' = FALSE
                /\ UNCHANGED <<cacheVars, step, state, got, repeater, tick>>

-----------------------------------------------------------------------------

\* An entry is lost or overwritten right before somebody can read it, which is
\* when it shows.
LookedAt(key) == /\ connected \/ InProcess(key)
                 /\ \/ \E r \in Reads : at[r] = "reading" /\ KeyOf(r) = key
                    \/ \E m \in Messages : Handling(m, "get") /\ Handler(m).key = key

Message(m) == \/ Receive(m) \/ GetValue(m) \/ SaveValue(m) \/ StartRepeater(m)
              \/ Throws(m) \/ TimerFires(m) \/ \E r \in Reads : Tick(m, r)

Next == \/ \E m \in Messages : Message(m)
        \/ \E r \in Reads : \/ TickResolves(r) \/ TickFails(r)
                            \/ CachedRead(r) /\ UNCHANGED socketVars
        \/ \E k \in Keys : LookedAt(k) /\ (Expires(k) \/ Corrupted(k)) /\ UNCHANGED socketVars
        \/ Disconnect /\ UNCHANGED socketVars
        \/ ServiceStarts
        \/ ClientLeaves

\* The only clock that must tick is the timer of each repeater.
Spec == Init /\ [][Next]_vars /\ \A m \in Messages : WF_vars(TimerFires(m))

-----------------------------------------------------------------------------
(* Properties.                                                             *)

\* Messages on one socket interleave and share the middleware objects, yet the
\* values in a message's state are exactly those that its own get-middlewares
\* found (websocket-server.ts 122-126, get-cache-value-middleware.ts 53-58).
StateIsPerMessage ==
    \A m \in Messages : state[m] = [by : {m}, key : got[m]]

\* A tick that failed, or saw the socket gone, ends the polling for good,
\* although other ticks of the repeater may be on their way: no tick starts
\* after it (use-timed-repeater.ts 29-36, 50-59).
EndIsFinal ==
    [][\A m \in Messages : \A r \in Reads :
          tick[r] = None /\ tick'[r] = m =>
             /\ repeater[m] # "ended"
             /\ \A q \in Reads : tick[q] = m /\ at[q] = "used" => q \notin refused]_vars

\* Whatever its ticks do, hang included, a repeater ends, and its socket is
\* closed or one of its ticks was refused.
RepeaterEnds ==
    \A m \in Messages : repeater[m] = "on" ~>
        repeater[m] = "ended" /\ (~open \/ \E r \in refused : tick[r] = m)

\* The cache answers what it was asked, but for the credentials and for what other
\* programs write into it (AnswersMatch), and fails no request.
CacheIsHarmless == TypeOK /\ AnswersMatch /\ CacheFailsNoRequest

\* The polling ends, and once it has ended it stays so.
PollingEnds == RepeaterEnds /\ EndIsFinal
=============================================================================
