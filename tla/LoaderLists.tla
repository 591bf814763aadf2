---------------------------- MODULE LoaderLists ----------------------------
(***************************************************************************)
(* CONSUMER_LIST and WORKER_LIST: which consumers and workers are started. *)
(* An entry is a record [deny, name]: name, !name, * or !*.  The worker    *)
(* manager and the RabbitMQ server each have their own reading of a list.  *)
(***************************************************************************)
EXTENDS FiniteSetsExt, Naturals, Sequences

\* extractWorkerOptions(): the last wildcard of the list counts.
LoaderOptions(list) ==
    LET wild == {i \in DOMAIN list : list[i].name = "*"}
        named(deny) == {list[i].name : i \in {j \in DOMAIN list \ wild : list[j].deny = deny}}
    IN  [allowAll |-> wild # {} /\ ~list[Max(wild)].deny,
         denyAll |-> wild # {} /\ list[Max(wild)].deny,
         allow |-> named(FALSE), deny |-> named(TRUE)]

\* The early returns of registerWorker().
Registers(list, name, enabled) ==
    LET options == LoaderOptions(list)
    IN  /\ name \notin options.deny
        /\ options.denyAll => name \in options.allow
        /\ enabled \/ options.allowAll \/ name \in options.allow

-----------------------------------------------------------------------------
NoOptions == [allowAll |-> FALSE, denyAll |-> FALSE, allow |-> {}, deny |-> {}]

WithEntry_KeepsFirst(options, item) ==
    CASE item.name = "*" /\ (options.allowAll \/ options.denyAll) -> options
      [] item.name = "*" -> [options EXCEPT !.allowAll = ~item.deny, !.denyAll = item.deny]
      [] item.deny       -> [options EXCEPT !.deny = @ \cup {item.name}]
      [] OTHER           -> [options EXCEPT !.allow = @ \cup {item.name}]

\* One turn of the loop of extractQueueOptions().
WithEntry(options, item) ==
    IF item.name = "*" THEN [options EXCEPT !.allowAll = ~item.deny, !.denyAll = item.deny]
    ELSE IF item.deny  THEN [options EXCEPT !.deny = @ \cup {item.name}]
    ELSE                    [options EXCEPT !.allow = @ \cup {item.name}]

QueueOptions(list) ==
    LET after[i \in 0..Len(list)] == IF i = 0 THEN NoOptions
                                     ELSE WithEntry(after[i - 1], list[i])
    IN  after[Len(list)]

Consumes_DenyAllWins(list, queue, enabled) ==
    LET options == QueueOptions(list)
    IN  /\ queue \notin options.deny
        /\ ~options.denyAll
        /\ enabled \/ options.allowAll \/ queue \in options.allow

\* The early returns of makeConsumer().
Consumes(list, queue, enabled) ==
    LET options == QueueOptions(list)
    IN  /\ queue \notin options.deny
        /\ options.denyAll => queue \in options.allow
        /\ enabled \/ options.allowAll \/ queue \in options.allow
=============================================================================
