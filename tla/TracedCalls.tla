----------------------------- MODULE TracedCalls -----------------------------
(***************************************************************************)
(* Calls of methods with the decorators of src/util/observability:         *)
(* apmSpan(), apmTransaction() and makeDecorator(), the one of the loggers.*)
(*                                                                         *)
(* The agent of Elastic APM is external. The kind of a method says its     *)
(* decorator; whether it is an async function, a function that returns a   *)
(* promise, or one that returns or throws; and whether the labels of its   *)
(* result are indices. Names, types and the text of labels are left out.   *)
(***************************************************************************)
EXTENDS Integers

CONSTANTS Methods,
          Kinds \* what the methods may be: functions to [decorator, form, indices]

VARIABLES kind,    \* of each method
          call,    \* idle, running, or how the decorated call settled
          method,  \* what the method itself did
          span,    \* the span or transaction of the call
          ends,    \* how often it was ended
          logged   \* the logs of the call

callVars == <<kind, call, method, span, ends, logged>>

Outcomes == {"value", "undefined", "error"}
Settled(i) == call[i] \in {"ok", "error"}

CallsInit == /\ kind \in Kinds
             /\ call = [i \in Methods |-> "idle"]
             /\ method = [i \in Methods |-> "none"]
             /\ span = [i \in Methods |-> "none"]
             /\ ends = [i \in Methods |-> 0]
             /\ logged = [i \in Methods |-> 0]

\* searchLabels(result, response) reads response[index] of what is undefined.
LabelsThrow(i, outcome) ==
    outcome = "undefined" /\ kind[i].indices /\ kind[i].decorator \in {"span", "transaction"}

\* What the caller gets; without a span or transaction there are no labels.
SettlesAs(i, outcome, traced) ==
    IF outcome = "error" \/ (traced /\ LabelsThrow(i, outcome)) THEN "error" ELSE "ok"

\* span.end() and the finally of apmTransaction(). Only the span of a function
\* that throws at once, itself or in its labels, is not ended.
EndsWith_OnSuccess(i, outcome) == IF SettlesAs(i, outcome, TRUE) = "ok" THEN 1 ELSE 0
EndsWith(i, outcome) ==
    IF kind[i].decorator = "span" /\ kind[i].form = "sync" /\ SettlesAs(i, outcome, TRUE) = "error"
    THEN 0 ELSE 1

\* The logger is called after the method has succeeded.
Logs_Always(i, outcome) == IF kind[i].decorator = "log" THEN 1 ELSE 0
Logs(i, outcome) == IF kind[i].decorator = "log" /\ outcome # "error" THEN 1 ELSE 0

\* isAsync: only an async function is awaited by the decorator.
Awaited_Never(i) == FALSE
Awaited(i) == kind[i].form = "async"

\* The decorated method is called; the agent may give no span.
Call(i, traced, outcome) ==
    LET opened == traced /\ kind[i].decorator # "log"
        sync == kind[i].form = "sync"
    IN  /\ call[i] = "idle"
        /\ span' = [span EXCEPT ![i] = IF opened THEN "given" ELSE "none"]
        /\ IF sync
           THEN /\ method' = [method EXCEPT ![i] = outcome]
                /\ call' = [call EXCEPT ![i] = SettlesAs(i, outcome, opened)]
                /\ logged' = [logged EXCEPT ![i] = Logs(i, outcome)]
           ELSE /\ call' = [call EXCEPT ![i] = "running"]
                /\ UNCHANGED <<method, logged>>
        /\ ends' = [ends EXCEPT ![i] =
                IF ~opened \/ Awaited(i) THEN 0
                ELSE IF sync THEN EndsWith(i, outcome) ELSE 1]
        /\ UNCHANGED kind

\* The promise of the method settles. The decorator of a function that is not
\* async has returned that very promise, so its labels change nothing.
MethodSettles(i, outcome) ==
    /\ call[i] = "running"
    /\ method' = [method EXCEPT ![i] = outcome]
    /\ call' = [call EXCEPT ![i] = SettlesAs(i, outcome, span[i] = "given" /\ Awaited(i))]
    /\ ends' = [ends EXCEPT ![i] =
            @ + (IF span[i] = "given" /\ Awaited(i) THEN EndsWith(i, outcome) ELSE 0)]
    /\ logged' = [logged EXCEPT ![i] = @ + Logs(i, outcome)]
    /\ UNCHANGED <<kind, span>>

-----------------------------------------------------------------------------
(* Properties.                                                             *)

\* When a call has settled its span or transaction was ended, exactly once,
\* whether the method failed, succeeded, or succeeded with labels that cannot
\* be read; except the span of a function that throws at once.
EndedWhenSettled ==
    \A i \in Methods : Settled(i) /\ span[i] = "given" =>
        \/ ends[i] = 1
        \/ kind[i].decorator = "span" /\ kind[i].form = "sync" /\ call[i] = "error" /\ ends[i] = 0

\* The span of an async method is not ended before the method has settled.
SpanCoversMethod ==
    \A i \in Methods : ends[i] > 0 /\ kind[i].form = "async" => method[i] # "none"

\* A call that is logged succeeded, and a call that failed was not logged.
LoggedSucceeded == \A i \in Methods : logged[i] > 0 => logged[i] = 1 /\ call[i] = "ok"

\* What the traces and the logs say of the calls is what happened.
TracesAreExact == EndedWhenSettled /\ SpanCoversMethod /\ LoggedSucceeded
=============================================================================
