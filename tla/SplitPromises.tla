---------------------------- MODULE SplitPromises ----------------------------
(***************************************************************************)
(* splitPromises() of src/util/promise: runs callbacks, at most maxRunning *)
(* at a time, and resolves to their results in the order of the callbacks. *)
(*                                                                         *)
(* callStack holds the callbacks in reverse and is popped from its end, so *)
(* it is the callbacks from "next" on. The first wave is cut off its end   *)
(* and begins with its last callback. A callback may settle while the wave *)
(* is being started: one that throws before it returns a promise does.     *)
(***************************************************************************)
EXTENDS Integers, FiniteSets, Sequences, SequencesExt

CONSTANTS N,          \* callbacks
          MaxRunning

\* With maxRunning below 1 nothing is started and the promise stays pending.
ASSUME SplitAssumption == N \in Nat /\ MaxRunning \in Nat \ {0}

VARIABLES wave,    \* callbacks of the first wave that were not started yet
          next,    \* the callback that is popped next
          running,
          outputs, \* what settled, in this order
          resolved \* the promise: pending, or its results

splitVars == <<wave, next, running, outputs, resolved>>

Pending == <<"pending">>
FirstWave == IF N < MaxRunning THEN N ELSE MaxRunning

SplitInit == /\ wave = FirstWave
             /\ next = FirstWave + 1
             /\ running = {}
             /\ outputs = <<>>
             /\ resolved = IF N = 0 THEN <<>> ELSE Pending

StartWave == /\ wave > 0
             /\ running' = running \cup {wave}
             /\ wave' = wave - 1
             /\ UNCHANGED <<next, outputs, resolved>>

\* outputs.sort((a, b) => a.index - b.index)
ByIndex(outs) ==
    LET order == CHOOSE p \in Bijection(DOMAIN outs, DOMAIN outs) :
            \A i, j \in DOMAIN outs : i < j => outs[p[i]].index <= outs[p[j]].index
    IN  [i \in DOMAIN outs |-> outs[order[i]]]

Results_AsSettled(outs) == [i \in DOMAIN outs |-> outs[i].result]
Results(outs) == LET sorted == ByIndex(outs) IN [i \in DOMAIN outs |-> sorted[i].result]

\* RUN_NEXT_PROMISE: the next callback, or RESOLVE when there is none.
RunNext_Twice(settled) ==
    /\ running' = (running \ {settled}) \cup (next..(IF next < N THEN next + 1 ELSE N))
    /\ next' = IF next < N THEN next + 2 ELSE N + 1
RunNext(settled) ==
    IF next <= N
    THEN running' = (running \ {settled}) \cup {next} /\ next' = next + 1
    ELSE running' = running \ {settled} /\ UNCHANGED next

\* The finally of the wrapper of a callback.
Settle(i, result) ==
    LET outs == Append(outputs, [index |-> i, result |-> result])
    IN  /\ i \in running
        /\ outputs' = outs
        /\ RunNext(i)
        /\ resolved' = IF next > N /\ Len(outs) = N THEN Results(outs) ELSE resolved
        /\ UNCHANGED wave

-----------------------------------------------------------------------------
(* Properties.                                                             *)

\* Never more than maxRunning callbacks run at a time, also when callbacks
\* settle while the first wave is still being started.
AtMostMaxRunning == Cardinality(running) <= MaxRunning

\* As long as callbacks wait, no slot is empty once the first wave is started.
NoIdleSlot == next <= N /\ wave = 0 => Cardinality(running) = MaxRunning

\* Every settled callback starts exactly one other.
SlotsAreExact == AtMostMaxRunning /\ NoIdleSlot
=============================================================================
