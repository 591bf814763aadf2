-------------------------------- MODULE Work --------------------------------
(***************************************************************************)
(* splitPromises() over decorated methods: callback i calls method i.      *)
(***************************************************************************)
EXTENDS SplitPromises, TracedCalls

ASSUME MethodsAssumption == 1..N \subseteq Methods

vars == <<splitVars, callVars>>

Init == SplitInit /\ CallsInit

Begins(i) == \E traced \in BOOLEAN, outcome \in Outcomes : Call(i, traced, outcome)

WaveStarts == StartWave /\ Begins(wave)

CallSettles(i, outcome) == MethodSettles(i, outcome) /\ UNCHANGED splitVars

\* The wrapper of a callback has the result of its call.
Settles(i) == /\ Settled(i)
              /\ Settle(i, call[i])
              /\ IF next <= N THEN Begins(next) ELSE UNCHANGED callVars

Done == resolved # Pending /\ UNCHANGED vars

Next == \/ WaveStarts
        \/ \E i \in 1..N, outcome \in Outcomes : CallSettles(i, outcome)
        \/ \E i \in 1..N : Settles(i)
        \/ Done

\* The event loop goes on, and every method settles.
Spec == Init /\ [][Next]_vars /\ WF_vars(Next)

-----------------------------------------------------------------------------
(* Properties.                                                             *)

TypeOK == /\ wave \in 0..FirstWave
          /\ next \in (FirstWave + 1)..(N + 1)
          /\ running \subseteq 1..N
          /\ outputs \in Seq([index : 1..N, result : {"ok", "error"}])
          /\ resolved = Pending \/ resolved \in [1..N -> {"ok", "error"}]
          /\ call \in [Methods -> {"idle", "running", "ok", "error"}]
          /\ method \in [Methods -> Outcomes \cup {"none"}]
          /\ span \in [Methods -> {"none", "given"}]
          /\ ends \in [Methods -> 0..1]
          /\ logged \in [Methods -> 0..1]

\* The results come in the order of the callbacks, however they settled, and
\* only when every callback has settled.
ResultsInOrder ==
    resolved # Pending => /\ DOMAIN resolved = 1..N
                          /\ \A i \in 1..N : Settled(i) /\ resolved[i] = call[i]

\* The promise resolves, also when callbacks fail or throw at once, and to the
\* results in the order of the callbacks.
ResolvesInOrder == <>(resolved # Pending) /\ [](TypeOK /\ ResultsInOrder)
=============================================================================
