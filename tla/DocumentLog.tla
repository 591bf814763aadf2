---------------------------- MODULE DocumentLog ----------------------------
(***************************************************************************)
(* What the log repositories are promised by their buffer, without timers, *)
(* flushes and callbacks: documents wait in the order they came, at most   *)
(* Capacity of them, the oldest being lost when there are more; all that   *)
(* wait leave together as one batch, no batch leaves before the one ahead  *)
(* of it is stored, and nothing waits for ever.                            *)
(***************************************************************************)
EXTENDS Naturals, Sequences, SequencesExt

CONSTANT Capacity

VARIABLES waiting, batch, stored, lost, accepted

logVars == <<waiting, batch, stored, lost, accepted>>

Init == waiting = <<>> /\ batch = <<>> /\ stored = {} /\ lost = 0 /\ accepted = 0

\* The last Capacity documents of a sequence.
Newest(s) == IF Len(s) <= Capacity THEN s
             ELSE SubSeq(s, Len(s) - Capacity + 1, Len(s))

\* The documents w wait on, or leave if no other batch is under way.
WaitOrLeave(w, underWay) ==
    \/ waiting' = w /\ batch' = underWay
    \/ underWay = <<>> /\ waiting' = <<>> /\ batch' = w

Accept == LET all == Append(waiting, accepted + 1)
          IN  /\ accepted' = accepted + 1
              /\ lost' = lost + (Len(all) - Len(Newest(all)))
              /\ WaitOrLeave(Newest(all), batch)
              /\ UNCHANGED stored

Leave == /\ waiting # <<>> /\ batch = <<>>
         /\ waiting' = <<>> /\ batch' = waiting
         /\ UNCHANGED <<stored, lost, accepted>>

Store == /\ batch # <<>>
         /\ stored' = stored \cup ToSet(batch)
         /\ WaitOrLeave(waiting, <<>>)
         /\ UNCHANGED <<lost, accepted>>

Next == Accept \/ Leave \/ Store

SafeSpec == Init /\ [][Next]_logVars
Spec == SafeSpec /\ WF_logVars(Leave \/ Store)
=============================================================================
