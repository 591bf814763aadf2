------------------------------ MODULE Process ------------------------------
(***************************************************************************)
(* What the parts of the service's process share: how it ends, the time    *)
(* since the shutdown began, and the log documents of the units of work.   *)
(* A document is enqueued by the end of its unit (the logger decorators    *)
(* and createHttpRequestLog call a repository's create(), which enqueues). *)
(* The two buffers are as BulkInsertBuffer promises them: one insert at a  *)
(* time takes all that is queued, and a flush() that returns has left      *)
(* nothing it found (FlushHandsOver).                                      *)
(***************************************************************************)
EXTENDS Naturals, FiniteSets, Sequences

CONSTANTS Conns,       \* connections, with one HTTP request each
          Deliveries,  \* messages that the consumers receive
          Workers      \* names of the files in src/main/workers, one task each

\* A unit of work is one of the three, and its document is its own.
ASSUME WorkAssumption == /\ Conns \cap Deliveries = {}
                         /\ Conns \cap Workers = {}
                         /\ Deliveries \cap Workers = {}

VARIABLES exit,     \* "no", or how the process ended
          elapsed,  \* time since the first signal, in units of 5 seconds
          document  \* of each unit of work: none, queued, inserting, settled

processVars == <<exit, elapsed, document>>

Work == Conns \cup Deliveries \cup Workers
Timeout == 6   \* SHUTDOWN_TIMEOUT

ProcessInit == /\ exit = "no"
               /\ elapsed = 0
               /\ document = [w \in Work |-> "none"]

Exit(how) == exit' = how /\ UNCHANGED <<elapsed, document>>

\* create() of the repositories.
Log(w) == document' = [document EXCEPT ![w] = "queued"] /\ UNCHANGED <<exit, elapsed>>

In(place) == {w \in Work : document[w] = place}

MoveAll(from, to) ==
    document' = [w \in Work |-> IF document[w] = from THEN to ELSE document[w]]

\* flushInBackground(), and the insert that settles.
InsertStarts == /\ In("queued") # {} /\ In("inserting") = {}
                /\ MoveAll("queued", "inserting")
                /\ UNCHANGED <<exit, elapsed>>

InsertSettles == /\ In("inserting") # {}
                 /\ MoveAll("inserting", "settled")
                 /\ UNCHANGED <<exit, elapsed>>
=============================================================================
