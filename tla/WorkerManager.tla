--------------------------- MODULE WorkerManager ---------------------------
(***************************************************************************)
(* The Agenda workers of src/infra/worker/worker-manager.ts: getAgenda()   *)
(* keeps one promise of an agenda and its MongoDB client, makeWorker()     *)
(* registers a task on it in the background, start() awaits the            *)
(* registrations, stop() closes the client.                                *)
(***************************************************************************)
EXTENDS Process, LoaderLists

CONSTANTS Unloadable,  \* worker files that cannot be imported
          WorkerList,  \* WORKER.LIST: records [deny, name], name "*" or a worker
          Enabled,     \* workers whose option enabled is true
          Repeating    \* workers with a repeatInterval

VARIABLES manager,       \* startWorker(): off, loading, starting, started, failed
          agenda,        \* this.agenda: none, connecting, open
          clients,       \* how many MongoDB clients were connected so far
          mongoClient,   \* this.mongoClient; 0 for null
          openClients,   \* clients that are connected
          registration,  \* of each worker: none, agenda, every, resolved, rejected
          defined,       \* workers that the agenda knows
          polling,       \* agenda.start() was called, agenda.stop() not yet
          job            \* of each worker: idle, running, done

agendaVars == <<agenda, clients, mongoClient, openClients>>
workerVars == <<manager, agendaVars, registration, defined, polling, job>>

WorkerTypeOK ==
    /\ manager \in {"off", "loading", "starting", "started", "failed"}
    /\ agenda \in {"none", "connecting", "open"}
    /\ clients \in Nat
    /\ mongoClient \in 0..clients
    /\ openClients \subseteq 1..clients
    /\ registration \in [Workers -> {"none", "agenda", "every", "resolved", "rejected"}]
    /\ defined \subseteq Workers
    /\ polling \in BOOLEAN
    /\ job \in [Workers -> {"idle", "running", "done"}]

WorkerInit == /\ manager = "off"
              /\ agenda = "none"
              /\ clients = 0
              /\ mongoClient = 0
              /\ openClients = {}
              /\ registration = [w \in Workers |-> "none"]
              /\ defined = {}
              /\ polling = FALSE
              /\ job = [w \in Workers |-> "idle"]

-----------------------------------------------------------------------------
\* getAgenda() keeps the promise it has.
GetAgenda == agenda' = IF agenda = "none" THEN "connecting" ELSE agenda

\* tasksDirectory(): files that cannot be imported are skipped, the others
\* call makeWorker(), whose registration goes on in the background.
TasksLoaded ==
    LET registers == {w \in Workers \ Unloadable : Registers(WorkerList, w, w \in Enabled)}
    IN  /\ manager = "loading"
        /\ manager' = "starting"
        /\ registration' = [w \in Workers |-> IF w \in registers THEN "agenda" ELSE "resolved"]
        /\ IF registers = {} THEN UNCHANGED agenda ELSE GetAgenda
        /\ UNCHANGED <<clients, mongoClient, openClients, defined, polling, job, processVars>>

\* createMongoAgenda() succeeds, and the registrations define their tasks.
AgendaConnects ==
    /\ agenda = "connecting"
    /\ agenda' = "open"
    /\ clients' = clients + 1
    /\ mongoClient' = clients + 1
    /\ openClients' = openClients \cup {clients + 1}
    /\ LET waiting == {w \in Workers : registration[w] = "agenda"}
       IN  /\ defined' = defined \cup waiting
           /\ registration' = [w \in Workers |->
                 IF w \in waiting THEN IF w \in Repeating THEN "every" ELSE "resolved"
                 ELSE registration[w]]
    /\ UNCHANGED <<manager, polling, job, processVars>>

\* It fails: its client is closed, and the promise is forgotten.
AgendaFails ==
    /\ agenda = "connecting" /\ manager = "starting"
    /\ agenda' = "none"
    /\ registration' = [w \in Workers |->
          IF registration[w] = "agenda" THEN "rejected" ELSE registration[w]]
    /\ manager' = "failed"
    /\ UNCHANGED <<clients, mongoClient, openClients, defined, polling, job, processVars>>

\* agenda.every() settles.
Scheduled(w) == /\ registration[w] = "every"
                /\ \E outcome \in {"resolved", "rejected"} :
                      registration' = [registration EXCEPT ![w] = outcome]
                /\ UNCHANGED <<manager, agendaVars, defined, polling, job, processVars>>

Registered == \A w \in Workers : registration[w] = "resolved"

StartManager_Eager == /\ manager = "starting"
                      /\ manager' = IF agenda = "open" THEN "started" ELSE manager
                      /\ polling' = (agenda = "open")
                      /\ GetAgenda
                      /\ UNCHANGED <<clients, mongoClient, openClients, registration,
                                     defined, job, processVars>>

\* start(): once every registration is there, the agenda starts; without a
\* worker that registers, the agenda is created now.
StartManager == /\ manager = "starting" /\ Registered
                /\ manager' = IF agenda = "open" THEN "started" ELSE manager
                /\ polling' = (agenda = "open")
                /\ agenda # "connecting"
                /\ GetAgenda
                /\ UNCHANGED <<clients, mongoClient, openClients, registration,
                               defined, job, processVars>>

\* A registration, or agenda.start(), failed: start() closes its client.
StartFails == /\ manager = "starting"
              /\ \/ \E w \in Workers : registration[w] = "rejected"
                 \/ Registered /\ agenda = "open"
              /\ manager' = "failed"
              /\ openClients' = openClients \ {mongoClient}
              /\ mongoClient' = 0
              /\ agenda' = "none"
              /\ UNCHANGED <<clients, registration, defined, polling, job, processVars>>

\* A task that is due.
RunTask(w) == /\ polling /\ w \in defined /\ job[w] = "idle"
              /\ job' = [job EXCEPT ![w] = "running"]
              /\ UNCHANGED <<manager, agendaVars, registration, defined, polling, processVars>>

\* taskHandler() ends, whatever its jobs did: workerLogger has logged it, and
\* done() is called.
TaskDone(w) == /\ job[w] = "running"
               /\ job' = [job EXCEPT ![w] = "done"]
               /\ Log(w)
               /\ UNCHANGED <<manager, agendaVars, registration, defined, polling>>

WorkerNext == \/ TasksLoaded \/ AgendaConnects \/ AgendaFails \/ StartManager \/ StartFails
              \/ \E w \in Workers : Scheduled(w) \/ RunTask(w) \/ TaskDone(w)

-----------------------------------------------------------------------------
(* Properties.                                                             *)

\* No task runs before the registrations of all workers are complete: a job
\* may schedule or depend on another worker's task (start(), 88-92).
StartsWithEveryTask == polling => Registered
=============================================================================
