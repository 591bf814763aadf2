---------------------------- MODULE Transactions ----------------------------
(***************************************************************************)
(* The handlers of the example routes (src/presentation) and the database  *)
(* transactions that they open: a create inserts a row in a transaction of *)
(* its own and leaves it in state.transactions, a later handler commits    *)
(* all of them, a create that fails rolls them back.                       *)
(*                                                                         *)
(* The database, the token service and yup are external: an operation      *)
(* succeeds or fails.  What a schema or a header says of the data is a     *)
(* parameter of the handlers; RequestData gives them the data.             *)
(***************************************************************************)
EXTENDS Integers, Sequences

CONSTANTS Requests,
          Workloads \* of each request: its parts, the route with its options,
                    \* transactional (the repository's useTransaction) and
                    \* shared (some handler set state.transactions)

ASSUME WorkloadsAssumption ==
    \A w \in Workloads, r \in Requests :
        w[r].route \in Seq({"validate", "token", "create", "commit", "read", "list"})

VARIABLES input,     \* the requests as they were sent
          doing,     \* of each request: new, call, token, insert, rollback, commit, over
          place,     \* the handler of the route that it is at
          collected, \* state.transactions, the positions in tx; 0 is null
          tx,        \* the transactions that it opened, in order
          cursor,    \* the transaction that is settled next
          failure,   \* the status that follows the rollback
          told       \* the status of its answer, 0 for none

txVars == <<collected, tx, cursor, failure>>
handlerVars == <<input, doing, place, txVars, told>>

NoTransactions == <<-1>>

\* The types of the state; a transaction that is collected was opened.
HandlersTypeOK ==
    \A r \in Requests :
        /\ doing[r] \in {"new", "call", "token", "insert", "rollback", "commit", "over"}
        /\ place[r] \in 0..(Len(input[r].route) + 1)
        /\ \A i \in DOMAIN tx[r] :
                tx[r][i] \in {"open", "committed", "rolledback", "stuck", "auto"}
        /\ collected[r] # NoTransactions => \A i \in DOMAIN collected[r] :
                collected[r][i] \in 0..Len(tx[r])
        /\ cursor[r] \in 0..(Len(collected[r]) + 1)
        /\ failure[r] \in {0, 422, 500}
        /\ (told[r] # 0) = (doing[r] = "over")

HandlersInit ==
    /\ input \in Workloads
    /\ doing = [r \in Requests |-> "new"]
    /\ place = [r \in Requests |-> 0]
    /\ collected = [r \in Requests |-> IF input[r].shared THEN <<>> ELSE NoTransactions]
    /\ tx = [r \in Requests |-> <<>>]
    /\ cursor = [r \in Requests |-> 0]
    /\ failure = [r \in Requests |-> 0]
    /\ told = [r \in Requests |-> 0]

-----------------------------------------------------------------------------
(* The flow of a route.                                                    *)

Calls(r, op) == /\ doing[r] = "call"
                /\ place[r] \in DOMAIN input[r].route
                /\ input[r].route[place[r]] = op

Await(r, where) == doing' = [doing EXCEPT ![r] = where] /\ UNCHANGED <<place, told>>

Continue(r) == /\ doing' = [doing EXCEPT ![r] = "call"]
               /\ place' = [place EXCEPT ![r] = @ + 1]
               /\ UNCHANGED told

\* reply.status().send()
Tell(r, status) == /\ doing' = [doing EXCEPT ![r] = "over"]
                   /\ told' = [told EXCEPT ![r] = status]
                   /\ UNCHANGED place

Arrive(r) == doing[r] = "new" /\ Continue(r) /\ UNCHANGED <<input, txVars>>

\* The flow ends and nobody has answered.
FlowEnds(r) == /\ doing[r] = "call" /\ place[r] = Len(input[r].route) + 1
               /\ Tell(r, 502)
               /\ UNCHANGED <<input, txVars>>

Validate(r, accepted) ==
    /\ Calls(r, "validate")
    /\ IF accepted THEN Continue(r) ELSE Tell(r, 400)
    /\ UNCHANGED <<input, txVars>>

\* ValidateTokenMiddleware
AskToken(r, authorized) ==
    /\ Calls(r, "token")
    /\ IF authorized THEN Await(r, "token") ELSE Tell(r, 401)
    /\ UNCHANGED <<input, txVars>>

TokenSettles(r, status) ==
    /\ doing[r] = "token"
    /\ IF status = 200 THEN Continue(r) ELSE Tell(r, status)
    /\ UNCHANGED <<input, txVars>>

-----------------------------------------------------------------------------
(* CreateExampleMiddleware and CreateExampleController                     *)

Fail_NoRollback(r, status) ==
    /\ failure' = [failure EXCEPT ![r] = status]
    /\ cursor' = [cursor EXCEPT ![r] = 0]
    /\ Await(r, "rollback")

\* errorHandler.handle(), before the middleware answers with the status.
Fail(r, status) ==
    /\ failure' = [failure EXCEPT ![r] = status]
    /\ cursor' = [cursor EXCEPT ![r] = IF collected[r] = NoTransactions THEN 0
                                       ELSE Len(collected[r])]
    /\ Await(r, "rollback")

\* stateDependencies() only logs that validateToken is missing: the answer of
\* its exceptionHandler() is dropped, and the middleware runs.
Create(r, accepted) ==
    /\ Calls(r, "create")
    /\ IF accepted
       THEN ~input[r].transactional /\ Await(r, "insert") /\ UNCHANGED <<failure, cursor>>
       ELSE Fail(r, 422)
    /\ UNCHANGED <<input, collected, tx>>

\* sqlConnection.transaction()
Begin(r, accepted, ok) ==
    /\ Calls(r, "create") /\ input[r].transactional /\ accepted
    /\ IF ok
       THEN /\ tx' = [tx EXCEPT ![r] = Append(@, "open")]
            /\ Await(r, "insert")
            /\ UNCHANGED <<failure, cursor>>
       ELSE Fail(r, 500) /\ UNCHANGED tx
    /\ UNCHANGED <<input, collected>>

\* [...state.transactions, transaction] throws if no handler set the list.
InsertOk(r) ==
    /\ doing[r] = "insert"
    /\ tx' = [tx EXCEPT ![r] = IF input[r].transactional THEN @ ELSE Append(@, "auto")]
    /\ IF collected[r] = NoTransactions
       THEN Fail(r, 500) /\ UNCHANGED collected
       ELSE /\ collected' = [collected EXCEPT ![r] =
                    Append(@, IF input[r].transactional THEN Len(tx[r]) ELSE 0)]
            /\ Continue(r)
            /\ UNCHANGED <<failure, cursor>>
    /\ UNCHANGED input

InsertFails(r) == doing[r] = "insert" /\ Fail(r, 500) /\ UNCHANGED <<input, collected, tx>>

Turn(r) == collected[r][cursor[r]]
SettleTurn(r, to) ==
    tx' = [tx EXCEPT ![r] = IF Turn(r) = 0 THEN @ ELSE [@ EXCEPT ![Turn(r)] = to]]

\* rollbackAll(): from the last to the first.
RollBack(r) ==
    /\ doing[r] = "rollback" /\ cursor[r] > 0
    /\ SettleTurn(r, "rolledback")
    /\ cursor' = [cursor EXCEPT ![r] = @ - 1]
    /\ UNCHANGED <<input, doing, place, collected, failure, told>>

\* The error handler rejects, inside the catch of the middleware.
RollBackFails(r) ==
    /\ doing[r] = "rollback" /\ cursor[r] > 0 /\ Turn(r) # 0
    /\ SettleTurn(r, "stuck")
    /\ Tell(r, 500)
    /\ UNCHANGED <<input, collected, cursor, failure>>

RolledBack(r) == /\ doing[r] = "rollback" /\ cursor[r] = 0
                 /\ Tell(r, failure[r])
                 /\ UNCHANGED <<input, txVars>>

\* commitAll() of the controller, in order.
StartCommit(r) ==
    /\ Calls(r, "commit")
    /\ IF collected[r] = NoTransactions
       THEN Tell(r, 500) /\ UNCHANGED cursor
       ELSE cursor' = [cursor EXCEPT ![r] = 1] /\ Await(r, "commit")
    /\ UNCHANGED <<input, collected, tx, failure>>

Commit(r) ==
    /\ doing[r] = "commit" /\ cursor[r] <= Len(collected[r])
    /\ SettleTurn(r, "committed")
    /\ cursor' = [cursor EXCEPT ![r] = @ + 1]
    /\ UNCHANGED <<input, doing, place, collected, failure, told>>

AfterCommitFails_RollsBack(r) == Fail(r, 500)

AfterCommitFails_GoesOn(r) == /\ cursor' = [cursor EXCEPT ![r] = @ + 1]
                              /\ UNCHANGED <<doing, place, failure, told>>

\* Nothing catches it before the server: next() was not awaited by anyone.
AfterCommitFails(r) == Tell(r, 500) /\ UNCHANGED <<cursor, failure>>

CommitFails(r) ==
    /\ doing[r] = "commit" /\ cursor[r] <= Len(collected[r]) /\ Turn(r) # 0
    /\ SettleTurn(r, "stuck")
    /\ AfterCommitFails(r)
    /\ UNCHANGED <<input, collected>>

Committed(r) == /\ doing[r] = "commit" /\ cursor[r] > Len(collected[r])
                /\ Tell(r, 201)
                /\ UNCHANGED <<input, txVars>>

-----------------------------------------------------------------------------
(* GetExampleMiddleware and GetExampleController                           *)

ReadExample(r, ok) == /\ Calls(r, "read")
                      /\ IF ok THEN Continue(r) ELSE Tell(r, 500)
                      /\ UNCHANGED <<input, txVars>>

ListExample(r) == Calls(r, "list") /\ Tell(r, 200) /\ UNCHANGED <<input, txVars>>

-----------------------------------------------------------------------------

HandlerStep(r) ==
    \/ Arrive(r) \/ FlowEnds(r) \/ \E accepted \in BOOLEAN : Validate(r, accepted)
    \/ \E authorized \in BOOLEAN : AskToken(r, authorized)
    \/ \E status \in {200, 401, 500} : TokenSettles(r, status)
    \/ \E accepted \in BOOLEAN : Create(r, accepted)
    \/ \E accepted, ok \in BOOLEAN : Begin(r, accepted, ok)
    \/ InsertOk(r) \/ InsertFails(r)
    \/ RollBack(r) \/ RollBackFails(r) \/ RolledBack(r)
    \/ StartCommit(r) \/ Commit(r) \/ CommitFails(r) \/ Committed(r)
    \/ \E ok \in BOOLEAN : ReadExample(r, ok)
    \/ ListExample(r)

Answered == \A r \in Requests : doing[r] = "over"

HandlersNext == (\E r \in Requests : HandlerStep(r)) \/ (Answered /\ UNCHANGED handlerVars)

\* No step repeats, so a behaviour that cannot stop early answers everything:
\* TLC's check for deadlocks takes the place of fairness here.
HandlersSpec == HandlersInit /\ [][HandlersNext]_handlerVars

-----------------------------------------------------------------------------
(* Properties.                                                             *)

\* A client is told that its example was created only when every transaction
\* that the request opened is committed.
CreatedIsCommitted ==
    \A r \in Requests : told[r] = 201 =>
        \A i \in DOMAIN tx[r] : tx[r][i] \in {"committed", "auto"}

\* When a create answers with an error, the transactions that the creates
\* before it opened are rolled back, except those that come before one whose
\* rollback failed. (The transaction of the failed create itself stays open.)
FailedCreateUndone ==
    \A r \in Requests :
        doing[r] = "over" /\ place[r] \in DOMAIN input[r].route
        /\ input[r].route[place[r]] = "create" /\ collected[r] # NoTransactions =>
            \A j \in DOMAIN collected[r] : LET i == collected[r][j] IN
                i # 0 /\ tx[r][i] = "open" =>
                    \E k \in DOMAIN collected[r] : k > j /\ tx[r][collected[r][k]] = "stuck"

\* No transaction is settled twice, whichever of the commits and rollbacks
\* of a request fail.
SettledOnce ==
    [][\A r \in Requests : \A i \in DOMAIN tx[r] :
            tx[r][i] # "open" => tx'[r][i] = tx[r][i]]_handlerVars

\* A create happens with all of its transactions or is told to have failed.
CreateIsAtomic == [](HandlersTypeOK /\ CreatedIsCommitted /\ FailedCreateUndone) /\ SettledOnce
=============================================================================
