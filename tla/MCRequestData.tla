---------------------------- MODULE MCRequestData ----------------------------
(* Two requests, one after the other or together, on routes as the example's. *)
EXTENDS RequestData

L(w) == [as |-> "low", w |-> w]
C(w) == [as |-> "Cap", w |-> w]
U(w) == [as |-> "UP", w |-> w]

clientId == <<L("client"), C("id")>>
Spellings == {clientId, <<L("client"), Sep, L("id")>>, <<U("client"), Sep, U("id")>>,
              <<C("client"), C("id")>>, <<L("client"), L("id")>>, <<L("client"), U("id")>>}

String(text) == Leaf([type |-> "string", text |-> text])
Plain == String(<<Letter, 1, Letter, Letter, Letter>>)
Pan == String(<<1, Separator, 8, 2, 6>>)
E(key, val) == [key |-> key, val |-> val]

\* Keys that hold a keyword and keys that seem to.
Secret == Object(<<E(<<L("user"), L("auth")>>, Plain),
                   E(<<L("auth"), L("or")>>, Plain),
                   E(<<L("my"), L("card"), C("number")>>, Pan),
                   E(<<L("ship"), L("pin"), L("g")>>, Pan),
                   E(<<L("card"), C("token")>>, Object(<<E(<<L("value")>>, Plain)>>)),
                   E(<<U("api"), Sep, U("key")>>, Array(<<Plain, Object(<<E(<<L("pin")>>, Plain)>>)>>)),
                   E(<<L("note")>>, Pan)>>)

MCCard == {<<"card">>, <<"pan">>, <<"card", "number">>}
MCRedact == {<<"token">>, <<"auth">>, <<"auth", "orization">>, <<"api", "_", "key">>}
MCPartial == {<<"pin">>, <<"cpf">>}
MCShort == {<<"card">>, <<"pan">>, <<"auth">>, <<"pin">>, <<"cpf">>}
MCAffixes == {<<"my">>, <<"user">>, <<"id">>}
MCSubValues == {<<L("value")>>, <<L("number")>>}

MCSchemaKeys == {clientId}
MCConfig == <<[name |-> Name("name"), target |-> "request", path |-> <<Name("body"), clientId>>],
              [name |-> Name("name"), target |-> "payload", path |-> <<Name("body")>>],
              [name |-> Name("name"), target |-> "request", path |-> <<Name("query"), clientId>>],
              [name |-> Name("kind"), target |-> "state", path |-> <<GetExample, <<L("row"), C("id")>>>>]>>
MCCreateKeys == {Name("name")}
MCExample == Object(<<E(<<L("row"), C("id")>>, Plain),
                      E(<<L("card"), C("pan")>>, Object(<<E(<<L("my"), C("pin")>>, Plain)>>))>>)

Merge == [caseMode |-> "insensitive", strategy |-> "merge"]
Strict == [caseMode |-> "strict", strategy |-> "merge"]
OneCase == [caseMode |-> "insensitive", strategy |-> "strict"]

Empty == Object(<<>>)
Sent(body, query, headers) == [body |-> body, params |-> Empty, query |-> query, headers |-> headers]
Authorized == Object(<<E(Authorization, Plain)>>)
Request(route, options, parts, transactional, shared) ==
    [route |-> route, options |-> options, parts |-> parts,
     transactional |-> transactional, shared |-> shared]

Creates == <<"validate", "token", "create", "create", "commit">>
ById(spelling, headers) == Sent(Object(<<E(spelling, Plain)>>), Empty, headers)

\* Every spelling under every option.
Spelled == {Request(<<"validate", "read">>, o, ById(s, Empty), FALSE, FALSE) :
                s \in Spellings, o \in {Merge, Strict, OneCase}}
\* The key twice: in the body and empty in the query, and in two spellings.
Twice == {Request(<<"validate", "create">>, Merge, p, FALSE, TRUE) :
            p \in {Sent(Object(<<E(clientId, Plain)>>), Object(<<E(clientId, String(<<>>))>>), Empty),
                   Sent(Object(<<E(clientId, Plain), E(<<C("client"), C("id")>>, Pan)>>), Empty, Empty)}}
Creating == {Request(Creates, Merge, ById(clientId, h), t, s) :
                h \in {Authorized, Empty}, t \in BOOLEAN, s \in BOOLEAN}
\* Nothing to create, and a commit that no handler prepared.
Unprepared == {Request(<<"create">>, Merge, Sent(Empty, Empty, Empty), FALSE, TRUE),
               Request(<<"commit">>, Merge, Sent(Empty, Empty, Empty), FALSE, FALSE)}
Logged == {Request(<<"read", "list">>, Merge, Sent(Secret, Empty, Authorized), FALSE, FALSE)}
\* The same keys with ordinary values first, or with a card number.
Pans == {Request(<<"read">>, Merge, Sent(Object(<<E(<<L("note")>>, v)>>), Empty, Empty), FALSE, FALSE) :
            v \in {Plain, Pan}}

MCWorkloads == [Requests -> Pans \cup Logged]
                \cup {[r \in Requests |-> IF r = CHOOSE q \in Requests : TRUE THEN i ELSE j] :
                        i \in Spelled \cup Twice \cup Creating \cup Unprepared, j \in Logged}
=============================================================================
