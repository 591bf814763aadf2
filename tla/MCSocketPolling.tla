-------------------------- MODULE MCSocketPolling --------------------------
(* Messages of two events, one of them registered twice, whose ticks read  *)
(* one address with two tokens and credentials, with no body and with one  *)
(* that JSON cannot show, the second too large to cache, and a query.      *)
EXTENDS SocketPolling, TLC

CONSTANTS m1, m2, r1, r2, q1

Data(what, token, body, auth) == [what |-> what, token |-> token, body |-> body, auth |-> auth]
k1 == [what |-> "k1", token |-> "", body |-> ""]
Op(op, key, throws) == [op |-> op, key |-> key, throws |-> throws]

MCTarget == r1 :> Data("url", "a", "absent", "ann") @@ r2 :> Data("url", "b", "stream", "bob")
            @@ q1 :> Data("sql", "", "json", "")
MCBodyText == [body \in {"absent", "stream", "json"} |-> IF body = "json" THEN "json" ELSE ""]
Program(service, fields, reads, theirs) ==
    [cacheService |-> service, headersFields |-> fields, reads |-> reads, theirs |-> theirs]
MCOptions == {Program("memjs", {}, {r1, r2}, {KeyOfTarget(MCTarget[r1], {})}),
              Program("memjs", {}, {r1, q1}, {KeyOfTarget(MCTarget[q1], {}), k1}),
              Program("memjs", {"token"}, {r1, r2, q1}, {}),
              Program("node-cache", {"token"}, {r1, r2, q1}, {})}
MCEventOf == m1 :> "greeting" @@ m2 :> "status"
MCValueKeys == {k1}
MCRegistrations ==
    <<[event |-> "greeting",
       handlers |-> <<Op("save", k1, TRUE), Op("get", k1, TRUE), Op("repeat", k1, FALSE)>>],
      [event |-> "status", handlers |-> <<Op("get", k1, FALSE)>>],
      [event |-> "status", handlers |-> <<Op("repeat", k1, FALSE)>>]>>
=============================================================================
