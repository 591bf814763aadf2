--------------------------- MODULE MCRequestFlow ---------------------------
(* The instance that TLC checks: a hook, a middleware, a group of two, a   *)
(* branch of four options and a controller.                                *)
EXTENDS RequestFlow

CONSTANTS h1, m1, p1, p2, b1, b2, b3, b4, b5, c1, path

Single(h) == [kind |-> "single", parts |-> <<h>>, options |-> <<>>]
Group(ps) == [kind |-> "parallel", parts |-> ps, options |-> <<>>]
Branch(os) == [kind |-> "branch", parts |-> <<>>, options |-> os]
Compare(v, strict, s) == [kind |-> "object", paths |-> <<path>>, expected |-> <<v>>,
                          strict |-> strict, sub |-> s]
Exists(s) == [kind |-> "string", paths |-> <<path>>, expected |-> <<>>,
              strict |-> FALSE, sub |-> s]

MCHook == <<Single(h1)>>
MCRoute == <<Single(m1), Group(<<p1, p2>>),
             Branch(<<Compare(Value("number", "0"), TRUE, <<b1>>),
                      Compare(Value("number", "1"), TRUE, <<b2, b3>>),
                      Compare(Value("bigint", "1"), FALSE, <<b5>>),
                      Exists(<<b4>>)>>),
             Single(c1)>>
MCValues == {Undefined, Value("number", "0"), Value("number", "1"), Value("string", "1"),
             Value("boolean", "false"), Value("object", "a")}
=============================================================================
