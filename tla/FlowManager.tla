----------------------------- MODULE FlowManager -----------------------------
(***************************************************************************)
(* flowManager() of src/main/adapters/flow-manager: which option a request *)
(* or message takes, by the conditions of its options and the values found *)
(* under their paths.                                                      *)
(*                                                                         *)
(* A JavaScript value is its type and its text: [type |-> "number",        *)
(* value |-> "1"]. A condition is a record of its kind (none, string,      *)
(* array, function, object), its paths and, for an object, the value       *)
(* expected under each path.                                               *)
(***************************************************************************)
EXTENDS Naturals, Sequences, FiniteSetsExt

Value(t, v) == [type |-> t, value |-> v]
Undefined == Value("undefined", "undefined")
Numerals == {"0", "1"}

Truthy(v) == v \notin {Undefined, Value("object", "null"), Value("boolean", "false"),
                       Value("number", "0"), Value("string", "")}

\* typeof valueFound === 'boolean' || valueFound
Present(v) == v.type = "boolean" \/ Truthy(v)

\* coercion(); "throws" stands for INVALID_TYPE or BigInt's SyntaxError.
Coercion(v, type) ==
    LET number == IF v.type = "boolean"
                  THEN IF v.value = "true" THEN "1" ELSE "0"
                  ELSE IF v.value \in Numerals THEN v.value ELSE "NaN"
    IN  CASE type = "string"  -> Value("string", v.value)
          [] type = "boolean" -> Value("boolean", IF Truthy(v) THEN "true" ELSE "false")
          [] type = "number"  -> Value("number", number)
          [] type = "bigint" /\ number # "NaN" -> Value("bigint", number)
          [] OTHER -> Value("throws", "throws")

\* What comparing the value found with the expected one gives.
Comparison(v, expected, strict) ==
    LET objects == v.type = "object" /\ expected.type = "object"
        coerced == IF objects \/ strict THEN v ELSE Coercion(v, expected.type)
    IN  IF ~Present(v) THEN "no"
        ELSE IF coerced.type = "throws" THEN "throws"
        ELSE IF coerced = expected THEN "yes" ELSE "no"

\* Whether the condition of an option is satisfied: the keys of an object are
\* compared in order, up to the first that does not match.
Satisfied(option, found) ==
    LET at(i) == found[option.paths[i]]
        keys == DOMAIN option.paths
        results == [i \in keys |-> Comparison(at(i), option.expected[i], option.strict)]
        failing == {i \in keys : results[i] # "yes"}
    IN  CASE option.kind = "none" -> "yes"
          [] option.kind \in {"string", "array"} ->
                IF \A i \in keys : Present(at(i)) THEN "yes" ELSE "no"
          [] option.kind = "function" -> IF Truthy(at(1)) THEN "yes" ELSE "no"
          [] option.kind = "object" ->
                IF failing = {} THEN "yes" ELSE results[Min(failing)]

Deciding_Last(options, found) ==
    LET deciding == {i \in DOMAIN options : Satisfied(options[i], found) # "no"}
    IN  IF deciding = {} THEN 0 ELSE Max(deciding)

\* The first option whose condition holds, or throws; 0 when none does.
Deciding(options, found) ==
    LET deciding == {i \in DOMAIN options : Satisfied(options[i], found) # "no"}
    IN  IF deciding = {} THEN 0 ELSE Min(deciding)
=============================================================================
