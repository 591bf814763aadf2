------------------------------- MODULE Payloads -------------------------------
(***************************************************************************)
(* Payloads of requests and responses, the spellings of their keys and the *)
(* conversions between them: src/util/object and the case handling of      *)
(* src/main/adapters/request-validation-adapter.ts.                        *)
(*                                                                         *)
(* A key is a sequence of tokens [as, w]: the word w in lower case, with a *)
(* capital, in capitals, letter by letter ("i_d"), or a separator. An      *)
(* object is a sequence of entries in the order Object.entries() has. What *)
(* the code computes by recursion on a payload is a function of the levels *)
(* of the payload here, as theorems can be proved of it.                   *)
(***************************************************************************)
EXTENDS Integers, SequencesExt

CONSTANT Depth \* of the parts of a request, and of what the database returns

ASSUME DepthAssumption == Depth \in Nat /\ Depth >= 2

Leaf(v) == [is |-> "leaf", v |-> v]
Object(entries) == [is |-> "object", entries |-> entries]
Array(items) == [is |-> "array", items |-> items]
NoValue == [is |-> "undefined"]

\* Literals are strings, which the provers do not know.
ASSUME LiteralsAssumption == {"_", "0", "?", "string", "number"} \subseteq STRING

Tokens == [as : {"low", "Cap", "UP", "spelt", "sep"}, w : STRING]
Keys == Seq(Tokens)

\* The payloads of each level with the keys of a set; a log has four levels more
\* than what it shows.
Deepest == Depth + 4
Levels == 0..Deepest
Scalars == [is : {"leaf"}, v : [type : STRING, text : Seq(Nat)]] \cup {NoValue}
Containers(keys, below) == [is : {"array"}, items : Seq(below)]
                           \cup [is : {"object"}, entries : Seq([key : keys, val : below])]
PayloadsOf(keys) ==
    LET of[n \in Levels] == IF n = 0 THEN Scalars ELSE Scalars \cup Containers(keys, of[n - 1])
    IN  of
Payload == PayloadsOf(Keys)

At(o, key) == {i \in DOMAIN o.entries : o.entries[i].key = key}

\* object[key], and the assignment, which keeps the place of a key that exists.
Get(o, key) == IF At(o, key) = {} THEN NoValue
               ELSE o.entries[Min(At(o, key))].val
Put(o, key, val) ==
    IF At(o, key) = {} THEN Object(Append(o.entries, [key |-> key, val |-> val]))
    ELSE Object([o.entries EXCEPT ![Min(At(o, key))].val = val])

\* The object that the entries make, one after another.
Assigned(entries) ==
    LET o[i \in 0..Len(entries)] ==
          IF i = 0 THEN Object(<<>>) ELSE Put(o[i - 1], entries[i].key, entries[i].val)
    IN  o[Len(entries)]

\* { ...first, ...second }
Spread(objects) == Assigned(FlattenSeq([i \in DOMAIN objects |-> objects[i].entries]))

\* An array with its indices as keys: as many digits as the index.
WithKeys(v) ==
    IF v.is # "array" THEN v
    ELSE Object([i \in DOMAIN v.items |->
                    [key |-> [j \in 1..i |-> [as |-> "low", w |-> "0"]], val |-> v.items[i]]])

IsTruthy(v) == \/ v.is \in {"object", "array"}
               \/ /\ v.is = "leaf"
                  /\ v.v.text # <<>>
                  /\ ~(v.v.type = "number" /\ v.v.text = <<0>>)

\* A value that is falsy ends the way: "memo && memo[key]". An index into an
\* array is left out.
GetIn(o, path) ==
    FoldLeft(LAMBDA v, key : IF ~IsTruthy(v) THEN v
                             ELSE IF v.is = "object" THEN Get(v, key) ELSE NoValue,
             o, path)

-----------------------------------------------------------------------------
(* Key formatters.                                                         *)

Sep == [as |-> "sep", w |-> "_"]
Low(t) == [t EXCEPT !.as = "low"]
Capital(t) == IF t.as = "low" THEN [t EXCEPT !.as = "Cap"] ELSE t

\* The separators go, and what follows one gets a capital.
SnakeCaseKeyToCamelCase(key) ==
    FlattenSeq([i \in DOMAIN key |->
        IF key[i] = Sep THEN <<>>
        ELSE IF i > 1 /\ key[i - 1] = Sep THEN <<Capital(key[i])>>
        ELSE <<key[i]>>])

\* Each capital letter after the first gets a separator of its own.
CamelCaseKeyToSnakeCase(key) ==
    FlattenSeq([i \in DOMAIN key |->
        LET apart == IF i > 1 THEN <<Sep>> ELSE <<>>
        IN  IF key[i].as = "Cap" THEN apart \o <<Low(key[i])>>
            ELSE IF key[i].as = "UP" THEN apart \o <<[key[i] EXCEPT !.as = "spelt"]>>
            ELSE <<key[i]>>])

-----------------------------------------------------------------------------
(* Spellings, for the validation of a request.                             *)

\* The words of a key: a separator ends one, and a capital where it begins.
WithToken(words, key, i, begins) ==
    IF key[i] = Sep THEN words
    ELSE IF words = <<>> \/ key[i - 1] = Sep \/ i \in begins
    THEN Append(words, <<key[i].w>>)
    ELSE [words EXCEPT ![Len(words)] = Append(@, key[i].w)]
WordsBy(key, begins) ==
    LET upTo[i \in 0..Len(key)] ==
          IF i = 0 THEN <<>> ELSE WithToken(upTo[i - 1], key, i, begins)
    IN  upTo[Len(key)]

SplitKeyWords(key) ==
    WordsBy(key, {i \in 2..Len(key) :
                    key[i].as = "Cap" \/ (key[i].as = "UP" /\ key[i - 1].as # "UP")})

\* The i-th word of a key in one case.
Style(case, i, j) ==
    IF case \in {"UPPER_SNAKE", "UPPER"} THEN "UP"
    ELSE IF j = 1 /\ (case = "pascal" \/ (case = "camel" /\ i > 1)) THEN "Cap"
    ELSE "low"
Written(case, i, word) ==
    (IF i > 1 /\ case \in {"snake", "UPPER_SNAKE"} THEN <<Sep>> ELSE <<>>)
    \o [j \in DOMAIN word |-> [as |-> Style(case, i, j), w |-> word[j]]]

Spelling(case, words) == FlattenSeq([i \in DOMAIN words |-> Written(case, i, words[i])])

Cases == <<"camel", "pascal", "snake", "UPPER_SNAKE", "lower", "UPPER">>

GetCaseVariants_Rewritten(key) ==
    LET words == SplitKeyWords(key)
    IN  IF words = <<>> THEN <<key>>
        ELSE [i \in DOMAIN Cases |-> Spelling(Cases[i], words)]

GetCaseVariants(key) ==
    LET words == SplitKeyWords(key)
    IN  IF words = <<>> THEN <<key>>
        ELSE <<key>> \o [i \in DOMAIN Cases |-> Spelling(Cases[i], words)]

-----------------------------------------------------------------------------
(* Conversions of payloads.                                                *)

Formatters == {"toCamel", "toSnake"}

\* The keys that an entry gets: the formatters have one each, and so has each of
\* the Cases; "every" is for every spelling.
NewKeys(how, key) ==
    IF how = "toCamel" THEN <<SnakeCaseKeyToCamelCase(key)>>
    ELSE IF how = "toSnake" THEN <<CamelCaseKeyToSnakeCase(key)>>
    ELSE IF how = "every" THEN GetCaseVariants(key)
    ELSE <<Spelling(how, SplitKeyWords(key))>>

\* recursiveDataConvertFilterLayer() of the formatters turns an array inside an
\* array into an object.
Item(how, v) == IF how \in Formatters THEN WithKeys(v) ELSE v

Entries(keys, val) == [i \in DOMAIN keys |-> [key |-> keys[i], val |-> val]]

\* One level of a payload, with what a conversion makes of the levels below.
Level(how, v, below) ==
    IF v.is = "array" THEN Array([i \in DOMAIN v.items |-> below[Item(how, v.items[i])]])
    ELSE IF v.is = "object"
    THEN Assigned(FlattenSeq([i \in DOMAIN v.entries |->
                    Entries(NewKeys(how, v.entries[i].key), below[v.entries[i].val])]))
    ELSE v

Converted(how) ==
    LET by[n \in Levels] == [v \in Payload[n] |-> Level(how, v, by[n - 1])]
    IN  by[Deepest]

Convert(to, v) == Converted(to)[v]
ExpandPayloadCaseVariants(v) == Converted("every")[v]
TransformPayloadKeys(v, case) == Converted(case)[v]

\* The payloads that the schema tries, in order.
BuildValidationPayloads(payload, options) ==
    IF options.caseMode = "strict" THEN <<payload>>
    ELSE IF options.strategy = "strict"
    THEN <<payload>> \o [i \in DOMAIN Cases |-> TransformPayloadKeys(payload, Cases[i])]
    ELSE <<ExpandPayloadCaseVariants(payload)>>
=============================================================================
