------------------------------- MODULE Masking -------------------------------
(***************************************************************************)
(* What a log shows of a payload: sanitizeObject() of src/util/security,   *)
(* with the memo of the classified keys that all its calls share.          *)
(*                                                                         *)
(* Keywords and fragments are sequences of pieces of words, chosen so that *)
(* none of them begins inside a piece; the text of a value is a sequence   *)
(* of digits and of the characters named below.                            *)
(***************************************************************************)
EXTENDS Payloads

CONSTANTS CardKeywords, RedactKeywords, PartialKeywords,
          ShortKeywords,      \* those of up to SHORT_KEYWORD_MAX_LENGTH letters
          KeyAffixes,
          SubValues,          \* SENSITIVE_SUB_VALUES
          MaxFragment,        \* MAX_FRAGMENT_LENGTH, in pieces
          PanMin, PanMax,     \* PAN_MIN_DIGITS, PAN_MAX_DIGITS
          BinDigits, LastDigits, \* what maskCard() shows
          CacheMax            \* KEY_TYPE_CACHE_MAX_SIZE

ASSUME MaskingAssumption == /\ PanMin \in Nat /\ PanMax \in Nat
                            /\ BinDigits \in Nat /\ LastDigits \in Nat
                            /\ MaxFragment \in Nat /\ CacheMax \in Nat

VARIABLE keyTypeCache \* the type of each key seen, "none" for an ordinary one

Types == {"card", "redact", "partial", "none"}

\* Characters that are not digits.
Separator == 10
Letter == 11
Star == 12
Redacted == 13

-----------------------------------------------------------------------------
(* is-sensitive-key.ts                                                     *)

Keywords == CardKeywords \cup RedactKeywords \cup PartialKeywords
KeyFragments == KeyAffixes \cup Keywords

ASSUME FragmentsAssumption == KeyFragments \subseteq Seq(STRING) \ {<<>>}

Includes(s, part) == \E i \in 0..(Len(s) - Len(part)) : SubSeq(s, i + 1, i + Len(part)) = part

\* The pieces of a fragment from "at" on are known if some fragment begins
\* there after which the rest is known.
IsKnownFragment(f) ==
    LET Rest(at) == SubSeq(f, at, Len(f))
        known[at \in 1..(Len(f) + 1)] ==
            \/ Rest(at) = <<>>
            \/ Rest(at) \in KeyFragments
            \/ /\ Len(Rest(at)) <= MaxFragment
               /\ \E next \in (at + 1)..Len(f) : /\ SubSeq(f, at, next - 1) \in KeyFragments
                                                 /\ known[next]
    IN  known[1]

HasKeywordFragment(word, keyword) ==
    \E i \in 0..(Len(word) - Len(keyword)) :
        /\ SubSeq(word, i + 1, i + Len(keyword)) = keyword
        /\ IsKnownFragment(SubSeq(word, 1, i))
        /\ IsKnownFragment(SubSeq(word, i + Len(keyword) + 1, Len(word)))

\* A word spelt letter by letter shows no keyword.
Pieces(key) == [i \in DOMAIN key |-> IF key[i].as = "spelt"
                                     THEN [key[i] EXCEPT !.w = "?"] ELSE key[i]]
LowerKey(key) == [i \in DOMAIN key |-> Pieces(key)[i].w]
SplitKeyIntoWords(key) ==
    WordsBy(Pieces(key), {i \in 2..Len(key) : key[i - 1].as # "UP" /\ key[i].as \in {"Cap", "UP"}})

MatchesKeywords(keywords, key) ==
    \E k \in keywords :
        IF k \in ShortKeywords
        THEN \E i \in DOMAIN SplitKeyIntoWords(key) :
                HasKeywordFragment(SplitKeyIntoWords(key)[i], k)
        ELSE Includes(LowerKey(key), k)

ClassifyKey(key) ==
    IF ~\E k \in Keywords : Includes(LowerKey(key), k) THEN "none"
    ELSE IF MatchesKeywords(CardKeywords, key) THEN "card"
    ELSE IF MatchesKeywords(RedactKeywords, key) THEN "redact"
    ELSE IF MatchesKeywords(PartialKeywords, key) THEN "partial"
    ELSE "none"

IsMaskable(v) == v.is = "leaf" /\ v.v.type \in {"string", "number"}

\* Luhn's check in one pass from the last character to the first.
PanStep(s, c) ==
    IF ~s.ok \/ c = Separator THEN s
    ELSE IF c > 9 THEN [s EXCEPT !.ok = FALSE]
    ELSE [ok |-> s.digits < PanMax,
          digits |-> s.digits + 1,
          sum |-> s.sum + (IF s.alternate
                           THEN IF 2 * c > 9 THEN 2 * c - 9 ELSE 2 * c
                           ELSE c),
          alternate |-> ~s.alternate]

PanPass(text) ==
    LET after[i \in 0..Len(text)] ==
          IF i = 0 THEN [ok |-> TRUE, digits |-> 0, sum |-> 0, alternate |-> FALSE]
          ELSE PanStep(after[i - 1], text[Len(text) + 1 - i])
    IN  after[Len(text)]

IsPAN(v) ==
    /\ IsMaskable(v)
    /\ Len(v.v.text) \in PanMin..(2 * PanMax)
    /\ PanPass(v.v.text).ok
    /\ PanPass(v.v.text).digits >= PanMin
    /\ PanPass(v.v.text).sum % 10 = 0

\* classifyKey() with the memo, and what it leaves in the memo.
KeyType(cache, key) == IF key \in DOMAIN cache THEN cache[key] ELSE ClassifyKey(key)

GetSensitiveKeyType(cache, key, val) ==
    IF KeyType(cache, key) # "none" THEN KeyType(cache, key)
    ELSE IF IsPAN(val) THEN "card" ELSE "none"

Remembered_ByValue(cache, key, val) == GetSensitiveKeyType(cache, key, val)

\* The memo keeps what the key says, not what the value adds to it.
Remembered(cache, key, val) == KeyType(cache, key)

Remember(cache, e) ==
    IF e.key \in DOMAIN cache \/ Cardinality(DOMAIN cache) >= CacheMax THEN cache
    ELSE [k \in DOMAIN cache \cup {e.key} |->
            IF k = e.key THEN Remembered(cache, e.key, e.val) ELSE cache[k]]

-----------------------------------------------------------------------------
(* mask-value.ts and sanitize-object.ts                                    *)

Stars(n) == [i \in 1..n |-> Star]
Digits(text) == FlattenSeq([i \in DOMAIN text |-> IF text[i] <= 9 THEN <<text[i]>> ELSE <<>>])

MaskCard(text) ==
    LET digits == Digits(text)
        hidden == Len(digits) - BinDigits - LastDigits
    IN  IF hidden < 0 THEN Stars(Len(digits))
        ELSE SubSeq(digits, 1, BinDigits) \o Stars(hidden)
             \o SubSeq(digits, Len(digits) - LastDigits + 1, Len(digits))

MaskPartial(text) ==
    LET hidden == Max({1, (Len(text) * 4) \div 5})
    IN  IF text = <<>> THEN text ELSE Stars(hidden) \o SubSeq(text, hidden + 1, Len(text))

ApplyMask(v, type) ==
    Leaf([type |-> "string",
          text |-> CASE type = "card" -> MaskCard(v.v.text)
                     [] type = "redact" -> <<Redacted>>
                     [] OTHER -> MaskPartial(v.v.text)])

\* An entry in an object under a key of parentType, with what becomes of the
\* levels below.
SanitizeEntry(cache, e, parentType, below) ==
    LET keyType == GetSensitiveKeyType(cache, e.key, e.val)
    IN  IF keyType # "none" /\ IsMaskable(e.val) THEN ApplyMask(e.val, keyType)
        ELSE IF parentType # "none" /\ e.key \in SubValues /\ IsMaskable(e.val)
        THEN ApplyMask(e.val, parentType)
        ELSE below[e.val][IF keyType # "none" THEN keyType ELSE parentType]

SanitizeLevel(cache, v, parentType, below) ==
    IF v.is = "array" THEN Array([i \in DOMAIN v.items |-> below[v.items[i]][parentType]])
    ELSE IF v.is = "object"
    THEN Object([i \in DOMAIN v.entries |->
            [key |-> v.entries[i].key,
             val |-> SanitizeEntry(cache, v.entries[i], parentType, below)]])
    ELSE v

Sanitized(cache) ==
    LET by[n \in Levels] == [v \in Payload[n] |->
          [parentType \in Types |-> SanitizeLevel(cache, v, parentType, by[n - 1])]]
    IN  by[Deepest]
SanitizeObject(cache, v, parentType) == Sanitized(cache)[v][parentType]

\* The entries of a payload in the order they are visited.
Visited(v) ==
    LET by[n \in Levels] == [x \in Payload[n] |->
          IF x.is = "array" THEN FlattenSeq([i \in DOMAIN x.items |-> by[n - 1][x.items[i]]])
          ELSE IF x.is = "object"
          THEN FlattenSeq([i \in DOMAIN x.entries |->
                            <<x.entries[i]>> \o by[n - 1][x.entries[i].val]])
          ELSE <<>>]
    IN  by[Deepest][v]

MaskingInit == keyTypeCache = <<>>
Classified(v) ==
    LET visited == Visited(v)
        after[i \in 0..Len(visited)] ==
          IF i = 0 THEN keyTypeCache ELSE Remember(after[i - 1], visited[i])
    IN  after[Len(visited)]

-----------------------------------------------------------------------------
(* What a log should show, leaf by leaf, from the path of each.            *)

\* The pieces are some fragments, one after another: behind each cut but the
\* one at the end there is a fragment and another cut.
Cuttable(f) ==
    \/ f = <<>> \/ f \in KeyFragments
    \/ /\ Len(f) <= MaxFragment
       /\ \E cuts \in SUBSET (1..(Len(f) + 1)) :
            /\ 1 \in cuts
            /\ \A a \in cuts :
                  \/ a = Len(f) + 1
                  \/ \E b \in cuts : b > a /\ SubSeq(f, a, b - 1) \in KeyFragments

Names(key, k) ==
    IF k \notin ShortKeywords THEN Includes(LowerKey(key), k)
    ELSE \E i \in DOMAIN SplitKeyIntoWords(key) :
            LET word == SplitKeyIntoWords(key)[i]
            IN  \E j \in 0..(Len(word) - Len(k)) :
                    /\ SubSeq(word, j + 1, j + Len(k)) = k
                    /\ Cuttable(SubSeq(word, 1, j))
                    /\ Cuttable(SubSeq(word, j + Len(k) + 1, Len(word)))

TypeOfKey(key) ==
    CASE \E k \in CardKeywords : Names(key, k) -> "card"
      [] ~(\E k \in CardKeywords : Names(key, k)) /\ (\E k \in RedactKeywords : Names(key, k)) -> "redact"
      [] ~(\E k \in CardKeywords \cup RedactKeywords : Names(key, k))
            /\ (\E k \in PartialKeywords : Names(key, k)) -> "partial"
      [] OTHER -> "none"

\* A card number by its digits alone: every second one from the end counts twice.
DigitsAfter(text, i) == Cardinality({j \in (i + 1)..Len(text) : text[j] <= 9})
Weight(text, i) == IF text[i] > 9 THEN 0
                   ELSE IF DigitsAfter(text, i) % 2 = 0 THEN text[i]
                   ELSE ((2 * text[i]) \div 10) + ((2 * text[i]) % 10)
Luhn(text) ==
    LET sum[i \in 0..Len(text)] == IF i = 0 THEN 0 ELSE sum[i - 1] + Weight(text, i)
    IN  sum[Len(text)]
LooksLikePAN(v) ==
    /\ IsMaskable(v)
    /\ \A i \in DOMAIN v.v.text : v.v.text[i] <= Separator
    /\ Len(v.v.text) <= 2 * PanMax
    /\ DigitsAfter(v.v.text, 0) \in PanMin..PanMax
    /\ Luhn(v.v.text) % 10 = 0

\* Each leaf with the steps on the way to it, into an array or to a key.
PathSteps == [into : {"array", "object"}, key : Keys]
Leaves(v) ==
    LET by[n \in Levels] == [x \in Payload[n] |-> [path \in Seq(PathSteps) |->
          IF x.is = "array"
          THEN FlattenSeq([i \in DOMAIN x.items |->
                  by[n - 1][x.items[i]][Append(path, [into |-> "array", key |-> <<>>])]])
          ELSE IF x.is = "object"
          THEN FlattenSeq([i \in DOMAIN x.entries |->
                  by[n - 1][x.entries[i].val]
                           [Append(path, [into |-> "object", key |-> x.entries[i].key])]])
          ELSE <<[path |-> path, leaf |-> x]>>]]
    IN  by[Deepest][v][<<>>]

TypeAt(path, i) == IF path[i].into = "array" THEN "none" ELSE TypeOfKey(path[i].key)

\* The type of the last key that has one.
TypeAround(path) ==
    LET typed == {i \in DOMAIN path : TypeAt(path, i) # "none"}
    IN  IF typed = {} THEN "none" ELSE TypeAt(path, Max(typed))

Shown(l) ==
    LET last == l.path[Len(l.path)]
        own == TypeAt(l.path, Len(l.path))
        type == IF own # "none" THEN own
                ELSE IF last.into = "array" THEN "none"
                ELSE IF LooksLikePAN(l.leaf) THEN "card"
                ELSE IF last.key \in SubValues THEN TypeAround(Front(l.path))
                ELSE "none"
    IN  IF type # "none" /\ IsMaskable(l.leaf) THEN ApplyMask(l.leaf, type) ELSE l.leaf

IsMaskedCopy(masked, v) ==
    LET leaves == Leaves(v)
    IN  Leaves(masked) = [i \in DOMAIN leaves |->
            [path |-> leaves[i].path, leaf |-> Shown(leaves[i])]]
=============================================================================
