--------------------------------- MODULE Json ---------------------------------
(***************************************************************************)
(* JsonValue (src/include/systemapp/json.hpp): building a value and writing *)
(* it as text, and, to compare with, how RFC 8259 says the text is read.    *)
(*                                                                         *)
(* A value is a pair of its type and its content: the characters of a       *)
(* string, the values of an array, the members of an object, the word that  *)
(* stands for any other value.  Texts are sequences of characters; white    *)
(* space between them is left out.                                          *)
(***************************************************************************)
EXTENDS Naturals, SequencesExt

Quote     == "\""
Backslash == "\\"
Words     == {"true", "false"}

\* The first and the last control character and what %04x makes of them.
Hex == [c \in {"^A", "^_"} |-> IF c = "^A" THEN "0001" ELSE "001f"]

-----------------------------------------------------------------------------
(* Building *)

\* set(): the member of this name is overwritten, or a new one appended.
Set(members, key, value) ==
    LET At == {k \in DOMAIN members : members[k][1] = key} IN
    IF At = {} THEN Append(members, <<key, value>>)
    ELSE [members EXCEPT ![CHOOSE k \in At : \A l \in At : k <= l] = <<key, value>>]

\* object(), followed by a set() for each of these pairs.
Object(pairs) ==
    LET members[n \in 0 .. Len(pairs)] ==
            IF n = 0 THEN <<>> ELSE Set(members[n - 1], pairs[n][1], pairs[n][2])
    IN  <<"object", members[Len(pairs)]>>

String(s)  == <<"string", s>>
Boolean(b) == <<"word", IF b THEN "true" ELSE "false">>
Array(s)   == <<"array", s>>

-----------------------------------------------------------------------------
(* Writing *)

\* Mutant of Escaped: a backslash is written as it is.
EscapedButBackslash(c) ==
    CASE c = Quote           -> <<Backslash, Quote>>
      [] c = "\n"            -> <<Backslash, "n">>
      [] c = "\t"            -> <<Backslash, "t">>
      [] c \in DOMAIN Hex    -> <<Backslash, "u", Hex[c]>>
      [] OTHER               -> <<c>>

\* The switch in escape().
Escaped(c) ==
    CASE c \in {Quote, Backslash} -> <<Backslash, c>>
      [] c = "\n"                 -> <<Backslash, "n">>
      [] c = "\t"                 -> <<Backslash, "t">>
      [] c \in DOMAIN Hex         -> <<Backslash, "u", Hex[c]>>
      [] OTHER                    -> <<c>>

Escape(s) == <<Quote>> \o FlattenSeq([k \in DOMAIN s |-> Escaped(s[k])]) \o <<Quote>>

\* A comma after every item but the last.
Listed(items) ==
    FlattenSeq([k \in DOMAIN items |->
                   IF k = Len(items) THEN items[k] ELSE items[k] \o <<",">>])

\* write() of a value, given the texts of its items.
Written(v, Text(_)) ==
    CASE v[1] = "word"   -> <<v[2]>>
      [] v[1] = "string" -> Escape(v[2])
      [] v[1] = "array"  -> <<"[">> \o Listed([k \in DOMAIN v[2] |-> Text(v[2][k])]) \o <<"]">>
      [] v[1] = "object" ->
            <<"{">> \o Listed([k \in DOMAIN v[2] |->
                                  Escape(v[2][k][1]) \o <<":">> \o Text(v[2][k][2])])
                    \o <<"}">>

\* The deepest value is info's: an object, its partitions, one of them, its name.
Write0(v) == Written(v, LAMBDA w : <<>>)
Write1(v) == Written(v, Write0)
Write2(v) == Written(v, Write1)
Write(v)  == Written(v, Write2)

-----------------------------------------------------------------------------
(* Reading, from RFC 8259: a result is a value and the place after it, which *)
(* is 0 if the text is not JSON                                              *)

Wrong == [v |-> <<>>, at |-> 0]
CharAt(t, i) == IF i \in DOMAIN t THEN t[i] ELSE "end of text"
InNoString == {"\n", "\t", "end of text"} \cup DOMAIN Hex

\* What stands for the character after a backslash, and its length.
Unescaped(t, i) ==
    LET c == CharAt(t, i) IN
    CASE c \in {Quote, Backslash} -> [v |-> c, at |-> i + 1]
      [] c = "n" -> [v |-> "\n", at |-> i + 1]
      [] c = "t" -> [v |-> "\t", at |-> i + 1]
      [] c = "u" /\ CharAt(t, i + 1) \in {Hex[k] : k \in DOMAIN Hex} ->
            [v |-> CHOOSE k \in DOMAIN Hex : Hex[k] = t[i + 1], at |-> i + 2]
      [] OTHER -> Wrong

\* The result for one item, followed by those for the items after it.
Then(item, rest) ==
    IF rest.at = 0 THEN Wrong ELSE [v |-> <<item.v>> \o rest.v, at |-> rest.at]

\* What is read of this at place i in t, given what is read at later places: the
\* characters to the end of a string, a value, a member of an object, the items of
\* an array or the members of an object to its end.
StringAt(read, t, i) ==
    LET c == CharAt(t, i)
        one == IF c = Backslash THEN Unescaped(t, i + 1) ELSE [v |-> c, at |-> i + 1]
    IN  CASE c = Quote -> [v |-> <<>>, at |-> i + 1]
          [] c \in InNoString \/ one.at = 0 -> Wrong
          [] OTHER -> Then(one, read[<<"string", one.at>>])

ValueAt(read, t, i) ==
    LET c == CharAt(t, i)
        Tag(type, r) == IF r.at = 0 THEN Wrong ELSE [v |-> <<type, r.v>>, at |-> r.at]
        Items(type, close) == IF CharAt(t, i + 1) = close THEN [v |-> <<>>, at |-> i + 2]
                              ELSE read[<<type, i + 1>>]
    IN  CASE c \in Words -> [v |-> <<"word", c>>, at |-> i + 1]
          [] c = Quote   -> Tag("string", read[<<"string", i + 1>>])
          [] c = "["     -> Tag("array", Items("array", "]"))
          [] c = "{"     -> Tag("object", Items("object", "}"))
          [] OTHER       -> Wrong

MemberAt(read, t, i) ==
    LET key == IF CharAt(t, i) = Quote THEN read[<<"string", i + 1>>] ELSE Wrong
        val == IF CharAt(t, key.at) = ":" THEN read[<<"value", key.at + 1>>] ELSE Wrong
    IN  IF val.at = 0 THEN Wrong ELSE [v |-> <<key.v, val.v>>, at |-> val.at]

ItemsAt(read, t, type, i) ==
    LET item == IF type = "array" THEN ValueAt(read, t, i) ELSE MemberAt(read, t, i)
        end  == IF type = "array" THEN "]" ELSE "}"
    IN  CASE CharAt(t, item.at) = end -> [v |-> <<item.v>>, at |-> item.at + 1]
          [] CharAt(t, item.at) = "," -> Then(item, read[<<type, item.at + 1>>])
          [] OTHER -> Wrong

Types == {"string", "value", "array", "object"}

ResultAt(read, t, x) ==
    CASE x[1] = "string" -> StringAt(read, t, x[2])
      [] x[1] = "value"  -> ValueAt(read, t, x[2])
      [] OTHER           -> ItemsAt(read, t, x[1], x[2])

Reader(t) ==
    LET read[x \in Types \X (1 .. Len(t) + 1)] == ResultAt(read, t, x) IN read

\* The text is JSON, and of this value.
Means(t, v) == LET r == Reader(t)[<<"value", 1>>] IN r.at = Len(t) + 1 /\ r.v = v
=============================================================================
