--------------------------------- MODULE Props ---------------------------------
(***************************************************************************)
(* props (src/commands/cmd_props.cpp): what it makes of getprop's output.   *)
(* Of a key or a value its brackets, its line ends and "]: [" matter.       *)
(***************************************************************************)
EXTENDS Naturals, SequencesExt

Sep == "]: ["

\* What getprop prints for one property; it is not part of the repository.
GetpropLine(p) == <<"[">> \o p.key \o <<Sep>> \o p.value \o <<"]", "\n">>
Getprop(props) == FlattenSeq([k \in DOMAIN props |-> GetpropLine(props[k])])

\* Of a property: that its key is one to getprop's readers, its value one line.
Keyed(p)   == \A k \in DOMAIN p.key : p.key[k] \notin {Sep, "\n"}
OneLine(p) == \A k \in DOMAIN p.value : p.value[k] # "\n"

\* What std::getline() reads up to the line end at k.
LineTo(raw, k) ==
    LET from == CHOOSE l \in 0 .. (k - 1) : /\ l = 0 \/ raw[l] = "\n"
                                           /\ \A m \in (l + 1) .. (k - 1) : raw[m] # "\n"
    IN  SubSeq(raw, from + 1, k - 1)

\* Mutant of Split: rfind for find.
SplitAtLast(line) ==
    LET At == {k \in DOMAIN line : line[k] = Sep} IN
    IF At = {} THEN 0 ELSE CHOOSE k \in At : \A l \in At : l <= k

\* line.find("]: ["), 0 for npos.
Split(line) ==
    LET At == {k \in DOMAIN line : line[k] = Sep} IN
    IF At = {} THEN 0 ELSE CHOOSE k \in At : \A l \in At : k <= l

IsProp(line) == line # <<>> /\ line[1] = "[" /\ Split(line) # 0

\* The key, and the value without one bracket at its end.
Pair(line) ==
    LET value == SubSeq(line, Split(line) + 1, Len(line)) IN
    [key   |-> SubSeq(line, 2, Split(line) - 1),
     value |-> IF value # <<>> /\ Last(value) = "]" THEN Front(value) ELSE value]

\* out.push_back(), unless the line is skipped.
Parsed(line) == IF IsProp(line) THEN <<Pair(line)>> ELSE <<>>

\* Every line getprop prints is ended, and so is the last.
parse_getprop_output(raw) ==
    FlattenSeq([k \in DOMAIN raw |-> IF raw[k] = "\n" THEN Parsed(LineTo(raw, k)) ELSE <<>>])

\* p.key.find(filter): an empty filter is in every key.
Matches(p, filter) ==
    filter = <<>> \/ \E k \in DOMAIN p.key : IsPrefix(filter, SubSeq(p.key, k, Len(p.key)))

\* remove_if() of all others.
Filtered(props, filter) ==
    FlattenSeq([k \in DOMAIN props |-> IF Matches(props[k], filter) THEN <<props[k]>> ELSE <<>>])

\* read_prop() in cmd_info.cpp: getprop with a name prints the value alone, of
\* which every line end at its end goes.
Stripped(s) ==
    LET LineEnd(k) == s[k] \in {"\n", "\r"} IN
    SubSeq(s, 1, CHOOSE n \in 0 .. Len(s) : /\ n = 0 \/ ~LineEnd(n)
                                           /\ \A k \in (n + 1) .. Len(s) : LineEnd(k))
=============================================================================
