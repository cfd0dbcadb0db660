------------------------------ MODULE MCReports ------------------------------
(***************************************************************************)
(* Every command that reports, on the devices that matter to it, for TLC.   *)
(***************************************************************************)
EXTENDS Reports, MCPartitionTable

\* Any characters: those of the texts below and of the report itself.
SomeChars ==
    {Quote, Backslash, "[", "]", "{", "}", ",", ":", "n", "t", "u", "\n", "\t", Sep}
    \cup Words \cup DOMAIN Hex \cup {Hex[c] : c \in DOMAIN Hex}
    \cup {"name", "read_only", "overlay", "mode", "is_dir", "is_symlink", "key", "value",
          "provider", "has_root", "is_root_uid", "binary_path", "path", "version", "model", "root",
          "partitions", "overlayfs_active", "overlay_module"}
    \cup Names \cup Providers \cup {"NONE"} \cup Kinds
    \cup {"x", "ro", "k", "l", "o", "a", "b", "c", "Pixel"}

FewTables  == {<<>>, <<Line(FALSE, Root, FALSE, {"ro"}), Line(FALSE, "system", TRUE, {"rw"})>>}

\* A name as it should not be, one with control characters, a plain one.
SomeNames == <<<<"^A", "^_", "\n", "\t">>, <<Quote, Backslash, "n", Quote, ",">>, <<"x">>>>

SomeContents == [1 .. 3 -> {"-", "l", None}]

Key(k)    == <<"ro", k>>
Values    == {<<>>, <<"]">>, <<"a", Sep, "]">>, <<"a", "\n", "[", "b", Sep, "c">>, <<Quote, Backslash>>}
SomeProps == {<<>>} \cup {<<[key |-> Key("k"), value |-> v], [key |-> Key("l"), value |-> w]>> :
                              v \in Values, w \in Values}

Case(c) == [cmd |-> c, root |-> FALSE, there |-> {}, table |-> <<>>,
            content |-> [n \in 1 .. 3 |-> None], props |-> <<>>, filter |-> <<>>, model |-> <<>>,
            overlay |-> <<>>]

SomeCases ==
    {[Case("root") EXCEPT !.there = s] : s \in SUBSET (Traces \ {"/proc/ksu"})}
    \cup {[Case("mounts") EXCEPT !.table = t] : t \in SomeTables}
    \cup {[Case("ls") EXCEPT !.content = f] : f \in SomeContents}
    \cup {[Case("props") EXCEPT !.props = ps, !.filter = f] :
             ps \in SomeProps, f \in {<<>>, <<"k">>, <<"o", "k">>, <<"ro">>}}
    \cup {[Case("info") EXCEPT !.root = TRUE, !.there = s, !.table = t, !.model = m, !.overlay = o] :
             s \in {{}, {"su"}, {"magisk", "/data/adb/magisk"}}, t \in FewTables,
             m \in {<<>>, <<"Pixel", "\n", Quote>>}, o \in {<<>>, <<Backslash, "t", "\t">>}}
=============================================================================
