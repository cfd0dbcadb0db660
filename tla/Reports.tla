------------------------------- MODULE Reports -------------------------------
(***************************************************************************)
(* The commands that report: root, mounts, ls, props and info.  Each runs   *)
(* the detectors or readers it needs, one after another, and prints what    *)
(* they found, as text or, with --json, as JSON.                            *)
(***************************************************************************)
EXTENDS RootDetect, PartitionTable, DirListing, Props, Json

CONSTANTS
    Chars,  \* what texts are made of, each constant text a single one
    Cases   \* a command, its operand and the device it finds

ASSUME CharsAssumption ==
    /\ {Quote, Backslash, "[", "]", "{", "}", ",", ":", "n", "t", "u", "\n", Sep} \subseteq Chars
    /\ Words \cup {Hex[c] : c \in DOMAIN Hex} \subseteq Chars
    /\ {"name", "read_only", "overlay", "mode", "is_dir", "is_symlink", "key", "value",
        "provider", "has_root", "is_root_uid", "binary_path", "path", "version", "model", "root",
        "partitions", "overlayfs_active", "overlay_module"} \subseteq Chars
    /\ Names \cup Providers \cup {"NONE"} \cup Kinds \subseteq Chars
    /\ "end of text" \notin Chars

ASSUME DirNamesAssumption == DirNames \in Seq(Seq(Chars))

\* root is whether the user is root; there, table and content are for the
\* detectors and readers; model is a property info reads, overlay the module it
\* finds.  Android makes
\* property names of letters, digits and a few signs.
CaseType == [cmd : {"root", "mounts", "ls", "props", "info"},
             root : BOOLEAN, there : SUBSET Traces, table : Tables,
             content : [Places -> Kinds \cup {None}],
             props : Seq([key : Seq(Chars), value : Seq(Chars)]),
             filter : Seq(Chars), model : Seq(Chars), overlay : Seq(Chars)]

ASSUME CasesAssumption ==
    /\ Cases \subseteq CaseType
    /\ \A c \in Cases : \A k \in DOMAIN c.props : Keyed(c.props[k])

VARIABLES
    case,       \* the member of Cases this is
    json,       \* was --json given?
    asked,      \* has getprop been run?
    raw,        \* what it printed
    printed,    \* the JSON text
    code        \* the exit code, -1 while running

rootVars == vars
output   == <<asked, raw, printed, code>>
reportVars == <<rootVars, tableVars, listVars, case, json, output>>

ReportInit ==
    /\ \E c \in Cases :
          /\ case = c
          /\ there = c.there /\ table = c.table /\ content = c.content
    /\ json \in BOOLEAN
    /\ Init /\ TableInit /\ ListInit
    /\ asked = FALSE /\ raw = <<>> /\ printed = <<>> /\ code = -1

-----------------------------------------------------------------------------
(* What is printed; a constant text is a single character *)

Partition(p) == Object(<<<<<<"name">>, String(<<p.name>>)>>,
                         <<<<"read_only">>, Boolean(p.read_only)>>,
                         <<<<"overlay">>, Boolean(p.is_overlay)>>>>)

Partitions == Array([k \in DOMAIN result |-> Partition(result[k])])

Attributes(e) ==
    IF e.kind = "?" THEN <<>>
    ELSE <<<<<<"mode">>, String(<<e.kind>>)>>,
           <<<<"is_dir">>, Boolean(e.kind = "d")>>,
           <<<<"is_symlink">>, Boolean(e.kind = "l")>>>>

Listing == Array([k \in DOMAIN entries |->
    Object(<<<<<<"name">>, String(DirNames[entries[k].name])>>>> \o Attributes(entries[k]))])

FoundProps == Filtered(parse_getprop_output(raw), case.filter)

Properties == Array([k \in DOMAIN FoundProps |->
    Object(<<<<<<"key">>, String(FoundProps[k].key)>>,
             <<<<"value">>, String(FoundProps[k].value)>>>>)])

Provider == <<<<<<"provider">>, String(<<provider>>)>>>>
HasRoot  == <<<<<<"has_root">>, Boolean(provider # "NONE")>>>>
RootPath == <<<<<<"is_root_uid">>, Boolean(case.root)>>,
              <<<<"binary_path">>, String(IF path THEN <<"path">> ELSE <<>>)>>>>
Version  == <<<<<<"version">>, String(IF version THEN <<"version">> ELSE <<>>)>>>>

Overlay == <<<<<<"overlayfs_active">>, Boolean(case.overlay # <<>>)>>>> \o
           (IF case.overlay = <<>> THEN <<>>
            ELSE <<<<<<"overlay_module">>, String(case.overlay)>>>>)

Value ==
    CASE case.cmd = "root"   -> Object(HasRoot \o Provider \o RootPath \o Version)
      [] case.cmd = "mounts" -> Partitions
      [] case.cmd = "ls"     -> Listing
      [] case.cmd = "props"  -> Properties
      [] case.cmd = "info"   -> Object(<<<<<<"model">>, String(raw)>>,
                                         <<<<"root">>, Object(Provider \o HasRoot \o RootPath)>>,
                                         <<<<"partitions">>, Partitions>>>> \o Overlay)

Show(status) ==
    /\ printed' = IF json THEN Write(Value) ELSE <<>>
    /\ code' = status
    /\ UNCHANGED <<case, json, asked, raw>>

-----------------------------------------------------------------------------
(* Steps *)

RootDetected == case.cmd = "info" /\ stage = "report"
TableRead    == row > Len(table)

\* info and root start with the root provider, on a device that may change.
DetectRoot ==
    /\ case.cmd \in {"root", "info"} /\ ~RootDetected
    /\ Detect \/ \E t \in Traces : Change(t)
    /\ UNCHANGED <<tableVars, listVars, case, json, output>>

ShowRoot ==
    /\ case.cmd = "root"
    /\ Report
    /\ Show(exit')
    /\ UNCHANGED <<tableVars, listVars>>

ReadTable ==
    /\ case.cmd = "mounts" \/ RootDetected
    /\ TableNext
    /\ UNCHANGED <<rootVars, listVars, case, json, output>>

\* Without --json it is an error to have found nothing.
ShowMounts ==
    /\ case.cmd = "mounts" /\ TableRead /\ code = -1
    /\ Show(IF result = <<>> /\ ~json THEN 1 ELSE 0)
    /\ UNCHANGED <<rootVars, tableVars, listVars>>

\* The directory changes as the device does, at most MaxDisturbances times.
List ==
    /\ case.cmd = "ls"
    /\ \/ ListNext /\ UNCHANGED disturbed
       \/ Disturb /\ \E n \in Places, k \in Kinds \cup {None} : Alter(n, k)
    /\ UNCHANGED <<there, stayed, unheard, stage, next, provider, path, version, exit>>
    /\ UNCHANGED <<tableVars, case, json, output>>

ShowListing ==
    /\ case.cmd = "ls" /\ listing = "listed" /\ code = -1
    /\ Show(0)
    /\ UNCHANGED <<rootVars, tableVars, listVars>>

CannotList ==
    /\ case.cmd = "ls" /\ listing = "failed" /\ code = -1
    /\ code' = 1
    /\ UNCHANGED <<rootVars, tableVars, listVars, case, json, asked, raw, printed>>

\* shell_capture() and read_prop(): a pipe that cannot be opened is no output.
RunGetprop ==
    /\ ~asked
    /\ case.cmd = "props" \/ (RootDetected /\ TableRead)
    /\ asked' = TRUE
    /\ raw' \in {<<>>, IF case.cmd = "props" THEN Getprop(case.props)
                       ELSE Stripped(Append(case.model, "\n"))}
    /\ UNCHANGED <<rootVars, tableVars, listVars, case, json, printed, code>>

ShowProps ==
    /\ case.cmd \in {"props", "info"} /\ asked /\ code = -1
    /\ Show(0)
    /\ UNCHANGED <<rootVars, tableVars, listVars>>

ReportNext ==
    \/ DetectRoot \/ ShowRoot
    \/ ReadTable \/ ShowMounts
    \/ List \/ ShowListing \/ CannotList
    \/ RunGetprop \/ ShowProps

ReportSpec == ReportInit /\ [][ReportNext]_reportVars

-----------------------------------------------------------------------------
(* Properties *)

ReportTypeOK ==
    /\ TypeOK /\ TableTypeOK /\ ListTypeOK
    /\ raw \in Seq(Chars)
    /\ json \in BOOLEAN /\ asked \in BOOLEAN
    /\ code \in {-1, 0, 1}

\* --json is to "emit machine-readable JSON output" (main.cpp): whatever
\* characters, ASCII or UTF-8, file names, properties and module names are made
\* of, what a JSON reader makes of the text is what the command found.
JsonReadsBack == json /\ printed # <<>> => Means(printed, Value)

\* A property whose key has the filter in it is listed with exactly its key and
\* value, whatever brackets these hold, and whatever the values of others do to
\* the lines around it; if none has several lines, nothing else is listed.
PropsExact ==
    case.cmd = "props" /\ raw # <<>> =>
        /\ \A p \in ToSet(case.props) :
               OneLine(p) /\ Matches(p, case.filter) => p \in ToSet(FoundProps)
        /\ (\A p \in ToSet(case.props) : OneLine(p)) =>
               FoundProps = Filtered(case.props, case.filter)
=============================================================================
