--------------------------- MODULE PartitionTable ---------------------------
(***************************************************************************)
(* PartitionDetector::detect() (src/mount/partition_detector.cpp): one pass *)
(* over /proc/mounts, which lists the oldest mount first, that keeps one    *)
(* entry per partition.                                                     *)
(***************************************************************************)
EXTENDS Naturals, Sequences

CONSTANTS
    Names,      \* known_partitions(), "system" among them
    Root,       \* the mount point "/"
    Elsewhere,  \* mount points that are no partition's
    Options,    \* mount options; "rw" and "ro" among them
    WithRw,     \* the other options whose text contains the letters rw
    Tables      \* the contents of /proc/mounts

\* "/" + n is written as the name n.
MountPoints == Names \cup {Root} \cup Elsewhere

\* short is a line of fewer than four fields.  Devices and mount points of
\* the entry are copied like the rest and left out.
LineType == [short : BOOLEAN, point : MountPoints, overlay : BOOLEAN,
             opts : SUBSET Options]

ASSUME NamesAssumption ==
    "system" \in Names /\ {Root, ""} \cap Names = {} /\ Elsewhere \cap (Names \cup {Root}) = {}
ASSUME OptionsAssumption == {"rw", "ro"} \cup WithRw \subseteq Options /\ "ro" \notin WithRw
ASSUME TablesAssumption == Tables \subseteq Seq(LineType)

VARIABLES
    table,      \* /proc/mounts as it was opened
    row,        \* the next line to read
    result      \* the partitions found, in the order they were found

tableVars == <<table, row, result>>

-----------------------------------------------------------------------------
(* Variants of the definitions below with the mistakes the properties are   *)
(* to catch; no specification uses them.                                    *)

\* Mutant of Replace: the first mount wins.
KeepFirst ==
    /\ row <= Len(table)
    /\ ~table[row].short /\ table[row].point \notin Elsewhere
    /\ row' = row + 1
    /\ UNCHANGED <<table, result>>

\* Mutant of Found: the entries are not searched.
NothingFound(n) == {}

-----------------------------------------------------------------------------
classify_mount_point(point) ==
    IF point \in Names THEN point ELSE IF point = Root THEN "system" ELSE ""

\* options.find("rw") == npos looks at the text of the whole option list.
ReadOnly(opts) == opts \cap ({"rw"} \cup WithRw) = {}

Entry(line) == [name |-> classify_mount_point(line.point),
                is_overlay |-> line.overlay,
                read_only |-> ReadOnly(line.opts)]

\* find_if: where result has an entry for this partition.
Found(n) == {k \in 1 .. Len(result) : result[k].name = n}

TableInit == table \in Tables /\ row = 1 /\ result = <<>>

line == table[row]
Counts == ~line.short /\ classify_mount_point(line.point) # ""

Skip ==
    /\ row <= Len(table) /\ ~Counts
    /\ row' = row + 1
    /\ UNCHANGED <<table, result>>

Add ==
    /\ row <= Len(table) /\ Counts /\ Found(Entry(line).name) = {}
    /\ result' = Append(result, Entry(line))
    /\ row' = row + 1
    /\ UNCHANGED table

\* Overlays stack on the base mount and come later: overwrite the first match.
Replace ==
    /\ row <= Len(table) /\ Counts /\ Found(Entry(line).name) # {}
    /\ LET at == CHOOSE k \in Found(Entry(line).name) :
                    \A l \in Found(Entry(line).name) : k <= l
       IN  result' = [result EXCEPT ![at] = Entry(line)]
    /\ row' = row + 1
    /\ UNCHANGED table

TableNext == Skip \/ Add \/ Replace

TableSpec == TableInit /\ [][TableNext]_tableVars

-----------------------------------------------------------------------------
(* Properties *)

EntryType == [name : Names, is_overlay : BOOLEAN, read_only : BOOLEAN]

TableTypeOK ==
    /\ table \in Tables
    /\ row \in 1 .. Len(table) + 1
    /\ result \in Seq(EntryType)

\* Each partition is reported once, however many mounts are stacked on it and
\* on whichever of "/" and "/system" they are.
OneEntryEach ==
    \A k, l \in 1 .. Len(result) : result[k].name = result[l].name => k = l

\* The lines read so far that mount partition n, and the last of them.
MountsOf(n) == {k \in 1 .. (row - 1) :
                   /\ ~table[k].short
                   /\ table[k].point = n \/ (n = "system" /\ table[k].point = Root)}
Topmost(n)  == table[CHOOSE k \in MountsOf(n) : \A l \in MountsOf(n) : l <= k]

\* The report for a partition is that of the topmost mount (the last line) of
\* it, with "/" and "/system" the same partition, and a partition is reported
\* exactly if it is mounted: info and mounts see an overlay on system as soon
\* as the last mount there is one.
TopmostReported ==
    \A n \in Names :
        IF MountsOf(n) = {} THEN Found(n) = {}
        ELSE \E k \in Found(n) : result[k] = [name |-> n,
                                            is_overlay |-> Topmost(n).overlay,
                                            read_only |-> ReadOnly(Topmost(n).opts)]
=============================================================================
