-------------------------- MODULE MCPartitionTable --------------------------
(***************************************************************************)
(* Every /proc/mounts of up to four lines over two partitions for TLC.      *)
(***************************************************************************)
EXTENDS PartitionTable, SequencesExt

Line(s, p, o, opts) == [short |-> s, point |-> p, overlay |-> o, opts |-> opts]

\* The partitions' own mounts, overlays over them, other mounts, short lines.
SomeLines ==
    {Line(FALSE, Root, FALSE, {"ro"}), Line(FALSE, "system", FALSE, {"ro", "seclabel"}),
     Line(FALSE, "system", TRUE, {"rw"}), Line(FALSE, "vendor", FALSE, {"ro"}),
     Line(FALSE, "vendor", TRUE, {"ro", "lowerdir=/mnt/vendor_rw"}),
     Line(FALSE, "/data", FALSE, {"rw"}), Line(TRUE, "vendor", FALSE, {})}

SomeTables == BoundedSeq(SomeLines, 4)
=============================================================================
