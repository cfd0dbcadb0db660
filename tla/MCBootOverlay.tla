---------------------------- MODULE MCBootOverlay ----------------------------
(***************************************************************************)
(* Small instances of the boot scripts for TLC: two modules of each kind    *)
(* are enough for either kind to meet its own kind and the other.           *)
(***************************************************************************)
EXTENDS BootOverlay, TLC

CONSTANTS g1, g2, b1, b2
=============================================================================
