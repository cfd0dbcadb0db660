---------------------------- MODULE MCSerialStore ----------------------------
(***************************************************************************)
(* The module store with one terminal for TLC.                              *)
(***************************************************************************)
EXTENDS SerialStore, MCModuleStore
=============================================================================
