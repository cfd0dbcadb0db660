------------------------------- MODULE MCDevice -------------------------------
(***************************************************************************)
(* A device with a flashed module, one that overlayfs makes and one from    *)
(* elsewhere, for TLC.                                                      *)
(***************************************************************************)
EXTENDS Device, MCModuleStore

\* overlayfs is given each name, and install once no APK.
DeviceJobs == {Cmd("overlayfs", m, x) : m \in {m1, m2, m3}} \cup {Cmd("install", m1, NoApk)}
=============================================================================
