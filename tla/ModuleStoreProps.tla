-------------------------- MODULE ModuleStoreProps --------------------------
(***************************************************************************)
(* What the module store and the commands on it promise.                   *)
(***************************************************************************)
EXTENDS ModuleStore

PCs == {"idle", "check", "scan", "mkdir", "open", "copy", "chmod", "create",
        "flush", "stat", "rm", "rmdir", "rmdirAgain"}

StoreTypeOK ==
    /\ upperSys \subseteq Modules
    /\ dirs \subseteq Paths
    /\ apk \in [Paths -> Apks \cup {Absent, Torn}]
    /\ files \in [Modules \X FileNames -> {"absent", "empty", "written"}]

ProcTypeOK ==
    /\ pc \in [Procs -> PCs]
    /\ job \in [Procs -> Jobs \cup {NoJob}]
    /\ mod \in [Procs -> Modules \cup {NoModule}]
    /\ pos \in [Procs -> Nat \ {0}]
    /\ wr \in [Procs -> {"none", "clean", "shared", "unlinked"}]
    /\ out \in [Procs -> {"none", "ok", "fail", "killed"}]

TypeOK == StoreTypeOK /\ ProcTypeOK

\* Steps that run after the checks and change the store.
WriteSteps == {"mkdir", "open", "copy", "chmod", "create", "flush",
               "stat", "rm", "rmdir", "rmdirAgain"}

\* A step of process p.
Moved(p)  == <<pc[p], pos[p]>>' # <<pc[p], pos[p]>>
\* p returns code to its shell.
Returns(p, code) == pc[p] # "idle" /\ pc'[p] = "idle" /\ out'[p] = code

\* An overlayfs command is at work on module m.
Building(m) == \E p \in Procs : /\ pc[p] # "idle"
                                /\ job[p].cmd = "overlayfs"
                                /\ mod[p] = m

-----------------------------------------------------------------------------
(* Safety *)

\* Whatever is interrupted or fails, a module is built in one order: both
\* copies of the APK, then module.prop, then the script that mounts the
\* overlay, then the one that unmounts it.  So no crash leaves an unmount
\* script without a mount script, or a module.prop without the copy Magisk
\* mounts (cmd_overlayfs.cpp, run()).  A module from elsewhere comes without
\* an APK of its own.
CreationOrder ==
    \A m \in Generated :
        /\ files[<<m, "service.sh">>] # "absent"
              => files[<<m, "post-fs-data.sh">>] # "absent"
        /\ files[<<m, "post-fs-data.sh">>] # "absent"
              => files[<<m, "module.prop">>] # "absent"
        /\ files[<<m, "module.prop">>] # "absent"
              => apk[<<"priv", m, m>>] # Absent

\* The two tests for a module agree one way: a module overlayfs calls active
\* (id line in module.prop) is one detect_overlay_module() accepts
\* (overlay/upper/system is a directory), whatever uninstall removed since, if
\* it is one of systemapp's overlay modules.
ActiveIsDetected == \A m \in Modules \ Foreign : Installed(m) => m \in upperSys

\* overlayfs leaves a flashed module alone, whose name it can be given (its
\* default name is the id of the overlay zip), and likewise any other Magisk
\* module: the module.prop test comes first.
FlashedIntact ==
    \A m \in Flashed \cup Foreign, f \in FileNames :
        files[<<m, f>>] = IF m \in Flashed \/ f = "module.prop" THEN "written" ELSE "absent"

\* The module path a scan returned is used long after the scan: it is still a
\* module with an overlay tree when install and uninstall write below it.
ChosenModuleExists ==
    \A p \in Procs :
        pc[p] \in WriteSteps /\ job[p].cmd # "overlayfs" => mod[p] \in upperSys

\* A process that is not root changes nothing in the store, on any path
\* through any command (the getuid() checks come before the first write).
OnlyRootWrites ==
    [][\A p \in Procs : Moved(p) /\ pc[p] # "idle" /\ ~job[p].root
                          => UNCHANGED fsVars]_vars

\* An install that reports success and that no other process disturbed, by
\* opening or removing the same file, has left exactly its APK in a module
\* that exists; crashes, failures and installs elsewhere do not matter.
InstallReturnsTruth ==
    [][\A p \in Procs :
          Returns(p, "ok") /\ job[p].cmd = "install" /\ wr[p] = "clean"
             => /\ apk'[Target(p)] = job[p].apk
                /\ Target(p) \in dirs'
                /\ mod[p] \in upperSys']_vars

\* An overlayfs that wrote its module and reports success has left it whole:
\* both copies and all three files, whatever debris it started from.
OverlayReturnsTruth ==
    [][\A p \in Procs :
          Returns(p, "ok") /\ job[p].cmd = "overlayfs" /\ pc[p] = "flush"
             => /\ \A tree \in {"upper", "priv"} :
                      apk'[<<tree, mod[p], mod[p]>>] = job[p].apk
                /\ \A f \in FileNames : files'[<<mod[p], f>>] = "written"]_vars

\* An uninstall that reports success has removed the APK and its directory.
UninstallReturnsTruth ==
    [][\A p \in Procs :
          Returns(p, "ok") /\ job[p].cmd = "uninstall"
             => /\ apk'[Target(p)] = Absent
                /\ Target(p) \notin dirs']_vars

\* An overlay module that overlayfs calls active, and that nobody is still
\* building, has its two boot scripts.
ActiveMeansComplete ==
    \A m \in Modules \ Foreign :
        Installed(m) /\ ~Building(m)
           => \A f \in FileNames : files[<<m, f>>] = "written"

\* An application installed in some module is in the module that the scan of
\* the next install, uninstall or info will find.
NoStrandedApp ==
    \A i \in 1 .. Len(ScanOrder), a \in Apps \ Modules :
        apk[<<"upper", ScanOrder[i], a>>] # Absent
           => \A k \in 1 .. (i - 1) : ScanOrder[k] \notin upperSys

-----------------------------------------------------------------------------
(* Liveness *)

\* Every command returns to its shell.
CommandsReturn == \A p \in Procs : pc[p] # "idle" ~> pc[p] = "idle"
=============================================================================
