-------------------------------- MODULE Device --------------------------------
(***************************************************************************)
(* A device: the module store and the commands on it, the disk it is on,    *)
(* restarts with and without a loss of power, and the boot scripts that     *)
(* restarts run.  Modules that are not overlay modules have no boot script  *)
(* here; what their own may do is not modelled.                             *)
(*                                                                         *)
(* No command calls sync() or fsync().  The file system is a journaling     *)
(* one: the disk has all names and lengths up to some moment, but of files  *)
(* that were written or truncated since it last had them whole perhaps not  *)
(* the data, whatever it had of them before.                                *)
(***************************************************************************)
EXTENDS ModuleStoreProps

CONSTANTS
    Base,       \* the partition's own layer of a mount point
    MaxBoots    \* bound on the number of boots

ASSUME BaseAssumption == Base \notin Modules
ASSUME BootsAssumption == MaxBoots \in Nat \ {0}

VARIABLES
    disk,       \* what would be left of the store by a loss of power
    dirty,      \* files and APKs whose data the disk may not have
    hasExt,     \* does the device have a directory /system_ext/etc?
    enabled,    \* modules the user has not switched off
    stage,      \* how far the boot has come
    todo,       \* modules whose script this stage has still to run
    mounts,     \* the layers on each mount point
    boots       \* number of boots so far

bootVars   == <<hasExt, enabled, stage, todo, mounts, boots>>
diskVars   == <<disk, dirty>>
deviceVars == <<vars, diskVars, bootVars>>

\* A script that is there but empty does nothing.
BootScripts == [m \in Modules \ Foreign |-> {f \in {"post-fs-data.sh", "service.sh"} :
                                       files[<<m, f>>] = "written"}]

Overlay == INSTANCE BootOverlay WITH
    Generated <- Generated, Prebuilt <- Flashed, scripts <- BootScripts

\* The store as it is.
Store == [upperSys |-> upperSys, dirs |-> dirs, apk |-> apk, files |-> files]

-----------------------------------------------------------------------------
NothingDirty == [files |-> {}, apk |-> {}]

DeviceInit == Init /\ Overlay!Init /\ disk = Store /\ dirty = NothingDirty

\* A command, at any time after post-fs-data, which holds the boot up.  A file
\* it truncates or writes (std::ofstream, cp) is dirty.
Command ==
    /\ stage # "post-fs-data"
    /\ Next
    /\ dirty' = [files |-> dirty.files \cup {x \in DOMAIN files : files'[x] # files[x]},
                 apk   |-> dirty.apk \cup {t \in Paths : apk'[t] # apk[t]}]
    /\ UNCHANGED <<disk, bootVars>>

\* The kernel commits the journal; the data of any dirty file may follow later,
\* and until then the file is empty on the disk, or an APK not whole.
Writeback ==
    /\ \E late \in SUBSET dirty.files, lateApk \in SUBSET dirty.apk :
          /\ dirty' = [files |-> late, apk |-> lateApk]
          /\ disk' = [Store EXCEPT
                        !.files = [x \in DOMAIN files |-> IF x \in late THEN "empty" ELSE files[x]],
                        !.apk = [t \in Paths |->
                                   IF t \in lateApk /\ apk[t] # Absent THEN Torn ELSE apk[t]]]
    /\ UNCHANGED <<vars, bootVars>>

\* After a restart no process of before is left, nor its exit code.
NewProcesses ==
    /\ pc' = [p \in Procs |-> "idle"]
    /\ job' = [p \in Procs |-> NoJob]
    /\ mod' = [p \in Procs |-> NoModule]
    /\ pos' = [p \in Procs |-> 1]
    /\ wr' = [p \in Procs |-> "none"]
    /\ out' = [p \in Procs |-> "none"]

\* A restart in good order ends the commands and their shells where they are
\* (or in the middle of a tool, after Kill and Interrupt), then syncs the disk.
Reboot ==
    /\ NewProcesses /\ UNCHANGED fsVars
    /\ Overlay!Boot
    /\ disk' = Store /\ dirty' = NothingDirty

\* The battery is pulled, whatever runs: what is on the disk is what there is.
PowerLoss ==
    /\ NewProcesses
    /\ upperSys' = disk.upperSys /\ dirs' = disk.dirs
    /\ apk' = disk.apk /\ files' = disk.files
    /\ Overlay!Boot
    /\ dirty' = NothingDirty
    /\ UNCHANGED disk

\* post-fs-data.sh makes its module's overlay tree, which may fail, and mounts
\* it, which needs the tree.
PostFsData(m) ==
    /\ UNCHANGED <<dirs, apk, files, procVars, diskVars>>
    /\ upperSys' \in {upperSys, upperSys \cup {m}}
    /\ Overlay!PostFsDataSkips(m) \/ Overlay!PostFsDataMounts(m)
    /\ m \notin upperSys' => UNCHANGED mounts

OtherBootStep ==
    /\ UNCHANGED <<vars, diskVars>>
    /\ \/ Overlay!LateStart \/ Overlay!Up
       \/ \E m \in Overlay!OverlayModules : Overlay!Service(m) \/ Overlay!Toggle(m)

DeviceNext ==
    \/ Command \/ Writeback \/ Reboot \/ PowerLoss \/ OtherBootStep
    \/ \E m \in Overlay!OverlayModules : PostFsData(m)

DeviceSpec == DeviceInit /\ [][DeviceNext]_deviceVars

-----------------------------------------------------------------------------
(* Properties *)

DeviceTypeOK ==
    /\ TypeOK
    /\ disk \in [upperSys : SUBSET Modules, dirs : SUBSET Paths,
                 apk : [Paths -> Apks \cup {Absent, Torn}],
                 files : [Modules \X FileNames -> {"absent", "empty", "written"}]]
    /\ dirty \in [files : SUBSET (Modules \X FileNames), apk : SUBSET Paths]
    /\ Overlay!TypeOK

\* An overlay that overlayfs made is never mounted before the rest of its
\* module is there, whenever the power failed while the module was built: its
\* tree, its module.prop and the APK that Magisk mounts beside the overlay.
MountedIsBuilt ==
    \A m \in Generated, point \in Overlay!Points :
        (\E i \in 1 .. Len(mounts[point]) : mounts[point][i] = m)
            => /\ m \in upperSys
               /\ files[<<m, "module.prop">>] # "absent"
               /\ apk[<<"priv", m, m>>] # Absent

\* All three files of module m, in f, are whole.
Whole(f, m) == \A name \in FileNames : f[<<m, name>>] = "written"

\* All three files of module m are whole, on the disk too with nothing left to
\* write there, and no overlayfs is past its check and about to write them.
Settled(m) ==
    /\ Whole(files, m) /\ Whole(disk.files, m)
    /\ \A f \in FileNames : <<m, f>> \notin dirty.files
    /\ \A p \in Procs : ~(pc[p] \in WriteSteps /\ job[p].cmd = "overlayfs" /\ mod[p] = m)

\* A module that is settled stays so: no command, however often it is repeated,
\* killed or interrupted by a loss of power, opens its files for writing again.
\* Until it is, a repeated overlayfs can lose on the disk what was whole there.
CompletedSurvives == [][\A m \in Modules : Settled(m) => Settled(m)']_deviceVars

\* To the boot scripts the device is one on which boots may happen at any time
\* and find any of the scripts of a module that overlayfs makes, but always
\* both of one that was flashed.
ImplementsOverlay == Overlay!Spec
=============================================================================
