----------------------------- MODULE DeviceProofs -----------------------------
(***************************************************************************)
(* Restarts and losses of power at any time, for any modules, commands and  *)
(* terminals: what the store keeps, and that the boot scripts never see     *)
(* more than BootOverlay allows.                                            *)
(***************************************************************************)
EXTENDS Device, ModuleStoreProofs

-----------------------------------------------------------------------------
(* The inductive invariant *)

\* A file of a module that was not made here is on the disk as it came.
OnDisk(m, f) ==
    /\ <<m, f>> \notin dirty.files
    /\ disk.files[<<m, f>>] =
          IF m \in Flashed \/ f = "module.prop" THEN "written" ELSE "absent"

\* The disk holds a store that some run of commands could have left, and of
\* what overlayfs did not make it holds all.
DiskInv ==
    /\ disk \in [upperSys : SUBSET Modules, dirs : SUBSET Paths,
                 apk : [Paths -> Apks \cup {Absent, Torn}],
                 files : [Modules \X FileNames -> {"absent", "empty", "written"}]]
    /\ dirty \in [files : SUBSET (Modules \X FileNames), apk : SUBSET Paths]
    /\ \A m \in Generated :
        /\ disk.files[<<m, "service.sh">>] # "absent"
              => disk.files[<<m, "post-fs-data.sh">>] # "absent"
        /\ disk.files[<<m, "post-fs-data.sh">>] # "absent"
              => disk.files[<<m, "module.prop">>] # "absent"
        /\ disk.files[<<m, "module.prop">>] # "absent"
              => disk.apk[<<"priv", m, m>>] # Absent
    /\ \A m \in Modules \ Foreign :
          disk.files[<<m, "module.prop">>] # "absent" => m \in disk.upperSys
    /\ \A x \in dirty.files : files[x] # "absent"
    /\ Misreads \/ \A m \in Flashed \cup Foreign, f \in FileNames : OnDisk(m, f)

Mounted(m, point) == \E i \in 1 .. Len(mounts[point]) : mounts[point][i] = m

\* A module whose scripts run or whose overlay is mounted has a module.prop.
BootInv ==
    /\ mounts \in [Overlay!Points -> Seq(Modules \cup {Base})]
    /\ \A point \in Overlay!Points : Len(mounts[point]) > 0 /\ mounts[point][1] = Base
    /\ \A m \in Generated :
          m \in todo \/ (\E point \in Overlay!Points : Mounted(m, point))
             => files[<<m, "module.prop">>] # "absent"

DInv == IInv /\ DiskInv /\ BootInv

-----------------------------------------------------------------------------
(* The store under boots *)

\* The modules that have boot scripts here.
LEMMA AllModules == Overlay!OverlayModules = Modules \ Foreign
BY ModulesAssumption DEF Overlay!OverlayModules, Generated

\* A boot script that makes the tree of its module disturbs no command.
LEMMA TreeKeeps ==
    ASSUME IInv, NEW m \in Modules, upperSys' \in {upperSys, upperSys \cup {m}},
           UNCHANGED <<dirs, apk, files, procVars>>
    PROVE  IInv'
<1>1. TypeOK'
    BY DEF IInv, TypeOK, StoreTypeOK, ProcTypeOK, procVars
<1>2. ASSUME NEW p \in Procs PROVE Local(p)' /\ Relies(p)'
    BY DEF IInv, Local, Relies, Copies, procVars
<1>3. CreationOrder' /\ PropMeansTree' /\ (Misreads \/ FlashedIntact')
    BY DEF IInv, CreationOrder, PropMeansTree, FlashedIntact
<1>4. QED
    BY <1>1, <1>2, <1>3 DEF IInv

\* After a restart every terminal is new.
LEMMA NewProcsType == NewProcesses => ProcTypeOK'
BY DEF NewProcesses, ProcTypeOK, PCs

LEMMA NewProcsIdle ==
    ASSUME NewProcesses, NEW p \in Procs
    PROVE  pc'[p] = "idle" /\ Local(p)' /\ Relies(p)'
BY DEF NewProcesses, Local, Relies, WriteSteps

\* What is left after a loss of power is a store again.
LEMMA LossKeeps ==
    ASSUME IInv, DiskInv, PowerLoss
    PROVE  IInv'
<1>1. /\ upperSys' = disk.upperSys /\ dirs' = disk.dirs
      /\ apk' = disk.apk /\ files' = disk.files
    BY DEF PowerLoss
<1>2. TypeOK'
    BY <1>1, NewProcsType DEF PowerLoss, DiskInv, TypeOK, StoreTypeOK
<1>3. ASSUME NEW p \in Procs PROVE Local(p)' /\ Relies(p)'
    BY NewProcsIdle DEF PowerLoss
<1>4. CreationOrder' /\ PropMeansTree' /\ (Misreads \/ FlashedIntact')
    BY <1>1 DEF DiskInv, OnDisk, CreationOrder, PropMeansTree, FlashedIntact
<1>5. QED
    BY <1>2, <1>3, <1>4 DEF IInv

\* Nor does a restart in good order take anything from the store.
LEMMA RebootKeeps ==
    ASSUME IInv, Reboot
    PROVE  IInv'
<1>1. UNCHANGED fsVars
    BY DEF Reboot
<1>2. TypeOK'
    BY <1>1, NewProcsType DEF Reboot, IInv, TypeOK, StoreTypeOK, fsVars
<1>3. ASSUME NEW p \in Procs PROVE Local(p)' /\ Relies(p)'
    BY NewProcsIdle DEF Reboot
<1>4. CreationOrder' /\ PropMeansTree' /\ (Misreads \/ FlashedIntact')
    BY <1>1 DEF IInv, CreationOrder, PropMeansTree, FlashedIntact, fsVars
<1>5. QED
    BY <1>2, <1>3, <1>4 DEF IInv

LEMMA StoreStep ==
    ASSUME IInv, DiskInv, [DeviceNext]_deviceVars
    PROVE  IInv'
<1>1. CASE Command
    BY <1>1, NextIInv DEF Command
<1>2. CASE UNCHANGED vars
    BY <1>2, NextIInv
<1>3. CASE PowerLoss \/ Reboot
    BY <1>3, LossKeeps, RebootKeeps
<1>4. ASSUME NEW m \in Overlay!OverlayModules, PostFsData(m) PROVE IInv'
    BY <1>4, AllModules, TreeKeeps DEF PostFsData
<1>5. QED
    BY <1>1, <1>2, <1>3, <1>4
    DEF DeviceNext, Writeback, OtherBootStep, deviceVars

\* The store itself would be a disk that satisfies DiskInv.
LEMMA StoreIsDisk ==
    ASSUME IInv, disk' = Store, dirty' = NothingDirty
    PROVE  DiskInv'
BY DEF Store, NothingDirty, IInv, TypeOK, StoreTypeOK, CreationOrder, PropMeansTree,
    FlashedIntact, DiskInv, OnDisk

\* What a command writes is there, and not of a module that it did not make.
LEMMA DirtyStep ==
    ASSUME IInv, IInv', DiskInv, Command
    PROVE  DiskInv'
<1>1. PICK news \in SUBSET (Modules \X FileNames), newApks \in SUBSET Paths :
          /\ dirty' = [files |-> dirty.files \cup news, apk |-> dirty.apk \cup newApks]
          /\ \A x \in news : files'[x] # files[x]
    <2>1. PICK news : news = {x \in DOMAIN files : files'[x] # files[x]}
        OBVIOUS
    <2>2. PICK newApks : newApks = {t \in Paths : apk'[t] # apk[t]}
        OBVIOUS
    <2>3. dirty' = [files |-> dirty.files \cup news, apk |-> dirty.apk \cup newApks]
        BY <2>1, <2>2 DEF Command
    <2>4. /\ news \subseteq Modules \X FileNames /\ newApks \subseteq Paths
          /\ \A x \in news : files'[x] # files[x]
        BY <2>1, <2>2 DEF IInv, TypeOK, StoreTypeOK
    <2>5. QED
        BY <2>3, <2>4
<1>2. dirty.files \subseteq Modules \X FileNames /\ dirty.apk \subseteq Paths
    BY DEF DiskInv
<1>3. /\ dirty' \in [files : SUBSET (Modules \X FileNames), apk : SUBSET Paths]
      /\ dirty'.files = dirty.files \cup news
    BY <1>1, <1>2
<1>4. \A x \in dirty'.files : files'[x] # "absent"
    <2>1. \A x \in Modules \X FileNames : files[x] # "absent" => files'[x] # "absent"
        BY GrowsStep DEF Command, Next, Grows
    <2>2. QED
        BY <1>1, <1>2, <1>3, <2>1 DEF DiskInv
<1>5. disk' = disk
    BY DEF Command
<1>6. ASSUME ~Misreads, NEW m \in Flashed \cup Foreign, NEW f \in FileNames
      PROVE  OnDisk(m, f)'
    <2>1. files'[<<m, f>>] = files[<<m, f>>]
        BY <1>6 DEF IInv, FlashedIntact
    <2>2. OnDisk(m, f) /\ <<m, f>> \notin dirty'.files
        BY <1>1, <1>3, <1>6, <2>1 DEF DiskInv, OnDisk
    <2>3. QED
        BY <1>5, <2>2 DEF OnDisk
<1>7. QED
    BY <1>3, <1>4, <1>5, <1>6 DEF DiskInv

LEMMA DiskStep ==
    ASSUME IInv, IInv', DiskInv, [DeviceNext]_deviceVars
    PROVE  DiskInv'
<1>1. CASE UNCHANGED <<disk, dirty, files>>
    BY <1>1 DEF DiskInv, OnDisk
<1>2. CASE Reboot
    BY <1>2, StoreIsDisk DEF Reboot
<1>3. CASE Writeback
    <2>1. PICK late \in SUBSET dirty.files, lateApk \in SUBSET dirty.apk :
              /\ dirty' = [files |-> late, apk |-> lateApk]
              /\ disk' = [Store EXCEPT
                     !.files = [x \in DOMAIN files |-> IF x \in late THEN "empty" ELSE files[x]],
                     !.apk = [t \in Paths |->
                                IF t \in lateApk /\ apk[t] # Absent THEN Torn ELSE apk[t]]]
        BY <1>3 DEF Writeback
    <2>2. /\ disk'.upperSys = upperSys /\ disk'.dirs = dirs
          /\ disk'.files = [x \in DOMAIN files |-> IF x \in late THEN "empty" ELSE files[x]]
          /\ disk'.apk = [t \in Paths |->
                              IF t \in lateApk /\ apk[t] # Absent THEN Torn ELSE apk[t]]
          /\ disk' = [upperSys |-> disk'.upperSys, dirs |-> disk'.dirs,
                      apk |-> disk'.apk, files |-> disk'.files]
        BY <2>1 DEF Store
    <2>3. /\ DOMAIN files = Modules \X FileNames /\ UNCHANGED files
          /\ late \subseteq Modules \X FileNames /\ lateApk \subseteq Paths
          /\ \A x \in late : files[x] # "absent"
        BY <1>3 DEF Writeback, vars, DiskInv, IInv, TypeOK, StoreTypeOK
    <2>4. \A x \in Modules \X FileNames :
              /\ disk'.files[x] \in {"absent", "empty", "written"}
              /\ disk'.files[x] = "absent" <=> files[x] = "absent"
              /\ x \notin late => disk'.files[x] = files[x]
        BY <2>2, <2>3 DEF IInv, TypeOK, StoreTypeOK
    <2>5. \A t \in Paths : /\ disk'.apk[t] \in Apks \cup {Absent, Torn}
                           /\ disk'.apk[t] = Absent <=> apk[t] = Absent
        BY <2>2, ApksAssumption DEF IInv, TypeOK, StoreTypeOK
    <2>6. disk' \in [upperSys : SUBSET Modules, dirs : SUBSET Paths,
                     apk : [Paths -> Apks \cup {Absent, Torn}],
                     files : [Modules \X FileNames -> {"absent", "empty", "written"}]]
        BY <2>2, <2>3, <2>4, <2>5 DEF IInv, TypeOK, StoreTypeOK
    <2>7. \A m \in Modules, f \in FileNames : <<m, f>> \in Modules \X FileNames
        OBVIOUS
    <2>8. \A m \in Modules : <<"priv", m, m>> \in Paths
        BY ModulesAssumption DEF Paths
    <2>9. ASSUME NEW m \in Generated
          PROVE  /\ disk'.files[<<m, "service.sh">>] # "absent"
                       => disk'.files[<<m, "post-fs-data.sh">>] # "absent"
                 /\ disk'.files[<<m, "post-fs-data.sh">>] # "absent"
                       => disk'.files[<<m, "module.prop">>] # "absent"
                 /\ disk'.files[<<m, "module.prop">>] # "absent"
                       => disk'.apk[<<"priv", m, m>>] # Absent
        BY <2>4, <2>5, <2>7, <2>8 DEF IInv, CreationOrder, FileNames, Generated
    <2>10. \A m \in Modules \ Foreign : disk'.files[<<m, "module.prop">>] # "absent"
                                 => m \in disk'.upperSys
        BY <2>2, <2>4, <2>7 DEF IInv, PropMeansTree, FileNames
    <2>11. /\ dirty' \in [files : SUBSET (Modules \X FileNames), apk : SUBSET Paths]
           /\ dirty'.files = late /\ late \subseteq dirty.files
           /\ \A x \in dirty'.files : files'[x] # "absent"
        BY <2>1, <2>3
    <2>12. ASSUME ~Misreads, NEW m \in Flashed \cup Foreign, NEW f \in FileNames
           PROVE  OnDisk(m, f)'
        <3>1. /\ <<m, f>> \notin late
              /\ disk'.files[<<m, f>>] = files[<<m, f>>]
            BY <2>4, <2>7, <2>11, <2>12, ModulesAssumption DEF DiskInv, OnDisk
        <3>2. files[<<m, f>>] = IF m \in Flashed \/ f = "module.prop" THEN "written" ELSE "absent"
            BY <2>12 DEF IInv, FlashedIntact
        <3>3. QED
            BY <2>11, <3>1, <3>2 DEF OnDisk
    <2>13. QED
        BY <2>6, <2>9, <2>10, <2>11, <2>12 DEF DiskInv
<1>4. CASE PowerLoss
    <2>1. /\ disk' = disk /\ dirty'.files = {}
          /\ dirty' \in [files : SUBSET (Modules \X FileNames), apk : SUBSET Paths]
        BY <1>4 DEF PowerLoss, NothingDirty
    <2>2. QED
        BY <2>1 DEF DiskInv, OnDisk
<1>5. CASE Command
    BY <1>5, DirtyStep
<1>6. QED
    BY <1>1, <1>2, <1>3, <1>4, <1>5
    DEF DeviceNext, OtherBootStep, PostFsData, deviceVars, diskVars, vars

-----------------------------------------------------------------------------
(* The boot *)

\* A module with a script that is written has a module.prop.
LEMMA ScriptMeansProp ==
    ASSUME CreationOrder, NEW m \in Generated, BootScripts[m] # {}
    PROVE  files[<<m, "module.prop">>] # "absent"
BY DEF CreationOrder, BootScripts, Generated

\* The mount table of a step that mounts nothing but modules that run.
LEMMA BootStart ==
    ASSUME IInv', Overlay!Boot
    PROVE  BootInv'
<1>1. mounts' = [point \in Overlay!Points |-> <<Base>>]
    BY DEF Overlay!Boot, Overlay!Factory
<1>2. \A m \in todo' : BootScripts'[m] # {}
    BY DEF Overlay!Boot
<1>3. ASSUME NEW m \in Generated,
             m \in todo' \/ (\E point \in Overlay!Points : Mounted(m, point)')
      PROVE  files'[<<m, "module.prop">>] # "absent"
    <2>1. \A point \in Overlay!Points : ~Mounted(m, point)'
        BY <1>1, BaseAssumption DEF Mounted, Generated
    <2>2. BootScripts'[m] # {}
        BY <1>2, <1>3, <2>1
    <2>3. QED
        BY <2>2 DEF IInv, CreationOrder, BootScripts, Generated
<1>4. mounts' \in [Overlay!Points -> Seq(Modules \cup {Base})]
    BY <1>1
<1>5. \A point \in Overlay!Points : Len(mounts'[point]) > 0 /\ mounts'[point][1] = Base
    BY <1>1
<1>6. QED
    BY <1>3, <1>4, <1>5 DEF BootInv

LEMMA BootStep ==
    ASSUME DInv, IInv', [DeviceNext]_deviceVars
    PROVE  BootInv'
<1> USE DEF DInv
<1>1. CASE Command
    <2>1. UNCHANGED <<todo, mounts>> /\ [Next]_vars
        BY <1>1 DEF Command, bootVars
    <2>2. \A m \in Modules : files[<<m, "module.prop">>] # "absent"
                                => files'[<<m, "module.prop">>] # "absent"
        BY <1>1, GrowsStep DEF Command, Next, Grows, FileNames
    <2>3. QED
        BY <2>1, <2>2 DEF BootInv, Mounted, Generated
<1>2. CASE UNCHANGED <<files, todo, mounts>>
    BY <1>2 DEF BootInv, Mounted
<1>3. CASE Reboot \/ PowerLoss
    BY <1>3, BootStart DEF Reboot, PowerLoss
<1>4. ASSUME UNCHANGED files, NEW point \in Overlay!Points, NEW m \in Modules,
             m \in Flashed \/ files[<<m, "module.prop">>] # "absent", todo' \subseteq todo,
             mounts' = [mounts EXCEPT ![point] = Append(@, m)]
      PROVE  BootInv'
    <2>1. mounts[point] \in Seq(Modules \cup {Base})
        BY DEF BootInv
    <2>2. /\ mounts'[point] = Append(mounts[point], m)
          /\ \A other \in Overlay!Points \ {point} : mounts'[other] = mounts[other]
          /\ mounts' \in [Overlay!Points -> Seq(Modules \cup {Base})]
        BY <1>4, <2>1 DEF BootInv
    <2>3. Len(mounts'[point]) > 0 /\ mounts'[point][1] = Base
        BY <2>1, <2>2 DEF BootInv
    <2>4. \A i \in 1 .. Len(mounts'[point]) :
              mounts'[point][i] = m \/ \E k \in 1 .. Len(mounts[point]) :
                                          mounts'[point][i] = mounts[point][k]
        BY <2>1, <2>2
    <2>5. \A k \in Modules : Mounted(k, point)' => k = m \/ Mounted(k, point)
        BY <2>4 DEF Mounted
    <2>6. \A k \in Modules, other \in Overlay!Points :
              Mounted(k, other)' => (k = m \/ Mounted(k, other))
        BY <2>2, <2>5 DEF Mounted
    <2>7. ASSUME NEW k \in Generated,
                 k \in todo' \/ (\E other \in Overlay!Points : Mounted(k, other)')
          PROVE  files'[<<k, "module.prop">>] # "absent"
        BY <1>4, <2>6, <2>7, ModulesAssumption DEF BootInv, Generated
    <2>8. QED
        BY <2>2, <2>3, <2>7 DEF BootInv
<1>5. ASSUME UNCHANGED files, NEW point \in Overlay!Points, todo' \subseteq todo,
             Overlay!Top(point) # Base,
             mounts' = [mounts EXCEPT ![point] = SubSeq(@, 1, Len(@) - 1)]
      PROVE  BootInv'
    <2> DEFINE s == mounts[point]
    <2>1. s \in Seq(Modules \cup {Base}) /\ Len(s) \in Nat /\ Len(s) > 1 /\ s[1] = Base
        BY <1>5 DEF BootInv, Overlay!Top
    <2>2. /\ SubSeq(s, 1, Len(s) - 1) \in Seq(Modules \cup {Base})
          /\ Len(SubSeq(s, 1, Len(s) - 1)) = Len(s) - 1
          /\ \A i \in 1 .. (Len(s) - 1) : SubSeq(s, 1, Len(s) - 1)[i] = s[i]
        BY <2>1
    <2>3. /\ mounts'[point] = SubSeq(s, 1, Len(s) - 1)
          /\ \A other \in Overlay!Points \ {point} : mounts'[other] = mounts[other]
          /\ mounts' \in [Overlay!Points -> Seq(Modules \cup {Base})]
        BY <1>5, <2>2 DEF BootInv
    <2> HIDE DEF s
    <2>4. Len(mounts'[point]) > 0 /\ mounts'[point][1] = Base
        BY <2>1, <2>2, <2>3
    <2>5. \A i \in 1 .. Len(mounts'[point]) : i \in 1 .. Len(s) /\ mounts'[point][i] = s[i]
        BY <2>1, <2>2, <2>3
    <2>6. QED
        BY <1>5, <2>3, <2>4, <2>5 DEF BootInv, Mounted, s
<1>6. ASSUME NEW m \in Modules, Overlay!SystemMount(m) \notin Overlay!Points PROVE FALSE
    BY <1>6 DEF Overlay!SystemMount, Overlay!Points
<1>7. ASSUME NEW m \in Modules \ Foreign, PostFsData(m) PROVE BootInv'
    <2>1. UNCHANGED files /\ m \in todo /\ todo' \subseteq todo
        BY <1>7 DEF PostFsData, Overlay!PostFsDataSkips, Overlay!PostFsDataMounts
    <2>2. m \in Flashed \/ files[<<m, "module.prop">>] # "absent"
        BY <2>1 DEF BootInv, Generated
    <2>3. CASE UNCHANGED mounts
        BY <2>1, <2>3 DEF BootInv, Mounted
    <2>4. CASE mounts' = [mounts EXCEPT ![Overlay!SystemMount(m)] = Append(@, m)]
        BY <1>4, <1>6, <2>1, <2>2, <2>4
    <2>5. QED
        BY <1>7, <2>3, <2>4 DEF PostFsData, Overlay!PostFsDataSkips, Overlay!PostFsDataMounts
<1>8. CASE OtherBootStep
    <2>1. UNCHANGED files
        BY <1>8 DEF OtherBootStep, vars
    <2>2. CASE Overlay!LateStart
        <3>1. UNCHANGED mounts /\ \A m \in todo' : BootScripts[m] # {}
            BY <2>2 DEF Overlay!LateStart
        <3>2. QED
            BY <2>1, <3>1, ScriptMeansProp DEF BootInv, Mounted, IInv
    <2>3. CASE Overlay!Up
        BY <2>1, <2>3 DEF Overlay!Up, BootInv, Mounted
    <2>4. ASSUME NEW m \in Modules \ Foreign, Overlay!Service(m) PROVE BootInv'
        <3>1. todo' \subseteq todo
            BY <2>4 DEF Overlay!Service
        <3>2. CASE UNCHANGED mounts
            BY <2>1, <3>1, <3>2 DEF BootInv, Mounted
        <3>3. CASE mounts' # mounts
            BY <1>5, <1>6, <2>1, <2>4, <3>1, <3>3 DEF Overlay!Service
        <3>4. QED
            BY <3>2, <3>3
    <2>5. ASSUME NEW m \in Modules \ Foreign, Overlay!Toggle(m) PROVE BootInv'
        BY <2>1, <2>5 DEF Overlay!Toggle, BootInv, Mounted
    <2>6. QED
        BY <1>8, <2>2, <2>3, <2>4, <2>5, AllModules DEF OtherBootStep
<1>9. QED
    BY <1>1, <1>2, <1>3, <1>7, <1>8, AllModules
    DEF DeviceNext, Writeback, deviceVars, bootVars, vars

-----------------------------------------------------------------------------
(* What the device keeps *)

LEMMA DInit == DeviceInit => DInv
<1> SUFFICES ASSUME DeviceInit PROVE DInv
    OBVIOUS
<1>1. IInv
    BY InitIInv DEF DeviceInit
<1>2. DiskInv
    BY <1>1 DEF DeviceInit, Store, NothingDirty, IInv, TypeOK, StoreTypeOK, CreationOrder,
        PropMeansTree, FlashedIntact, DiskInv, OnDisk
<1>3. mounts = [point \in Overlay!Points |-> <<Base>>] /\ todo = {}
    BY DEF DeviceInit, Overlay!Init, Overlay!Factory
<1>4. BootInv
    BY <1>3, BaseAssumption DEF BootInv, Mounted, Generated
<1>5. QED
    BY <1>1, <1>2, <1>4 DEF DInv

LEMMA DInductive == DeviceSpec => []DInv
<1>1. DInv /\ [DeviceNext]_deviceVars => DInv'
    BY StoreStep, DiskStep, BootStep DEF DInv
<1>2. QED
    BY <1>1, DInit, PTL DEF DeviceSpec

\* A loss of power at any moment leaves a module that was made in the order
\* its command made it.
THEOREM OrderOnDisk == DeviceSpec => []CreationOrder
<1>1. DInv => CreationOrder
    BY DEF DInv, IInv
<1>2. QED
    BY <1>1, DInductive, PTL

\* If no look at a module.prop fails, the files of a module that overlayfs did
\* not make are never opened for writing, by overlayfs with its name or any
\* other command, and a loss of power leaves them.
THEOREM FlashedKept ==
    ASSUME ~Misreads
    PROVE  DeviceSpec => []FlashedIntact
<1>1. DInv => FlashedIntact
    BY DEF DInv, IInv
<1>2. QED
    BY <1>1, DInductive, PTL

\* No overlay is mounted of a module that overlayfs was still making.
THEOREM NeverMountedEarly == DeviceSpec => []MountedIsBuilt
<1>1. DInv => MountedIsBuilt
    BY DEF DInv, IInv, BootInv, Mounted, MountedIsBuilt, PropMeansTree, CreationOrder,
        Generated
<1>2. QED
    BY <1>1, DInductive, PTL

-----------------------------------------------------------------------------
(* The boot scripts' view *)

\* A command changes the files of one module, which overlayfs makes.
LEMMA OneModule ==
    ASSUME ~Misreads, IInv, Next, files' # files
    PROVE  \E m \in Generated, name \in FileNames, f \in {"empty", "written"} :
               files' = [files EXCEPT ![<<m, name>>] = f]
<1>1. PICK p \in Procs : Step(p)
    BY DEF Next
<1>2. CreateFile(p) \/ FlushFile(p)
    BY <1>1, FilesStay
<1>3. pc[p] \in {"create", "flush"} /\ pos[p] \in 1 .. 3 /\ mod[p] \in Generated
    BY <1>2, WorksOnModule DEF CreateFile, FlushFile, IInv, Local, WriteSteps, Generated
<1>4. ModuleFiles[pos[p]] \in FileNames
    BY <1>3 DEF ModuleFiles, FileNames
<1>5. QED
    BY <1>2, <1>3, <1>4 DEF CreateFile, FlushFile

\* A command that changes scripts of a module is a Rewrite of it.
LEMMA CommandRewrites ==
    ASSUME ~Misreads, IInv, Command
    PROVE  [Overlay!Next]_(Overlay!vars)
<1>1. UNCHANGED <<hasExt, enabled, stage, todo, mounts, boots>> /\ stage # "post-fs-data"
    BY DEF Command, bootVars
<1>2. CASE UNCHANGED files
    BY <1>1, <1>2 DEF BootScripts, Overlay!vars
<1>3. CASE files' # files
    <2>1. PICK m \in Generated, name \in FileNames, f \in {"empty", "written"} :
              files' = [files EXCEPT ![<<m, name>>] = f]
        BY <1>3, OneModule DEF Command
    <2>2. \A k \in (Modules \ Foreign) \ {m} : BootScripts[k]' = BootScripts[k]
        <3>1. \A k \in Modules \ {m}, x \in FileNames : files'[<<k, x>>] = files[<<k, x>>]
            BY <2>1 DEF IInv, TypeOK, StoreTypeOK
        <3>2. QED
            BY <3>1 DEF BootScripts, FileNames
    <2>3. m \in Modules \ Foreign /\ BootScripts[m]' \in SUBSET Overlay!Scripts
        BY DEF BootScripts, Overlay!Scripts, Generated
    <2>4. BootScripts' = [BootScripts EXCEPT ![m] = BootScripts[m]']
        <3>1. /\ DOMAIN BootScripts = Modules \ Foreign
              /\ DOMAIN BootScripts' = Modules \ Foreign
            BY DEF BootScripts
        <3>2. BootScripts = [k \in Modules \ Foreign |-> BootScripts[k]]
            BY DEF BootScripts
        <3>3. BootScripts' = [k \in Modules \ Foreign |-> BootScripts[k]']
            BY DEF BootScripts
        <3>4. QED
            BY <2>2, <2>3, <3>1, <3>2, <3>3
    <2>5. Overlay!Rewrite(m)
        BY <1>1, <2>3, <2>4 DEF Overlay!Rewrite
    <2>6. QED
        BY <2>3, <2>5, AllModules DEF Overlay!Next
<1>4. QED
    BY <1>2, <1>3

\* Every behaviour of the device is one of BootOverlay: what it shows of the
\* mount table for any boots and any scripts of generated modules is true of
\* the store that commands, kills and losses of power leave behind.
THEOREM BootsSeeAnOverlay ==
    ASSUME ~Misreads
    PROVE  DeviceSpec => ImplementsOverlay
<1>1. DeviceInit => Overlay!Init
    BY DEF DeviceInit
<1>2. ASSUME DInv, [DeviceNext]_deviceVars PROVE [Overlay!Next]_(Overlay!vars)
    <2>1. CASE Command
        BY <1>2, <2>1, CommandRewrites DEF DInv
    <2>2. CASE UNCHANGED <<vars, bootVars>>
        BY <2>2 DEF vars, bootVars, BootScripts, Overlay!vars
    <2>3. CASE Reboot \/ PowerLoss
        BY <2>3 DEF Reboot, PowerLoss, Overlay!Next
    <2>4. ASSUME NEW m \in Modules \ Foreign, PostFsData(m) PROVE Overlay!Next
        BY <2>4, AllModules DEF PostFsData, Overlay!Next, Overlay!BootStep
    <2>5. CASE OtherBootStep
        BY <2>5, AllModules DEF OtherBootStep, Overlay!Next, Overlay!BootStep
    <2>6. QED
        BY <1>2, <2>1, <2>2, <2>3, <2>4, <2>5, AllModules DEF DeviceNext, Writeback, deviceVars
<1>3. QED
    BY <1>1, <1>2, DInductive, PTL DEF DeviceSpec, ImplementsOverlay, Overlay!Spec

-----------------------------------------------------------------------------
(* What BootOverlayProofs shows, of this device *)

Boots == INSTANCE BootOverlayProofs WITH
    Generated <- Generated, Prebuilt <- Flashed, scripts <- BootScripts

\* BootOverlay is instantiated twice, by Device and here; both are the same.
LEMMA SameNext ==
    /\ Overlay!Init <=> Boots!Init
    /\ Overlay!Next <=> Boots!Next
    /\ Overlay!vars = Boots!vars
<1> USE DEF Overlay!OverlayModules, Boots!OverlayModules, Overlay!Points, Boots!Points,
        Overlay!Scripts, Boots!Scripts, Overlay!Factory, Boots!Factory,
        Overlay!settled, Boots!settled, Overlay!vars, Boots!vars,
        Overlay!SystemMount, Boots!SystemMount, Overlay!Top, Boots!Top,
        Overlay!AlreadyMounted, Boots!AlreadyMounted, Overlay!Overlays, Boots!Overlays
<1>1. \A m : Overlay!PostFsDataSkips(m) <=> Boots!PostFsDataSkips(m)
    BY DEF Overlay!PostFsDataSkips, Boots!PostFsDataSkips
<1>2. \A m : Overlay!PostFsDataMounts(m) <=> Boots!PostFsDataMounts(m)
    BY DEF Overlay!PostFsDataMounts, Boots!PostFsDataMounts
<1>3. \A m : Overlay!Service(m) <=> Boots!Service(m)
    BY DEF Overlay!Service, Boots!Service
<1>4. \A m : /\ Overlay!Rewrite(m) <=> Boots!Rewrite(m)
             /\ Overlay!Toggle(m) <=> Boots!Toggle(m)
    BY DEF Overlay!Rewrite, Boots!Rewrite, Overlay!Toggle, Boots!Toggle
<1>5. Overlay!Boot <=> Boots!Boot
    BY DEF Overlay!Boot, Boots!Boot
<1>6. (Overlay!LateStart <=> Boots!LateStart) /\ (Overlay!Up <=> Boots!Up)
    BY DEF Overlay!LateStart, Boots!LateStart, Overlay!Up, Boots!Up
<1>7. Overlay!OverlayModules = Boots!OverlayModules
    OBVIOUS
<1>8. Overlay!Init <=> Boots!Init
    BY DEF Overlay!Init, Boots!Init
<1>9. Overlay!vars = Boots!vars
    OBVIOUS
<1>10. Overlay!BootStep <=> Boots!BootStep
    <2> USE <1>1, <1>2, <1>3, <1>6
    <2> QED
        BY DEF Overlay!BootStep, Boots!BootStep
<1>11. QED
    BY <1>4, <1>5, <1>7, <1>8, <1>9, <1>10 DEF Overlay!Next, Boots!Next

LEMMA SameBounds ==
    /\ Overlay!TypeOK <=> Boots!TypeOK
    /\ Overlay!AtMostOneOverlay <=> Boots!AtMostOneOverlay
BY DEF Overlay!TypeOK, Boots!TypeOK, Overlay!AtMostOneOverlay, Boots!AtMostOneOverlay,
    Overlay!OverlayModules, Boots!OverlayModules, Overlay!Points, Boots!Points,
    Overlay!Scripts, Boots!Scripts, Overlay!SystemMount, Boots!SystemMount

LEMMA BootsBounded ==
    ASSUME ~Misreads
    PROVE  DeviceSpec => [](Overlay!TypeOK /\ Overlay!AtMostOneOverlay)
<1>1. Boots!ModulesAssumption /\ Boots!MaxBootsAssumption
    BY ModulesAssumption, BaseAssumption, BootsAssumption
    DEF Boots!ModulesAssumption, Boots!MaxBootsAssumption, Boots!OverlayModules, Generated
<1>2. Boots!Spec => [](Boots!TypeOK /\ Boots!AtMostOneOverlay)
    BY <1>1, Boots!Inductive
<1>3. [Overlay!Next]_(Overlay!vars) => [Boots!Next]_(Boots!vars)
    BY SameNext DEF Overlay!vars, Boots!vars
<1>4. DeviceSpec => Boots!Spec
    BY <1>3, SameNext, BootsSeeAnOverlay, PTL DEF ImplementsOverlay, Overlay!Spec, Boots!Spec
<1>5. QED
    BY <1>2, <1>4, SameBounds, PTL

\* Commands, kills and losses of power included, no boot of the device stacks
\* one overlay on another (the grep in post-fs-data.sh of every module).
THEOREM NeverStackedOnDevice ==
    ASSUME ~Misreads
    PROVE  DeviceSpec => []Overlay!AtMostOneOverlay
BY BootsBounded, PTL

\* The store, the disk and the mount table keep their types.
THEOREM DeviceTypeCorrect ==
    ASSUME ~Misreads
    PROVE  DeviceSpec => []DeviceTypeOK
<1>1. DInv /\ Overlay!TypeOK => DeviceTypeOK
    BY DEF DInv, IInv, DiskInv, DeviceTypeOK
<1>2. QED
    BY <1>1, DInductive, BootsBounded, PTL

-----------------------------------------------------------------------------
(* A complete module *)

\* Only a command that is past the test for its module writes the files of it.
LEMMA SettledCommand ==
    ASSUME ~Misreads, IInv, DiskInv, Command, NEW p \in Procs, Step(p),
           NEW m \in Modules, Settled(m)
    PROVE  Settled(m)'
<1>1. pc[p] \in WriteSteps /\ job[p].cmd = "overlayfs" => mod[p] # m
    BY DEF Settled
<1>2. \A f \in FileNames : files'[<<m, f>>] = files[<<m, f>>]
    <2>1. CASE CreateFile(p) \/ FlushFile(p)
        <3>1. mod[p] # m
            BY <1>1, <2>1 DEF CreateFile, FlushFile, WriteSteps, IInv, Local
        <3>2. UNCHANGED files \/ \E f, v : files' = [files EXCEPT ![<<mod[p], f>>] = v]
            BY <2>1 DEF CreateFile, FlushFile
        <3>3. QED
            BY <3>1, <3>2 DEF IInv, TypeOK, StoreTypeOK
    <2>2. QED
        BY <2>1, FilesStay
<1>3. \A q \in Procs \ {p} : pc'[q] = pc[q] /\ job'[q] = job[q] /\ mod'[q] = mod[q]
    BY OthersStay
<1>4. ~(pc'[p] \in WriteSteps /\ job'[p].cmd = "overlayfs" /\ mod'[p] = m)
    <2> USE DEF IInv, TypeOK, ProcTypeOK
    <2>1. CASE pc'[p] = "idle"
        BY <2>1 DEF WriteSteps
    <2>2. CASE pc[p] \in WriteSteps /\ UNCHANGED <<job, mod>>
        BY <1>1, <2>2
    <2>3. ASSUME NEW j \in Jobs, Invoke(p, j) PROVE pc'[p] \notin WriteSteps
        BY <2>3 DEF Invoke, WriteSteps
    <2>4. ASSUME NEW j \in Jobs, InvokeRejected(p, j) PROVE pc'[p] \notin WriteSteps
        BY <2>4 DEF InvokeRejected, WriteSteps
    <2>5. CASE CheckNotInstalled(p)
        <3>1. mod[p] # m
            BY <2>5 DEF CheckNotInstalled, Settled, Whole, Installed, FileNames
        <3>2. UNCHANGED mod \/ pc'[p] = "idle"
            BY <2>5 DEF CheckNotInstalled, Return
        <3>3. QED
            BY <2>1, <3>1, <3>2
    <2>6. CASE ScanMiss(p)
        BY <2>6 DEF ScanMiss, WriteSteps
    <2>7. CASE ScanHit(p)
        BY <2>1, <2>7 DEF ScanHit, Return, Local
    <2>8. CASE AlreadyActive(p) \/ ScanEnd(p) \/ MkdirFails(p) \/ OpenNoDir(p) \/ ChmodNoFile(p)
        BY <2>1, <2>8 DEF AlreadyActive, ScanEnd, MkdirFails, OpenNoDir, ChmodNoFile, Return, ToolsEnd
    <2>9. CASE ToolFails(p) \/ Kill(p) \/ Interrupt(p)
        BY <2>1, <2>2, <2>9 DEF ToolFails, Kill, Interrupt, Return, ToolsEnd, ToolSteps, WriteSteps
    <2>10. CASE \/ Mkdir(p) \/ OpenDest(p) \/ CopyBytes(p)
                \/ CreateFile(p) \/ RemoveApk(p) \/ RemoveApkFails(p)
        BY <2>2, <2>10
        DEF Mkdir, OpenDest, CopyBytes, CreateFile, RemoveApk, RemoveApkFails, WriteSteps
    <2>11. CASE ChmodApk(p) \/ FlushFile(p) \/ StatApk(p) \/ RemoveDir(p)
        BY <2>1, <2>2, <2>11
        DEF ChmodApk, FlushFile, StatApk, RemoveDir, Return, ToolsEnd, WriteSteps
    <2>12. QED
        BY <2>3, <2>4, <2>5, <2>6, <2>7, <2>8, <2>9, <2>10, <2>11 DEF Step, Run
<1>5. UNCHANGED disk /\ \A f \in FileNames : <<m, f>> \notin dirty'.files
    BY <1>2 DEF Command, Settled
<1>6. QED
    BY <1>2, <1>3, <1>4, <1>5 DEF Settled, Whole

\* A module whose files are whole and on the disk stays so: whoever repeats
\* overlayfs on it, in any number of terminals, finds its module.prop, and a
\* kill or a loss of power finds nothing half written (cmd_overlayfs.cpp, run(),
\* returns before its first write when the module is installed).
THEOREM CompletedStays ==
    ASSUME ~Misreads
    PROVE  DeviceSpec => CompletedSurvives
<1>1. ASSUME DInv, [DeviceNext]_deviceVars, NEW m \in Modules, Settled(m)
      PROVE  Settled(m)'
    <2> USE DEF DInv
    <2>1. CASE Command
        BY <1>1, <2>1, SettledCommand DEF Command, Next
    <2>2. CASE Writeback
        <3>1. PICK late \in SUBSET dirty.files :
                  /\ dirty'.files = late
                  /\ disk'.files = [x \in DOMAIN files |->
                                      IF x \in late THEN "empty" ELSE files[x]]
            BY <2>2 DEF Writeback, Store
        <3>2. \A f \in FileNames : <<m, f>> \in DOMAIN files /\ <<m, f>> \notin late
            BY <1>1 DEF Settled, IInv, TypeOK, StoreTypeOK
        <3>3. \A f \in FileNames : disk'.files[<<m, f>>] = files[<<m, f>>]
            BY <3>1, <3>2
        <3>4. UNCHANGED vars
            BY <2>2 DEF Writeback
        <3>5. QED
            BY <1>1, <3>1, <3>2, <3>3, <3>4 DEF Settled, Whole, vars
    <2>3. CASE Reboot \/ PowerLoss
        <3>1. /\ Whole(files', m) /\ Whole(disk'.files, m)
              /\ dirty'.files = {}
            BY <1>1, <2>3 DEF Reboot, PowerLoss, Settled, Whole, Store, NothingDirty, fsVars
        <3>2. \A p \in Procs : pc'[p] = "idle"
            BY <2>3 DEF Reboot, PowerLoss, NewProcesses
        <3>3. QED
            BY <3>1, <3>2 DEF Settled, Whole, WriteSteps
    <2>4. ASSUME NEW k \in Modules, PostFsData(k) PROVE Settled(m)'
        BY <1>1, <2>4 DEF PostFsData, Settled, Whole, procVars, diskVars
    <2>5. CASE OtherBootStep \/ UNCHANGED deviceVars
        BY <1>1, <2>5 DEF OtherBootStep, deviceVars, diskVars, Settled, Whole, vars
    <2>6. QED
        BY <1>1, <2>1, <2>2, <2>3, <2>4, <2>5, AllModules DEF DeviceNext
<1>2. DInv /\ [DeviceNext]_deviceVars =>
          [\A m \in Modules : Settled(m) => Settled(m)']_deviceVars
    BY <1>1
<1>3. QED
    BY <1>2, DInductive, PTL DEF DeviceSpec, CompletedSurvives
=============================================================================
