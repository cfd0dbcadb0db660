-------------------------- MODULE ModuleStoreProofs --------------------------
(***************************************************************************)
(* Proofs about the module store, for any number of terminals, modules,     *)
(* applications and APKs, any command lines, and failures and kills at any  *)
(* point.                                                                   *)
(***************************************************************************)
EXTENDS ModuleStoreProps, TLAPS

-----------------------------------------------------------------------------
(* The inductive invariant *)

\* What a process knows of itself: its command, its rights and its place in
\* the list it is going through.
Local(p) ==
    /\ pc[p] \in {"idle", "check", "mkdir"} => pos[p] = 1
    /\ pc[p] # "idle" =>
        /\ job[p] \in Jobs
        /\ job[p].cmd \in {"overlayfs", "install"} => job[p].apk \in Apks
        /\ job[p].cmd = "overlayfs" => mod[p] = job[p].name
    /\ pc[p] \in {"check", "create", "flush"} => job[p].cmd = "overlayfs"
    /\ pc[p] = "scan" => job[p].cmd # "overlayfs"
    /\ pc[p] \in {"mkdir", "open", "copy", "chmod"} =>
        /\ job[p].cmd \in {"overlayfs", "install"}
        /\ pos[p] \in Copies(p)
    /\ pc[p] \in {"stat", "rm", "rmdir", "rmdirAgain"} =>
        job[p].cmd = "uninstall" /\ pos[p] = 1
    /\ pc[p] \in {"create", "flush"} => pos[p] \in 1 .. 3
    /\ pc[p] \in WriteSteps => job[p].root
    /\ pc[p] \in WriteSteps /\ job[p].cmd = "overlayfs" =>
          Misreads \/ mod[p] \notin Flashed \cup Foreign

\* What it relies on in the store, where others are at work.
Relies(p) ==
    /\ pc[p] \in WriteSteps /\ (pc[p] # "mkdir" \/ job[p].cmd # "overlayfs")
          => mod[p] \in upperSys
    /\ pc[p] \in {"create", "flush"} => apk[<<"priv", mod[p], mod[p]>>] # Absent
    /\ pc[p] \in {"create", "flush"} =>
          \A k \in 1 .. 3 : k < pos[p] => files[<<mod[p], ModuleFiles[k]>>] # "absent"
    /\ pc[p] = "flush" => files[<<mod[p], ModuleFiles[pos[p]]>>] # "absent"

\* An overlay module with a module.prop has its overlay tree.
PropMeansTree ==
    \A m \in Modules \ Foreign : files[<<m, "module.prop">>] # "absent" => m \in upperSys

IInv ==
    /\ TypeOK
    /\ \A p \in Procs : Local(p) /\ Relies(p)
    /\ CreationOrder
    /\ PropMeansTree
    /\ Misreads \/ FlashedIntact

\* What every process may rely on stays: no step removes an overlay tree, a
\* file of the module or the copy Magisk mounts.
Grows ==
    /\ upperSys \subseteq upperSys'
    /\ \A x \in Modules \X FileNames : files[x] # "absent" => files'[x] # "absent"
    /\ \A m \in Modules :
          apk[<<"priv", m, m>>] # Absent => apk'[<<"priv", m, m>>] # Absent
-----------------------------------------------------------------------------
(* Types *)

\* What the parts of the actions do to the types.
LEMMA ReturnType ==
    ASSUME ProcTypeOK, NEW p \in Procs, NEW code \in {"ok", "fail", "killed"},
           Return(p, code)
    PROVE  ProcTypeOK'
BY DEF ProcTypeOK, Return, PCs

LEMMA GotoType ==
    ASSUME ProcTypeOK, NEW p \in Procs, NEW step \in PCs, Goto(p, step)
    PROVE  /\ pc' \in [Procs -> PCs]
           /\ out' \in [Procs -> {"none", "ok", "fail", "killed"}]
BY DEF ProcTypeOK, Goto

\* A command at mkdir works on a module, and its directories are in the store.
LEMMA MkdirType ==
    ASSUME IInv, NEW p \in Procs, pc[p] = "mkdir"
    PROVE  mod[p] \in Modules /\ NewDirs(p) \subseteq Paths
<1>1. job[p] \in JobType /\ job[p].cmd \in {"overlayfs", "install"}
    BY JobsAssumption DEF IInv, Local
<1>2. mod[p] \in Modules
    <2>1. CASE job[p].cmd = "overlayfs"
        BY <2>1, JobsAssumption DEF IInv, Local
    <2>2. CASE job[p].cmd = "install"
        BY <2>2 DEF IInv, Relies, WriteSteps, TypeOK, StoreTypeOK
    <2>3. QED
        BY <1>1, <2>1, <2>2
<1>3. NewDirs(p) \subseteq Paths
    BY <1>1, <1>2 DEF NewDirs, Copies, Trees, Paths, JobType
<1>4. QED
    BY <1>2, <1>3

LEMMA StopMkdirType ==
    ASSUME IInv, NEW p \in Procs, pc[p] = "mkdir", StopMkdir(p)
    PROVE  upperSys' \subseteq Modules /\ dirs' \subseteq Paths
BY MkdirType DEF StopMkdir, IInv, TypeOK, StoreTypeOK

LEMMA StopCopyType ==
    ASSUME StoreTypeOK, NEW p \in Procs, StopCopy(p)
    PROVE  apk' \in [Paths -> Apks \cup {Absent, Torn}]
BY DEF StopCopy, StoreTypeOK

\* Types are preserved: the store's.
LEMMA StoreTypeStep ==
    ASSUME IInv, NEW p \in Procs, Step(p)
    PROVE  StoreTypeOK'
<1> USE DEF IInv, TypeOK
<1>1. ASSUME UNCHANGED fsVars PROVE StoreTypeOK'
    BY <1>1 DEF StoreTypeOK, fsVars
<1>2. ASSUME NEW j \in Jobs, Invoke(p, j) \/ InvokeRejected(p, j) PROVE StoreTypeOK'
    BY <1>1, <1>2 DEF Invoke, InvokeRejected
<1>3. CASE AlreadyActive(p) \/ CheckNotInstalled(p) \/ ScanMiss(p) \/ ScanHit(p) \/ ScanEnd(p)
    BY <1>1, <1>3 DEF AlreadyActive, CheckNotInstalled, ScanMiss, ScanHit, ScanEnd
<1>4. CASE OpenNoDir(p) \/ ChmodApk(p) \/ ChmodNoFile(p) \/ StatApk(p) \/ RemoveApkFails(p)
    BY <1>1, <1>4 DEF OpenNoDir, ChmodApk, ChmodNoFile, StatApk, RemoveApkFails
<1>5. CASE Mkdir(p)
    BY <1>5, MkdirType DEF Mkdir, StoreTypeOK
<1>6. CASE MkdirFails(p)
    BY <1>6, StopMkdirType DEF MkdirFails, StoreTypeOK
<1>7. CASE OpenDest(p)
    BY <1>7 DEF OpenDest, StoreTypeOK
<1>8. CASE CopyBytes(p)
    <2>1. job[p].apk \in Apks
        BY <1>8 DEF CopyBytes, Local
    <2>2. QED
        BY <1>8, <2>1 DEF CopyBytes, StoreTypeOK
<1>9. CASE CreateFile(p) \/ FlushFile(p)
    BY <1>9 DEF CreateFile, FlushFile, StoreTypeOK
<1>10. CASE RemoveApk(p)
    BY <1>10 DEF RemoveApk, StoreTypeOK
<1>11. CASE RemoveDir(p)
    BY <1>11 DEF RemoveDir, StoreTypeOK
<1>12. CASE ToolFails(p)
    BY <1>12, StopCopyType DEF ToolFails, StoreTypeOK
<1>13. CASE Kill(p)
    BY <1>1, <1>13 DEF Kill
<1>14. CASE Interrupt(p)
    BY <1>14, StopCopyType, StopMkdirType DEF Interrupt, StoreTypeOK
<1>15. QED
    BY <1>2, <1>3, <1>4, <1>5, <1>6, <1>7, <1>8, <1>9, <1>10, <1>11, <1>12, <1>13, <1>14
    DEF Step, Run

\* And the processes'.
LEMMA ProcTypeStep ==
    ASSUME IInv, NEW p \in Procs, Step(p)
    PROVE  ProcTypeOK'
<1> USE DEF IInv, TypeOK
<1>1. ASSUME NEW code \in {"ok", "fail", "killed"}, Return(p, code) \/ ToolsEnd(p, code)
      PROVE  ProcTypeOK'
    BY <1>1, ReturnType DEF ToolsEnd
<1>2. ASSUME NEW step \in PCs, Goto(p, step), UNCHANGED <<job, mod, wr>>,
             pos' = pos \/ pos' = [pos EXCEPT ![p] = @ + 1] \/ pos' = [pos EXCEPT ![p] = 1]
      PROVE  ProcTypeOK'
    BY <1>2, GotoType DEF ProcTypeOK
<1>3. ASSUME NEW j \in Jobs, Invoke(p, j) PROVE ProcTypeOK'
    BY <1>3, JobsAssumption DEF Invoke, ProcTypeOK, PCs
<1>4. ASSUME NEW j \in Jobs, InvokeRejected(p, j) PROVE ProcTypeOK'
    BY <1>4 DEF InvokeRejected, ProcTypeOK
<1>5. CASE AlreadyActive(p) \/ CheckNotInstalled(p) \/ ScanEnd(p)
    BY <1>1, <1>2, <1>5 DEF AlreadyActive, CheckNotInstalled, ScanEnd, PCs
<1>6. CASE ScanMiss(p)
    BY <1>6 DEF ScanMiss, ProcTypeOK
<1>7. CASE ScanHit(p)
    <2>1. CASE job[p].cmd \in {"install", "uninstall"} /\ job[p].root
        <3>1. /\ Goto(p, IF job[p].cmd = "install" THEN "mkdir" ELSE "stat")
              /\ mod' = [mod EXCEPT ![p] = ScanOrder[pos[p]]]
              /\ pos' = [pos EXCEPT ![p] = 1]
              /\ UNCHANGED <<job, wr>>
            BY <1>7, <2>1 DEF ScanHit, IsRoot
        <3>2. ScanOrder[pos[p]] \in Modules
            BY <1>7 DEF ScanHit, StoreTypeOK
        <3>3. QED
            BY <3>1, <3>2, GotoType DEF ProcTypeOK, PCs
    <2>2. QED
        BY <1>1, <1>7, <2>1 DEF ScanHit, IsRoot
<1>8. CASE Mkdir(p) \/ MkdirFails(p) \/ OpenNoDir(p)
    BY <1>1, <1>2, <1>8 DEF Mkdir, MkdirFails, OpenNoDir, PCs
<1>9. CASE OpenDest(p)
    BY <1>9, GotoType DEF OpenDest, ProcTypeOK, PCs
<1>10. CASE CopyBytes(p) \/ CreateFile(p) \/ RemoveApkFails(p)
    BY <1>2, <1>10 DEF CopyBytes, CreateFile, RemoveApkFails, PCs
<1>11. CASE ChmodApk(p)
    <2>1. CASE ToolsEnd(p, "ok")
        BY <1>1, <2>1
    <2>2. CASE ~ToolsEnd(p, "ok")
        <3>1. /\ Goto(p, "create") \/ Goto(p, "open")
              /\ pos' = [pos EXCEPT ![p] = 1] \/ pos' = [pos EXCEPT ![p] = @ + 1]
              /\ wr' = [wr EXCEPT ![p] = "none"]
              /\ UNCHANGED <<job, mod>>
            BY <1>11, <2>2 DEF ChmodApk
        <3>2. QED
            BY <3>1, GotoType DEF ProcTypeOK, PCs
    <2>3. QED
        BY <2>1, <2>2
<1>12. CASE ChmodNoFile(p) \/ ToolFails(p) \/ Interrupt(p)
    BY <1>1, <1>12 DEF ChmodNoFile, ToolFails, Interrupt
<1>13. CASE FlushFile(p)
    BY <1>1, <1>2, <1>13 DEF FlushFile, PCs
<1>14. CASE StatApk(p) \/ RemoveDir(p)
    BY <1>1, <1>2, <1>14 DEF StatApk, RemoveDir, PCs
<1>15. CASE RemoveApk(p)
    BY <1>15, GotoType DEF RemoveApk, ProcTypeOK, PCs
<1>16. CASE Kill(p)
    <2>1. CASE pc[p] \in ToolSteps
        BY <1>16, <2>1 DEF Kill, ProcTypeOK
    <2>2. CASE pc[p] \notin ToolSteps
        BY <1>1, <1>16, <2>2 DEF Kill
    <2>3. QED
        BY <2>1, <2>2
<1>17. QED
    BY <1>3, <1>4, <1>5, <1>6, <1>7, <1>8, <1>9, <1>10, <1>11, <1>12, <1>13, <1>14, <1>15, <1>16
    DEF Step, Run

-----------------------------------------------------------------------------
(* Steps *)

\* A command past its checks works on a module.
LEMMA WorksOnModule ==
    ASSUME IInv, NEW p \in Procs, pc[p] \in WriteSteps
    PROVE  mod[p] \in Modules
<1>1. CASE pc[p] = "mkdir"
    BY <1>1, MkdirType
<1>2. CASE pc[p] # "mkdir"
    BY <1>2 DEF IInv, Relies, TypeOK, StoreTypeOK
<1>3. QED
    BY <1>1, <1>2

\* Nothing but rm makes an APK file absent.
LEMMA ApkWrite ==
    ASSUME StoreTypeOK, NEW t, NEW v, v # Absent,
           UNCHANGED apk \/ apk' = [apk EXCEPT ![t] = v]
    PROVE  \A m \in Modules :
              apk[<<"priv", m, m>>] # Absent => apk'[<<"priv", m, m>>] # Absent
<1>1. \A m \in Modules : <<"priv", m, m>> \in Paths
    BY ModulesAssumption DEF Paths
<1>2. QED
    BY <1>1 DEF StoreTypeOK

LEMMA StopCopyGrows ==
    ASSUME StoreTypeOK, NEW p \in Procs, StopCopy(p) \/ UNCHANGED apk
    PROVE  \A m \in Modules :
              apk[<<"priv", m, m>>] # Absent => apk'[<<"priv", m, m>>] # Absent
<1>1. UNCHANGED apk \/ apk' = [apk EXCEPT ![Target(p)] = Torn]
    BY DEF StopCopy
<1>2. QED
    BY <1>1, ApkWrite, ApksAssumption

\* No step of any process takes away what the others rely on.
LEMMA GrowsStep ==
    ASSUME IInv, NEW p \in Procs, Step(p)
    PROVE  Grows
<1> USE DEF IInv, TypeOK
<1>1. ASSUME UNCHANGED fsVars PROVE Grows
    BY <1>1 DEF Grows, fsVars
<1>2. ASSUME NEW j \in Jobs, Invoke(p, j) \/ InvokeRejected(p, j) PROVE Grows
    BY <1>1, <1>2 DEF Invoke, InvokeRejected
<1>3. CASE AlreadyActive(p) \/ CheckNotInstalled(p) \/ ScanMiss(p) \/ ScanHit(p) \/ ScanEnd(p)
    BY <1>1, <1>3 DEF AlreadyActive, CheckNotInstalled, ScanMiss, ScanHit, ScanEnd
<1>4. CASE OpenNoDir(p) \/ ChmodApk(p) \/ ChmodNoFile(p) \/ StatApk(p) \/ RemoveApkFails(p)
    BY <1>1, <1>4 DEF OpenNoDir, ChmodApk, ChmodNoFile, StatApk, RemoveApkFails
<1>5. CASE Mkdir(p) \/ RemoveDir(p)
    BY <1>5 DEF Mkdir, RemoveDir, Grows
<1>6. CASE MkdirFails(p)
    BY <1>6 DEF MkdirFails, StopMkdir, Grows
<1>7. CASE OpenDest(p)
    BY <1>7, ApkWrite, ApksAssumption DEF OpenDest, Grows
<1>8. CASE CopyBytes(p)
    <2>1. job[p].apk \in Apks
        BY <1>8 DEF CopyBytes, Local
    <2>2. QED
        BY <1>8, <2>1, ApkWrite, ApksAssumption DEF CopyBytes, Grows
<1>9. CASE CreateFile(p) \/ FlushFile(p)
    BY <1>9 DEF CreateFile, FlushFile, StoreTypeOK, Grows
<1>10. CASE RemoveApk(p)
    <2>1. Target(p) = <<"upper", mod[p], job[p].name>>
        BY <1>10 DEF RemoveApk, Local, Target, Trees
    <2>2. \A m \in Modules : apk'[<<"priv", m, m>>] = apk[<<"priv", m, m>>]
        BY <1>10, <2>1, ModulesAssumption DEF RemoveApk, StoreTypeOK, Paths
    <2>3. QED
        BY <1>10, <2>2 DEF RemoveApk, Grows
<1>11. CASE ToolFails(p)
    BY <1>11, StopCopyGrows DEF ToolFails, Grows
<1>12. CASE Kill(p)
    BY <1>1, <1>12 DEF Kill
<1>13. CASE Interrupt(p)
    <2>1. upperSys \subseteq upperSys'
        BY <1>13 DEF Interrupt, StopMkdir
    <2>2. QED
        BY <1>13, <2>1, StopCopyGrows DEF Interrupt, Grows
<1>14. QED
    BY <1>2, <1>3, <1>4, <1>5, <1>6, <1>7, <1>8, <1>9, <1>10, <1>11, <1>12, <1>13
    DEF Step, Run

\* A step of one process leaves the others where they are.
LEMMA OthersStay ==
    ASSUME IInv, NEW p \in Procs, Step(p), NEW q \in Procs \ {p}
    PROVE  /\ pc'[q] = pc[q] /\ job'[q] = job[q]
           /\ mod'[q] = mod[q] /\ pos'[q] = pos[q]
<1> DEFINE Stays == /\ pc'[q] = pc[q] /\ job'[q] = job[q]
                    /\ mod'[q] = mod[q] /\ pos'[q] = pos[q]
<1> USE DEF IInv, TypeOK, ProcTypeOK, Goto, Return, ToolsEnd
<1>1. ASSUME NEW j \in Jobs, Invoke(p, j) \/ InvokeRejected(p, j) PROVE Stays
    BY <1>1 DEF Invoke, InvokeRejected
<1>2. CASE AlreadyActive(p) \/ CheckNotInstalled(p) \/ ScanMiss(p) \/ ScanHit(p) \/ ScanEnd(p)
    BY <1>2 DEF AlreadyActive, CheckNotInstalled, ScanMiss, ScanHit, ScanEnd
<1>3. CASE Mkdir(p) \/ MkdirFails(p) \/ OpenDest(p) \/ OpenNoDir(p) \/ CopyBytes(p)
    BY <1>3 DEF Mkdir, MkdirFails, OpenDest, OpenNoDir, CopyBytes
<1>4. CASE ChmodApk(p) \/ ChmodNoFile(p) \/ CreateFile(p) \/ FlushFile(p)
    BY <1>4 DEF ChmodApk, ChmodNoFile, CreateFile, FlushFile
<1>5. CASE StatApk(p) \/ RemoveApk(p) \/ RemoveApkFails(p) \/ RemoveDir(p)
    BY <1>5 DEF StatApk, RemoveApk, RemoveApkFails, RemoveDir
<1>6. CASE ToolFails(p) \/ Kill(p) \/ Interrupt(p)
    BY <1>6 DEF ToolFails, Kill, Interrupt
<1>7. QED
    BY <1>1, <1>2, <1>3, <1>4, <1>5, <1>6 DEF Step, Run

\* So they keep their part of the invariant.
LEMMA OthersKeep ==
    ASSUME IInv, NEW p \in Procs, Step(p), NEW q \in Procs \ {p}
    PROVE  Local(q)' /\ Relies(q)'
<1>1. /\ pc'[q] = pc[q] /\ job'[q] = job[q]
      /\ mod'[q] = mod[q] /\ pos'[q] = pos[q]
    BY OthersStay
<1>2. Local(q)'
    BY <1>1 DEF IInv, Local, Copies
<1>3. Relies(q)'
    <2>1. Grows
        BY GrowsStep
    <2>2. pc[q] \in WriteSteps => mod[q] \in Modules
        BY WorksOnModule
    <2>3. \A k \in 1 .. 3 : ModuleFiles[k] \in FileNames
        BY DEF ModuleFiles, FileNames
    <2>4. pc[q] = "flush" => pos[q] \in 1 .. 3
        BY DEF IInv, Local
    <2>5. QED
        BY <1>1, <2>1, <2>2, <2>3, <2>4 DEF IInv, Relies, Grows, WriteSteps
<1>4. QED
    BY <1>2, <1>3

\* A command that returns leaves nothing to keep.
LEMMA ReturnKeeps ==
    ASSUME ProcTypeOK, NEW p \in Procs, NEW code, Return(p, code) \/ ToolsEnd(p, code)
    PROVE  Local(p)' /\ Relies(p)'
BY DEF ProcTypeOK, Return, ToolsEnd, Local, Relies, WriteSteps

\* One that is killed leaves nothing either, or a shell that goes on as it was.
LEMMA KillKeeps ==
    ASSUME IInv, NEW p \in Procs, Kill(p)
    PROVE  Local(p)' /\ Relies(p)'
<1>1. CASE pc[p] \in ToolSteps
    BY <1>1 DEF Kill, fsVars, IInv, Local, Copies, Relies
<1>2. CASE pc[p] \notin ToolSteps
    BY <1>2, ReturnKeeps DEF Kill, IInv, TypeOK
<1>3. QED
    BY <1>1, <1>2

\* The process that moves keeps what it knows of itself.
LEMMA LocalStep ==
    ASSUME IInv, NEW p \in Procs, Step(p)
    PROVE  Local(p)'
<1> USE DEF IInv, TypeOK
<1>1. ASSUME NEW code, Return(p, code) \/ ToolsEnd(p, code) PROVE Local(p)'
    BY <1>1, ReturnKeeps
<1>2. ASSUME NEW j \in Jobs, Invoke(p, j) PROVE Local(p)'
    BY <1>2, JobsAssumption DEF Invoke, NeedsApk, Local, ProcTypeOK, JobType, Copies, WriteSteps
<1>3. ASSUME NEW j \in Jobs, InvokeRejected(p, j) PROVE Local(p)'
    BY <1>3 DEF InvokeRejected, Local, Copies
<1>4. CASE AlreadyActive(p) \/ ScanEnd(p) \/ OpenNoDir(p) \/ ChmodNoFile(p) \/ MkdirFails(p)
    BY <1>1, <1>4 DEF AlreadyActive, ScanEnd, OpenNoDir, ChmodNoFile, MkdirFails
<1>5. CASE ToolFails(p) \/ Interrupt(p) \/ Kill(p)
    BY <1>1, <1>5, KillKeeps DEF ToolFails, Interrupt
<1>6. CASE CheckNotInstalled(p)
    <2>1. mod[p] \in Modules
        BY <1>6, JobsAssumption DEF CheckNotInstalled, Local
    <2>2. Misreads \/ mod[p] \notin Flashed \cup Foreign
        BY <1>6, <2>1 DEF CheckNotInstalled, FlashedIntact, Installed, FileNames
    <2>3. QED
        BY <1>1, <1>6, <2>2 DEF CheckNotInstalled, Goto, Local, ProcTypeOK, Copies, WriteSteps,
            IsRoot
<1>7. CASE ScanMiss(p)
    BY <1>7 DEF ScanMiss, Local, ProcTypeOK, Copies, WriteSteps
<1>8. CASE ScanHit(p)
    BY <1>1, <1>8, JobsAssumption DEF ScanHit, Goto, Local, ProcTypeOK, Copies, WriteSteps, JobType,
        IsRoot
<1>9. CASE Mkdir(p) \/ OpenDest(p) \/ CopyBytes(p)
    BY <1>9 DEF Mkdir, OpenDest, CopyBytes, Goto, Local, ProcTypeOK, Copies, WriteSteps
<1>10. CASE ChmodApk(p)
    BY <1>1, <1>10 DEF ChmodApk, Goto, Local, ProcTypeOK, Copies, Trees, WriteSteps
<1>11. CASE CreateFile(p)
    BY <1>11 DEF CreateFile, Goto, Local, ProcTypeOK, Copies, WriteSteps
<1>12. CASE FlushFile(p)
    BY <1>1, <1>12 DEF FlushFile, Goto, Local, ProcTypeOK, Copies, ModuleFiles, WriteSteps
<1>13. CASE StatApk(p) \/ RemoveDir(p)
    BY <1>1, <1>13 DEF StatApk, RemoveDir, Goto, Local, ProcTypeOK, Copies, WriteSteps
<1>14. CASE RemoveApk(p) \/ RemoveApkFails(p)
    BY <1>14 DEF RemoveApk, RemoveApkFails, Goto, Local, ProcTypeOK, Copies, WriteSteps
<1>15. QED
    BY <1>2, <1>3, <1>4, <1>5, <1>6, <1>7, <1>8, <1>9, <1>10, <1>11, <1>12, <1>13, <1>14
    DEF Step, Run

\* And what it relies on: a step that needs more has just made or checked it.
LEMMA ReliesStep ==
    ASSUME IInv, NEW p \in Procs, Step(p)
    PROVE  Relies(p)'
<1> USE DEF IInv, TypeOK
<1>1. ASSUME NEW code, Return(p, code) \/ ToolsEnd(p, code) PROVE Relies(p)'
    BY <1>1, ReturnKeeps
<1>2. ASSUME NEW j \in Jobs, Invoke(p, j) \/ InvokeRejected(p, j) PROVE Relies(p)'
    BY <1>2 DEF Invoke, InvokeRejected, Relies, ProcTypeOK, WriteSteps
<1>3. CASE AlreadyActive(p) \/ ScanEnd(p) \/ OpenNoDir(p) \/ ChmodNoFile(p) \/ MkdirFails(p)
    BY <1>1, <1>3 DEF AlreadyActive, ScanEnd, OpenNoDir, ChmodNoFile, MkdirFails
<1>4. CASE ToolFails(p) \/ Interrupt(p) \/ Kill(p)
    BY <1>1, <1>4, KillKeeps DEF ToolFails, Interrupt
<1>5. CASE CheckNotInstalled(p)
    <2>1. CASE ~IsRoot(p)
        BY <1>1, <1>5, <2>1 DEF CheckNotInstalled
    <2>2. CASE IsRoot(p)
        <3>1. pc[p] = "check" /\ Goto(p, "mkdir") /\ UNCHANGED job
            BY <1>5, <2>2 DEF CheckNotInstalled
        <3>2. pc'[p] = "mkdir"
            BY <3>1 DEF Goto, ProcTypeOK
        <3>3. job'[p].cmd = "overlayfs"
            BY <3>1 DEF Local
        <3>4. QED
            BY <3>2, <3>3 DEF Relies
    <2>3. QED
        BY <2>1, <2>2
<1>6. CASE ScanMiss(p)
    BY <1>6 DEF ScanMiss, Relies, ProcTypeOK, WriteSteps
<1>7. CASE ScanHit(p)
    <2>1. CASE pc'[p] = "idle"
        BY <1>7, <2>1 DEF Relies, WriteSteps
    <2>2. CASE pc'[p] # "idle"
        <3>1. /\ pc'[p] \in {"mkdir", "stat"}
              /\ mod'[p] = ScanOrder[pos[p]]
              /\ ScanOrder[pos[p]] \in upperSys'
            BY <1>7, <2>2 DEF ScanHit, Goto, Return, ProcTypeOK, fsVars
        <3>2. QED
            BY <3>1 DEF Relies
    <2>3. QED
        BY <2>1, <2>2
<1>8. CASE Mkdir(p)
    BY <1>8 DEF Mkdir, Goto, Relies, ProcTypeOK
<1>9. CASE OpenDest(p) \/ CopyBytes(p)
    BY <1>9 DEF OpenDest, CopyBytes, Goto, Relies, ProcTypeOK, WriteSteps
<1>10. CASE ChmodApk(p)
    <2>1. pc[p] = "chmod" /\ mod[p] \in upperSys /\ upperSys' = upperSys /\ apk' = apk
        BY <1>10 DEF ChmodApk, Relies, WriteSteps, fsVars
    <2>2. CASE pc'[p] = "create"
        <3>1. /\ job[p].cmd = "overlayfs" /\ pos[p] = 2
              /\ mod'[p] = mod[p] /\ pos'[p] = 1
            BY <1>10, <2>2 DEF ChmodApk, Goto, ToolsEnd, Return, ProcTypeOK, Trees
        <3>2. Target(p) = <<"priv", mod[p], mod[p]>>
            BY <2>1, <3>1 DEF Local, Target, Trees
        <3>3. apk[<<"priv", mod[p], mod[p]>>] # Absent
            BY <1>10, <3>2 DEF ChmodApk
        <3>4. QED
            BY <2>1, <2>2, <3>1, <3>3 DEF Relies
    <2>3. CASE pc'[p] # "create"
        BY <1>1, <1>10, <2>1, <2>3 DEF ChmodApk, Goto, Relies, ProcTypeOK
    <2>4. QED
        BY <2>2, <2>3
<1>11. CASE CreateFile(p)
    <2>1. mod[p] \in Modules /\ pos[p] \in 1 .. 3
        BY <1>11, WorksOnModule DEF CreateFile, WriteSteps, Local
    <2>2. files'[<<mod[p], ModuleFiles[pos[p]]>>] # "absent"
        BY <1>11, <2>1 DEF CreateFile, StoreTypeOK, ModuleFiles, FileNames
    <2>3. \A k \in 1 .. 3 : k < pos[p] => files'[<<mod[p], ModuleFiles[k]>>] # "absent"
        <3>1. \A k \in 1 .. 3 : k < pos[p] => files[<<mod[p], ModuleFiles[k]>>] # "absent"
            BY <1>11 DEF CreateFile, Relies
        <3>2. \A k \in 1 .. 3 : <<mod[p], ModuleFiles[k]>> \in Modules \X FileNames
            BY <2>1 DEF ModuleFiles, FileNames
        <3>3. QED
            BY <3>1, <3>2, GrowsStep DEF Grows
    <2>4. QED
        BY <1>11, <2>2, <2>3 DEF CreateFile, Goto, Relies, ProcTypeOK, WriteSteps
<1>12. CASE FlushFile(p)
    <2>1. CASE pos[p] = Len(ModuleFiles)
        BY <1>1, <1>12, <2>1 DEF FlushFile
    <2>2. CASE pos[p] # Len(ModuleFiles)
        <3>1. /\ pc[p] = "flush" /\ pc'[p] = "create" /\ pos'[p] = pos[p] + 1
              /\ mod'[p] = mod[p] /\ upperSys' = upperSys /\ apk' = apk
            BY <1>12, <2>2 DEF FlushFile, Goto, ProcTypeOK
        <3>2. mod[p] \in Modules /\ pos[p] \in 1 .. 3
            BY <3>1, WorksOnModule DEF WriteSteps, Local
        <3>3. \A k \in 1 .. 3 : k <= pos[p] => files[<<mod[p], ModuleFiles[k]>>] # "absent"
            <4>1. \A k \in 1 .. 3 : k < pos[p] => files[<<mod[p], ModuleFiles[k]>>] # "absent"
                BY <3>1 DEF Relies
            <4>2. files[<<mod[p], ModuleFiles[pos[p]]>>] # "absent"
                BY <3>1 DEF Relies
            <4>3. \A k \in 1 .. 3 : k <= pos[p] => k < pos[p] \/ k = pos[p]
                BY <3>2
            <4>4. QED
                BY <4>1, <4>2, <4>3
        <3>4. \A k \in 1 .. 3 : k < pos[p] + 1 => files'[<<mod[p], ModuleFiles[k]>>] # "absent"
            BY <3>2, <3>3, GrowsStep DEF Grows, ModuleFiles, FileNames
        <3>5. QED
            BY <3>1, <3>4 DEF Relies, WriteSteps
    <2>3. QED
        BY <2>1, <2>2
<1>13. CASE StatApk(p) \/ RemoveDir(p)
    BY <1>1, <1>13 DEF StatApk, RemoveDir, Goto, Relies, ProcTypeOK, WriteSteps, fsVars
<1>14. CASE RemoveApk(p) \/ RemoveApkFails(p)
    BY <1>14 DEF RemoveApk, RemoveApkFails, Goto, Relies, ProcTypeOK, WriteSteps, fsVars
<1>15. QED
    BY <1>2, <1>3, <1>4, <1>5, <1>6, <1>7, <1>8, <1>9, <1>10, <1>11, <1>12, <1>13, <1>14
    DEF Step, Run

\* Only two steps touch the files of modules.
LEMMA FilesStay ==
    ASSUME NEW p \in Procs, Step(p), ~CreateFile(p), ~FlushFile(p)
    PROVE  UNCHANGED files
BY DEF Step, Run, fsVars, Invoke, InvokeRejected, AlreadyActive,
    CheckNotInstalled, ScanMiss, ScanHit, ScanEnd, Mkdir, MkdirFails, OpenDest,
    OpenNoDir, CopyBytes, ChmodApk, ChmodNoFile, StatApk, RemoveApk,
    RemoveApkFails, RemoveDir, ToolFails, Kill, Interrupt

\* Modules that overlayfs did not make are left alone.
LEMMA FlashedStep ==
    ASSUME IInv, NEW p \in Procs, Step(p)
    PROVE  Misreads \/ FlashedIntact'
<1> SUFFICES ASSUME ~Misreads PROVE FlashedIntact'
    OBVIOUS
<1>1. CASE CreateFile(p) \/ FlushFile(p)
    <2>1. pc[p] \in {"create", "flush"} /\ job[p].cmd = "overlayfs"
        BY <1>1 DEF CreateFile, FlushFile, IInv, Local
    <2>2. mod[p] \notin Flashed \cup Foreign
        BY <2>1 DEF IInv, Local, WriteSteps
    <2>3. \/ UNCHANGED files
          \/ \E f, state : files' = [files EXCEPT ![<<mod[p], f>>] = state]
        BY <1>1 DEF CreateFile, FlushFile
    <2>4. \A m \in Flashed \cup Foreign, f \in FileNames : files'[<<m, f>>] = files[<<m, f>>]
        BY <2>2, <2>3, ModulesAssumption DEF IInv, TypeOK, StoreTypeOK
    <2>5. ASSUME NEW m \in Flashed \cup Foreign, NEW f \in FileNames
          PROVE  files'[<<m, f>>] = IF m \in Flashed \/ f = "module.prop"
                                    THEN "written" ELSE "absent"
        <3>1. FlashedIntact
            BY DEF IInv
        <3>2. files'[<<m, f>>] = files[<<m, f>>]
            BY <2>4
        <3>3. files[<<m, f>>] = IF m \in Flashed \/ f = "module.prop"
                                THEN "written" ELSE "absent"
            BY <3>1 DEF FlashedIntact
        <3>4. QED
            BY <3>2, <3>3
    <2>6. QED
        BY <2>5 DEF FlashedIntact
<1>2. CASE ~CreateFile(p) /\ ~FlushFile(p)
    BY <1>2, FilesStay DEF FlashedIntact, IInv
<1>3. QED
    BY <1>1, <1>2

\* The order in which overlayfs builds a module is kept, by whichever step.
LEMMA OrderStep ==
    ASSUME IInv, NEW p \in Procs, Step(p)
    PROVE  CreationOrder' /\ PropMeansTree'
<1> DEFINE OrderOf(m) ==
        /\ files'[<<m, "service.sh">>] # "absent"
              => files'[<<m, "post-fs-data.sh">>] # "absent"
        /\ files'[<<m, "post-fs-data.sh">>] # "absent"
              => files'[<<m, "module.prop">>] # "absent"
        /\ files'[<<m, "module.prop">>] # "absent"
              => apk'[<<"priv", m, m>>] # Absent
<1> DEFINE TreeOf(m) == files'[<<m, "module.prop">>] # "absent" => m \in upperSys'
<1>1. Grows
    BY GrowsStep
<1>2. ASSUME NEW m \in Modules, \A f \in FileNames : files'[<<m, f>>] # "absent"
                                                      => files[<<m, f>>] # "absent"
      PROVE  /\ m \in Generated => OrderOf(m)
             /\ m \notin Foreign => TreeOf(m)
    <2>1. {<<m, "service.sh">>, <<m, "post-fs-data.sh">>, <<m, "module.prop">>}
            \subseteq Modules \X FileNames
        BY DEF FileNames
    <2>2. QED
        BY <1>1, <1>2, <2>1 DEF Grows, IInv, CreationOrder, PropMeansTree, FileNames
<1>3. CASE CreateFile(p)
    <2> DEFINE f == ModuleFiles[pos[p]]
    <2>1. /\ mod[p] \in Modules /\ pos[p] \in 1 .. 3 /\ pc[p] = "create"
          /\ files' = [files EXCEPT ![<<mod[p], f>>] = "empty"]
          /\ upperSys' = upperSys /\ apk' = apk
        BY <1>3, WorksOnModule DEF CreateFile, WriteSteps, IInv, Local
    <2>2. apk[<<"priv", mod[p], mod[p]>>] # Absent /\ mod[p] \in upperSys
        BY <2>1 DEF IInv, Relies, WriteSteps
    <2>3. \A k \in 1 .. 3 : k < pos[p] => files[<<mod[p], ModuleFiles[k]>>] # "absent"
        BY <2>1 DEF IInv, Relies
    <2>4. \/ f = "module.prop"
          \/ f = "post-fs-data.sh" /\ files[<<mod[p], "module.prop">>] # "absent"
          \/ /\ f = "service.sh" /\ files[<<mod[p], "module.prop">>] # "absent"
             /\ files[<<mod[p], "post-fs-data.sh">>] # "absent"
        <3>1. CASE pos[p] = 1
            BY <3>1 DEF ModuleFiles
        <3>2. CASE pos[p] = 2
            BY <2>3, <3>2 DEF ModuleFiles
        <3>3. CASE pos[p] = 3
            BY <2>3, <3>3 DEF ModuleFiles
        <3>4. QED
            BY <2>1, <3>1, <3>2, <3>3
    <2>5. \A m \in Modules, g \in FileNames :
              files'[<<m, g>>] = IF m = mod[p] /\ g = f THEN "empty" ELSE files[<<m, g>>]
        BY <2>1 DEF IInv, TypeOK, StoreTypeOK
    <2>6. ASSUME NEW m \in Modules
          PROVE  (m \in Generated => OrderOf(m)) /\ (m \notin Foreign => TreeOf(m))
        <3>1. CASE m = mod[p]
            BY <2>1, <2>2, <2>4, <2>5, <3>1 DEF IInv, CreationOrder, FileNames
        <3>2. CASE m # mod[p]
            BY <1>2, <2>5, <3>2
        <3>3. QED
            BY <3>1, <3>2
    <2>7. QED
        BY <2>6 DEF CreationOrder, PropMeansTree, Generated
<1>4. CASE FlushFile(p)
    <2>1. /\ mod[p] \in Modules /\ pos[p] \in 1 .. 3
          /\ files[<<mod[p], ModuleFiles[pos[p]]>>] # "absent"
        BY <1>4, WorksOnModule DEF FlushFile, WriteSteps, IInv, Local, Relies
    <2>2. \A m \in Modules, f \in FileNames : files'[<<m, f>>] # "absent"
                                                => files[<<m, f>>] # "absent"
        BY <1>4, <2>1 DEF FlushFile, IInv, TypeOK, StoreTypeOK
    <2>3. QED
        BY <1>2, <2>2 DEF CreationOrder, PropMeansTree, Generated
<1>5. CASE ~CreateFile(p) /\ ~FlushFile(p)
    <2>1. UNCHANGED files
        BY <1>5, FilesStay
    <2>2. QED
        BY <1>2, <2>1 DEF CreationOrder, PropMeansTree, Generated
<1>6. QED
    BY <1>3, <1>4, <1>5

-----------------------------------------------------------------------------
(* Theorems *)

LEMMA InitIInv == Init => IInv
<1> SUFFICES ASSUME Init PROVE IInv
    OBVIOUS
<1>1. TypeOK
    BY ModulesAssumption DEF Init, TypeOK, StoreTypeOK, ProcTypeOK, PCs
<1>2. \A p \in Procs : Local(p) /\ Relies(p)
    BY DEF Init, Local, Relies, WriteSteps
<1>3. CreationOrder /\ PropMeansTree /\ FlashedIntact
    BY ModulesAssumption DEF Init, CreationOrder, PropMeansTree, FlashedIntact, FileNames,
        Generated
<1>4. QED
    BY <1>1, <1>2, <1>3 DEF IInv

LEMMA NextIInv == IInv /\ [Next]_vars => IInv'
<1> SUFFICES ASSUME IInv, [Next]_vars PROVE IInv'
    OBVIOUS
<1>1. ASSUME NEW p \in Procs, Step(p) PROVE IInv'
    <2>1. TypeOK'
        BY <1>1, StoreTypeStep, ProcTypeStep DEF TypeOK
    <2>2. Local(p)' /\ Relies(p)'
        BY <1>1, LocalStep, ReliesStep
    <2>3. \A q \in Procs \ {p} : Local(q)' /\ Relies(q)'
        BY <1>1, OthersKeep
    <2>4. CreationOrder' /\ PropMeansTree'
        BY <1>1, OrderStep
    <2>5. Misreads \/ FlashedIntact'
        BY <1>1, FlashedStep
    <2>6. QED
        BY <2>1, <2>2, <2>3, <2>4, <2>5 DEF IInv
<1>2. CASE UNCHANGED vars
    <2>1. TypeOK'
        BY <1>2 DEF vars, fsVars, IInv, TypeOK, StoreTypeOK, ProcTypeOK
    <2>2. ASSUME NEW p \in Procs PROVE Local(p)'
        BY <1>2 DEF vars, IInv, Local, Copies
    <2>3. ASSUME NEW p \in Procs PROVE Relies(p)'
        BY <1>2 DEF vars, fsVars, IInv, Relies
    <2>4. CreationOrder' /\ PropMeansTree' /\ (Misreads \/ FlashedIntact')
        BY <1>2 DEF vars, fsVars, IInv, CreationOrder, PropMeansTree, FlashedIntact
    <2>5. QED
        BY <2>1, <2>2, <2>3, <2>4 DEF IInv
<1>3. QED
    BY <1>1, <1>2 DEF Next

\* The inductive invariant holds in every reachable state.
THEOREM Inductive == Spec => []IInv
BY InitIInv, NextIInv, PTL DEF Spec

\* Every variable keeps its type, with any number of commands at work.
THEOREM TypeCorrect == Spec => []TypeOK
<1>1. IInv => TypeOK
    BY DEF IInv
<1>2. QED
    BY <1>1, Inductive, PTL

\* No interleaving, failure or kill leaves a module with a later part of it but
\* not an earlier one (the order of the cp and write_file() calls in overlayfs).
THEOREM BuiltInOrder == Spec => []CreationOrder
<1>1. IInv => CreationOrder
    BY DEF IInv
<1>2. QED
    BY <1>1, Inductive, PTL

\* An overlay module overlayfs reports as active is one the other commands can
\* find, whatever looks at it failed before.
THEOREM ActiveFound == Spec => []ActiveIsDetected
<1>1. IInv => ActiveIsDetected
    BY DEF IInv, PropMeansTree, ActiveIsDetected, Installed
<1>2. QED
    BY <1>1, Inductive, PTL

\* A module that install or uninstall chose is still there when they write.
THEOREM ChosenStays == Spec => []ChosenModuleExists
<1>1. IInv => ChosenModuleExists
    BY DEF IInv, Relies, ChosenModuleExists
<1>2. QED
    BY <1>1, Inductive, PTL

\* A command run by anyone but root changes nothing in the store: the getuid()
\* check comes before the first write on every path through every command.
THEOREM RootOnly == Spec => OnlyRootWrites
<1>1. ASSUME IInv, NEW p \in Procs, Moved(p), pc[p] # "idle", ~job[p].root, [Next]_vars
      PROVE  UNCHANGED fsVars
    <2>1. CASE UNCHANGED vars
        BY <2>1 DEF vars, fsVars
    <2>2. ASSUME NEW q \in Procs, Step(q) PROVE UNCHANGED fsVars
        <3>1. q = p
            BY <1>1, <2>2, OthersStay DEF Moved
        <3>2. pc[p] \in {"check", "scan"}
            BY <1>1 DEF IInv, TypeOK, ProcTypeOK, PCs, Local, WriteSteps
        <3>3. QED
            BY <2>2, <3>1, <3>2 DEF Step, Run, Invoke, InvokeRejected, AlreadyActive,
                CheckNotInstalled, ScanMiss, ScanHit, ScanEnd, Mkdir, MkdirFails, OpenDest,
                OpenNoDir, CopyBytes, ChmodApk, ChmodNoFile, CreateFile, FlushFile, StatApk,
                RemoveApk, RemoveApkFails, RemoveDir, ToolFails, Kill, Interrupt, ToolSteps, fsVars
    <2>3. QED
        BY <1>1, <2>1, <2>2 DEF Next
<1>2. IInv /\ [Next]_vars =>
          [\A p \in Procs : Moved(p) /\ pc[p] # "idle" /\ ~job[p].root => UNCHANGED fsVars]_vars
    BY <1>1
<1>3. QED
    BY <1>2, Inductive, PTL DEF Spec, OnlyRootWrites

-----------------------------------------------------------------------------
(* Who has which APK file open *)

\* The hold of a process on the APK file it copies to: nobody else writes a
\* file held clean, and once the bytes are in it they are the process's own.
Hold(p) ==
    /\ pc[p] \notin {"copy", "chmod"} => wr[p] = "none"
    /\ pc[p] \in {"copy", "chmod"} => wr[p] # "none"
    /\ wr[p] \in {"clean", "shared"} => apk[Target(p)] # Absent
    /\ wr[p] = "clean" =>
          \A q \in Procs \ {p} : pc[q] = "copy" => ~Holds(q, Target(p))
    /\ wr[p] = "clean" /\ pc[p] = "chmod" => apk[Target(p)] = job[p].apk

\* An APK file is in its directory.
FilesInDirs == \A t \in Paths : apk[t] # Absent => t \in dirs

HInv == (\A p \in Procs : Hold(p)) /\ FilesInDirs

\* What a process that works on an APK file calls its target is a path.
LEMMA TargetIsPath ==
    ASSUME IInv, NEW p \in Procs,
           pc[p] \in {"open", "copy", "chmod", "stat", "rm", "rmdir", "rmdirAgain"}
    PROVE  Target(p) \in Paths
<1>1. mod[p] \in Modules
    BY WorksOnModule DEF WriteSteps
<1>2. job[p].name \in Apps
    BY JobsAssumption DEF IInv, Local, JobType
<1>3. pos[p] \in 1 .. 2
    BY DEF IInv, Local, Copies
<1>4. QED
    BY <1>1, <1>2, <1>3 DEF Target, Trees, Paths

\* A process that holds a file has a path for a target.
LEMMA HolderHasPath ==
    ASSUME IInv, HInv, NEW p \in Procs, wr[p] # "none"
    PROVE  pc[p] \in {"copy", "chmod"} /\ Target(p) \in Paths
BY TargetIsPath DEF HInv, Hold

\* A process that does not move has the target it had.
LEMMA SameTarget ==
    ASSUME IInv, NEW p \in Procs, Step(p), NEW q \in Procs \ {p}
    PROVE  Target(q)' = Target(q) /\ pc'[q] = pc[q] /\ job'[q] = job[q]
BY OthersStay DEF Target

\* What a step of another process must leave alone for a process to keep its hold.
LEMMA OthersHold ==
    ASSUME IInv, HInv, NEW p \in Procs, Step(p), NEW q \in Procs \ {p},
           wr'[q] = "none" <=> wr[q] = "none",
           \A r \in Procs \ {p} : /\ wr'[r] = "clean" => wr[r] = "clean"
                                  /\ wr'[r] = "shared" => wr[r] \in {"clean", "shared"},
           wr'[q] \in {"clean", "shared"} => apk'[Target(q)] # Absent,
           wr'[q] = "clean" => ~(pc'[p] = "copy" /\ Holds(p, Target(q))'),
           wr'[q] = "clean" /\ pc[q] = "chmod" => apk'[Target(q)] = apk[Target(q)]
    PROVE  Hold(q)'
<1>1. \A r \in Procs \ {p} : Target(r)' = Target(r) /\ pc'[r] = pc[r] /\ job'[r] = job[r]
    BY SameTarget
<1>2. Hold(q)
    BY DEF HInv
<1>3. \A r \in Procs \ {p} : Holds(r, Target(q))' => Holds(r, Target(q))
    BY <1>1 DEF Holds
<1>4. wr'[q] = "clean" =>
          \A r \in Procs \ {q} : pc'[r] = "copy" => ~Holds(r, Target(q))'
    BY <1>1, <1>2, <1>3 DEF Hold
<1>5. QED
    BY <1>1, <1>2, <1>4 DEF Hold

\* Most steps touch no APK file and leave the process without one.
LEMMA QuietHold ==
    ASSUME IInv, HInv, NEW p \in Procs, Step(p),
           UNCHANGED apk, dirs \subseteq dirs',
           pc'[p] \notin {"copy", "chmod"}, wr' = [wr EXCEPT ![p] = "none"]
    PROVE  HInv'
<1>1. /\ \A q \in Procs \ {p} : wr'[q] = wr[q]
      /\ wr'[p] = "none"
    BY DEF IInv, TypeOK, ProcTypeOK
<1>2. Hold(p)'
    BY <1>1 DEF Hold
<1>3. ASSUME NEW q \in Procs \ {p} PROVE Hold(q)'
    <2>1. Hold(q)
        BY DEF HInv
    <2>2. QED
        BY <1>1, <2>1, OthersHold DEF Hold
<1>4. FilesInDirs'
    BY DEF HInv, FilesInDirs
<1>5. QED
    BY <1>2, <1>3, <1>4 DEF HInv

\* A step that writes an APK file and lets go of it, or keeps it as it holds
\* it, finds no one else who holds that file clean.
LEMMA WritingHold ==
    ASSUME IInv, HInv, NEW p \in Procs, Step(p), pc[p] = "copy", wr[p] # "unlinked",
           NEW v \in Apks \cup {Torn}, apk' = [apk EXCEPT ![Target(p)] = v],
           UNCHANGED dirs, pc'[p] # "copy", \A q \in Procs \ {p} : wr'[q] = wr[q]
    PROVE  FilesInDirs' /\ \A q \in Procs \ {p} : Hold(q)'
<1>1. Target(p) \in Paths /\ Holds(p, Target(p)) /\ apk[Target(p)] # Absent
    BY TargetIsPath DEF HInv, Hold, Holds, IInv, TypeOK, ProcTypeOK
<1>2. ASSUME NEW q \in Procs \ {p} PROVE Hold(q)'
    <2>1. Hold(q)
        BY DEF HInv
    <2>2. wr[q] = "clean" => Target(q) # Target(p)
        BY <1>1, <2>1 DEF Hold
    <2>3. wr[q] # "none" => Target(q) \in Paths
        BY HolderHasPath
    <2>4. wr[q] # "none" =>
              apk'[Target(q)] = IF Target(q) = Target(p) THEN v ELSE apk[Target(q)]
        BY <2>3 DEF IInv, TypeOK, StoreTypeOK
    <2>5. wr[q] \in {"clean", "shared"} => apk'[Target(q)] # Absent
        BY <2>1, <2>4, ApksAssumption DEF Hold
    <2>6. wr[q] = "clean" => apk'[Target(q)] = apk[Target(q)]
        BY <2>2, <2>4
    <2>7. QED
        BY <2>5, <2>6, OthersHold
<1>3. FilesInDirs'
    BY <1>1 DEF HInv, FilesInDirs, IInv, TypeOK, StoreTypeOK
<1>4. QED
    BY <1>2, <1>3

\* A cp that stops half way.
LEMMA StopHold ==
    ASSUME IInv, HInv, NEW p \in Procs, Step(p), pc[p] = "copy", StopCopy(p),
           UNCHANGED dirs, pc'[p] = "idle", wr' = [wr EXCEPT ![p] = "none"]
    PROVE  HInv'
<1>1. CASE UNCHANGED apk
    BY <1>1, QuietHold
<1>2. CASE wr[p] # "unlinked" /\ apk' = [apk EXCEPT ![Target(p)] = Torn]
    <2>1. /\ \A q \in Procs \ {p} : wr'[q] = wr[q]
          /\ wr'[p] = "none"
        BY DEF IInv, TypeOK, ProcTypeOK
    <2>2. Hold(p)'
        BY <2>1 DEF Hold
    <2>3. FilesInDirs' /\ \A q \in Procs \ {p} : Hold(q)'
        BY <1>2, <2>1, WritingHold
    <2>4. QED
        BY <2>2, <2>3 DEF HInv
<1>3. QED
    BY <1>1, <1>2 DEF StopCopy

\* A cp that ends.
LEMMA CopyHold ==
    ASSUME IInv, HInv, NEW p \in Procs, CopyBytes(p)
    PROVE  HInv'
<1>1. /\ pc[p] = "copy" /\ pc'[p] = "chmod" /\ UNCHANGED <<dirs, job, mod, pos, wr>>
      /\ \/ wr[p] = "unlinked" /\ UNCHANGED apk
         \/ wr[p] # "unlinked" /\ apk' = [apk EXCEPT ![Target(p)] = job[p].apk]
         \/ wr[p] = "shared" /\ apk' = [apk EXCEPT ![Target(p)] = Torn]
    BY DEF CopyBytes, Goto, IInv, TypeOK, ProcTypeOK
<1>2. Step(p)
    BY DEF Step, Run
<1>3. job[p].apk \in Apks
    BY <1>1 DEF IInv, Local
<1>4. Target(p) \in Paths /\ Target(p)' = Target(p)
    BY <1>1, TargetIsPath DEF Target
<1>5. Hold(p) /\ wr[p] \in {"clean", "shared", "unlinked"}
    BY <1>1 DEF HInv, Hold, IInv, TypeOK, ProcTypeOK
<1>6. CASE wr[p] = "unlinked" /\ UNCHANGED apk
    <2>1. Hold(p)'
        BY <1>1, <1>6 DEF Hold
    <2>2. ASSUME NEW q \in Procs \ {p} PROVE Hold(q)'
        <3>1. Hold(q)
            BY DEF HInv
        <3>2. QED
            BY <1>1, <1>2, <1>6, <3>1, OthersHold DEF Hold
    <2>3. FilesInDirs'
        BY <1>1, <1>6 DEF HInv, FilesInDirs
    <2>4. QED
        BY <2>1, <2>2, <2>3 DEF HInv
<1>7. ASSUME wr[p] # "unlinked", NEW v \in Apks \cup {Torn},
             apk' = [apk EXCEPT ![Target(p)] = v], v = job[p].apk \/ wr[p] = "shared"
      PROVE  HInv'
    <2>1. apk'[Target(p)] = v
        BY <1>4, <1>7 DEF IInv, TypeOK, StoreTypeOK
    <2>2. wr[p] = "clean" =>
              \A q \in Procs \ {p} : pc'[q] = "copy" => ~Holds(q, Target(p))'
        <3>1. \A q \in Procs \ {p} : Target(q)' = Target(q) /\ pc'[q] = pc[q]
            BY <1>2, SameTarget
        <3>2. QED
            BY <1>1, <1>4, <1>5, <3>1 DEF Hold, Holds
    <2>3. Hold(p)'
        BY <1>1, <1>4, <1>5, <1>7, <2>1, <2>2, ApksAssumption DEF Hold
    <2>4. FilesInDirs' /\ \A q \in Procs \ {p} : Hold(q)'
        BY <1>1, <1>2, <1>7, WritingHold
    <2>5. QED
        BY <2>3, <2>4 DEF HInv
<1>8. QED
    BY <1>1, <1>3, <1>5, <1>6, <1>7

\* A cp that opens its file makes every other holder share it.
LEMMA OpenHold ==
    ASSUME IInv, HInv, NEW p \in Procs, OpenDest(p)
    PROVE  HInv'
<1> DEFINE t == Target(p)
<1>1. /\ pc[p] = "open" /\ pc'[p] = "copy" /\ t \in dirs
      /\ UNCHANGED <<dirs, job, mod, pos>>
      /\ apk' = [apk EXCEPT ![t] = Torn]
    BY DEF OpenDest, Goto, IInv, TypeOK, ProcTypeOK
<1>2. Step(p)
    BY DEF Step, Run
<1>3. t \in Paths /\ Target(p)' = t
    BY <1>1, TargetIsPath DEF Target
<1>4. \A q \in Procs \ {p} : wr'[q] = IF Holds(q, t) THEN "shared" ELSE wr[q]
    BY DEF OpenDest
<1>5. /\ wr'[p] \in {"clean", "shared"}
      /\ wr'[p] = "clean" => \A q \in Procs \ {p} : pc[q] = "copy" => ~Holds(q, t)
    BY DEF OpenDest
<1>6. apk'[t] = Torn /\ \A u \in Paths \ {t} : apk'[u] = apk[u]
    BY <1>1, <1>3 DEF IInv, TypeOK, StoreTypeOK
<1>7. \A q \in Procs \ {p} : Target(q)' = Target(q) /\ pc'[q] = pc[q] /\ job'[q] = job[q]
    BY <1>2, SameTarget
<1>8. Hold(p)'
    <2>1. wr'[p] = "clean" =>
              \A q \in Procs \ {p} : pc'[q] = "copy" => ~Holds(q, t)'
        BY <1>1, <1>3, <1>4, <1>5, <1>7 DEF Holds
    <2>2. QED
        BY <1>1, <1>3, <1>5, <1>6, <2>1, ApksAssumption DEF Hold
<1>9. ASSUME NEW q \in Procs \ {p} PROVE Hold(q)'
    <2>1. Hold(q)
        BY DEF HInv
    <2>2. wr[q] # "none" => Target(q) \in Paths
        BY HolderHasPath
    <2>3. wr'[q] = "clean" => wr[q] = "clean" /\ Target(q) # t
        BY <1>4 DEF Holds
    <2>4. wr'[q] = "none" <=> wr[q] = "none"
        BY <1>4 DEF Holds
    <2>5. \A r \in Procs \ {p} : /\ wr'[r] = "clean" => wr[r] = "clean"
                                 /\ wr'[r] = "shared" => wr[r] \in {"clean", "shared"}
        BY <1>4 DEF Holds
    <2>6. wr'[q] \in {"clean", "shared"} => apk'[Target(q)] # Absent
        BY <1>6, <2>1, <2>2, <2>5, ApksAssumption DEF Hold
    <2>7. wr'[q] = "clean" => ~Holds(p, Target(q))'
        BY <1>3, <1>7, <2>3 DEF Holds
    <2>8. wr'[q] = "clean" => apk'[Target(q)] = apk[Target(q)]
        BY <1>6, <2>2, <2>3
    <2>9. QED
        BY <1>2, <2>4, <2>5, <2>6, <2>7, <2>8, OthersHold
<1>10. FilesInDirs'
    BY <1>1, <1>6 DEF HInv, FilesInDirs
<1>11. QED
    BY <1>8, <1>9, <1>10 DEF HInv

\* rm takes the file from under everyone who holds it.
LEMMA RemoveHold ==
    ASSUME IInv, HInv, NEW p \in Procs, RemoveApk(p)
    PROVE  HInv'
<1> DEFINE t == Target(p)
<1>1. /\ pc[p] = "rm" /\ pc'[p] = "rmdir" /\ UNCHANGED dirs
      /\ apk' = [apk EXCEPT ![t] = Absent]
      /\ \A q \in Procs : wr'[q] = IF Holds(q, t) THEN "unlinked" ELSE wr[q]
    BY DEF RemoveApk, Goto, IInv, TypeOK, ProcTypeOK
<1>2. Step(p)
    BY DEF Step, Run
<1>3. t \in Paths
    BY <1>1, TargetIsPath
<1>4. \A u \in Paths \ {t} : apk'[u] = apk[u]
    BY <1>1, <1>3 DEF IInv, TypeOK, StoreTypeOK
<1>5. Hold(p)'
    BY <1>1 DEF HInv, Hold, Holds
<1>6. ASSUME NEW q \in Procs \ {p} PROVE Hold(q)'
    <2>1. Hold(q)
        BY DEF HInv
    <2>2. wr[q] # "none" => Target(q) \in Paths
        BY HolderHasPath
    <2>3. wr'[q] \in {"clean", "shared"} => wr[q] = wr'[q] /\ Target(q) # t
        BY <1>1 DEF Holds
    <2>4. wr'[q] = "none" <=> wr[q] = "none"
        BY <1>1 DEF Holds
    <2>5. \A r \in Procs \ {p} : /\ wr'[r] = "clean" => wr[r] = "clean"
                                 /\ wr'[r] = "shared" => wr[r] \in {"clean", "shared"}
        BY <1>1 DEF Holds
    <2>6. wr'[q] \in {"clean", "shared"} => apk'[Target(q)] = apk[Target(q)]
        BY <1>4, <2>2, <2>3
    <2>7. QED
        BY <1>1, <1>2, <2>1, <2>3, <2>4, <2>5, <2>6, OthersHold DEF Hold
<1>7. FilesInDirs'
    BY <1>1, <1>3, <1>4 DEF HInv, FilesInDirs, IInv, TypeOK, StoreTypeOK
<1>8. QED
    BY <1>5, <1>6, <1>7 DEF HInv

\* rmdir takes a directory only when its file is gone.
LEMMA RemoveDirHold ==
    ASSUME IInv, HInv, NEW p \in Procs, RemoveDir(p)
    PROVE  HInv'
<1>1. /\ UNCHANGED apk /\ pc[p] \in {"rmdir", "rmdirAgain"}
      /\ pc'[p] \notin {"copy", "chmod"}
      /\ dirs' = IF apk[Target(p)] = Absent THEN dirs \ {Target(p)} ELSE dirs
    BY DEF RemoveDir, Goto, ToolsEnd, Return, IInv, TypeOK, ProcTypeOK
<1>2. Step(p)
    BY DEF Step, Run
<1>3. \A q \in Procs : wr'[q] = wr[q]
    BY <1>1 DEF RemoveDir, ToolsEnd, Return, HInv, Hold, IInv, TypeOK, ProcTypeOK
<1>4. Hold(p)'
    BY <1>1, <1>3 DEF HInv, Hold
<1>5. ASSUME NEW q \in Procs \ {p} PROVE Hold(q)'
    <2>1. Hold(q)
        BY DEF HInv
    <2>2. QED
        BY <1>1, <1>2, <1>3, <2>1, OthersHold DEF Hold
<1>6. FilesInDirs'
    BY <1>1 DEF HInv, FilesInDirs
<1>7. QED
    BY <1>4, <1>5, <1>6 DEF HInv

\* Every step keeps the holds.
LEMMA HoldStep ==
    ASSUME IInv, HInv, NEW p \in Procs, Step(p)
    PROVE  HInv'
<1> DEFINE Quiet == /\ UNCHANGED apk /\ dirs \subseteq dirs'
                    /\ pc'[p] \notin {"copy", "chmod"}
                    /\ wr' = [wr EXCEPT ![p] = "none"]
<1>1. pc[p] \notin {"copy", "chmod"} => wr = [wr EXCEPT ![p] = "none"]
    BY DEF HInv, Hold, IInv, TypeOK, ProcTypeOK
<1>2. Quiet => HInv'
    BY QuietHold
<1> USE DEF IInv, TypeOK, ProcTypeOK
<1>3. ASSUME NEW j \in Jobs, Invoke(p, j) \/ InvokeRejected(p, j) PROVE Quiet
    BY <1>1, <1>3 DEF Invoke, InvokeRejected, fsVars
<1>4. CASE AlreadyActive(p) \/ CheckNotInstalled(p) \/ ScanMiss(p) \/ ScanEnd(p)
    <2>1. Quiet
        BY <1>1, <1>4 DEF AlreadyActive, CheckNotInstalled, ScanMiss, ScanEnd, Goto, Return, fsVars
    <2>2. QED
        BY <1>2, <2>1
<1>5. CASE ScanHit(p)
    <2>1. Quiet
        BY <1>1, <1>5 DEF ScanHit, Goto, Return, fsVars
    <2>2. QED
        BY <1>2, <2>1
<1>6. CASE Mkdir(p) \/ MkdirFails(p)
    <2>1. Quiet
        BY <1>1, <1>6 DEF Mkdir, MkdirFails, StopMkdir, Goto, ToolsEnd, Return
    <2>2. QED
        BY <1>2, <2>1
<1>7. CASE OpenNoDir(p) \/ ChmodApk(p) \/ ChmodNoFile(p)
    <2>1. Quiet
        BY <1>1, <1>7 DEF OpenNoDir, ChmodApk, ChmodNoFile, Goto, ToolsEnd, Return, fsVars
    <2>2. QED
        BY <1>2, <2>1
<1>8. CASE CreateFile(p) \/ FlushFile(p) \/ StatApk(p) \/ RemoveApkFails(p)
    <2>1. Quiet
        BY <1>1, <1>8 DEF CreateFile, FlushFile, StatApk, RemoveApkFails, Goto, Return, fsVars
    <2>2. QED
        BY <1>2, <2>1
<1>9. CASE ToolFails(p) \/ Interrupt(p)
    <2>1. CASE pc[p] = "copy"
        <3>1. /\ StopCopy(p) /\ UNCHANGED dirs /\ pc'[p] = "idle"
              /\ wr' = [wr EXCEPT ![p] = "none"]
            BY <1>9, <2>1 DEF ToolFails, Interrupt, ToolsEnd, Return
        <3>2. QED
            BY <2>1, <3>1, StopHold
    <2>2. CASE pc[p] # "copy"
        <3>1. Quiet
            BY <1>9, <2>2 DEF ToolFails, Interrupt, StopMkdir, ToolsEnd, Return
        <3>2. QED
            BY <1>2, <3>1
    <2>3. QED
        BY <2>1, <2>2
<1>10. CASE Kill(p)
    <2>1. CASE pc[p] \in ToolSteps
        BY <1>10, <2>1 DEF Kill, fsVars, HInv, Hold, Holds, Target, FilesInDirs
    <2>2. CASE pc[p] \notin ToolSteps
        <3>1. Quiet
            BY <1>1, <1>10, <2>2 DEF Kill, Return, fsVars, ToolSteps
        <3>2. QED
            BY <1>2, <3>1
    <2>3. QED
        BY <2>1, <2>2
<1>11. QED
    BY <1>2, <1>3, <1>4, <1>5, <1>6, <1>7, <1>8, <1>9, <1>10, CopyHold, OpenHold, RemoveHold,
       RemoveDirHold
    DEF Step, Run

\* Holds are kept, and files stay in directories, in every reachable state.
LEMMA HoldsKept == Spec => []HInv
<1>1. Init => HInv
    BY DEF Init, HInv, Hold, FilesInDirs
<1>2. IInv /\ HInv /\ [Next]_vars => HInv'
    <2>1. ASSUME IInv, HInv, UNCHANGED vars PROVE HInv'
        BY <2>1 DEF vars, fsVars, HInv, Hold, Holds, Target, FilesInDirs
    <2>2. QED
        BY <2>1, HoldStep DEF Next
<1>3. QED
    BY <1>1, <1>2, Inductive, PTL DEF Spec

\* An install that reports success, and whose file no other process opened or
\* removed since its own cp opened it, has left its APK and nothing else, below
\* a directory and a module that are there; whatever the others do elsewhere,
\* and whoever fails or is killed (cmd_install.cpp, run()).
THEOREM InstallTruthful == Spec => InstallReturnsTruth
<1>1. ASSUME IInv, HInv, NEW p \in Procs, Returns(p, "ok"), job[p].cmd = "install",
             wr[p] = "clean", [Next]_vars
      PROVE  /\ apk'[Target(p)] = job[p].apk
             /\ Target(p) \in dirs'
             /\ mod[p] \in upperSys'
    <2>1. PICK q \in Procs : Step(q)
        BY <1>1 DEF Next, vars, Returns
    <2>2. q = p
        BY <1>1, <2>1, OthersStay DEF Returns
    <2>3. pc[p] \in {"copy", "chmod"}
        BY <1>1 DEF HInv, Hold
    <2>4. /\ pc'[p] = "idle" /\ out'[p] = "ok" /\ pc \in [Procs -> PCs]
          /\ out \in [Procs -> {"none", "ok", "fail", "killed"}]
        BY <1>1 DEF Returns, IInv, TypeOK, ProcTypeOK
    <2>5. ~ToolFails(p) /\ ~Kill(p) /\ ~Interrupt(p) /\ ~ChmodNoFile(p)
        BY <1>1, <2>4 DEF ToolFails, Kill, Interrupt, ChmodNoFile, ToolsEnd, Return, Returns
    <2>6. ~CopyBytes(p)
        BY <2>4 DEF CopyBytes, Goto
    <2>7. ChmodApk(p)
        <3>1. \A j \in Jobs : ~Invoke(p, j) /\ ~InvokeRejected(p, j)
            BY <2>3 DEF Invoke, InvokeRejected
        <3>2. /\ ~AlreadyActive(p) /\ ~CheckNotInstalled(p)
              /\ ~ScanMiss(p) /\ ~ScanHit(p) /\ ~ScanEnd(p)
            BY <2>3 DEF AlreadyActive, CheckNotInstalled, ScanMiss, ScanHit, ScanEnd
        <3>3. ~Mkdir(p) /\ ~MkdirFails(p) /\ ~OpenDest(p) /\ ~OpenNoDir(p)
            BY <2>3 DEF Mkdir, MkdirFails, OpenDest, OpenNoDir
        <3>4. ~CreateFile(p) /\ ~FlushFile(p) /\ ~StatApk(p)
            BY <2>3 DEF CreateFile, FlushFile, StatApk
        <3>5. ~RemoveApk(p) /\ ~RemoveApkFails(p) /\ ~RemoveDir(p)
            BY <2>3 DEF RemoveApk, RemoveApkFails, RemoveDir
        <3>6. QED
            BY <2>1, <2>2, <2>5, <2>6, <3>1, <3>2, <3>3, <3>4, <3>5 DEF Step, Run
    <2>8. pc[p] = "chmod" /\ apk[Target(p)] # Absent /\ UNCHANGED fsVars
        BY <2>7 DEF ChmodApk
    <2>9. apk[Target(p)] = job[p].apk /\ Target(p) \in dirs
        BY <1>1, <2>8, TargetIsPath DEF HInv, Hold, FilesInDirs
    <2>10. mod[p] \in upperSys
        BY <1>1, <2>8 DEF IInv, Relies, WriteSteps
    <2>11. QED
        BY <2>8, <2>9, <2>10 DEF fsVars
<1>2. IInv /\ HInv /\ [Next]_vars =>
          [\A p \in Procs :
              Returns(p, "ok") /\ job[p].cmd = "install" /\ wr[p] = "clean"
                 => /\ apk'[Target(p)] = job[p].apk
                    /\ Target(p) \in dirs'
                    /\ mod[p] \in upperSys']_vars
    BY <1>1
<1>3. QED
    BY <1>2, Inductive, HoldsKept, PTL DEF Spec, InstallReturnsTruth

-----------------------------------------------------------------------------
(* Commands that are neither killed nor failing *)

\* Somebody is about to write the k-th file of module m, or one before it.
WillWrite(m, k) ==
    \E p \in Procs : pc[p] \in {"create", "flush"} /\ mod[p] = m /\ pos[p] <= k

\* Once an overlay module has one of its files, every other is there or on its
\* way.
FilesFollow ==
    \A m \in Modules \ Foreign :
        (\E f \in FileNames : files[<<m, f>>] # "absent") =>
            \A k \in 1 .. 3 : files[<<m, ModuleFiles[k]>>] = "written" \/ WillWrite(m, k)

\* A command that is writing the files has no step but the next of them.
LEMMA WritesOn ==
    ASSUME IInv, ~Faults, ~Kills, NEW p \in Procs, Step(p), pc[p] \in {"create", "flush"}
    PROVE  CreateFile(p) \/ FlushFile(p)
<1>1. \A j \in Jobs : ~Invoke(p, j) /\ ~InvokeRejected(p, j)
    BY DEF Invoke, InvokeRejected
<1>2. /\ ~AlreadyActive(p) /\ ~CheckNotInstalled(p)
      /\ ~ScanMiss(p) /\ ~ScanHit(p) /\ ~ScanEnd(p)
    BY DEF AlreadyActive, CheckNotInstalled, ScanMiss, ScanHit, ScanEnd
<1>3. ~Mkdir(p) /\ ~MkdirFails(p) /\ ~OpenDest(p) /\ ~OpenNoDir(p) /\ ~CopyBytes(p)
    BY DEF Mkdir, MkdirFails, OpenDest, OpenNoDir, CopyBytes
<1>4. ~ChmodApk(p) /\ ~ChmodNoFile(p) /\ ~StatApk(p)
    BY DEF ChmodApk, ChmodNoFile, StatApk
<1>5. ~RemoveApk(p) /\ ~RemoveApkFails(p) /\ ~RemoveDir(p) /\ ~ToolFails(p)
    BY DEF RemoveApk, RemoveApkFails, RemoveDir, ToolFails
<1>6. ~Kill(p) /\ ~Interrupt(p)
    BY DEF Kill, Interrupt
<1>7. QED
    BY <1>1, <1>2, <1>3, <1>4, <1>5, <1>6 DEF Step, Run

LEMMA FilesFollowStep ==
    ASSUME IInv, FilesFollow, ~Faults, ~Kills, NEW p \in Procs, Step(p)
    PROVE  FilesFollow'
<1>1. \A q \in Procs \ {p} : pc'[q] = pc[q] /\ mod'[q] = mod[q] /\ pos'[q] = pos[q]
    BY OthersStay
<1>2. CASE ~CreateFile(p) /\ ~FlushFile(p)
    <2>1. UNCHANGED files
        BY <1>2, FilesStay
    <2>2. pc[p] \notin {"create", "flush"}
        BY <1>2, WritesOn
    <2>3. \A m \in Modules, k \in 1 .. 3 : WillWrite(m, k) => WillWrite(m, k)'
        BY <1>1, <2>2 DEF WillWrite
    <2>4. QED
        BY <2>1, <2>3 DEF FilesFollow
<1>3. CASE CreateFile(p) \/ FlushFile(p)
    <2>1. /\ mod[p] \in Modules /\ pos[p] \in 1 .. 3
          /\ pc[p] \in {"create", "flush"}
        BY <1>3, WorksOnModule DEF CreateFile, FlushFile, WriteSteps, IInv, Local
    \* what the step makes of the module's files, and who goes on
    <2>2. \E state \in {"empty", "written"} :
             /\ files' = [files EXCEPT ![<<mod[p], ModuleFiles[pos[p]]>>] = state]
             /\ state = "empty" => pc'[p] = "flush" /\ pos'[p] = pos[p] /\ mod'[p] = mod[p]
             /\ state = "written" => \/ pos[p] = 3
                                     \/ /\ pc'[p] = "create" /\ mod'[p] = mod[p]
                                        /\ pos'[p] = pos[p] + 1
        <3>1. CASE CreateFile(p)
            BY <3>1 DEF CreateFile, Goto, IInv, TypeOK, ProcTypeOK
        <3>2. CASE FlushFile(p)
            BY <3>2 DEF FlushFile, Goto, IInv, TypeOK, ProcTypeOK, ModuleFiles
        <3>3. QED
            BY <1>3, <3>1, <3>2
    <2>3. \A m \in Modules, f \in FileNames :
              (m # mod[p] \/ f # ModuleFiles[pos[p]]) => files'[<<m, f>>] = files[<<m, f>>]
        BY <2>2 DEF IInv, TypeOK, StoreTypeOK
    <2>4. ASSUME NEW m \in Modules \ Foreign, NEW f \in FileNames, files'[<<m, f>>] # "absent",
                 NEW k \in 1 .. 3
          PROVE  files'[<<m, ModuleFiles[k]>>] = "written" \/ WillWrite(m, k)'
        <3>1. CASE m # mod[p]
            <4>1. files[<<m, ModuleFiles[k]>>] = "written" \/ WillWrite(m, k)
                BY <2>3, <2>4, <3>1 DEF FilesFollow
            <4>2. WillWrite(m, k) => WillWrite(m, k)'
                BY <1>1, <3>1 DEF WillWrite
            <4>3. files'[<<m, ModuleFiles[k]>>] = files[<<m, ModuleFiles[k]>>]
                <5>1. ModuleFiles[k] \in FileNames
                    BY DEF ModuleFiles, FileNames
                <5>2. QED
                    BY <2>3, <3>1, <5>1
            <4>4. QED
                BY <4>1, <4>2, <4>3
        <3>2. CASE m = mod[p] /\ k < pos[p]
            <4>1. files[<<m, ModuleFiles[k]>>] # "absent"
                BY <2>1, <3>2 DEF IInv, Relies
            <4>2. ModuleFiles[k] \in FileNames /\ ModuleFiles[k] # ModuleFiles[pos[p]]
                BY <2>1, <3>2 DEF ModuleFiles, FileNames
            <4>3. files[<<m, ModuleFiles[k]>>] = "written" \/ WillWrite(m, k)
                BY <4>1, <4>2 DEF FilesFollow
            <4>4. WillWrite(m, k) => WillWrite(m, k)'
                BY <1>1, <2>1, <3>2 DEF WillWrite
            <4>5. QED
                BY <2>3, <4>2, <4>3, <4>4
        <3>3. CASE m = mod[p] /\ k = pos[p]
            <4>1. <<m, ModuleFiles[k]>> \in Modules \X FileNames
                BY DEF ModuleFiles, FileNames
            <4>2. \/ files'[<<m, ModuleFiles[k]>>] = "written"
                  \/ pc'[p] = "flush" /\ pos'[p] = pos[p] /\ mod'[p] = mod[p]
                BY <2>2, <3>3, <4>1 DEF IInv, TypeOK, StoreTypeOK
            <4>3. QED
                BY <2>1, <3>3, <4>2 DEF WillWrite
        <3>4. CASE m = mod[p] /\ k > pos[p]
            <4>1. /\ pc'[p] \in {"create", "flush"} /\ mod'[p] = mod[p]
                  /\ pos'[p] \in {pos[p], pos[p] + 1}
                BY <2>1, <2>2, <3>4
            <4>2. pos'[p] <= k
                BY <2>1, <3>4, <4>1
            <4>3. QED
                BY <3>4, <4>1, <4>2 DEF WillWrite
        <3>5. QED
            BY <2>1, <3>1, <3>2, <3>3, <3>4
    <2>5. QED
        BY <2>4 DEF FilesFollow
<1>4. QED
    BY <1>2, <1>3

\* With no kill and no I/O error, whichever commands race on it, a module that
\* overlayfs calls active and that no overlayfs is writing has both boot
\* scripts (the three write_file() calls come in one go, module.prop first; a
\* kill between them is what the model checker finds to break this).
THEOREM CompleteUnlessInterrupted ==
    ASSUME ~Faults, ~Kills
    PROVE  Spec => []ActiveMeansComplete
<1>1. Init => FilesFollow
    BY ModulesAssumption DEF Init, FilesFollow, FileNames, ModuleFiles
<1>2. IInv /\ FilesFollow /\ [Next]_vars => FilesFollow'
    <2>1. ASSUME FilesFollow, UNCHANGED vars PROVE FilesFollow'
        <3>1. \A m \in Modules, k \in 1 .. 3 : WillWrite(m, k) => WillWrite(m, k)'
            BY <2>1 DEF vars, WillWrite
        <3>2. QED
            BY <2>1, <3>1 DEF vars, FilesFollow
    <2>2. QED
        BY <2>1, FilesFollowStep DEF Next
<1>3. IInv /\ FilesFollow => ActiveMeansComplete
    <2>1. ASSUME IInv, FilesFollow, NEW m \in Modules \ Foreign, Installed(m), ~Building(m),
                 NEW f \in FileNames
          PROVE  files[<<m, f>>] = "written"
        <3>1. PICK k \in 1 .. 3 : f = ModuleFiles[k]
            BY DEF FileNames, ModuleFiles
        <3>2. files[<<m, f>>] = "written" \/ WillWrite(m, k)
            BY <2>1, <3>1 DEF FilesFollow, Installed, FileNames
        <3>3. ~WillWrite(m, k)
            BY <2>1 DEF WillWrite, Building, IInv, Local
        <3>4. QED
            BY <3>2, <3>3
    <2>2. QED
        BY <2>1 DEF ActiveMeansComplete
<1>4. QED
    BY <1>1, <1>2, <1>3, Inductive, PTL DEF Spec

=============================================================================
