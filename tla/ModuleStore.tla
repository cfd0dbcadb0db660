----------------------------- MODULE ModuleStore -----------------------------
(***************************************************************************)
(* The module store of systemapp: the directory /data/adb/modules and the  *)
(* command processes that read and write it.                               *)
(*                                                                         *)
(*   overlayfs  creates a Magisk module (src/commands/cmd_overlayfs.cpp)   *)
(*   install    adds an APK to a module (src/commands/cmd_install.cpp)     *)
(*   uninstall  removes an APK from it  (src/commands/cmd_uninstall.cpp)   *)
(*   info       reports the module      (src/commands/cmd_info.cpp)        *)
(*                                                                         *)
(* Each process is a terminal that runs one command after another.  A step *)
(* is one system call, shell command or file operation whose effect another *)
(* process, a kill or an I/O error can separate from the next; no command  *)
(* takes a lock.                                                           *)
(*                                                                         *)
(* The shell commands run under system(), in processes of their own.  When  *)
(* only the command is killed they go on without it, and its terminal has   *)
(* its prompt back: the process is then the orphan they are, and another    *)
(* member of Procs is what the terminal runs next.                          *)
(***************************************************************************)
EXTENDS Naturals, Sequences

CONSTANTS
    Procs,      \* the processes: commands, and shells that outlived one
    Modules,    \* the module names in play, directories of /data/adb/modules
    Apps,       \* the application names; a module's own app has its name
    Apks,       \* the contents of the APK files named on command lines
    Flashed,    \* those of them that were flashed from the overlay zip
    Foreign,    \* other Magisk modules, systemapp's own module among them
    ScanOrder,  \* Modules in the order readdir() lists them
    Jobs,       \* the command lines users type
    Faults,     \* may a tool or a write fail (disk full, I/O error)?
    Misreads,   \* may a look at a module fail (stat, open, readdir)?
    Kills,      \* may a running command be killed?
    NoApk,      \* a command line without an APK that is a regular file
    NoModule,   \* the empty module path of a scan that found nothing
    NoJob,      \* the job of a terminal at its prompt
    Absent,     \* an APK file that does not exist
    Torn        \* an APK file that is not a copy of any one source

Cmds == {"overlayfs", "install", "uninstall", "info"}

\* A parsed command line, and whether the user is root.
JobType == [cmd : Cmds, name : Apps, apk : Apks \cup {NoApk}, root : BOOLEAN]

ASSUME ModulesAssumption ==
    /\ Modules \subseteq Apps /\ NoModule \notin Modules
    /\ Flashed \subseteq Modules /\ Foreign \subseteq Modules
    /\ Flashed \cap Foreign = {}

ASSUME ScanOrderAssumption ==
    /\ ScanOrder \in Seq(Modules)
    /\ \A m \in Modules : \E i \in 1 .. Len(ScanOrder) : ScanOrder[i] = m

ASSUME JobsAssumption ==
    /\ Jobs \subseteq JobType
    /\ \A j \in Jobs : j.cmd = "overlayfs" => j.name \in Modules
    /\ NoJob \notin Jobs

ASSUME ApksAssumption ==
    /\ Absent \notin Apks /\ Torn \notin Apks /\ NoApk \notin Apks
    /\ Absent # Torn

ASSUME SwitchesAssumption == {Faults, Misreads, Kills} \subseteq BOOLEAN

VARIABLES
    upperSys,   \* modules whose overlay/upper/system directory exists
    dirs,       \* the APK directories that exist
    apk,        \* the APK file in each of them
    files,      \* module.prop and the two boot scripts of each module
    pc,         \* where each process is in its command
    job,        \* the command line it runs
    mod,        \* the module it works on
    pos,        \* its position in the loop or list it is going through
    wr,         \* its hold on the APK file it is copying to
    out         \* its exit code, "killed" as soon as it will have none

fsVars   == <<upperSys, dirs, apk, files>>
procVars == <<pc, job, mod, pos, wr, out>>
vars     == <<upperSys, dirs, apk, files, pc, job, mod, pos, wr, out>>

-----------------------------------------------------------------------------
(* Where things are *)

\* An APK lives in <module>/overlay/upper/system/priv-app/<app>/<app>.apk
\* (tree "upper") and, the module's own app only, in
\* <module>/system/priv-app/<module>/<module>.apk (tree "priv").
Paths == {"upper", "priv"} \X Modules \X Apps

\* The order in which overlayfs makes its two copies.
Trees == <<"upper", "priv">>

\* Mutants of ModuleFiles: the scripts come first; the unmount script is forgotten.
ScriptsFirst == <<"service.sh", "post-fs-data.sh", "module.prop">>
WithoutService == <<"module.prop", "post-fs-data.sh">>

\* The order in which overlayfs writes the files that make the module.
ModuleFiles == <<"module.prop", "post-fs-data.sh", "service.sh">>

FileNames == {"module.prop", "post-fs-data.sh", "service.sh"}

Copies(p) == IF job[p].cmd = "overlayfs" THEN 1 .. 2 ELSE 1 .. 1

\* The APK file p is working on, and the directories its mkdir -p makes.
Target(p)  == <<Trees[pos[p]], mod[p], job[p].name>>
NewDirs(p) == {<<Trees[i], mod[p], job[p].name>> : i \in Copies(p)}

\* The modules that only overlayfs can make.
Generated == Modules \ (Flashed \cup Foreign)

\* Mutant of Installed: the id of module.prop is compared with another name.
NeverInstalled(m) == FALSE

\* is_overlay_module_installed(): module.prop exists and holds its id line.
Installed(m) == files[<<m, "module.prop">>] = "written"

\* Mutant of NeedsApk: install does not look whether the file is there.
OnlyOverlayfsNeedsApk(j) == j.cmd = "overlayfs"

\* The commands that go on only with an APK that is a regular file.
NeedsApk(j) == j.cmd \in {"overlayfs", "install"}

\* Mutant of IsRoot: uninstall does not ask.
IsRootOrUninstalls(p) == job[p].root \/ job[p].cmd = "uninstall"

\* getuid() == 0
IsRoot(p) == job[p].root

\* q has the file at path t open, or has written it and not yet returned.
Holds(q, t) == wr[q] \in {"clean", "shared"} /\ Target(q) = t

-----------------------------------------------------------------------------
(* Process bookkeeping *)

Goto(p, step) ==
    /\ pc' = [pc EXCEPT ![p] = step]
    /\ UNCHANGED out

Return(p, code) ==
    /\ pc'  = [pc EXCEPT ![p] = "idle"]
    /\ out' = [out EXCEPT ![p] = code]
    /\ job' = [job EXCEPT ![p] = NoJob]
    /\ mod' = [mod EXCEPT ![p] = NoModule]
    /\ pos' = [pos EXCEPT ![p] = 1]
    /\ wr'  = [wr EXCEPT ![p] = "none"]

\* The steps that the shell and its tools take, not the command itself.
ToolSteps == {"mkdir", "open", "copy", "chmod", "rm", "rmdir", "rmdirAgain"}

\* p was killed while system() ran: what still runs is the shell.
Orphan(p) == out[p] = "killed"

\* The shell is done and the command returns code, if it is still there.
ToolsEnd(p, code) == Return(p, IF Orphan(p) THEN "killed" ELSE code)

\* What a mkdir -p that stops half way leaves: overlayfs gives it several
\* paths, of which any may be made, the upper one perhaps only in part.
StopMkdir(p) ==
    \/ UNCHANGED <<upperSys, dirs>>
    \/ /\ job[p].cmd = "overlayfs"
       /\ \E made \in SUBSET NewDirs(p) :
             /\ dirs' = dirs \cup made
             /\ \/ Target(p) \notin made /\ UNCHANGED upperSys
                \/ upperSys' = upperSys \cup {mod[p]}

\* What a cp that stops half way, killed or out of space, does to its file.
StopCopy(p) ==
    \/ UNCHANGED apk
    \/ /\ wr[p] # "unlinked"
       /\ apk' = [apk EXCEPT ![Target(p)] = Torn]

\* Every Magisk module has a module.prop with its id line, but only the zip of
\* scripts/build-magisk-overlay.sh has overlay/upper/system and boot scripts;
\* that of scripts/build-magisk.sh, id systemapp, has the module.prop alone.
Init ==
    /\ upperSys = Flashed
    /\ dirs = {}
    /\ apk = [t \in Paths |-> Absent]
    /\ files = [x \in Modules \X FileNames |->
                  IF x[1] \in Flashed \/ (x[1] \in Foreign /\ x[2] = "module.prop")
                  THEN "written" ELSE "absent"]
    /\ pc = [p \in Procs |-> "idle"]
    /\ job = [p \in Procs |-> NoJob]
    /\ mod = [p \in Procs |-> NoModule]
    /\ pos = [p \in Procs |-> 1]
    /\ wr = [p \in Procs |-> "none"]
    /\ out = [p \in Procs |-> "none"]

-----------------------------------------------------------------------------
(* Variants of the actions below with the mistakes the properties are to    *)
(* catch; no specification uses them.                                       *)

\* Mutant of ScanMiss: the loop does not go on to the next entry.
ScanMissAgain(p) ==
    /\ pc[p] = "scan" /\ pos[p] <= Len(ScanOrder)
    /\ ScanOrder[pos[p]] \notin upperSys
    /\ UNCHANGED vars

\* Mutant of RemoveApk: the directory is left behind.
RemoveApkOnly(p) ==
    /\ pc[p] = "rm"
    /\ apk' = [apk EXCEPT ![Target(p)] = Absent]
    /\ Return(p, "ok")
    /\ UNCHANGED <<upperSys, dirs, files>>

\* Mutant of RemoveDir: rmdir -p, which goes on to the emptied parents.
RemoveDirAndParents(p) ==
    LET t == Target(p) IN
    /\ pc[p] \in {"rmdir", "rmdirAgain"}
    /\ IF apk[t] = Absent
       THEN /\ dirs' = dirs \ {t}
            /\ upperSys' = IF \E d \in dirs \ {t} : d[1] = "upper" /\ d[2] = mod[p]
                           THEN upperSys ELSE upperSys \ {mod[p]}
       ELSE UNCHANGED <<dirs, upperSys>>
    /\ IF pc[p] = "rmdir"
       THEN Goto(p, "rmdirAgain") /\ UNCHANGED <<job, mod, pos, wr>>
       ELSE Return(p, "ok")
    /\ UNCHANGED <<apk, files>>

\* Mutant of ToolFails: the shell goes on after a failed cp (; for &&).
ToolFailsUnnoticed(p) ==
    /\ Faults
    /\ pc[p] = "copy"
    /\ StopCopy(p)
    /\ Goto(p, "chmod")
    /\ UNCHANGED <<upperSys, dirs, files, job, mod, pos, wr>>

-----------------------------------------------------------------------------
(* The start of a command, up to the shell command that changes the store *)

\* The user types a command whose APK argument, if it takes one, is a file.
Invoke(p, j) ==
    /\ pc[p] = "idle"
    /\ NeedsApk(j) => j.apk # NoApk
    /\ job' = [job EXCEPT ![p] = j]
    /\ pc'  = [pc EXCEPT ![p] = IF j.cmd = "overlayfs" THEN "check" ELSE "scan"]
    /\ mod' = [mod EXCEPT ![p] = IF j.cmd = "overlayfs" THEN j.name ELSE NoModule]
    /\ out' = [out EXCEPT ![p] = "none"]
    /\ UNCHANGED <<fsVars, pos, wr>>

\* No APK argument, or none that is a regular file: exit code 1 at once.
InvokeRejected(p, j) ==
    /\ pc[p] = "idle"
    /\ NeedsApk(j) /\ j.apk = NoApk
    /\ out' = [out EXCEPT ![p] = "fail"]
    /\ UNCHANGED <<fsVars, pc, job, mod, pos, wr>>

\* overlayfs, module already there: "overlayfs is active", root or not.
AlreadyActive(p) ==
    /\ pc[p] = "check" /\ Installed(mod[p])
    /\ Return(p, "ok")
    /\ UNCHANGED fsVars

\* overlayfs, module not there yet, or its module.prop cannot be read, which
\* is taken for the same: go on if root.
CheckNotInstalled(p) ==
    /\ pc[p] = "check" /\ (~Installed(mod[p]) \/ Misreads)
    /\ IF IsRoot(p)
       THEN Goto(p, "mkdir") /\ UNCHANGED <<job, mod, pos, wr>>
       ELSE Return(p, "fail")
    /\ UNCHANGED fsVars

\* detect_overlay_module(): this directory entry has no overlay/upper/system,
\* or stat() fails on it.
ScanMiss(p) ==
    /\ pc[p] = "scan" /\ pos[p] <= Len(ScanOrder)
    /\ ScanOrder[pos[p]] \notin upperSys \/ Misreads
    /\ pos' = [pos EXCEPT ![p] = @ + 1]
    /\ UNCHANGED <<fsVars, pc, job, mod, wr, out>>

\* This one has it and is taken; install and uninstall then ask for root.
ScanHit(p) ==
    /\ pc[p] = "scan" /\ pos[p] <= Len(ScanOrder)
    /\ ScanOrder[pos[p]] \in upperSys
    /\ \/ /\ job[p].cmd \in {"install", "uninstall"} /\ IsRoot(p)
          /\ Goto(p, IF job[p].cmd = "install" THEN "mkdir" ELSE "stat")
          /\ mod' = [mod EXCEPT ![p] = ScanOrder[pos[p]]]
          /\ pos' = [pos EXCEPT ![p] = 1]
          /\ UNCHANGED <<job, wr>>
       \/ /\ job[p].cmd \in {"install", "uninstall"} /\ ~IsRoot(p)
          /\ Return(p, "fail")
       \/ /\ job[p].cmd = "info"
          /\ Return(p, "ok")
    /\ UNCHANGED fsVars

\* The directory is exhausted, or readdir() fails, which looks the same: info
\* says inactive, the others give up.
ScanEnd(p) ==
    /\ pc[p] = "scan" /\ (pos[p] > Len(ScanOrder) \/ Misreads)
    /\ Return(p, IF job[p].cmd = "info" THEN "ok" ELSE "fail")
    /\ UNCHANGED fsVars

-----------------------------------------------------------------------------
(* mkdir -p ... && cp ... && chmod ..., run by install once and by          *)
(* overlayfs for its two trees in turn                                      *)

Mkdir(p) ==
    /\ pc[p] = "mkdir"
    /\ upperSys' = upperSys \cup {mod[p]}
    /\ dirs' = dirs \cup NewDirs(p)
    /\ Goto(p, "open")
    /\ UNCHANGED <<apk, files, job, mod, pos, wr>>

\* cp opens its destination and truncates it; every other process that holds
\* the file now shares it.
OpenDest(p) ==
    LET t == Target(p) IN
    /\ pc[p] = "open" /\ t \in dirs
    /\ apk' = [apk EXCEPT ![t] = Torn]
    /\ wr' = [q \in Procs |->
                IF q = p
                THEN IF \E r \in Procs \ {p} : Holds(r, t) /\ pc[r] = "copy"
                     THEN "shared" ELSE "clean"
                ELSE IF Holds(q, t) THEN "shared" ELSE wr[q]]
    /\ Goto(p, "copy")
    /\ UNCHANGED <<upperSys, dirs, files, job, mod, pos>>

\* The directory was removed since mkdir: cp fails, so does the command.
OpenNoDir(p) ==
    /\ pc[p] = "open" /\ Target(p) \notin dirs
    /\ ToolsEnd(p, "fail")
    /\ UNCHANGED fsVars

\* cp writes the file and closes it.  A file that was removed meanwhile takes
\* the bytes with it; one with several writers may end up a mixture.
CopyBytes(p) ==
    LET t == Target(p) IN
    /\ pc[p] = "copy"
    /\ \/ wr[p] = "unlinked" /\ UNCHANGED apk
       \/ wr[p] # "unlinked" /\ apk' = [apk EXCEPT ![t] = job[p].apk]
       \/ wr[p] = "shared"   /\ apk' = [apk EXCEPT ![t] = Torn]
    /\ Goto(p, "chmod")
    /\ UNCHANGED <<upperSys, dirs, files, job, mod, pos, wr>>

\* chmod 644 works by name, so it needs the file to be there.  After the last
\* copy the shell is done and the command goes on, unless it was killed.
ChmodApk(p) ==
    /\ pc[p] = "chmod" /\ apk[Target(p)] # Absent
    /\ \/ /\ job[p].cmd = "install" \/ (pos[p] = Len(Trees) /\ Orphan(p))
          /\ ToolsEnd(p, "ok")
       \/ /\ job[p].cmd = "overlayfs"
          /\ \/ pos[p] # Len(Trees) /\ Goto(p, "open") /\ pos' = [pos EXCEPT ![p] = @ + 1]
             \/ pos[p] = Len(Trees) /\ ~Orphan(p)
                /\ Goto(p, "create") /\ pos' = [pos EXCEPT ![p] = 1]
          /\ wr' = [wr EXCEPT ![p] = "none"]
          /\ UNCHANGED <<job, mod>>
    /\ UNCHANGED fsVars

ChmodNoFile(p) ==
    /\ pc[p] = "chmod" /\ apk[Target(p)] = Absent
    /\ ToolsEnd(p, "fail")
    /\ UNCHANGED fsVars

-----------------------------------------------------------------------------
(* The three write_file() calls at the end of overlayfs *)

\* std::ofstream f(path): the file exists and is empty.
CreateFile(p) ==
    /\ pc[p] = "create"
    /\ files' = [files EXCEPT ![<<mod[p], ModuleFiles[pos[p]]>>] = "empty"]
    /\ Goto(p, "flush")
    /\ UNCHANGED <<upperSys, dirs, apk, job, mod, pos, wr>>

\* The stream's destructor writes the text out.  Nobody looks whether that
\* worked: write_file() has already decided to return true.
FlushFile(p) ==
    /\ pc[p] = "flush"
    /\ \/ files' = [files EXCEPT ![<<mod[p], ModuleFiles[pos[p]]>>] = "written"]
       \/ Faults /\ UNCHANGED files
    /\ IF pos[p] = Len(ModuleFiles)
       THEN Return(p, "ok")
       ELSE /\ Goto(p, "create")
            /\ pos' = [pos EXCEPT ![p] = @ + 1]
            /\ UNCHANGED <<job, mod, wr>>
    /\ UNCHANGED <<upperSys, dirs, apk>>

-----------------------------------------------------------------------------
(* uninstall: stat, then rm -f && rmdir || true && rmdir || true *)

StatApk(p) ==
    /\ pc[p] = "stat"
    /\ IF apk[Target(p)] = Absent
       THEN Return(p, "fail")
       ELSE Goto(p, "rm") /\ UNCHANGED <<job, mod, pos, wr>>
    /\ UNCHANGED fsVars

\* rm -f succeeds whether or not the file is still there.
RemoveApk(p) ==
    LET t == Target(p) IN
    /\ pc[p] = "rm"
    /\ apk' = [apk EXCEPT ![t] = Absent]
    /\ wr' = [q \in Procs |-> IF Holds(q, t) THEN "unlinked" ELSE wr[q]]
    /\ Goto(p, "rmdir")
    /\ UNCHANGED <<upperSys, dirs, files, job, mod, pos>>

\* rm fails: && skips the first rmdir, || true hides the failure.
RemoveApkFails(p) ==
    /\ pc[p] = "rm" /\ Faults
    /\ Goto(p, "rmdirAgain")
    /\ UNCHANGED <<fsVars, job, mod, pos, wr>>

\* rmdir removes the directory if it is empty; that it is not is no error.
RemoveDir(p) ==
    LET t == Target(p) IN
    /\ pc[p] \in {"rmdir", "rmdirAgain"}
    /\ dirs' = IF apk[t] = Absent THEN dirs \ {t} ELSE dirs
    /\ IF pc[p] = "rmdir"
       THEN Goto(p, "rmdirAgain") /\ UNCHANGED <<job, mod, pos, wr>>
       ELSE ToolsEnd(p, "ok")
    /\ UNCHANGED <<upperSys, apk, files>>

-----------------------------------------------------------------------------
(* Failures *)

\* mkdir -p fails, having made or not what came before.
MkdirFails(p) ==
    /\ pc[p] = "mkdir" /\ Faults
    /\ StopMkdir(p)
    /\ ToolsEnd(p, "fail")
    /\ UNCHANGED <<apk, files>>

\* cp, chmod, the shell itself or a std::ofstream fails to start, or cp fails
\* half way: the command prints an error and returns 1.
ToolFails(p) ==
    /\ Faults
    /\ pc[p] \in {"open", "copy", "chmod", "create", "rm"}
    /\ IF pc[p] = "copy" THEN StopCopy(p) ELSE UNCHANGED apk
    /\ ToolsEnd(p, "fail")
    /\ UNCHANGED <<upperSys, dirs, files>>

\* kill -9 ends the command, and Ctrl-C one that is not in system().  A shell
\* that it waits for knows nothing of that and goes on.
Kill(p) ==
    /\ Kills
    /\ pc[p] # "idle" /\ ~Orphan(p)
    /\ IF pc[p] \in ToolSteps
       THEN out' = [out EXCEPT ![p] = "killed"] /\ UNCHANGED <<pc, job, mod, pos, wr>>
       ELSE Return(p, "killed")
    /\ UNCHANGED fsVars

\* Ctrl-C in system(), which the command ignores, or a kill of its shell and
\* tool ends these wherever they are: the command prints its error and returns
\* 1.  A reboot is this after Kill.
Interrupt(p) ==
    /\ Kills
    /\ pc[p] \in ToolSteps
    /\ IF pc[p] = "copy" THEN StopCopy(p) ELSE UNCHANGED apk
    /\ IF pc[p] = "mkdir" THEN StopMkdir(p) ELSE UNCHANGED <<upperSys, dirs>>
    /\ ToolsEnd(p, "fail")
    /\ UNCHANGED files

-----------------------------------------------------------------------------
(* The specification *)

\* What process p does by itself once a command has been typed.
Run(p) ==
    \/ AlreadyActive(p) \/ CheckNotInstalled(p)
    \/ ScanMiss(p) \/ ScanHit(p) \/ ScanEnd(p)
    \/ Mkdir(p) \/ MkdirFails(p)
    \/ OpenDest(p) \/ OpenNoDir(p) \/ CopyBytes(p)
    \/ ChmodApk(p) \/ ChmodNoFile(p)
    \/ CreateFile(p) \/ FlushFile(p)
    \/ StatApk(p) \/ RemoveApk(p) \/ RemoveApkFails(p) \/ RemoveDir(p)
    \/ ToolFails(p)

Step(p) ==
    \/ \E j \in Jobs : Invoke(p, j) \/ InvokeRejected(p, j)
    \/ Run(p)
    \/ Kill(p)
    \/ Interrupt(p)

Next == \E p \in Procs : Step(p)

Spec == Init /\ [][Next]_vars

\* A command that has been typed keeps running: the kernel schedules it and
\* every tool it starts ends.  Typing a command and killing one are choices.
FairSpec == Spec /\ \A p \in Procs : WF_vars(Run(p))
=============================================================================
