--------------------------- MODULE SerialStoreProofs ---------------------------
(***************************************************************************)
(* With one terminal, whose user waits for the tools of a command that was  *)
(* killed, and no I/O errors, for any modules, applications, APKs and       *)
(* command lines and any kills and interruptions: the commands do what they *)
(* report, and the module store implements the catalogue of AppCatalog.     *)
(***************************************************************************)
EXTENDS SerialStore, ModuleStoreProofs

-----------------------------------------------------------------------------
(* The inductive invariant *)

\* What the store has under each name, and what the command at work says of it.
State(m) ==
    IF ~Installed(m) THEN "none"
    ELSE IF \A f \in FileNames : files[<<m, f>>] = "written" THEN "complete" ELSE "incomplete"

\* The APKs are those the last command left, but v is that of application a in
\* module m; and so the copies Magisk mounts, but that of module m.
AppsBut(m, a, v) ==
    \A n \in Modules, b \in Apps :
        apk[<<"upper", n, b>>] = IF n = m /\ b = a THEN v ELSE last.apps[n][b]
MountsBut(m, v) ==
    \A n \in Modules : apk[<<"priv", n, n>>] = IF n = m THEN v ELSE last.mounted[n]

SameApps   == \A n \in Modules, b \in Apps : apk[<<"upper", n, b>>] = last.apps[n][b]
SameMounts == \A n \in Modules : apk[<<"priv", n, n>>] = last.mounted[n]
SameFound  == upperSys = last.found
SameState  == \A n \in Modules : State(n) = last.state[n]

\* The store is as the last command left it.
SameStore == SameApps /\ SameMounts /\ SameFound /\ SameState

\* Where the command stands that is given module m, application a and APK k.
This == mod[Shell]
Name == job[Shell].name
Source == job[Shell].apk
At(steps) == pc[Shell] \in steps

\* What a command that copies k has made, at a step of its copy to the file
\* at this place, of its i-th file, which held old.
Copied(step, place, i, k, old) ==
    IF step \in {"create", "flush"} \/ place > i \/ (place = i /\ step = "chmod")
    THEN k
    ELSE IF place = i /\ step = "copy" THEN Torn ELSE old

Made(i, old) == Copied(pc[Shell], pos[Shell], i, Source, old)

LastType ==
    last \in [apps    : [Modules -> [Apps -> Apks \cup {Absent, Torn}]],
              mounted : [Modules -> Apks \cup {Absent, Torn}],
              found   : SUBSET Modules,
              state   : [Modules -> {"none", "incomplete", "complete"}],
              code    : {"none", "ok", "fail", "killed"}]

\* Before it writes, a command has changed nothing.
Looking ==
    At({"idle", "check", "scan", "mkdir", "stat", "rm"}) => SameStore

\* The scan has passed only modules without a tree.
Scanning ==
    At({"scan"}) => \A k \in 1 .. (pos[Shell] - 1) : ScanOrder[k] \notin upperSys

\* install and uninstall work on the module the catalogue calls chosen.
Choosing ==
    At(WriteSteps) /\ job[Shell].cmd # "overlayfs" =>
        Catalogue!Chosen(This) /\ SameMounts /\ SameFound /\ SameState

Copying ==
    /\ At({"open", "copy", "chmod"}) => NewDirs(Shell) \subseteq dirs
    /\ At({"copy", "chmod"}) => wr[Shell] = "clean"

Installing ==
    At({"open", "copy", "chmod"}) /\ job[Shell].cmd = "install" =>
        AppsBut(This, Name, Made(1, last.apps[This][Name]))

Removing ==
    /\ At({"rm", "rmdir", "rmdirAgain"}) => last.apps[This][Name] # Absent
    /\ At({"rmdir", "rmdirAgain"}) => AppsBut(This, Name, Absent)

\* overlayfs changes nothing but its module, in its own order.
Making ==
    At(WriteSteps) /\ job[Shell].cmd = "overlayfs" =>
        /\ last.state[This] = "none"
        /\ ~At({"mkdir"}) =>
            /\ AppsBut(This, This, Made(1, last.apps[This][This]))
            /\ MountsBut(This, Made(2, last.mounted[This]))
            /\ upperSys = last.found \cup {This}
            /\ \A n \in Modules \ {This} : State(n) = last.state[n]
        /\ At({"open", "copy", "chmod"}) => State(This) = "none"
        /\ At({"create", "flush"}) =>
            \A k \in 1 .. 3 : k < pos[Shell] => files[<<This, ModuleFiles[k]>>] = "written"

\* A command has no exit code before it returns, but may have been killed while
\* its tools work on.
Showing ==
    IF At({"idle"})
    THEN last.code = out[Shell]
    ELSE /\ last.code = "none"
         /\ out[Shell] = "none" \/ (out[Shell] = "killed" /\ At(ToolSteps))

SInv ==
    /\ LastType /\ Showing
    /\ Looking /\ Scanning /\ Choosing /\ Copying /\ Installing /\ Removing /\ Making

-----------------------------------------------------------------------------
(* The store and what is shown of it *)

\* There is one terminal.
LEMMA OneShell == Shell \in Procs /\ Procs = {Shell}
BY OneTerminal DEF Shell

\* A function of two arguments that differs from another in one place.
LEMMA OnePlace ==
    ASSUME NEW S, NEW T, NEW V, NEW f \in [S -> [T -> V]], NEW g \in [S -> [T -> V]],
           NEW s \in S, NEW t \in T, NEW v,
           \A x \in S, y \in T : g[x][y] = IF x = s /\ y = t THEN v ELSE f[x][y]
    PROVE  g = [f EXCEPT ![s][t] = v]
<1>1. \A x \in S : g[x] = IF x = s THEN [f[s] EXCEPT ![t] = v] ELSE f[x]
  <2>1. ASSUME NEW x \in S, x # s PROVE g[x] = f[x]
      BY <2>1
  <2>2. g[s] = [f[s] EXCEPT ![t] = v]
      OBVIOUS
  <2>3. QED
      BY <2>1, <2>2
<1>2. QED
    BY <1>1

\* And of one argument.
LEMMA OnePlaceOfOne ==
    ASSUME NEW S, NEW V, NEW f \in [S -> V], NEW g \in [S -> V], NEW s \in S, NEW v,
           \A x \in S : g[x] = IF x = s THEN v ELSE f[x]
    PROVE  g = [f EXCEPT ![s] = v]
OBVIOUS

\* InStore, field by field.
LEMMA InStoreIs ==
    /\ InStore.apps = [m \in Modules |-> [a \in Apps |-> apk[<<"upper", m, a>>]]]
    /\ InStore.mounted = [m \in Modules |-> apk[<<"priv", m, m>>]]
    /\ InStore.found = upperSys
    /\ InStore.state = [m \in Modules |-> State(m)]
    /\ InStore.code = out[Shell]
BY DEF InStore, State

\* What is in the store is a catalogue.
LEMMA InStoreType ==
    ASSUME TypeOK
    PROVE  InStore \in [apps    : [Modules -> [Apps -> Apks \cup {Absent, Torn}]],
                        mounted : [Modules -> Apks \cup {Absent, Torn}],
                        found   : SUBSET Modules,
                        state   : [Modules -> {"none", "incomplete", "complete"}],
                        code    : {"none", "ok", "fail", "killed"}]
<1>1. /\ \A m \in Modules, a \in Apps : <<"upper", m, a>> \in Paths
      /\ \A m \in Modules : <<"priv", m, m>> \in Paths
    BY ModulesAssumption DEF Paths
<1>2. [m \in Modules |-> [a \in Apps |-> apk[<<"upper", m, a>>]]]
          \in [Modules -> [Apps -> Apks \cup {Absent, Torn}]]
    BY <1>1 DEF TypeOK, StoreTypeOK
<1>3. [m \in Modules |-> apk[<<"priv", m, m>>]] \in [Modules -> Apks \cup {Absent, Torn}]
    BY <1>1 DEF TypeOK, StoreTypeOK
<1>4. [m \in Modules |-> State(m)] \in [Modules -> {"none", "incomplete", "complete"}]
    BY DEF State
<1>5. upperSys \in SUBSET Modules /\ out[Shell] \in {"none", "ok", "fail", "killed"}
    BY OneShell DEF TypeOK, StoreTypeOK, ProcTypeOK
<1>6. InStore = [apps    |-> [m \in Modules |-> [a \in Apps |-> apk[<<"upper", m, a>>]]],
                 mounted |-> [m \in Modules |-> apk[<<"priv", m, m>>]],
                 found   |-> upperSys,
                 state   |-> [m \in Modules |-> State(m)],
                 code    |-> out[Shell]]
    BY DEF InStore, State
<1>7. QED
    BY <1>2, <1>3, <1>4, <1>5, <1>6

\* What the last command left is the store when it returned.
LEMMA JustReturned ==
    TypeOK /\ last = InStore => LastType /\ SameStore /\ last.code = out[Shell]
<1> SUFFICES ASSUME TypeOK, last = InStore
             PROVE  LastType /\ SameStore /\ last.code = out[Shell]
    OBVIOUS
<1>1. LastType
    BY InStoreType DEF LastType
<1>2. SameApps /\ SameMounts /\ SameFound
    BY InStoreIs DEF SameApps, SameMounts, SameFound
<1>3. SameState
    BY InStoreIs DEF SameState
<1>4. QED
    BY <1>1, <1>2, <1>3, InStoreIs DEF SameStore

\* What one write to the store does to what is there.
LEMMA PutUpper ==
    ASSUME StoreTypeOK, NEW m \in Modules, NEW a \in Apps, NEW v,
           apk' = [apk EXCEPT ![<<"upper", m, a>>] = v]
    PROVE  /\ \A n \in Modules, b \in Apps :
                 apk'[<<"upper", n, b>>] = IF n = m /\ b = a THEN v ELSE apk[<<"upper", n, b>>]
           /\ \A n \in Modules : apk'[<<"priv", n, n>>] = apk[<<"priv", n, n>>]
BY ModulesAssumption DEF StoreTypeOK, Paths

\* So for the copy Magisk mounts.
LEMMA PutPriv ==
    ASSUME StoreTypeOK, NEW m \in Modules, NEW v,
           apk' = [apk EXCEPT ![<<"priv", m, m>>] = v]
    PROVE  /\ \A n \in Modules, b \in Apps : apk'[<<"upper", n, b>>] = apk[<<"upper", n, b>>]
           /\ \A n \in Modules :
                 apk'[<<"priv", n, n>>] = IF n = m THEN v ELSE apk[<<"priv", n, n>>]
BY ModulesAssumption DEF StoreTypeOK, Paths

\* So for a file of a module: the other modules stand as they stood.
LEMMA PutFile ==
    ASSUME StoreTypeOK, NEW m \in Modules, NEW f \in FileNames, NEW v,
           files' = [files EXCEPT ![<<m, f>>] = v]
    PROVE  \A n \in Modules \ {m} : State(n)' = State(n)
<1>1. \A n \in Modules \ {m}, g \in FileNames : files'[<<n, g>>] = files[<<n, g>>]
    BY DEF StoreTypeOK
<1>2. "module.prop" \in FileNames
    BY DEF FileNames
<1>3. QED
    BY <1>1, <1>2 DEF State, Installed

\* A command that has returned is at its prompt, and shows what is in the store.
LEMMA Returned ==
    ASSUME IInv, SInv, SerialNext, NEW code \in {"ok", "fail", "killed"}, Return(Shell, code)
    PROVE  SInv' /\ SameStore' /\ last'.code = code
<1>1. TypeOK'
  <2>1. PICK p \in Procs : Step(p)
      BY DEF SerialNext, Next
  <2>2. QED
      BY <2>1, StoreTypeStep, ProcTypeStep DEF TypeOK
<1>2. /\ pc'[Shell] = "idle" /\ out'[Shell] = code
      BY OneShell DEF Return, IInv, TypeOK, ProcTypeOK
<1>3. last' = InStore'
    BY <1>2 DEF SerialNext
<1>4. LastType' /\ SameStore' /\ last'.code = out'[Shell]
  <2>1. (TypeOK /\ last = InStore => LastType /\ SameStore /\ last.code = out[Shell])'
      BY JustReturned, PTL
  <2>2. QED
      BY <1>1, <1>3, <2>1
<1>5. QED
    BY <1>2, <1>4 DEF SInv, Showing, At, Looking, Scanning, Choosing, Copying, Installing,
        Removing, Making, WriteSteps

\* A command that goes on shows nothing.
LEMMA GoesOn ==
    ASSUME IInv, SInv, SerialNext, pc[Shell] # "idle", pc'[Shell] # "idle"
    PROVE  last' = last
<1>1. last' = [last EXCEPT !.code = "none"] /\ last.code = "none"
    BY DEF SerialNext, SInv, Showing, At
<1>2. QED
    BY <1>1 DEF SInv, LastType

-----------------------------------------------------------------------------
(* Steps up to the first write, each with what the catalogue sees of it *)

Seen == [Catalogue!Next]_(Catalogue!vars)

\* What a command that returns leaves: v for application a in module m, and
\* the rest as it was; v for Magisk to mount; the other modules as they stood.
AppsBecome(m, a, v) ==
    \A n \in Modules, b \in Apps :
        apk'[<<"upper", n, b>>] = IF n = m /\ b = a THEN v ELSE last.apps[n][b]
MountsBecome(m, v) ==
    \A n \in Modules : apk'[<<"priv", n, n>>] = IF n = m THEN v ELSE last.mounted[n]
OthersStand(m) == \A n \in Modules \ {m} : State(n)' = last.state[n]

\* How what a command has done shows when it returned.
LEMMA ShownApps ==
    ASSUME LastType, LastType', SameStore', NEW m \in Modules, NEW a \in Apps, NEW v,
           AppsBecome(m, a, v)
    PROVE  last'.apps = [last.apps EXCEPT ![m][a] = v]
<1>1. /\ last.apps \in [Modules -> [Apps -> Apks \cup {Absent, Torn}]]
      /\ last'.apps \in [Modules -> [Apps -> Apks \cup {Absent, Torn}]]
    BY DEF LastType
<1>2. \A n \in Modules, b \in Apps : apk'[<<"upper", n, b>>] = last'.apps[n][b]
    BY DEF SameStore, SameApps
<1>3. \A n \in Modules, b \in Apps :
          last'.apps[n][b] = IF n = m /\ b = a THEN v ELSE last.apps[n][b]
  <2>1. ASSUME NEW n \in Modules, NEW b \in Apps
        PROVE  last'.apps[n][b] = IF n = m /\ b = a THEN v ELSE last.apps[n][b]
    <3>1. last'.apps[n][b] = apk'[<<"upper", n, b>>]
        BY <1>2
    <3>2. QED
        BY <3>1 DEF AppsBecome
  <2>2. QED
      BY <2>1
<1>4. QED
  <2> DEFINE f == last.apps
             g == last'.apps
             V == Apks \cup {Absent, Torn}
  <2>1. /\ f \in [Modules -> [Apps -> V]] /\ g \in [Modules -> [Apps -> V]]
        /\ \A n \in Modules, b \in Apps : g[n][b] = IF n = m /\ b = a THEN v ELSE f[n][b]
      BY <1>1, <1>3
  <2> HIDE DEF f, g, V
  <2>2. g = [f EXCEPT ![m][a] = v]
      BY <2>1, OnePlace
  <2>3. QED
      BY <2>2 DEF f, g

\* So for the copies Magisk mounts.
LEMMA ShownMounts ==
    ASSUME LastType, LastType', SameStore', NEW m \in Modules, NEW v,
           MountsBecome(m, v)
    PROVE  last'.mounted = [last.mounted EXCEPT ![m] = v]
<1>1. /\ last.mounted \in [Modules -> Apks \cup {Absent, Torn}]
      /\ last'.mounted \in [Modules -> Apks \cup {Absent, Torn}]
    BY DEF LastType
<1>2. \A n \in Modules : last'.mounted[n] = IF n = m THEN v ELSE last.mounted[n]
    BY DEF MountsBecome, SameStore, SameMounts
<1>3. QED
    BY <1>1, <1>2, OnePlaceOfOne

\* What is shown when none of it has changed.
LEMMA ShownSame ==
    ASSUME LastType, LastType', SameStore'
    PROVE  /\ (\A n \in Modules, b \in Apps : apk'[<<"upper", n, b>>] = last.apps[n][b])
                 => last'.apps = last.apps
           /\ (\A n \in Modules : apk'[<<"priv", n, n>>] = last.mounted[n])
                 => last'.mounted = last.mounted
           /\ upperSys' = last.found => last'.found = last.found
           /\ (\A n \in Modules : State(n)' = last.state[n]) => last'.state = last.state
<1>1. /\ last.apps \in [Modules -> [Apps -> Apks \cup {Absent, Torn}]]
      /\ last'.apps \in [Modules -> [Apps -> Apks \cup {Absent, Torn}]]
      /\ last.mounted \in [Modules -> Apks \cup {Absent, Torn}]
      /\ last'.mounted \in [Modules -> Apks \cup {Absent, Torn}]
      /\ last.state \in [Modules -> {"none", "incomplete", "complete"}]
      /\ last'.state \in [Modules -> {"none", "incomplete", "complete"}]
    BY DEF LastType
<1>2. ASSUME \A n \in Modules, b \in Apps : apk'[<<"upper", n, b>>] = last.apps[n][b]
      PROVE  last'.apps = last.apps
  <2>1. \A n \in Modules : last'.apps[n] = last.apps[n]
    <3>1. ASSUME NEW n \in Modules PROVE \A b \in Apps : last'.apps[n][b] = last.apps[n][b]
        BY <1>2 DEF SameStore, SameApps
    <3>2. QED
        BY <1>1, <3>1
  <2>2. QED
      BY <1>1, <2>1
<1>3. ASSUME \A n \in Modules : apk'[<<"priv", n, n>>] = last.mounted[n]
      PROVE  last'.mounted = last.mounted
  <2>1. \A n \in Modules : last'.mounted[n] = last.mounted[n]
      BY <1>3 DEF SameStore, SameMounts
  <2>2. QED
      BY <1>1, <2>1
<1>4. ASSUME \A n \in Modules : State(n)' = last.state[n]
      PROVE  last'.state = last.state
  <2>1. \A n \in Modules : last'.state[n] = last.state[n]
      BY <1>4 DEF SameStore, SameState
  <2>2. QED
      BY <1>1, <2>1
<1>5. QED
    BY <1>2, <1>3, <1>4 DEF SameStore, SameFound

\* Only the files of a module decide how it stands.
LEMMA StateStays ==
    ASSUME UNCHANGED files
    PROVE  \A n \in Modules : State(n)' = State(n)
BY DEF State, Installed

\* A command that has written nothing ends, and nothing has changed.
LEMMA EndsUnchanged ==
    ASSUME IInv, SInv, SerialNext, NEW code \in {"ok", "fail", "killed"}, Return(Shell, code),
           SameStore, UNCHANGED <<upperSys, apk, files>>
    PROVE  SInv' /\ Catalogue!Ends(code)
<1>1. SInv' /\ SameStore' /\ last'.code = code
    BY Returned
<1>2. LastType /\ LastType'
    BY <1>1 DEF SInv
<1>3. last'.apps = last.apps /\ last'.mounted = last.mounted /\ last'.found = last.found
    BY <1>1, <1>2, ShownSame DEF SameStore, SameApps, SameMounts, SameFound
<1>4. last'.state = last.state
    BY <1>1, <1>2, ShownSame, StateStays DEF SameStore, SameState
<1>5. QED
    BY <1>1, <1>3, <1>4 DEF Catalogue!Ends, Catalogue!catalogue

\* What a command needs to know of itself.
LEMMA Command ==
    ASSUME IInv, pc[Shell] # "idle"
    PROVE  /\ job[Shell] \in Jobs /\ job[Shell] \in JobType
           /\ Name \in Apps
           /\ job[Shell].cmd \in {"overlayfs", "install"} => Source \in Apks /\ Source # NoApk
           /\ job[Shell].cmd = "overlayfs" => This = Name /\ This \in Modules
BY OneShell, JobsAssumption, ApksAssumption DEF IInv, Local, Name, Source, This, JobType

\* A command is typed (Invoke, InvokeRejected).
LEMMA TypeSteps ==
    ASSUME IInv, SInv, SerialNext, NEW j \in Jobs, Invoke(Shell, j) \/ InvokeRejected(Shell, j)
    PROVE  SInv' /\ Seen
<1>1. pc[Shell] = "idle" /\ SameStore /\ UNCHANGED fsVars
    BY DEF Invoke, InvokeRejected, SInv, Looking, At
<1>2. CASE Invoke(Shell, j)
  <2>1. /\ pc'[Shell] = IF j.cmd = "overlayfs" THEN "check" ELSE "scan"
        /\ out'[Shell] = "none" /\ pos'[Shell] = 1
      BY <1>1, <1>2, OneShell DEF Invoke, IInv, TypeOK, ProcTypeOK, Local
  <2>2. last' = [last EXCEPT !.code = "none"]
      BY <2>1 DEF SerialNext
  <2>3. /\ LastType' /\ last'.code = "none" /\ last'.apps = last.apps
        /\ last'.mounted = last.mounted /\ last'.found = last.found /\ last'.state = last.state
      BY <2>2 DEF SInv, LastType
  <2>4. SameStore'
      BY <1>1, <2>3, StateStays DEF SameStore, SameApps, SameMounts, SameFound, SameState, fsVars
  <2>5. SInv'
      BY <2>1, <2>3, <2>4 DEF SInv, Showing, At, Looking, Scanning, Choosing, Copying, Installing,
          Removing, Making, WriteSteps
  <2>6. Catalogue!Begin
      BY <2>3 DEF Catalogue!Begin, Catalogue!catalogue
  <2>7. QED
      BY <2>5, <2>6 DEF Seen, Catalogue!Next
<1>3. CASE InvokeRejected(Shell, j)
  <2>1. /\ pc'[Shell] = "idle" /\ out'[Shell] = "fail"
        /\ j.cmd \in {"overlayfs", "install"} /\ j.apk = NoApk
      BY <1>1, <1>3, OneShell DEF InvokeRejected, NeedsApk, IInv, TypeOK, ProcTypeOK
  <2>2. last' = InStore'
      BY <2>1 DEF SerialNext
  <2>3. TypeOK'
      BY <1>3, OneShell, StoreTypeStep, ProcTypeStep DEF TypeOK, Step
  <2>4. (TypeOK /\ last = InStore => LastType /\ SameStore /\ last.code = out[Shell])'
      BY JustReturned, PTL
  <2>5. SInv'
      BY <2>1, <2>2, <2>3, <2>4
      DEF SInv, Showing, At, Looking, Scanning, Choosing, Copying, Installing,
          Removing, Making, WriteSteps
  <2>6. last'.apps = last.apps /\ last'.mounted = last.mounted /\ last'.found = last.found
      BY <1>1, <2>2, <2>3, <2>4, ShownSame
      DEF SInv, SameStore, SameApps, SameMounts, SameFound, fsVars
  <2>7. last'.state = last.state
      BY <1>1, <2>2, <2>3, <2>4, ShownSame, StateStays DEF SInv, SameStore, SameState, fsVars
  <2>8. Catalogue!Ends("fail")
      BY <2>1, <2>2, <2>3, <2>4, <2>6, <2>7 DEF Catalogue!Ends, Catalogue!catalogue
  <2>9. QED
      BY <2>1, <2>5, <2>8 DEF Seen, Catalogue!Next, Catalogue!Overlayfs, Catalogue!Install
<1>4. QED
    BY <1>2, <1>3

\* A command that goes on and writes nothing leaves the store as it was.
LEMMA SameStays ==
    ASSUME SameStore, last' = last, UNCHANGED <<upperSys, apk, files>>
    PROVE  SameStore'
BY StateStays DEF SameStore, SameApps, SameMounts, SameFound, SameState

\* overlayfs looks whether its module is there.
LEMMA CheckSteps ==
    ASSUME ~Misreads, IInv, SInv, SerialNext, AlreadyActive(Shell) \/ CheckNotInstalled(Shell)
    PROVE  SInv' /\ Seen
<1>1. /\ pc[Shell] = "check" /\ SameStore /\ UNCHANGED <<upperSys, apk, files>>
      /\ job[Shell].cmd = "overlayfs"
    BY OneShell DEF AlreadyActive, CheckNotInstalled, SInv, Looking, At, fsVars, IInv, Local
<1>2. /\ job[Shell] \in Jobs /\ Source # NoApk /\ This = job[Shell].name /\ This \in Modules
      /\ last.state[This] = State(This)
    BY <1>1, Command DEF SameStore, SameState, Name
<1>3. CASE AlreadyActive(Shell)
  <2>1. SInv' /\ Catalogue!Ends("ok")
      BY <1>1, <1>3, EndsUnchanged DEF AlreadyActive
  <2>2. last.state[This] # "none"
      BY <1>2, <1>3 DEF AlreadyActive, State, This
  <2>3. QED
      BY <1>1, <1>2, <2>1, <2>2 DEF Seen, Catalogue!Next, Catalogue!Overlayfs, Source
<1>4. CASE CheckNotInstalled(Shell)
  <2>1. last.state[This] = "none"
      BY <1>2, <1>4 DEF CheckNotInstalled, State, This
  <2>2. CASE job[Shell].root
    <3>1. /\ pc'[Shell] = "mkdir" /\ job' = job /\ mod' = mod /\ pos' = pos /\ out' = out
        BY <1>4, <2>2, OneShell DEF CheckNotInstalled, IsRoot, Goto, IInv, TypeOK, ProcTypeOK
    <3>2. last' = last
        BY <1>1, <3>1, GoesOn
    <3>3. SameStore'
        BY <1>1, <3>2, SameStays
    <3>4. SInv'
        BY <1>1, <2>1, <3>1, <3>2, <3>3
        DEF SInv, Showing, ToolSteps, LastType, At, Looking, Scanning, Choosing,
            Copying, Installing, Removing, Making, WriteSteps, This
    <3>5. QED
        BY <3>2, <3>4 DEF Seen, Catalogue!vars
  <2>3. CASE ~job[Shell].root
    <3>1. SInv' /\ Catalogue!Ends("fail")
        BY <1>1, <1>4, <2>3, EndsUnchanged DEF CheckNotInstalled, IsRoot
    <3>2. QED
        BY <1>1, <1>2, <2>1, <2>3, <3>1 DEF Seen, Catalogue!Next, Catalogue!Overlayfs
  <2>4. QED
      BY <2>2, <2>3
<1>5. QED
    BY <1>3, <1>4

\* The others look for the first module with a tree.
LEMMA ScanSteps ==
    ASSUME ~Misreads, IInv, SInv, SerialNext, ScanMiss(Shell) \/ ScanHit(Shell) \/ ScanEnd(Shell)
    PROVE  SInv' /\ Seen
<1>1. /\ pc[Shell] = "scan" /\ SameStore /\ UNCHANGED <<upperSys, apk, files>>
      /\ job[Shell].cmd # "overlayfs" /\ pos[Shell] \in Nat \ {0}
    BY OneShell DEF ScanMiss, ScanHit, ScanEnd, SInv, Looking, At, fsVars, IInv, Local,
        TypeOK, ProcTypeOK
<1>2. /\ job[Shell] \in Jobs /\ job[Shell].cmd \in Cmds /\ upperSys = last.found
      /\ \A k \in 1 .. (pos[Shell] - 1) : ScanOrder[k] \notin upperSys
    BY <1>1, Command DEF SameStore, SameFound, SInv, Scanning, At, JobType
<1>3. ScanOrder \in Seq(Modules) /\ Len(ScanOrder) \in Nat
    BY ScanOrderAssumption
<1>4. CASE ScanMiss(Shell)
  <2>1. /\ pc' = pc /\ job' = job /\ mod' = mod /\ pos'[Shell] = pos[Shell] + 1 /\ out' = out
        /\ ScanOrder[pos[Shell]] \notin upperSys
      BY <1>4, OneShell DEF ScanMiss, IInv, TypeOK, ProcTypeOK
  <2>2. last' = last
      BY <1>1, <2>1, GoesOn
  <2>3. SameStore'
      BY <1>1, <2>2, SameStays
  <2>4. \A k \in 1 .. (pos'[Shell] - 1) : ScanOrder[k] \notin upperSys'
      BY <1>1, <1>2, <2>1
  <2>5. SInv'
      BY <1>1, <2>1, <2>2, <2>3, <2>4
      DEF SInv, Showing, ToolSteps, LastType, At, Looking, Scanning, Choosing,
          Copying, Installing, Removing, Making, WriteSteps
  <2>6. QED
      BY <2>2, <2>5 DEF Seen, Catalogue!vars
<1>5. CASE ScanHit(Shell)
  <2>1. /\ pos[Shell] \in 1 .. Len(ScanOrder)
        /\ ScanOrder[pos[Shell]] \in upperSys /\ ScanOrder[pos[Shell]] \in Modules
      BY <1>1, <1>3, <1>5 DEF ScanHit
  <2>2. CASE job[Shell].cmd \in {"install", "uninstall"} /\ job[Shell].root
    <3>1. /\ pc'[Shell] = IF job[Shell].cmd = "install" THEN "mkdir" ELSE "stat"
          /\ mod'[Shell] = ScanOrder[pos[Shell]] /\ job' = job /\ out' = out
        BY <1>5, <2>2, OneShell DEF ScanHit, IsRoot, Goto, IInv, TypeOK, ProcTypeOK
    <3>2. last' = last
        BY <1>1, <3>1, GoesOn
    <3>3. SameStore'
        BY <1>1, <3>2, SameStays
    <3>4. Catalogue!Chosen(ScanOrder[pos[Shell]])
        BY <1>2, <2>1 DEF Catalogue!Chosen
    <3>5. Catalogue!Chosen(This)'
        BY <3>1, <3>2, <3>4 DEF Catalogue!Chosen, This
    <3>6. SInv'
        BY <1>1, <3>1, <3>2, <3>3, <3>5
        DEF SInv, Showing, ToolSteps, LastType, At, Looking, Scanning, Choosing,
            Copying, Installing, Removing, Making, WriteSteps, SameStore
    <3>7. QED
        BY <3>2, <3>6 DEF Seen, Catalogue!vars
  <2>3. CASE job[Shell].cmd \in {"install", "uninstall"} /\ ~job[Shell].root
    <3>1. SInv' /\ Catalogue!Ends("fail")
        BY <1>1, <1>5, <2>3, EndsUnchanged DEF ScanHit, IsRoot
    <3>2. QED
        BY <1>2, <2>3, <3>1 DEF Seen, Catalogue!Next, Catalogue!Install, Catalogue!Uninstall
  <2>4. CASE job[Shell].cmd = "info"
    <3>1. SInv' /\ Catalogue!Ends("ok")
        BY <1>1, <1>5, <2>4, EndsUnchanged DEF ScanHit
    <3>2. QED
        BY <1>2, <2>4, <3>1 DEF Seen, Catalogue!Next, Catalogue!Info
  <2>5. QED
      BY <1>1, <1>2, <2>2, <2>3, <2>4 DEF Cmds
<1>6. CASE ScanEnd(Shell)
  <2>1. last.found = {}
    <3>1. \A m \in Modules : m \notin upperSys
        BY <1>1, <1>2, <1>3, <1>6, ScanOrderAssumption DEF ScanEnd
    <3>2. QED
        BY <1>2, <3>1 DEF IInv, TypeOK, StoreTypeOK
  <2>2. CASE job[Shell].cmd = "info"
    <3>1. SInv' /\ Catalogue!Ends("ok")
        BY <1>1, <1>6, <2>2, EndsUnchanged DEF ScanEnd
    <3>2. QED
        BY <1>2, <2>2, <3>1 DEF Seen, Catalogue!Next, Catalogue!Info
  <2>3. CASE job[Shell].cmd # "info"
    <3>1. SInv' /\ Catalogue!Ends("fail")
        BY <1>1, <1>6, <2>3, EndsUnchanged DEF ScanEnd
    <3>2. job[Shell].cmd \in {"install", "uninstall"}
        BY <1>1, <1>2, <2>3 DEF Cmds
    <3>3. QED
        BY <1>2, <2>1, <3>1, <3>2 DEF Seen, Catalogue!Next, Catalogue!Install, Catalogue!Uninstall
  <2>4. QED
      BY <2>2, <2>3
<1>7. QED
    BY <1>4, <1>5, <1>6

\* uninstall looks whether the application is there.
LEMMA StatSteps ==
    ASSUME IInv, SInv, SerialNext, StatApk(Shell)
    PROVE  SInv' /\ Seen
<1>1. /\ pc[Shell] = "stat" /\ SameStore /\ UNCHANGED <<upperSys, apk, files>>
      /\ job[Shell].cmd = "uninstall" /\ pos[Shell] = 1
      /\ Catalogue!Chosen(This) /\ This \in Modules
    BY OneShell, WorksOnModule DEF StatApk, SInv, Looking, At, fsVars, IInv, Local, Choosing,
        WriteSteps, This
<1>2. job[Shell] \in Jobs /\ Name \in Apps
    BY <1>1, Command
<1>3. Target(Shell) = <<"upper", This, Name>>
    BY <1>1 DEF Target, Trees, This, Name
<1>4. apk[Target(Shell)] = last.apps[This][Name]
    BY <1>1, <1>2, <1>3 DEF SameStore, SameApps
<1>5. CASE apk[Target(Shell)] = Absent
  <2>1. SInv' /\ Catalogue!Ends("fail")
      BY <1>1, <1>5, EndsUnchanged DEF StatApk
  <2>2. QED
      BY <1>1, <1>2, <1>4, <1>5, <2>1 DEF Seen, Catalogue!Next, Catalogue!Uninstall, Name
<1>6. CASE apk[Target(Shell)] # Absent
  <2>1. /\ pc'[Shell] = "rm" /\ job' = job /\ mod' = mod /\ out' = out
      BY <1>1, <1>6, OneShell DEF StatApk, Goto, IInv, TypeOK, ProcTypeOK
  <2>2. last' = last
      BY <1>1, <2>1, GoesOn
  <2>3. SameStore'
      BY <1>1, <2>2, SameStays
  <2>4. Catalogue!Chosen(This)' /\ last'.apps[This'][Name'] # Absent
      BY <1>1, <1>4, <1>6, <2>1, <2>2 DEF Catalogue!Chosen, This, Name
  <2>5. SInv'
      BY <1>1, <2>1, <2>2, <2>3, <2>4
      DEF SInv, Showing, ToolSteps, LastType, At, Looking, Scanning, Choosing,
          Copying, Installing, Removing, Making, WriteSteps, SameStore
  <2>6. QED
      BY <2>2, <2>5 DEF Seen, Catalogue!vars
<1>7. QED
    BY <1>5, <1>6

-----------------------------------------------------------------------------
(* mkdir -p, cp and chmod *)

CopySteps == {"mkdir", "open", "copy", "chmod"}

\* The APKs as a command leaves them that copies k for application a to module
\* m, at this step and file.
CopyIs(m, a, k, step, place) ==
    /\ \A n \in Modules, b \in Apps :
          apk[<<"upper", n, b>>] = IF n = m /\ b = a
                                   THEN Copied(step, place, 1, k, last.apps[m][a])
                                   ELSE last.apps[n][b]
    /\ \A n \in Modules :
          apk[<<"priv", n, n>>] = IF n = m /\ job[Shell].cmd = "overlayfs"
                                  THEN Copied(step, place, 2, k, last.mounted[m])
                                  ELSE last.mounted[n]

\* What holds of the APKs while a command copies, whichever it is.
LEMMA Halfway ==
    ASSUME IInv, SInv, pc[Shell] \in CopySteps, NEW m, m = This, NEW a, a = Name,
           NEW k, k = Source
    PROVE  /\ m \in Modules /\ a \in Apps /\ k \in Apks /\ k # NoApk
           /\ job[Shell] \in Jobs /\ job[Shell].cmd \in {"overlayfs", "install"}
           /\ job[Shell].root /\ (job[Shell].cmd = "overlayfs" => m = a)
           /\ pos[Shell] \in 1 .. 2 /\ (job[Shell].cmd = "install" => pos[Shell] = 1)
           /\ pc[Shell] = "mkdir" => pos[Shell] = 1
           /\ Target(Shell) = IF pos[Shell] = 1 THEN <<"upper", m, a>> ELSE <<"priv", m, m>>
           /\ CopyIs(m, a, k, pc[Shell], pos[Shell])
<1>1. /\ job[Shell] \in Jobs /\ a \in Apps
      /\ job[Shell].cmd \in {"overlayfs", "install"} => k \in Apks /\ k # NoApk
      /\ job[Shell].cmd = "overlayfs" => m = a
    BY Command DEF CopySteps
<1>2. m \in Modules
    BY OneShell, WorksOnModule DEF CopySteps, WriteSteps, This
<1>3. /\ job[Shell].cmd \in {"overlayfs", "install"} /\ pos[Shell] \in Copies(Shell)
      /\ job[Shell].root /\ (pc[Shell] = "mkdir" => pos[Shell] = 1)
    BY OneShell DEF CopySteps, WriteSteps, IInv, Local
<1>4. pos[Shell] \in 1 .. 2 /\ (job[Shell].cmd = "install" => pos[Shell] = 1)
    BY <1>3 DEF Copies
<1>5. Target(Shell) = IF pos[Shell] = 1 THEN <<"upper", m, a>> ELSE <<"priv", m, m>>
    BY <1>1, <1>3, <1>4 DEF Target, Trees, This, Name
<1>6. CASE pc[Shell] = "mkdir"
  <2>1. /\ Copied(pc[Shell], pos[Shell], 1, k, last.apps[m][a]) = last.apps[m][a]
        /\ Copied(pc[Shell], pos[Shell], 2, k, last.mounted[m]) = last.mounted[m]
      BY <1>3, <1>6 DEF Copied
  <2>2. SameApps /\ SameMounts
      BY <1>6 DEF SInv, Looking, At, SameStore
  <2>3. QED
      BY <1>1, <1>2, <1>3, <1>4, <1>5, <2>1, <2>2 DEF SameApps, SameMounts, CopyIs
<1>7. CASE pc[Shell] # "mkdir" /\ job[Shell].cmd = "install"
  <2>1. AppsBut(This, Name, Made(1, last.apps[This][Name])) /\ SameMounts
      BY <1>7 DEF SInv, Installing, Choosing, At, CopySteps, WriteSteps
  <2>2. QED
      BY <1>1, <1>2, <1>3, <1>4, <1>5, <1>7, <2>1 DEF AppsBut, SameMounts, Made, CopyIs
<1>8. CASE pc[Shell] # "mkdir" /\ job[Shell].cmd = "overlayfs"
  <2>1. /\ AppsBut(This, This, Made(1, last.apps[This][This]))
        /\ MountsBut(This, Made(2, last.mounted[This]))
      BY <1>8 DEF SInv, Making, At, CopySteps, WriteSteps
  <2>2. QED
      BY <1>1, <1>2, <1>3, <1>4, <1>5, <1>8, <2>1 DEF AppsBut, MountsBut, Made, CopyIs
<1>9. QED
    BY <1>3, <1>6, <1>7, <1>8

\* What a step of the copying has to keep.
LEMMA CopiesOn ==
    ASSUME IInv, SInv, SerialNext, pc[Shell] \in CopySteps,
           NEW m, m = This, NEW a, a = Name, NEW k, k = Source,
           NEW step \in {"open", "copy", "chmod", "create"}, pc'[Shell] = step,
           NEW place \in 1 .. 2, pos'[Shell] = place,
           step = "create" => place = 1 /\ job[Shell].cmd = "overlayfs" /\ ~Orphan(Shell),
           UNCHANGED <<job, mod, out, files>>,
           NewDirs(Shell) \subseteq dirs', upperSys' = upperSys \cup {m},
           step \in {"copy", "chmod"} => wr'[Shell] = "clean",
           CopyIs(m, a, k, step, place)'
    PROVE  SInv' /\ Seen
<1>1. last' = last
    BY GoesOn DEF CopySteps
<1>2. /\ m \in Modules /\ a \in Apps /\ (job[Shell].cmd = "overlayfs" => m = a)
      /\ job[Shell].cmd \in {"overlayfs", "install"}
    BY Halfway
<1>3. This' = m /\ Name' = a /\ Source' = k /\ NewDirs(Shell)' = NewDirs(Shell)
    BY DEF This, Name, Source, NewDirs, Copies
<1>4. \A n \in Modules : State(n)' = State(n)
    BY StateStays
<1>5. LastType' /\ Showing'
    BY <1>1 DEF SInv, LastType, Showing, At, CopySteps, ToolSteps, Orphan
<1>6. Looking' /\ Scanning' /\ Removing' /\ Copying'
    BY <1>3 DEF Looking, Scanning, Removing, Copying, At
<1>7. Installing' /\ Choosing'
  <2>1. SUFFICES ASSUME job[Shell].cmd = "install" PROVE Installing' /\ Choosing'
      BY <1>2 DEF Installing, Choosing
  <2>2. Catalogue!Chosen(This) /\ SameMounts /\ SameFound /\ SameState
      BY <2>1 DEF SInv, Choosing, At, CopySteps, WriteSteps
  <2>3. m \in upperSys
      BY OneShell, <2>1 DEF IInv, Relies, This, CopySteps, WriteSteps
  <2>4. Catalogue!Chosen(This)'
      BY <1>1, <1>3, <2>2 DEF Catalogue!Chosen
  <2>5. SameMounts' /\ SameFound' /\ SameState'
      BY <1>1, <1>4, <2>1, <2>2, <2>3 DEF CopyIs, SameMounts, SameFound, SameState
  <2>6. AppsBut(This, Name, Made(1, last.apps[This][Name]))'
      BY <1>1, <1>3 DEF AppsBut, Made, CopyIs
  <2>7. QED
      BY <2>4, <2>5, <2>6 DEF Installing, Choosing
<1>8. Making'
  <2>1. SUFFICES ASSUME job[Shell].cmd = "overlayfs" PROVE Making'
      BY <1>2 DEF Making
  <2>2. /\ last.state[m] = "none" /\ upperSys' = last.found \cup {m}
        /\ \A n \in Modules \ {m} : State(n) = last.state[n]
        /\ State(m) = "none"
    <3>1. CASE pc[Shell] = "mkdir"
        BY <1>2, <2>1, <3>1 DEF SInv, Making, Looking, At, WriteSteps, SameStore, SameFound,
            SameState
    <3>2. CASE pc[Shell] # "mkdir"
        BY <1>2, <2>1, <3>2 DEF SInv, Making, At, CopySteps, WriteSteps
    <3>3. QED
        BY <3>1, <3>2
  <2>3. /\ AppsBut(This, This, Made(1, last.apps[This][This]))'
        /\ MountsBut(This, Made(2, last.mounted[This]))'
      BY <1>1, <1>2, <1>3, <2>1 DEF AppsBut, MountsBut, Made, CopyIs
  <2>4. last'.state[This'] = "none" /\ upperSys' = last'.found \cup {This'}
      BY <1>1, <1>3, <2>2
  <2>5. \A n \in Modules \ {This'} : State(n)' = last'.state[n]
      BY <1>1, <1>3, <1>4, <2>2
  <2>6. State(This)' = "none"
    <3>1. State(m)' = "none"
        BY <1>2, <1>4, <2>2
    <3>2. QED
        BY <1>3, <3>1 DEF State, Installed
  <2>7. At({"create", "flush"})' => pos'[Shell] = 1
      BY DEF At
  <2>8. QED
      BY <2>3, <2>4, <2>5, <2>6, <2>7 DEF Making, At
<1>9. SInv'
    BY <1>5, <1>6, <1>7, <1>8 DEF SInv
<1>10. QED
    BY <1>1, <1>9 DEF Seen, Catalogue!vars

\* mkdir -p: nothing is copied yet.
LEMMA MkdirSteps ==
    ASSUME IInv, SInv, SerialNext, Mkdir(Shell)
    PROVE  SInv' /\ Seen
<1>1. pc[Shell] = "mkdir" /\ pc[Shell] \in CopySteps
    BY DEF Mkdir, CopySteps
<1>2. PICK m, a, k : m = This /\ a = Name /\ k = Source
    OBVIOUS
<1>3. pos[Shell] = 1
    BY <1>1, <1>2, Halfway
<1>4. /\ pc'[Shell] = "open" /\ pos'[Shell] = 1 /\ UNCHANGED <<job, mod, out, files, apk>>
      /\ NewDirs(Shell) \subseteq dirs' /\ upperSys' = upperSys \cup {m}
    BY <1>1, <1>2, <1>3, OneShell DEF Mkdir, Goto, This, IInv, TypeOK, ProcTypeOK
<1>5. \A i \in 1 .. 2 : \A old :
          Copied("open", 1, i, k, old) = Copied(pc[Shell], pos[Shell], i, k, old)
    BY <1>1, <1>3 DEF Copied
<1>6. CopyIs(m, a, k, pc[Shell], pos[Shell]) /\ last' = last
    BY <1>1, <1>2, <1>4, Halfway, GoesOn
<1>7. CopyIs(m, a, k, "open", 1)'
    BY <1>4, <1>5, <1>6 DEF CopyIs
<1>8. QED
    BY <1>1, <1>2, <1>4, <1>7, CopiesOn

\* While it copies, a command has its directories and its file to itself.
LEMMA CopyHere ==
    ASSUME IInv, SInv, pc[Shell] \in {"open", "copy", "chmod"}
    PROVE  /\ NewDirs(Shell) \subseteq dirs /\ Target(Shell) \in dirs
           /\ pc[Shell] # "open" => wr[Shell] = "clean"
           /\ upperSys = upperSys \cup {This}
<1>1. NewDirs(Shell) \subseteq dirs /\ (pc[Shell] # "open" => wr[Shell] = "clean")
    BY DEF SInv, Copying, At
<1>2. pos[Shell] \in Copies(Shell)
    BY OneShell DEF IInv, Local
<1>3. Target(Shell) \in NewDirs(Shell)
    BY <1>2 DEF Target, NewDirs
<1>4. This \in upperSys
    BY OneShell DEF IInv, Relies, WriteSteps, This
<1>5. QED
    BY <1>1, <1>3, <1>4

\* A write to the file at hand, whichever of the copies it is.
LEMMA WriteHere ==
    ASSUME IInv, SInv, pc[Shell] \in CopySteps, NEW m, m = This, NEW a, a = Name,
           NEW k, k = Source, NEW place, place = pos[Shell],
           NEW step \in {"copy", "chmod"}, NEW v, v = IF step = "copy" THEN Torn ELSE k,
           pc[Shell] \in {"open", "copy"}, last' = last, job' = job,
           apk' = [apk EXCEPT ![Target(Shell)] = v]
    PROVE  CopyIs(m, a, k, step, place)'
<1>1. /\ m \in Modules /\ a \in Apps /\ StoreTypeOK
      /\ job[Shell].cmd \in {"overlayfs", "install"}
      /\ pos[Shell] \in 1 .. 2 /\ (job[Shell].cmd = "install" => pos[Shell] = 1)
      /\ Target(Shell) = IF pos[Shell] = 1 THEN <<"upper", m, a>> ELSE <<"priv", m, m>>
      /\ CopyIs(m, a, k, pc[Shell], pos[Shell])
    BY Halfway DEF IInv, TypeOK
<1>2. /\ \A old : Copied(step, place, place, k, old) = v
      /\ \A old : Copied(step, 1, 2, k, old) = old
      /\ \A old : Copied(step, 2, 1, k, old) = k /\ Copied(pc[Shell], 2, 1, k, old) = k
      /\ \A old : Copied(pc[Shell], 1, 2, k, old) = old
    BY <1>1 DEF Copied
<1>3. PICK now : now = pc[Shell]
    OBVIOUS
<1>4. CopyIs(m, a, k, now, place)
    BY <1>1, <1>3
<1>5. CASE place = 1
  <2>1. apk' = [apk EXCEPT ![<<"upper", m, a>>] = v]
      BY <1>1, <1>5
  <2>2. /\ \A n \in Modules, b \in Apps :
              apk'[<<"upper", n, b>>] = IF n = m /\ b = a THEN v ELSE apk[<<"upper", n, b>>]
        /\ \A n \in Modules : apk'[<<"priv", n, n>>] = apk[<<"priv", n, n>>]
    <3>1. m \in Modules /\ a \in Apps /\ StoreTypeOK
        BY <1>1
    <3>2. QED
        BY <2>1, <3>1, ModulesAssumption DEF StoreTypeOK, Paths
  <2>3. \A n \in Modules, b \in Apps :
            ~(n = m /\ b = a) => apk[<<"upper", n, b>>] = last.apps[n][b]
      BY <1>4 DEF CopyIs
  <2>4. \A n \in Modules : apk[<<"priv", n, n>>] = last.mounted[n]
    <3>1. Copied(now, place, 2, k, last.mounted[m]) = last.mounted[m]
        BY <1>2, <1>3, <1>5
    <3>2. QED
        BY <1>4, <3>1 DEF CopyIs
  <2>5. QED
      BY <1>2, <1>5, <2>2, <2>3, <2>4 DEF CopyIs
<1>6. CASE place = 2
  <2>1. apk' = [apk EXCEPT ![<<"priv", m, m>>] = v] /\ job[Shell].cmd = "overlayfs"
      BY <1>1, <1>6
  <2>2. /\ \A n \in Modules, b \in Apps : apk'[<<"upper", n, b>>] = apk[<<"upper", n, b>>]
        /\ \A n \in Modules :
              apk'[<<"priv", n, n>>] = IF n = m THEN v ELSE apk[<<"priv", n, n>>]
    <3>1. m \in Modules /\ StoreTypeOK
        BY <1>1
    <3>2. QED
        BY <2>1, <3>1, ModulesAssumption DEF StoreTypeOK, Paths
  <2>3. \A n \in Modules, b \in Apps :
            apk[<<"upper", n, b>>] = IF n = m /\ b = a THEN k ELSE last.apps[n][b]
    <3>1. Copied(now, place, 1, k, last.apps[m][a]) = k
        BY <1>2, <1>3, <1>6
    <3>2. QED
        BY <1>4, <3>1 DEF CopyIs
  <2>4. \A n \in Modules : n # m => apk[<<"priv", n, n>>] = last.mounted[n]
      BY <1>4 DEF CopyIs
  <2>5. QED
      BY <1>2, <1>6, <2>1, <2>2, <2>3, <2>4 DEF CopyIs
<1>7. QED
    BY <1>1, <1>5, <1>6

\* cp opens its destination, whose directory is there.
LEMMA OpenSteps ==
    ASSUME IInv, SInv, SerialNext, OpenDest(Shell) \/ OpenNoDir(Shell)
    PROVE  SInv' /\ Seen
<1>1. pc[Shell] = "open" /\ pc[Shell] \in CopySteps
    BY DEF OpenDest, OpenNoDir, CopySteps
<1>2. OpenDest(Shell)
    BY <1>1, CopyHere DEF OpenNoDir
<1>3. PICK m, a, k, place : m = This /\ a = Name /\ k = Source /\ place = pos[Shell]
    OBVIOUS
<1>4. /\ pc'[Shell] = "copy" /\ pos'[Shell] = pos[Shell] /\ pos[Shell] \in 1 .. 2
      /\ UNCHANGED <<job, mod, out, files, dirs, upperSys>>
      /\ wr'[Shell] = "clean"
      /\ apk' = [apk EXCEPT ![Target(Shell)] = Torn]
    BY <1>1, <1>2, <1>3, OneShell, Halfway DEF OpenDest, Goto, IInv, TypeOK, ProcTypeOK
<1>5. CopyIs(m, a, k, "copy", place)'
  <2>1. last' = last
      BY <1>1, <1>4, GoesOn
  <2>2. QED
      BY <1>1, <1>3, <1>4, <2>1, WriteHere
<1>6. NewDirs(Shell) \subseteq dirs' /\ upperSys' = upperSys \cup {m}
    BY <1>1, <1>3, <1>4, CopyHere
<1>7. QED
    BY <1>1, <1>3, <1>4, <1>5, <1>6, CopiesOn

\* cp writes the source, with nobody to share the file.
LEMMA CopyBytesSteps ==
    ASSUME IInv, SInv, SerialNext, CopyBytes(Shell)
    PROVE  SInv' /\ Seen
<1>1. pc[Shell] = "copy" /\ pc[Shell] \in CopySteps
    BY DEF CopyBytes, CopySteps
<1>2. PICK m, a, k, place : m = This /\ a = Name /\ k = Source /\ place = pos[Shell]
    OBVIOUS
<1>3. /\ pc'[Shell] = "chmod" /\ pos'[Shell] = pos[Shell] /\ pos[Shell] \in 1 .. 2
      /\ UNCHANGED <<job, mod, out, files, dirs, upperSys>>
      /\ wr'[Shell] = "clean"
      /\ apk' = [apk EXCEPT ![Target(Shell)] = k]
    BY <1>1, <1>2, OneShell, Halfway, CopyHere
    DEF CopyBytes, Goto, Source, IInv, TypeOK, ProcTypeOK
<1>4. CopyIs(m, a, k, "chmod", place)'
  <2>1. last' = last
      BY <1>1, <1>3, GoesOn
  <2>2. QED
      BY <1>1, <1>2, <1>3, <2>1, WriteHere
<1>5. NewDirs(Shell) \subseteq dirs' /\ upperSys' = upperSys \cup {m}
    BY <1>1, <1>2, <1>3, CopyHere
<1>6. QED
    BY <1>1, <1>2, <1>3, <1>4, <1>5, CopiesOn

\* An install that has ended, or its tools have, shows as one of the catalogue.
LEMMA InstallShows ==
    ASSUME IInv, SInv, SerialNext, pc[Shell] \in CopySteps, job[Shell].cmd = "install",
           NEW code \in {"ok", "fail", "killed"}, Return(Shell, code),
           UNCHANGED <<upperSys, files>>,
           NEW m, m = This, NEW a, a = Name, NEW k, k = Source,
           NEW v \in {last.apps[m][a], Torn, k}, code = "ok" => v = k,
           AppsBecome(m, a, v),
           \A n \in Modules : apk'[<<"priv", n, n>>] = last.mounted[n]
    PROVE  SInv' /\ Seen
<1>1. /\ m \in Modules /\ a \in Apps /\ k # NoApk
      /\ job[Shell] \in Jobs /\ job[Shell].root
    BY Halfway
<1>2. Catalogue!Chosen(m) /\ SameFound /\ SameState
    BY DEF SInv, Choosing, At, CopySteps, WriteSteps
<1>3. SInv' /\ SameStore' /\ last'.code = code
    BY Returned
<1>4. LastType /\ LastType'
    BY <1>3 DEF SInv
<1>5. last'.apps = [last.apps EXCEPT ![m][a] = v]
    BY <1>1, <1>3, <1>4, ShownApps
<1>6. last'.mounted = last.mounted /\ last'.found = last.found
    BY <1>2, <1>3, <1>4, ShownSame DEF SameFound
<1>7. last'.state = last.state
    BY <1>2, <1>3, <1>4, ShownSame, StateStays DEF SameState
<1>8. Catalogue!Install(job[Shell])
  <2>1. PICK j : j = job[Shell]
      OBVIOUS
  <2>2. j.name = a /\ j.apk = k /\ j.root
      BY <1>1, <2>1 DEF Name, Source
  <2>3. Catalogue!Puts(m, j.name, v)
      BY <1>5, <1>6, <1>7, <2>2 DEF Catalogue!Puts
  <2>4. /\ m \in Modules /\ Catalogue!Chosen(m) /\ j.apk # NoApk /\ j.root
        /\ v \in {last.apps[m][j.name], Torn, j.apk}
        /\ last'.code \in {"killed", "fail"} \/ (last'.code = "ok" /\ v = j.apk)
      BY <1>1, <1>2, <1>3, <2>2
  <2>5. Catalogue!Install(j)
      BY <2>3, <2>4, Zenon DEF Catalogue!Install
  <2>6. QED
      BY <2>1, <2>5
<1>9. QED
    BY <1>1, <1>3, <1>8 DEF Seen, Catalogue!Next

\* And so an overlayfs that has come past its checks.
LEMMA OverlayfsShows ==
    ASSUME IInv, SInv, SerialNext, pc[Shell] \in WriteSteps, job[Shell].cmd = "overlayfs",
           NEW code \in {"ok", "fail", "killed"}, Return(Shell, code),
           NEW m, m = This, NEW k, k = Source,
           NEW copy, copy \in {last.apps[m][m], Torn, k},
           NEW mount, mount \in {last.mounted[m], Torn, k},
           AppsBecome(m, m, copy), MountsBecome(m, mount), OthersStand(m),
           upperSys' \in {last.found, last.found \cup {m}},
           State(m)' # "none" => copy = k /\ mount = k /\ m \in upperSys',
           code = "ok" => State(m)' = "complete", code = "fail" => State(m)' = "none"
    PROVE  SInv' /\ Seen
<1>1. /\ m \in Modules /\ m \in Apps /\ k # NoApk /\ job[Shell] \in Jobs
      /\ job[Shell].name = m /\ job[Shell].root
    BY OneShell, Command, WorksOnModule, ModulesAssumption
    DEF WriteSteps, IInv, Local, This, Name
<1>2. last.state[m] = "none"
    BY DEF SInv, Making, At
<1>3. SInv' /\ SameStore' /\ last'.code = code
    BY Returned
<1>4. LastType /\ LastType'
    BY <1>3 DEF SInv
<1>5. last'.apps = [last.apps EXCEPT ![m][m] = copy]
    BY <1>1, <1>3, <1>4, ShownApps
<1>6. last'.mounted = [last.mounted EXCEPT ![m] = mount]
    BY <1>1, <1>3, <1>4, ShownMounts
<1>7. last'.found = upperSys'
    BY <1>3 DEF SameStore, SameFound
<1>8. PICK new \in {"none", "incomplete", "complete"} : new = State(m)'
    BY DEF State
<1>9. last'.state = [last.state EXCEPT ![m] = new]
  <2>1. /\ last.state \in [Modules -> {"none", "incomplete", "complete"}]
        /\ last'.state \in [Modules -> {"none", "incomplete", "complete"}]
      BY <1>4 DEF LastType
  <2>2. \A n \in Modules : last'.state[n] = IF n = m THEN new ELSE last.state[n]
      BY <1>3, <1>8 DEF OthersStand, SameStore, SameState
  <2>3. QED
      BY <1>1, <2>1, <2>2, OnePlaceOfOne
<1>10. Catalogue!Overlayfs(job[Shell])
  <2>1. PICK j : j = job[Shell]
      OBVIOUS
  <2>2. j.name = m /\ j.apk = k /\ j.root
      BY <1>1, <2>1 DEF Source
  <2>3. /\ copy \in {last.apps[j.name][j.name], last.mounted[j.name], Torn, j.apk}
        /\ mount \in {last.apps[j.name][j.name], last.mounted[j.name], Torn, j.apk}
      BY <2>2
  <2>4. PICK seen \in {last.found, last.found \cup {j.name}} : seen = upperSys'
      BY <2>2
  <2>5. /\ last'.apps = [last.apps EXCEPT ![j.name][j.name] = copy]
        /\ last'.mounted = [last.mounted EXCEPT ![j.name] = mount]
        /\ last'.found = seen
        /\ last'.state = [last.state EXCEPT ![j.name] = new]
      BY <1>5, <1>6, <1>7, <1>9, <2>2, <2>4
  <2>6. /\ new # "none" => copy = j.apk /\ mount = j.apk /\ j.name \in seen
        /\ copy \in {last.apps[j.name][j.name], Torn, j.apk}
        /\ mount \in {last.mounted[j.name], Torn, j.apk}
        /\ \/ last'.code = "killed"
           \/ last'.code = "fail" /\ new = "none"
           \/ last'.code = "ok" /\ new = "complete"
        /\ last.state[j.name] = "none" /\ j.root /\ j.apk # NoApk
      BY <1>1, <1>2, <1>3, <1>8, <2>2, <2>4
  <2>7. Catalogue!Overlayfs(j)
      BY <2>3, <2>5, <2>6, Zenon DEF Catalogue!Overlayfs
  <2>8. QED
      BY <2>1, <2>7
<1>11. QED
    BY <1>1, <1>3, <1>10 DEF Seen, Catalogue!Next

\* chmod finds the file; install is done, overlayfs goes on to the next unless
\* it was killed and its tools are done.
LEMMA ChmodSteps ==
    ASSUME IInv, SInv, SerialNext, ChmodApk(Shell) \/ ChmodNoFile(Shell)
    PROVE  SInv' /\ Seen
<1>1. pc[Shell] = "chmod" /\ pc[Shell] \in CopySteps /\ UNCHANGED fsVars
    BY DEF ChmodApk, ChmodNoFile, CopySteps
<1>2. PICK m, a, k, place : m = This /\ a = Name /\ k = Source /\ place = pos[Shell]
    OBVIOUS
<1>3. /\ m \in Modules /\ a \in Apps /\ k \in Apks /\ place \in 1 .. 2
      /\ job[Shell].cmd \in {"overlayfs", "install"}
      /\ job[Shell].cmd = "overlayfs" => m = a
      /\ job[Shell].cmd = "install" => place = 1
      /\ Target(Shell) = IF place = 1 THEN <<"upper", m, a>> ELSE <<"priv", m, m>>
      /\ CopyIs(m, a, k, "chmod", place)
    BY <1>1, <1>2, Halfway
<1>4. \A old : Copied("chmod", place, place, k, old) = k
    BY <1>3 DEF Copied
<1>5. apk[Target(Shell)] = k
  <2>1. CASE place = 1
      BY <1>3, <1>4, <2>1 DEF CopyIs
  <2>2. CASE place = 2
      BY <1>3, <1>4, <2>2 DEF CopyIs
  <2>3. QED
      BY <1>3, <2>1, <2>2
<1>6. ChmodApk(Shell)
    BY <1>3, <1>5, ApksAssumption DEF ChmodNoFile
<1>7. CASE job[Shell].cmd = "install"
  <2>1. PICK code \in {"ok", "killed"} : Return(Shell, code)
      BY <1>6, <1>7 DEF ChmodApk, ToolsEnd
  <2>2. AppsBecome(m, a, k) /\ \A n \in Modules : apk'[<<"priv", n, n>>] = last.mounted[n]
      BY <1>1, <1>3, <1>4, <1>7 DEF AppsBecome, CopyIs, fsVars
  <2>3. QED
      BY <1>1, <1>2, <1>7, <2>1, <2>2, InstallShows DEF fsVars
<1>8. CASE job[Shell].cmd = "overlayfs" /\ place = 2 /\ Orphan(Shell)
  <2>1. Return(Shell, "killed")
      BY <1>2, <1>6, <1>8 DEF ChmodApk, ToolsEnd, Trees
  <2>2. AppsBecome(m, m, k) /\ MountsBecome(m, k)
    <3>1. \A old : Copied("chmod", 2, 1, k, old) = k /\ Copied("chmod", 2, 2, k, old) = k
        BY DEF Copied
    <3>2. QED
        BY <1>1, <1>3, <1>8, <3>1 DEF AppsBecome, MountsBecome, CopyIs, fsVars
  <2>3. /\ State(m)' = "none" /\ OthersStand(m)
        /\ upperSys' \in {last.found, last.found \cup {m}}
    <3>1. /\ State(m) = "none" /\ \A n \in Modules \ {m} : State(n) = last.state[n]
          /\ upperSys = last.found \cup {m}
        BY <1>1, <1>2, <1>8 DEF SInv, Making, At, WriteSteps
    <3>2. QED
        BY <1>1, <1>3, <3>1, StateStays DEF OthersStand, fsVars
  <2>4. pc[Shell] \in WriteSteps
      BY <1>1 DEF WriteSteps
  <2>5. QED
      BY <1>2, <1>8, <2>1, <2>2, <2>3, <2>4, OverlayfsShows
<1>9. CASE job[Shell].cmd = "overlayfs" /\ ~(place = 2 /\ Orphan(Shell))
  <2>1. PICK step, to : step = (IF place = 2 THEN "create" ELSE "open")
                        /\ to = (IF place = 2 THEN 1 ELSE 2)
      OBVIOUS
  <2>2. /\ pc'[Shell] = step /\ pos'[Shell] = to /\ UNCHANGED <<job, mod, out>>
      BY <1>2, <1>3, <1>6, <1>9, <2>1, OneShell
      DEF ChmodApk, Goto, Trees, IInv, TypeOK, ProcTypeOK
  <2>3. last' = last
      BY <1>1, <2>1, <2>2, GoesOn
  <2>4. \A i \in 1 .. 2 : \A old : Copied(step, to, i, k, old) = Copied("chmod", place, i, k, old)
      BY <1>3, <2>1 DEF Copied
  <2>5. CopyIs(m, a, k, step, to)'
      BY <1>1, <1>3, <2>2, <2>3, <2>4 DEF CopyIs, fsVars
  <2>6. NewDirs(Shell) \subseteq dirs' /\ upperSys' = upperSys \cup {m}
      BY <1>1, <1>2, CopyHere DEF fsVars
  <2>7. /\ step \in {"open", "copy", "chmod", "create"} /\ to \in 1 .. 2
        /\ step = "create" => to = 1 /\ ~Orphan(Shell)
        /\ step \notin {"copy", "chmod"}
      BY <1>3, <1>9, <2>1
  <2>8. QED
      BY <1>1, <1>2, <1>9, <2>2, <2>5, <2>6, <2>7, CopiesOn DEF fsVars
<1>10. QED
    BY <1>3, <1>7, <1>8, <1>9

-----------------------------------------------------------------------------
(* The files of the module, and the removal of an application *)

\* What holds while overlayfs writes the files of its module.
LEMMA WritingFiles ==
    ASSUME IInv, SInv, pc[Shell] \in {"create", "flush"}, NEW m, m = This, NEW k, k = Source
    PROVE  /\ m \in Modules /\ job[Shell].cmd = "overlayfs" /\ pos[Shell] \in 1 .. 3
           /\ AppsBut(m, m, k) /\ MountsBut(m, k)
           /\ upperSys = last.found \cup {m}
           /\ \A n \in Modules \ {m} : State(n) = last.state[n]
           /\ last.state[m] = "none"
           /\ \A i \in 1 .. 3 : i < pos[Shell] => files[<<m, ModuleFiles[i]>>] = "written"
<1>1. m \in Modules /\ job[Shell].cmd = "overlayfs" /\ pos[Shell] \in 1 .. 3
    BY OneShell, WorksOnModule DEF WriteSteps, IInv, Local, This
<1>2. \A i, old : Made(i, old) = k
    BY DEF Made, Copied
<1>3. QED
    BY <1>1, <1>2 DEF SInv, Making, At, WriteSteps, AppsBut, MountsBut

\* What a step of that writing has to keep.
LEMMA WritesGoOn ==
    ASSUME IInv, SInv, SerialNext, pc[Shell] \in {"create", "flush"},
           pc'[Shell] \in {"create", "flush"}, UNCHANGED <<job, mod, out, upperSys, apk>>,
           NEW m, m = This, NEW f \in FileNames, NEW v,
           files' = [files EXCEPT ![<<m, f>>] = v],
           \A i \in 1 .. 3 : i < pos'[Shell] => files'[<<m, ModuleFiles[i]>>] = "written"
    PROVE  SInv' /\ Seen
<1>1. PICK k : k = Source
    OBVIOUS
<1>2. /\ m \in Modules /\ job[Shell].cmd = "overlayfs"
      /\ AppsBut(m, m, k) /\ MountsBut(m, k)
      /\ upperSys = last.found \cup {m} /\ last.state[m] = "none"
      /\ \A n \in Modules \ {m} : State(n) = last.state[n]
    BY <1>1, WritingFiles
<1>3. last' = last
    BY GoesOn
<1>4. This' = m /\ Source' = k
    BY <1>1 DEF This, Source
<1>5. \A i, old : Made(i, old)' = k
    BY <1>4 DEF Made, Copied
<1>6. \A n \in Modules \ {m} : State(n)' = last.state[n]
    BY <1>2, PutFile DEF IInv, TypeOK
<1>7. AppsBut(This, This, Made(1, last.apps[This][This]))'
    BY <1>2, <1>3, <1>4 DEF AppsBut, Made, Copied
<1>8. MountsBut(This, Made(2, last.mounted[This]))'
    BY <1>2, <1>3, <1>4 DEF MountsBut, Made, Copied
<1>9. Making'
    BY <1>2, <1>3, <1>4, <1>6, <1>7, <1>8 DEF Making, At
<1>10. LastType' /\ Showing'
    BY <1>3 DEF SInv, LastType, Showing, At, ToolSteps
<1>11. Looking' /\ Scanning' /\ Choosing' /\ Copying' /\ Installing' /\ Removing'
    BY <1>2 DEF Looking, Scanning, Choosing, Copying, Installing, Removing, At
<1>12. QED
    BY <1>3, <1>9, <1>10, <1>11 DEF SInv, Seen, Catalogue!vars

\* A file of the module is created, or written; the last makes it complete.
LEMMA FileSteps ==
    ASSUME IInv, SInv, SerialNext, ~Faults, CreateFile(Shell) \/ FlushFile(Shell)
    PROVE  SInv' /\ Seen
<1>1. pc[Shell] \in {"create", "flush"}
    BY DEF CreateFile, FlushFile
<1>2. PICK m, k : m = This /\ k = Source
    OBVIOUS
<1>3. /\ m \in Modules /\ job[Shell].cmd = "overlayfs" /\ pos[Shell] \in 1 .. 3
      /\ AppsBut(m, m, k) /\ MountsBut(m, k)
      /\ upperSys = last.found \cup {m}
      /\ \A n \in Modules \ {m} : State(n) = last.state[n]
      /\ \A i \in 1 .. 3 : i < pos[Shell] => files[<<m, ModuleFiles[i]>>] = "written"
    BY <1>1, <1>2, WritingFiles
<1>4. PICK f \in FileNames : f = ModuleFiles[pos[Shell]]
    BY <1>3 DEF ModuleFiles, FileNames
<1>5. PICK v : v = IF pc[Shell] = "create" THEN "empty" ELSE "written"
    OBVIOUS
<1>6. /\ files' = [files EXCEPT ![<<m, f>>] = v] /\ UNCHANGED <<upperSys, apk>>
      /\ files'[<<m, f>>] = v
      /\ \A g \in FileNames \ {f} : files'[<<m, g>>] = files[<<m, g>>]
  <2>1. files' = [files EXCEPT ![<<m, f>>] = v] /\ UNCHANGED <<upperSys, apk>>
      BY <1>2, <1>4, <1>5 DEF CreateFile, FlushFile, This
  <2>2. QED
      BY <1>3, <2>1 DEF IInv, TypeOK, StoreTypeOK
<1>7. \A i \in 1 .. 3 : i < pos[Shell] => ModuleFiles[i] \in FileNames \ {f}
    BY <1>3, <1>4 DEF ModuleFiles, FileNames
<1>8. \A i \in 1 .. 3 : i < pos[Shell] => files'[<<m, ModuleFiles[i]>>] = "written"
    BY <1>3, <1>6, <1>7
<1>9. CASE CreateFile(Shell)
  <2>1. pc'[Shell] = "flush" /\ UNCHANGED <<job, mod, out, pos>>
      BY <1>9, OneShell DEF CreateFile, Goto, IInv, TypeOK, ProcTypeOK
  <2>2. pc'[Shell] \in {"create", "flush"} /\ UNCHANGED <<job, mod, out, upperSys, apk>>
      BY <1>6, <2>1
  <2>3. \A i \in 1 .. 3 : i < pos'[Shell] => files'[<<m, ModuleFiles[i]>>] = "written"
      BY <1>8, <2>1
  <2>4. files' = [files EXCEPT ![<<m, f>>] = v] /\ m = This
      BY <1>2, <1>6
  <2>5. QED
      BY <1>1, <2>2, <2>3, <2>4, WritesGoOn
<1>10. CASE FlushFile(Shell) /\ pos[Shell] < 3
  <2>1. /\ pc'[Shell] = "create" /\ UNCHANGED <<job, mod, out>>
        /\ pos'[Shell] = pos[Shell] + 1
      BY <1>3, <1>10, OneShell DEF FlushFile, Goto, ModuleFiles, IInv, TypeOK, ProcTypeOK
  <2>2. \A i \in 1 .. 3 : i < pos'[Shell] => files'[<<m, ModuleFiles[i]>>] = "written"
    <3>1. v = "written"
        BY <1>5, <1>10 DEF FlushFile
    <3>2. PICK at \in 1 .. 3 : at = pos[Shell]
        BY <1>3
    <3>3. files'[<<m, ModuleFiles[at]>>] = "written"
        BY <1>4, <1>6, <3>1, <3>2
    <3>4. \A i \in 1 .. 3 : i < at => files'[<<m, ModuleFiles[i]>>] = "written"
        BY <1>8, <3>2
    <3>5. pos'[Shell] = at + 1
        BY <2>1, <3>2
    <3>6. \A i \in 1 .. 3 : i < at + 1 => i < at \/ i = at
        OBVIOUS
    <3>7. QED
        BY <3>3, <3>4, <3>5, <3>6
  <2>3. pc'[Shell] \in {"create", "flush"} /\ UNCHANGED <<job, mod, out, upperSys, apk>>
      BY <1>6, <2>1
  <2>4. files' = [files EXCEPT ![<<m, f>>] = v] /\ m = This
      BY <1>2, <1>6
  <2>5. QED
      BY <1>1, <2>2, <2>3, <2>4, WritesGoOn
<1>11. CASE FlushFile(Shell) /\ pos[Shell] = 3
  <2>1. Return(Shell, "ok")
      BY <1>11 DEF FlushFile, ModuleFiles
  <2>2. \A g \in FileNames : files'[<<m, g>>] = "written"
    <3>1. \A i \in 1 .. 3 : files'[<<m, ModuleFiles[i]>>] = "written"
        BY <1>4, <1>5, <1>6, <1>8, <1>11 DEF FlushFile
    <3>2. \A g \in FileNames : \E i \in 1 .. 3 : g = ModuleFiles[i]
        BY DEF FileNames, ModuleFiles
    <3>3. QED
        BY <3>1, <3>2
  <2>3. State(m)' = "complete" /\ m \in upperSys'
      BY <1>3, <1>6, <2>2 DEF State, Installed, FileNames
  <2>4. OthersStand(m)
      BY <1>3, <1>6, PutFile DEF OthersStand, IInv, TypeOK
  <2>5. /\ AppsBecome(m, m, k) /\ MountsBecome(m, k)
        /\ upperSys' \in {last.found, last.found \cup {m}}
      BY <1>3, <1>6 DEF AppsBut, MountsBut, AppsBecome, MountsBecome
  <2>6. QED
      BY <1>1, <1>2, <1>3, <2>1, <2>3, <2>4, <2>5, OverlayfsShows DEF WriteSteps
<1>12. QED
    BY <1>3, <1>9, <1>10, <1>11

\* What holds while uninstall removes, and how it shows.
LEMMA RemovingHere ==
    ASSUME IInv, SInv, pc[Shell] \in {"rm", "rmdir", "rmdirAgain"},
           NEW m, m = This, NEW a, a = Name
    PROVE  /\ m \in Modules /\ a \in Apps /\ job[Shell] \in Jobs
           /\ job[Shell].cmd = "uninstall" /\ job[Shell].root /\ pos[Shell] = 1
           /\ Target(Shell) = <<"upper", m, a>> /\ last.apps[m][a] # Absent
           /\ Catalogue!Chosen(m) /\ SameMounts /\ SameFound /\ SameState
           /\ pc[Shell] # "rm" => AppsBut(m, a, Absent)
<1>1. /\ m \in Modules /\ job[Shell].cmd = "uninstall" /\ job[Shell].root /\ pos[Shell] = 1
    BY OneShell, WorksOnModule DEF WriteSteps, IInv, Local, This
<1>2. job[Shell] \in Jobs /\ a \in Apps
    BY Command
<1>3. Target(Shell) = <<"upper", m, a>>
    BY <1>1 DEF Target, Trees, This, Name
<1>4. Catalogue!Chosen(m) /\ SameMounts /\ SameFound /\ SameState
    BY <1>1 DEF SInv, Choosing, At, WriteSteps
<1>5. /\ last.apps[m][a] # Absent
      /\ pc[Shell] # "rm" => AppsBut(m, a, Absent)
    BY DEF SInv, Removing, At
<1>6. QED
    BY <1>1, <1>2, <1>3, <1>4, <1>5

\* An uninstall that ends after its rm shows as a put.
LEMMA UninstallShows ==
    ASSUME IInv, SInv, SerialNext, pc[Shell] \in {"rmdir", "rmdirAgain"},
           NEW code \in {"ok", "fail", "killed"}, Return(Shell, code),
           UNCHANGED <<upperSys, apk, files>>
    PROVE  SInv' /\ Seen
<1>1. PICK m, a : m = This /\ a = Name
    OBVIOUS
<1>2. /\ m \in Modules /\ a \in Apps /\ job[Shell] \in Jobs
      /\ job[Shell].cmd = "uninstall" /\ job[Shell].root /\ last.apps[m][a] # Absent
      /\ Catalogue!Chosen(m) /\ SameMounts /\ SameFound /\ SameState
      /\ AppsBut(m, a, Absent)
    BY <1>1, RemovingHere
<1>3. SInv' /\ SameStore' /\ last'.code = code
    BY Returned
<1>4. LastType /\ LastType'
    BY <1>3 DEF SInv
<1>5. AppsBecome(m, a, Absent)
    BY <1>2 DEF AppsBut, AppsBecome
<1>6. last'.apps = [last.apps EXCEPT ![m][a] = Absent]
    BY <1>2, <1>3, <1>4, <1>5, ShownApps
<1>7. last'.mounted = last.mounted /\ last'.found = last.found
    BY <1>2, <1>3, <1>4, ShownSame DEF SameMounts, SameFound
<1>8. last'.state = last.state
    BY <1>2, <1>3, <1>4, ShownSame, StateStays DEF SameState
<1>9. Catalogue!Uninstall(job[Shell])
    BY <1>1, <1>2, <1>3, <1>6, <1>7, <1>8 DEF Catalogue!Uninstall, Catalogue!Puts, Name
<1>10. QED
    BY <1>2, <1>3, <1>9 DEF Seen, Catalogue!Next

\* rm and the two rmdir.
LEMMA RemoveSteps ==
    ASSUME IInv, SInv, SerialNext, RemoveApk(Shell) \/ RemoveDir(Shell)
    PROVE  SInv' /\ Seen
<1>1. pc[Shell] \in {"rm", "rmdir", "rmdirAgain"}
    BY DEF RemoveApk, RemoveDir
<1>2. PICK m, a : m = This /\ a = Name
    OBVIOUS
<1>3. /\ m \in Modules /\ a \in Apps /\ job[Shell].cmd = "uninstall"
      /\ Target(Shell) = <<"upper", m, a>> /\ last.apps[m][a] # Absent
      /\ Catalogue!Chosen(m) /\ SameMounts /\ SameFound /\ SameState
      /\ pc[Shell] # "rm" => AppsBut(m, a, Absent)
    BY <1>1, <1>2, RemovingHere
<1>4. CASE RemoveDir(Shell) /\ pc[Shell] = "rmdirAgain"
    BY <1>4, UninstallShows DEF RemoveDir, ToolsEnd
<1>5. CASE RemoveApk(Shell) \/ (RemoveDir(Shell) /\ pc[Shell] = "rmdir")
  <2>1. /\ pc'[Shell] \in {"rmdir", "rmdirAgain"} /\ UNCHANGED <<job, mod, out, upperSys, files>>
      BY <1>5, OneShell DEF RemoveApk, RemoveDir, Goto, IInv, TypeOK, ProcTypeOK
  <2>2. last' = last
      BY <1>1, <2>1, GoesOn
  <2>3. /\ \A n \in Modules, b \in Apps :
              apk'[<<"upper", n, b>>] = IF n = m /\ b = a THEN Absent ELSE last.apps[n][b]
        /\ \A n \in Modules : apk'[<<"priv", n, n>>] = apk[<<"priv", n, n>>]
    <3>1. CASE RemoveApk(Shell)
      <4>1. apk' = [apk EXCEPT ![<<"upper", m, a>>] = Absent] /\ pc[Shell] = "rm"
          BY <1>3, <3>1 DEF RemoveApk
      <4>2. SameApps
          BY <4>1 DEF SInv, Looking, At, SameStore
      <4>3. StoreTypeOK
          BY DEF IInv, TypeOK
      <4>4. QED
          BY <1>3, <4>1, <4>2, <4>3, ModulesAssumption DEF SameApps, StoreTypeOK, Paths
    <3>2. CASE RemoveDir(Shell) /\ pc[Shell] = "rmdir"
        BY <1>3, <3>2 DEF RemoveDir, AppsBut
    <3>3. QED
        BY <1>5, <3>1, <3>2
  <2>4. This' = m /\ Name' = a
      BY <1>2, <2>1 DEF This, Name
  <2>5. Removing'
      BY <1>3, <2>2, <2>3, <2>4 DEF Removing, AppsBut
  <2>6. Choosing'
    <3>1. Catalogue!Chosen(This)'
        BY <1>3, <2>2, <2>4 DEF Catalogue!Chosen
    <3>2. SameMounts' /\ SameFound' /\ SameState'
        BY <1>3, <2>1, <2>2, <2>3, StateStays DEF SameMounts, SameFound, SameState
    <3>3. QED
        BY <3>1, <3>2 DEF Choosing
  <2>7. LastType' /\ Showing'
      BY <1>1, <2>1, <2>2 DEF SInv, LastType, Showing, At, ToolSteps
  <2>8. Looking' /\ Scanning' /\ Copying' /\ Installing' /\ Making'
      BY <1>3, <2>1 DEF Looking, Scanning, Copying, Installing, Making, At
  <2>9. QED
      BY <2>2, <2>5, <2>6, <2>7, <2>8 DEF SInv, Seen, Catalogue!vars
<1>6. QED
    BY <1>1, <1>4, <1>5 DEF RemoveDir

-----------------------------------------------------------------------------
(* Kills and interruptions *)

\* A kill before the first write, or right after mkdir, changes nothing.
LEMMA KilledUnchanged ==
    ASSUME IInv, SInv, SerialNext, Return(Shell, "killed"), SameStore,
           UNCHANGED <<upperSys, apk, files>>
    PROVE  SInv' /\ Seen
<1>1. SInv' /\ Catalogue!Ends("killed")
    BY EndsUnchanged
<1>2. QED
    BY <1>1 DEF Seen, Catalogue!Next, Catalogue!KilledEarly

\* An end at a step of the copying leaves copies like those of a step of the
\* copying that is not over.
LEMMA StoppedCopying ==
    ASSUME IInv, SInv, SerialNext, pc[Shell] \in CopySteps,
           NEW code \in {"fail", "killed"}, Return(Shell, code), UNCHANGED <<apk, files>>,
           NEW m, m = This,
           IF job[Shell].cmd = "install" THEN UNCHANGED upperSys
                                         ELSE upperSys' \in {last.found, last.found \cup {m}},
           pc[Shell] # "mkdir" => UNCHANGED upperSys
    PROVE  SInv' /\ Seen
<1>1. PICK a, k, step, place : /\ a = Name /\ k = Source
                               /\ step = pc[Shell] /\ place = pos[Shell]
    OBVIOUS
<1>2. /\ m \in Modules /\ a \in Apps /\ k \in Apks
      /\ job[Shell].cmd \in {"overlayfs", "install"}
      /\ job[Shell].cmd = "overlayfs" => m = a
      /\ CopyIs(m, a, k, step, place)
    BY <1>1, Halfway
<1>3. \A i \in 1 .. 2 : \A old : Copied(step, place, i, k, old) \in {old, Torn, k}
    BY DEF Copied
<1>4. PICK copy, mount : /\ copy = Copied(step, place, 1, k, last.apps[m][a])
                         /\ mount = Copied(step, place, 2, k, last.mounted[m])
    OBVIOUS
<1>5. copy \in {last.apps[m][a], Torn, k} /\ mount \in {last.mounted[m], Torn, k}
    BY <1>3, <1>4
<1>6. AppsBecome(m, a, copy)
    BY <1>2, <1>4 DEF AppsBecome, CopyIs
<1>7. CASE job[Shell].cmd = "install"
  <2>1. \A n \in Modules : apk'[<<"priv", n, n>>] = last.mounted[n]
      BY <1>2, <1>7 DEF CopyIs
  <2>2. UNCHANGED <<upperSys, files>>
      BY <1>7
  <2>3. QED
      BY <1>1, <1>5, <1>6, <1>7, <2>1, <2>2, InstallShows
<1>8. CASE job[Shell].cmd = "overlayfs"
  <2>1. MountsBecome(m, mount)
      BY <1>2, <1>4, <1>8 DEF CopyIs, MountsBecome
  <2>2. State(m)' = "none" /\ OthersStand(m)
    <3>1. CASE step = "mkdir"
      <4>1. SameState /\ last.state[m] = "none"
          BY <1>1, <1>8, <3>1 DEF SInv, Looking, Making, At, WriteSteps, SameStore
      <4>2. QED
          BY <1>2, <4>1, StateStays DEF SameState, OthersStand
    <3>2. CASE step # "mkdir"
      <4>1. State(m) = "none" /\ \A n \in Modules \ {m} : State(n) = last.state[n]
          BY <1>1, <1>8, <3>2 DEF SInv, Making, At, CopySteps, WriteSteps
      <4>2. QED
          BY <1>2, <4>1, StateStays DEF OthersStand
    <3>3. QED
        BY <3>1, <3>2
  <2>3. pc[Shell] \in WriteSteps /\ upperSys' \in {last.found, last.found \cup {m}}
      BY <1>8 DEF CopySteps, WriteSteps
  <2>4. /\ copy \in {last.apps[m][m], Torn, k} /\ mount \in {last.mounted[m], Torn, k}
        /\ AppsBecome(m, m, copy)
      BY <1>2, <1>5, <1>6, <1>8
  <2>5. k = Source
      BY <1>1
  <2>6. QED
      BY <1>8, <2>1, <2>2, <2>3, <2>4, <2>5, OverlayfsShows
<1>9. QED
    BY <1>2, <1>7, <1>8

\* What keeps the invariant if nothing changes but the exit code.
LEMMA OnlyShowing ==
    ASSUME SInv, UNCHANGED <<fsVars, pc, job, mod, pos, wr, last>>, Showing'
    PROVE  SInv'
<1>1. \A n : State(n)' = State(n)
    BY DEF State, Installed, fsVars
<1>2. QED
    BY <1>1 DEF SInv, fsVars, LastType, At, Looking, Scanning, Choosing, Copying, Installing,
        Removing, Making, SameStore, SameApps, SameMounts, SameFound, SameState, AppsBut,
        MountsBut, Made, This, Name, Source, NewDirs, Copies, Catalogue!Chosen

\* A kill ends a command that waits for no tool, with what it has done; the
\* tools of another go on, and nothing shows.
LEMMA KillSteps ==
    ASSUME IInv, SInv, SerialNext, Kill(Shell)
    PROVE  SInv' /\ Seen
<1>1. /\ pc[Shell] \in PCs /\ pc[Shell] # "idle" /\ UNCHANGED fsVars
      /\ pc[Shell] \notin ToolSteps => Return(Shell, "killed")
    BY OneShell DEF Kill, IInv, TypeOK, ProcTypeOK
<1>2. CASE pc[Shell] \in ToolSteps
  <2>1. UNCHANGED <<pc, job, mod, pos, wr>> /\ out'[Shell] = "killed"
      BY <1>2, OneShell DEF Kill, IInv, TypeOK, ProcTypeOK
  <2>2. last' = last
      BY <1>1, <2>1, GoesOn
  <2>3. Showing'
      BY <1>1, <1>2, <2>1, <2>2 DEF SInv, Showing, At
  <2>4. SInv'
      BY <1>1, <2>1, <2>2, <2>3, OnlyShowing
  <2>5. QED
      BY <2>2, <2>4 DEF Seen, Catalogue!vars
<1>3. CASE pc[Shell] \in {"check", "scan", "stat"}
  <2>1. SameStore /\ UNCHANGED <<upperSys, apk, files>>
      BY <1>1, <1>3 DEF SInv, Looking, At, fsVars
  <2>2. QED
      BY <1>1, <1>3, <2>1, KilledUnchanged DEF ToolSteps
<1>4. CASE pc[Shell] \in {"create", "flush"}
  <2>1. PICK m, k : m = This /\ k = Source
      OBVIOUS
  <2>2. apk' = apk /\ upperSys' = upperSys /\ \A n \in Modules : State(n)' = State(n)
      BY <1>1, <1>4, StateStays DEF fsVars
  <2>3. /\ job[Shell].cmd = "overlayfs" /\ upperSys = last.found \cup {m}
        /\ \A n \in Modules \ {m} : State(n) = last.state[n]
      BY <1>4, <2>1, WritingFiles
  <2>4. AppsBut(m, m, k) /\ MountsBut(m, k)
      BY <1>4, <2>1, WritingFiles
  <2>5. AppsBecome(m, m, k) /\ MountsBecome(m, k) /\ OthersStand(m)
      BY <2>2, <2>3, <2>4 DEF AppsBut, MountsBut, AppsBecome, MountsBecome, OthersStand
  <2>6. /\ m \in upperSys' /\ pc[Shell] \in WriteSteps
        /\ upperSys' \in {last.found, last.found \cup {m}}
      BY <1>4, <2>2, <2>3 DEF WriteSteps
  <2>7. QED
      BY <1>1, <1>4, <2>1, <2>3, <2>5, <2>6, OverlayfsShows DEF ToolSteps
<1>5. QED
    BY <1>1, <1>2, <1>3, <1>4 DEF PCs, ToolSteps

\* An interruption ends the tools wherever they are, and the command with them.
LEMMA InterruptSteps ==
    ASSUME IInv, SInv, SerialNext, Interrupt(Shell)
    PROVE  SInv' /\ Seen
<1>1. PICK code \in {"fail", "killed"} : Return(Shell, code)
    BY DEF Interrupt, ToolsEnd
<1>2. /\ pc[Shell] \in ToolSteps /\ UNCHANGED files
      /\ pc[Shell] # "copy" => UNCHANGED apk
      /\ pc[Shell] # "mkdir" => UNCHANGED upperSys
    BY DEF Interrupt
<1>3. CASE pc[Shell] \in CopySteps
  <2>1. PICK m, a, k, place : m = This /\ a = Name /\ k = Source /\ place = pos[Shell]
      OBVIOUS
  <2>2. /\ job[Shell].cmd \in {"overlayfs", "install"} /\ m \in Modules /\ a \in Apps
        /\ place \in 1 .. 2
        /\ job[Shell].cmd = "install" => place = 1
        /\ Target(Shell) = IF place = 1 THEN <<"upper", m, a>> ELSE <<"priv", m, m>>
        /\ CopyIs(m, a, k, pc[Shell], place)
      BY <1>3, <2>1, Halfway
  <2>3. UNCHANGED apk
    <3>1. CASE pc[Shell] = "copy"
      <4>1. \A old : Copied("copy", place, place, k, old) = Torn
          BY <2>2 DEF Copied
      <4>2. apk[Target(Shell)] = Torn
        <5>1. CASE place = 1
            BY <2>2, <3>1, <4>1, <5>1 DEF CopyIs
        <5>2. CASE place = 2
            BY <2>2, <3>1, <4>1, <5>2 DEF CopyIs
        <5>3. QED
            BY <2>2, <5>1, <5>2
      <4>3. UNCHANGED apk \/ apk' = [apk EXCEPT ![Target(Shell)] = Torn]
          BY <3>1 DEF Interrupt, StopCopy
      <4>4. PICK t : t = Target(Shell)
          OBVIOUS
      <4>5. apk \in [Paths -> Apks \cup {Absent, Torn}]
          BY DEF IInv, TypeOK, StoreTypeOK
      <4>6. QED
          BY <4>2, <4>3, <4>4, <4>5
    <3>2. QED
        BY <1>2, <3>1
  <2>4. IF job[Shell].cmd = "install" THEN UNCHANGED upperSys
                                      ELSE upperSys' \in {last.found, last.found \cup {m}}
    <3>1. CASE pc[Shell] = "mkdir"
      <4>1. upperSys = last.found
          BY <3>1 DEF SInv, Looking, At, SameStore, SameFound
      <4>2. QED
          BY <2>1, <2>2, <3>1, <4>1 DEF Interrupt, StopMkdir, This
    <3>2. CASE pc[Shell] # "mkdir" /\ job[Shell].cmd = "overlayfs"
      <4>1. upperSys = last.found \cup {m}
          BY <1>3, <2>1, <3>2 DEF SInv, Making, At, CopySteps, WriteSteps
      <4>2. QED
          BY <1>2, <3>2, <4>1
    <3>3. QED
        BY <1>2, <2>2, <3>1, <3>2
  <2>5. QED
      BY <1>1, <1>2, <1>3, <2>1, <2>3, <2>4, StoppedCopying
<1>4. CASE pc[Shell] = "rm"
  <2>1. SameStore /\ UNCHANGED <<upperSys, apk, files>>
      BY <1>2, <1>4 DEF SInv, Looking, At
  <2>2. SInv' /\ Catalogue!Ends(code)
      BY <1>1, <2>1, EndsUnchanged
  <2>3. CASE code = "killed"
      BY <2>2, <2>3 DEF Seen, Catalogue!Next, Catalogue!KilledEarly
  <2>4. CASE code = "fail"
    <3>1. PICK m, a : m = This /\ a = Name
        OBVIOUS
    <3>2. /\ m \in Modules /\ job[Shell] \in Jobs /\ job[Shell].cmd = "uninstall"
          /\ job[Shell].root /\ Catalogue!Chosen(m) /\ last.apps[m][a] # Absent
        BY <1>4, <3>1, RemovingHere
    <3>3. QED
        BY <2>2, <2>4, <3>1, <3>2 DEF Seen, Catalogue!Next, Catalogue!Uninstall, Name
  <2>5. QED
      BY <2>3, <2>4
<1>5. CASE pc[Shell] \in {"rmdir", "rmdirAgain"}
  <2>1. UNCHANGED <<upperSys, apk, files>>
      BY <1>2, <1>5
  <2>2. QED
      BY <1>1, <1>5, <2>1, UninstallShows
<1>6. QED
    BY <1>2, <1>3, <1>4, <1>5 DEF ToolSteps, CopySteps

-----------------------------------------------------------------------------
(* The invariant, and the refinement *)

\* Every step of a command keeps the invariant and is one the catalogue allows.
LEMMA SerialStep ==
    ASSUME ~Faults, ~Misreads, IInv, SInv, SerialNext
    PROVE  SInv' /\ Seen
<1>1. Step(Shell)
    BY OneShell DEF SerialNext, Next
<1>2. CASE \E j \in Jobs : Invoke(Shell, j) \/ InvokeRejected(Shell, j)
    BY <1>2, TypeSteps
<1>3. CASE Run(Shell)
  <2>1. ~(MkdirFails(Shell) \/ RemoveApkFails(Shell) \/ ToolFails(Shell))
      BY DEF MkdirFails, RemoveApkFails, ToolFails
  <2>2. QED
      BY <1>3, <2>1, CheckSteps, ScanSteps, MkdirSteps, OpenSteps, CopyBytesSteps, ChmodSteps,
         FileSteps, StatSteps, RemoveSteps DEF Run
<1>4. CASE Kill(Shell)
    BY <1>4, KillSteps
<1>5. CASE Interrupt(Shell)
    BY <1>5, InterruptSteps
<1>6. QED
    BY <1>1, <1>2, <1>3, <1>4, <1>5 DEF Step

\* A step of something else changes nothing the invariant speaks of.
LEMMA SerialStutter == SInv /\ UNCHANGED serialVars => SInv' /\ Seen
<1> SUFFICES ASSUME SInv, UNCHANGED serialVars PROVE SInv' /\ Seen
    OBVIOUS
<1>1. UNCHANGED <<fsVars, pc, job, mod, pos, wr, last>> /\ out' = out
    BY DEF serialVars, vars, fsVars
<1>2. Showing'
    BY <1>1 DEF SInv, Showing, At
<1>3. SInv'
    BY <1>1, <1>2, OnlyShowing
<1>4. QED
    BY <1>1, <1>3 DEF Seen, Catalogue!vars

\* Before the first command, the catalogue has only the flashed modules.
LEMMA SerialStart == SerialInit => SInv /\ Catalogue!Init
<1> SUFFICES ASSUME SerialInit PROVE SInv /\ Catalogue!Init
    OBVIOUS
<1>1. Init /\ last = InStore
    BY DEF SerialInit
<1>2. TypeOK
    BY <1>1, InitIInv DEF IInv
<1>3. LastType /\ SameStore /\ last.code = out[Shell]
    BY <1>1, <1>2, JustReturned
<1>4. pc[Shell] = "idle" /\ out[Shell] = "none"
    BY <1>1, OneShell DEF Init
<1>5. SInv
    BY <1>3, <1>4 DEF SInv, Showing, At, Looking, Scanning, Choosing, Copying, Installing, Removing,
        Making, WriteSteps
<1>6. last.apps = [m \in Modules |-> [a \in Apps |-> Absent]]
  <2>1. \A m \in Modules, a \in Apps : apk[<<"upper", m, a>>] = Absent
      BY <1>1 DEF Init, Paths
  <2>2. last.apps = [m \in Modules |-> [a \in Apps |-> apk[<<"upper", m, a>>]]]
      BY <1>1, InStoreIs
  <2>3. QED
      BY <2>1, <2>2
<1>7. last.mounted = [m \in Modules |-> Absent]
  <2>1. \A m \in Modules : apk[<<"priv", m, m>>] = Absent
      BY <1>1, ModulesAssumption DEF Init, Paths
  <2>2. last.mounted = [m \in Modules |-> apk[<<"priv", m, m>>]]
      BY <1>1, InStoreIs
  <2>3. QED
      BY <2>1, <2>2
<1>8. last.state = [m \in Modules |-> IF m \in Flashed THEN "complete"
                                      ELSE IF m \in Foreign THEN "incomplete" ELSE "none"]
  <2>1. \A m \in Modules, f \in FileNames :
            files[<<m, f>>] = IF m \in Flashed \/ (m \in Foreign /\ f = "module.prop")
                              THEN "written" ELSE "absent"
      BY <1>1 DEF Init
  <2>2. \A m \in Modules : State(m) = IF m \in Flashed THEN "complete"
                                      ELSE IF m \in Foreign THEN "incomplete" ELSE "none"
      BY <2>1 DEF State, Installed, FileNames
  <2>3. last.state = [m \in Modules |-> State(m)]
      BY <1>1, InStoreIs
  <2>4. QED
      BY <2>2, <2>3
<1>9. last.found = Flashed /\ last.code = "none"
    BY <1>1, <1>3, <1>4, InStoreIs DEF Init
<1>10. QED
    BY <1>5, <1>6, <1>7, <1>8, <1>9 DEF Catalogue!Init

\* The invariant of the store with many terminals holds with one.
LEMMA SerialIInv == SerialSpec => []IInv
<1>1. SerialInit => IInv
    BY InitIInv DEF SerialInit
<1>2. IInv /\ [SerialNext]_serialVars => IInv'
  <2>1. [SerialNext]_serialVars => [Next]_vars
      BY DEF SerialNext, serialVars
  <2>2. QED
      BY <2>1, NextIInv
<1>3. QED
    BY <1>1, <1>2, PTL DEF SerialSpec

\* Whatever commands were run, or killed, the store is at rest as the last one
\* left it, and is at work as far from that as the command has come.
THEOREM SerialInductive ==
    ASSUME ~Faults, ~Misreads
    PROVE  SerialSpec => []SInv
<1>1. SerialInit => SInv
    BY SerialStart
<1>2. IInv /\ SInv /\ [SerialNext]_serialVars => SInv'
    BY SerialStep, SerialStutter
<1>3. QED
    BY <1>1, <1>2, SerialIInv, PTL DEF SerialSpec

\* One user, one command at a time, no I/O errors: every command is one step
\* of the catalogue, with its report, whatever commands were killed before.
THEOREM StoreImplementsCatalogue ==
    ASSUME ~Faults, ~Misreads
    PROVE  SerialSpec => ImplementsCatalogue
<1>1. SerialInit => Catalogue!Init
    BY SerialStart
<1>2. IInv /\ SInv /\ [SerialNext]_serialVars => [Catalogue!Next]_(Catalogue!vars)
    BY SerialStep, SerialStutter DEF Seen
<1>3. QED
    BY <1>1, <1>2, SerialIInv, SerialInductive, PTL
    DEF SerialSpec, ImplementsCatalogue, Catalogue!Spec

-----------------------------------------------------------------------------
(* What the commands report *)

\* Of the steps of the one terminal, only these return success.
LEMMA ReturnsOk ==
    ASSUME ~Faults, ~Misreads, IInv, NEW p \in Procs, Returns(p, "ok"), [SerialNext]_serialVars
    PROVE  /\ p = Shell /\ Step(Shell)
           /\ pc[p] = "flush" => FlushFile(p) /\ pos[p] = 3
           /\ job[p].cmd = "uninstall" => RemoveDir(p) /\ pc[p] = "rmdirAgain"
<1>1. p = Shell
    BY OneShell
<1>2. Step(p)
    BY <1>1, OneShell DEF Returns, SerialNext, Next, serialVars, vars
<1>3. /\ pc[p] # "idle" /\ pc'[p] = "idle" /\ out'[p] = "ok"
      /\ pc \in [Procs -> PCs] /\ out \in [Procs -> {"none", "ok", "fail", "killed"}]
    BY DEF Returns, IInv, TypeOK, ProcTypeOK
<1>4. /\ ~Kill(p) /\ ~Interrupt(p)
      /\ ~ToolFails(p) /\ ~MkdirFails(p) /\ ~RemoveApkFails(p)
    BY <1>3 DEF Kill, Interrupt, ToolsEnd, Return, ToolFails, MkdirFails, RemoveApkFails
<1>5. \A j \in Jobs : ~Invoke(p, j) /\ ~InvokeRejected(p, j)
    BY <1>3 DEF Invoke, InvokeRejected
<1>6. Run(p)
    BY <1>2, <1>4, <1>5 DEF Step
<1>7. ASSUME pc[p] = "flush" PROVE FlushFile(p) /\ pos[p] = 3
  <2>1. FlushFile(p)
    <3>1. /\ ~AlreadyActive(p) /\ ~CheckNotInstalled(p)
          /\ ~ScanMiss(p) /\ ~ScanHit(p) /\ ~ScanEnd(p)
        BY <1>7 DEF AlreadyActive, CheckNotInstalled, ScanMiss, ScanHit, ScanEnd
    <3>2. /\ ~Mkdir(p) /\ ~OpenDest(p) /\ ~OpenNoDir(p) /\ ~CopyBytes(p)
          /\ ~ChmodApk(p) /\ ~ChmodNoFile(p) /\ ~CreateFile(p)
        BY <1>7 DEF Mkdir, OpenDest, OpenNoDir, CopyBytes, ChmodApk, ChmodNoFile, CreateFile
    <3>3. ~StatApk(p) /\ ~RemoveApk(p) /\ ~RemoveDir(p)
        BY <1>7 DEF StatApk, RemoveApk, RemoveDir
    <3>4. QED
        BY <1>4, <1>6, <3>1, <3>2, <3>3 DEF Run
  <2>2. pos[p] = 3
      BY <1>3, <2>1 DEF FlushFile, Goto, ModuleFiles
  <2>3. QED
      BY <2>1, <2>2
<1>8. ASSUME job[p].cmd = "uninstall" PROVE RemoveDir(p) /\ pc[p] = "rmdirAgain"
  <2>1. pc[p] \in {"scan", "stat", "rm", "rmdir", "rmdirAgain"}
      BY <1>3, <1>8 DEF IInv, Local, PCs
  <2>2. /\ ~AlreadyActive(p) /\ ~CheckNotInstalled(p)
        /\ ~ScanMiss(p) /\ ~ScanHit(p) /\ ~ScanEnd(p)
      BY <1>3, <1>8, <2>1
      DEF AlreadyActive, CheckNotInstalled, ScanMiss, ScanHit, ScanEnd, Goto, Return
  <2>3. /\ ~Mkdir(p) /\ ~OpenDest(p) /\ ~OpenNoDir(p) /\ ~CopyBytes(p)
        /\ ~ChmodApk(p) /\ ~ChmodNoFile(p) /\ ~CreateFile(p) /\ ~FlushFile(p)
      BY <2>1 DEF Mkdir, OpenDest, OpenNoDir, CopyBytes, ChmodApk, ChmodNoFile, CreateFile,
          FlushFile
  <2>4. ~StatApk(p) /\ ~RemoveApk(p)
      BY <1>3 DEF StatApk, RemoveApk, Goto, Return
  <2>5. RemoveDir(p)
      BY <1>4, <1>6, <2>2, <2>3, <2>4 DEF Run
  <2>6. pc[p] = "rmdirAgain"
      BY <1>3, <2>5 DEF RemoveDir, Goto
  <2>7. QED
      BY <2>5, <2>6
<1>9. QED
    BY <1>1, <1>2, <1>7, <1>8

\* An overlayfs that wrote its module and says "created" has left it whole.
THEOREM OverlayTruthful ==
    ASSUME ~Faults, ~Misreads
    PROVE  SerialSpec => OverlayReturnsTruth
<1>1. ASSUME IInv, SInv, [SerialNext]_serialVars, NEW p \in Procs, Returns(p, "ok"),
             job[p].cmd = "overlayfs", pc[p] = "flush"
      PROVE  /\ \A tree \in {"upper", "priv"} : apk'[<<tree, mod[p], mod[p]>>] = job[p].apk
             /\ \A f \in FileNames : files'[<<mod[p], f>>] = "written"
  <2>1. p = Shell /\ FlushFile(p) /\ pos[p] = 3
      BY <1>1, ReturnsOk
  <2>2. PICK m, k : m = This /\ k = Source
      OBVIOUS
  <2>3. /\ m \in Modules /\ AppsBut(m, m, k) /\ MountsBut(m, k)
        /\ \A i \in 1 .. 3 : i < pos[Shell] => files[<<m, ModuleFiles[i]>>] = "written"
      BY <1>1, <2>1, <2>2, WritingFiles
  <2>4. /\ apk' = apk /\ files' = [files EXCEPT ![<<m, "service.sh">>] = "written"]
      BY <2>1, <2>2 DEF FlushFile, ModuleFiles, This
  <2>5. apk'[<<"upper", m, m>>] = k /\ apk'[<<"priv", m, m>>] = k
      BY <2>3, <2>4, ModulesAssumption DEF AppsBut, MountsBut
  <2>6. \A f \in FileNames : files'[<<m, f>>] = "written"
    <3>1. files[<<m, "module.prop">>] = "written" /\ files[<<m, "post-fs-data.sh">>] = "written"
        BY <2>1, <2>3 DEF ModuleFiles
    <3>2. files \in [Modules \X FileNames -> {"absent", "empty", "written"}]
        BY <1>1 DEF IInv, TypeOK, StoreTypeOK
    <3>3. QED
        BY <2>3, <2>4, <3>1, <3>2 DEF FileNames
  <2>7. mod[p] = m /\ job[p].apk = k
      BY <2>1, <2>2 DEF This, Source
  <2>8. QED
      BY <2>5, <2>6, <2>7
<1>2. IInv /\ SInv /\ [SerialNext]_serialVars =>
        (\A p \in Procs :
            Returns(p, "ok") /\ job[p].cmd = "overlayfs" /\ pc[p] = "flush"
               => /\ \A tree \in {"upper", "priv"} : apk'[<<tree, mod[p], mod[p]>>] = job[p].apk
                  /\ \A f \in FileNames : files'[<<mod[p], f>>] = "written")
    BY <1>1
<1>3. QED
    BY <1>2, SerialIInv, SerialInductive, PTL DEF SerialSpec, OverlayReturnsTruth

\* An uninstall that reports success has removed the APK and its directory.
THEOREM UninstallTruthful ==
    ASSUME ~Faults, ~Misreads
    PROVE  SerialSpec => UninstallReturnsTruth
<1>1. ASSUME IInv, SInv, [SerialNext]_serialVars, NEW p \in Procs, Returns(p, "ok"),
             job[p].cmd = "uninstall"
      PROVE  apk'[Target(p)] = Absent /\ Target(p) \notin dirs'
  <2>1. p = Shell /\ RemoveDir(p) /\ pc[p] = "rmdirAgain"
      BY <1>1, ReturnsOk
  <2>2. PICK m, a : m = This /\ a = Name
      OBVIOUS
  <2>3. /\ m \in Modules /\ a \in Apps /\ AppsBut(m, a, Absent)
        /\ Target(p) = <<"upper", m, a>>
      BY <1>1, <2>1, <2>2, RemovingHere
  <2>4. apk[Target(p)] = Absent
      BY <2>3 DEF AppsBut
  <2>5. QED
      BY <2>1, <2>4 DEF RemoveDir
<1>2. IInv /\ SInv /\ [SerialNext]_serialVars =>
        (\A p \in Procs :
            Returns(p, "ok") /\ job[p].cmd = "uninstall"
               => /\ apk'[Target(p)] = Absent
                  /\ Target(p) \notin dirs')
    BY <1>1
<1>3. QED
    BY <1>2, SerialIInv, SerialInductive, PTL DEF SerialSpec, UninstallReturnsTruth

=============================================================================
