------------------------------ MODULE AppCatalog ------------------------------
(***************************************************************************)
(* What the commands on the module store promise to a user who runs one at  *)
(* a time: a catalogue of modules and of the applications in them.  Each    *)
(* command is one step.  Exit code 0 means that all of it was done.  Exit   *)
(* code 1 of a command that was refused means that nothing was; otherwise,  *)
(* as of one that was killed, it means that at most the one application or  *)
(* module asked for is damaged.                                             *)
(***************************************************************************)
EXTENDS Naturals, Sequences

CONSTANTS Modules, Flashed, Foreign, Apps, Apks, ScanOrder, Jobs, NoApk, Absent, Torn

VARIABLES
    apps,       \* what each module has for each application
    mounted,    \* the copy of its own app that Magisk mounts with a module
    found,      \* the modules install, uninstall and info can find
    state,      \* whether overlayfs calls a module active, and rightly so
    code        \* the exit code of the last command

catalogue == <<apps, mounted, found, state>>
vars == <<apps, mounted, found, state, code>>

Init ==
    /\ apps = [m \in Modules |-> [a \in Apps |-> Absent]]
    /\ mounted = [m \in Modules |-> Absent]
    /\ found = Flashed
    /\ state = [m \in Modules |-> IF m \in Flashed THEN "complete"
                                  ELSE IF m \in Foreign THEN "incomplete" ELSE "none"]
    /\ code = "none"

\* The module the commands other than overlayfs work on: the first found.
Chosen(m) ==
    \E i \in 1 .. Len(ScanOrder) :
        /\ ScanOrder[i] = m /\ m \in found
        /\ \A k \in 1 .. (i - 1) : ScanOrder[k] \notin found

\* A command is typed; what it does shows when it returns.
Begin == code' = "none" /\ UNCHANGED catalogue

\* A command ends and has changed nothing.
Ends(c) == code' = c /\ UNCHANGED catalogue

\* Only the entry of application a in module m may have changed, to v.
Puts(m, a, v) ==
    /\ apps' = [apps EXCEPT ![m][a] = v]
    /\ UNCHANGED <<mounted, found, state>>

Overlayfs(j) ==
    LET m == j.name IN
    \/ state[m] # "none" /\ j.apk # NoApk /\ Ends("ok")
    \/ /\ j.apk = NoApk \/ (state[m] = "none" /\ ~j.root)
       /\ Ends("fail")
    \/ /\ state[m] = "none" /\ j.root /\ j.apk # NoApk
       /\ \E copy, mount \in {apps[m][m], mounted[m], Torn, j.apk},
             new \in {"none", "incomplete", "complete"}, seen \in {found, found \cup {m}} :
             /\ apps' = [apps EXCEPT ![m][m] = copy]
             /\ mounted' = [mounted EXCEPT ![m] = mount]
             /\ found' = seen
             /\ state' = [state EXCEPT ![m] = new]
             /\ new # "none" => copy = j.apk /\ mount = j.apk /\ m \in seen
             /\ copy \in {apps[m][m], Torn, j.apk}
             /\ mount \in {mounted[m], Torn, j.apk}
             /\ \/ code' = "killed"
                \/ code' = "fail" /\ new = "none"
                \/ code' = "ok" /\ new = "complete"

Install(j) ==
    \/ /\ j.apk = NoApk \/ found = {} \/ ~j.root
       /\ Ends("fail")
    \/ /\ j.apk # NoApk /\ j.root
       /\ \E m \in Modules :
             /\ Chosen(m)
             /\ \E v \in {apps[m][j.name], Torn, j.apk} :
                   /\ Puts(m, j.name, v)
                   /\ code' \in {"killed", "fail"} \/ (code' = "ok" /\ v = j.apk)

Uninstall(j) ==
    \/ /\ \/ found = {} \/ ~j.root
          \/ \E m \in Modules : Chosen(m) /\ apps[m][j.name] = Absent
       /\ Ends("fail")
    \/ \E m \in Modules :
          /\ j.root /\ Chosen(m) /\ apps[m][j.name] # Absent
          /\ \/ Puts(m, j.name, Absent) /\ code' \in {"ok", "killed", "fail"}
             \/ Ends("fail")

Info == Ends("ok")

\* A command that was killed before it changed anything.
KilledEarly == Ends("killed")

Next ==
    \/ \E j \in Jobs : \/ j.cmd = "overlayfs" /\ Overlayfs(j)
                       \/ j.cmd = "install" /\ Install(j)
                       \/ j.cmd = "uninstall" /\ Uninstall(j)
                       \/ j.cmd = "info" /\ Info
    \/ Begin
    \/ KilledEarly

Spec == Init /\ [][Next]_vars
=============================================================================
