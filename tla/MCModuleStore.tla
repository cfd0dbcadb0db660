---------------------------- MODULE MCModuleStore ----------------------------
(***************************************************************************)
(* Small instances of the module store for TLC.                            *)
(***************************************************************************)
EXTENDS ModuleStoreProps, TLC

CONSTANTS p1, p2, m1, m2, m3, a1, x, y

\* The command lines, all but the last few typed as root.
Cmd(c, n, k) == [cmd |-> c, name |-> n, apk |-> k, root |-> TRUE]
AsUser(j) == [j EXCEPT !.root = FALSE]

Lifecycle == {Cmd("overlayfs", m1, x), Cmd("install", a1, x), Cmd("uninstall", a1, NoApk)}

\* Two terminals, one module: every pair of commands meets, on the same file or
\* on two, with two APKs of one application, with and without root, one command
\* without an APK.
RaceJobs == Lifecycle \cup
    {Cmd("install", a1, y), Cmd("uninstall", m1, NoApk), Cmd("install", a1, NoApk),
     AsUser(Cmd("overlayfs", m1, x)), AsUser(Cmd("install", a1, y)),
     AsUser(Cmd("uninstall", a1, NoApk))}

\* A flashed module, one that overlayfs makes, which hides it, and one from
\* elsewhere; an application with two APKs, and the made module's own.
ManyModuleJobs == Lifecycle \cup
    {Cmd("overlayfs", m3, x), Cmd("overlayfs", m1, y), Cmd("overlayfs", m2, y), Cmd("install", a1, y),
     Cmd("install", m1, y), Cmd("uninstall", m1, NoApk),
     AsUser(Cmd("uninstall", a1, NoApk)), Cmd("info", a1, NoApk)}

OneModule == <<m1>>
ManyModules == <<m3, m1, m2>>

Terminals == Permutations({p1, p2})
=============================================================================
