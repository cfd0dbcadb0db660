----------------------------- MODULE BootOverlay -----------------------------
(***************************************************************************)
(* What the boot scripts of overlay modules do to the mount table.         *)
(*                                                                         *)
(* A module is "generated" by the overlayfs command (the scripts are        *)
(* strings in src/commands/cmd_overlayfs.cpp) or "prebuilt" from            *)
(* scripts/build-magisk-overlay.sh.  Magisk, which is not part of the       *)
(* repository, runs post-fs-data.sh of every enabled module, one after      *)
(* another, then service.sh of every enabled module, on every boot, with    *)
(* MODPATH naming the module's directory.                                   *)
(***************************************************************************)
EXTENDS Naturals, Sequences

CONSTANTS
    Generated,  \* modules made by the overlayfs command
    Prebuilt,   \* modules flashed from the zip
    Base,       \* the partition's own layer of a mount point
    MaxBoots    \* bound on the number of boots

OverlayModules == Generated \cup Prebuilt
Points  == {"/system", "/system_ext"}
Scripts == {"post-fs-data.sh", "service.sh"}

ASSUME ModulesAssumption == Generated \cap Prebuilt = {} /\ Base \notin OverlayModules
ASSUME MaxBootsAssumption == MaxBoots \in Nat \ {0}

VARIABLES
    hasExt,     \* does the device have a directory /system_ext/etc?
    scripts,    \* the boot scripts each module has on disk
    enabled,    \* modules the user has not switched off
    stage,      \* how far the boot has come
    todo,       \* modules whose script this stage has still to run
    mounts,     \* the layers on each mount point, the visible one last
    boots       \* number of boots so far

settled == <<hasExt, scripts, enabled, boots>>
vars == <<hasExt, scripts, enabled, stage, todo, mounts, boots>>

Top(point) == mounts[point][Len(mounts[point])]
Overlays(point) == {i \in 1 .. Len(mounts[point]) : mounts[point][i] # Base}

\* SYSTEM_MOUNT in the module's scripts.
SystemMount(m) ==
    IF m \in Prebuilt /\ hasExt THEN "/system_ext" ELSE "/system"

\* Mutant of AlreadyMounted: the check looks at the wrong mount point.
AlreadyMountedOnSystem(m) == Overlays("/system") # {}

\* mount | grep -q "${SYSTEM_MOUNT}.*overlay": the pattern is a prefix match,
\* so "/system" also finds an overlay on "/system_ext".
AlreadyMounted(m) ==
    \/ Overlays(SystemMount(m)) # {}
    \/ SystemMount(m) = "/system" /\ Overlays("/system_ext") # {}

Factory == [point \in Points |-> <<Base>>]

-----------------------------------------------------------------------------
(* Variants of the actions below with the mistakes the properties are to    *)
(* catch; no specification uses them.                                       *)

\* Mutant of Rewrite: service.sh is written under another name.
RewriteUnnamed(m) ==
    /\ stage # "post-fs-data" /\ m \in Generated
    /\ scripts' = [scripts EXCEPT ![m] = {"post-fs-data.sh", "services.sh"}]
    /\ UNCHANGED <<hasExt, enabled, boots, stage, todo, mounts>>

\* Mutant of Service: the script waits for a mount that is not there.
ServiceWaits(m) ==
    LET point == SystemMount(m) IN
    /\ stage = "late_start" /\ m \in todo
    /\ Top(point) # Base
    /\ todo' = todo \ {m}
    /\ \/ mounts' = [mounts EXCEPT ![point] = SubSeq(@, 1, Len(@) - 1)]
       \/ UNCHANGED mounts
    /\ UNCHANGED <<settled, stage>>

-----------------------------------------------------------------------------
(* Boot *)

Init ==
    /\ hasExt \in BOOLEAN
    /\ scripts = [m \in OverlayModules |-> IF m \in Prebuilt THEN Scripts ELSE {}]
    /\ enabled = OverlayModules
    /\ stage = "up"
    /\ todo = {}
    /\ mounts = Factory
    /\ boots = 0

\* The device restarts, from any state: mounts are gone, files are not, but a
\* loss of power may undo what was last done to the scripts overlayfs wrote.
Boot ==
    /\ boots < MaxBoots
    /\ boots' = boots + 1
    /\ stage' = "post-fs-data"
    /\ scripts' \in {s \in [OverlayModules -> SUBSET Scripts] : \A m \in Prebuilt : s[m] = scripts[m]}
    /\ todo' = {m \in enabled : "post-fs-data.sh" \in scripts'[m]}
    /\ mounts' = Factory
    /\ UNCHANGED <<hasExt, enabled>>

\* post-fs-data.sh finds an overlay already there and exits with 0: the
\* overlay of this module is not mounted in this boot.
PostFsDataSkips(m) ==
    /\ stage = "post-fs-data" /\ m \in todo /\ AlreadyMounted(m)
    /\ todo' = todo \ {m}
    /\ UNCHANGED <<settled, stage, mounts>>

\* It mounts overlay/upper/system of the module, or mount fails (no overlayfs
\* in the kernel, an upper directory the kernel refuses).
PostFsDataMounts(m) ==
    LET point == SystemMount(m) IN
    /\ stage = "post-fs-data" /\ m \in todo /\ ~AlreadyMounted(m)
    /\ todo' = todo \ {m}
    /\ \/ mounts' = [mounts EXCEPT ![point] = Append(@, m)]
       \/ UNCHANGED mounts
    /\ UNCHANGED <<settled, stage>>

LateStart ==
    /\ stage = "post-fs-data" /\ todo = {}
    /\ stage' = "late_start"
    /\ todo' = {m \in enabled : "service.sh" \in scripts[m]}
    /\ UNCHANGED <<settled, mounts>>

\* umount takes the topmost layer off, unless a process uses it; the partition
\* itself is always in use, by init.  || true hides the difference.
Service(m) ==
    LET point == SystemMount(m) IN
    /\ stage = "late_start" /\ m \in todo
    /\ todo' = todo \ {m}
    /\ \/ /\ Top(point) # Base
          /\ mounts' = [mounts EXCEPT ![point] = SubSeq(@, 1, Len(@) - 1)]
       \/ UNCHANGED mounts
    /\ UNCHANGED <<settled, stage>>

Up ==
    /\ stage = "late_start" /\ todo = {}
    /\ stage' = "up"
    /\ UNCHANGED <<settled, todo, mounts>>

-----------------------------------------------------------------------------
(* What the user does; there is no shell before post-fs-data is over *)

\* An overlayfs command writes or truncates the scripts of its module, and may
\* be killed between the two.
Rewrite(m) ==
    /\ stage # "post-fs-data" /\ m \in Generated
    /\ \E s \in SUBSET Scripts : scripts' = [scripts EXCEPT ![m] = s]
    /\ UNCHANGED <<hasExt, enabled, boots, stage, todo, mounts>>

\* The module is switched off or on in the Magisk app, for the next boot.
Toggle(m) ==
    /\ stage = "up"
    /\ enabled' = IF m \in enabled THEN enabled \ {m} ELSE enabled \cup {m}
    /\ UNCHANGED <<hasExt, scripts, boots, stage, todo, mounts>>

-----------------------------------------------------------------------------
BootStep ==
    \/ \E m \in OverlayModules : PostFsDataSkips(m) \/ PostFsDataMounts(m) \/ Service(m)
    \/ LateStart
    \/ Up

Next ==
    \/ Boot
    \/ BootStep
    \/ \E m \in OverlayModules : Rewrite(m) \/ Toggle(m)

Spec == Init /\ [][Next]_vars

\* Magisk runs every script and every script ends.
FairSpec == Spec /\ WF_vars(BootStep)

-----------------------------------------------------------------------------
(* Properties *)

TypeOK ==
    /\ hasExt \in BOOLEAN
    /\ scripts \in [OverlayModules -> SUBSET Scripts]
    /\ enabled \subseteq OverlayModules
    /\ stage \in {"post-fs-data", "late_start", "up"}
    /\ todo \subseteq OverlayModules
    /\ mounts \in [Points -> Seq(OverlayModules \cup {Base})]
    /\ boots \in 0 .. MaxBoots

\* However many modules of either kind are enabled, and whatever their mounts
\* and umounts do, each mount point is its partition with at most one overlay
\* on it: the grep in post-fs-data.sh is enough to keep overlays from being
\* stacked, although the two kinds of module look for different mount points.
AtMostOneOverlay ==
    \A point \in Points :
        \/ mounts[point] = <<Base>>
        \/ \E m \in OverlayModules : mounts[point] = <<Base, m>> /\ SystemMount(m) = point

\* Whatever the scripts of the modules do or fail to do, a boot comes to its
\* end (every failing command of service.sh is followed by || true, and
\* post-fs-data.sh exits).
BootCompletes == stage # "up" ~> stage = "up"

\* service.sh is "to unmount overlay on module uninstall/disable"
\* (scripts/build-magisk-overlay.sh): it leaves the overlay of a module that is
\* enabled, its own or another's, where it is.
EnabledStaysMounted ==
    [][\A m \in OverlayModules, point \in Points :
          Service(m) /\ Top(point) \in enabled => mounts'[point] = mounts[point]]_vars
=============================================================================
