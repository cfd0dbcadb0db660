# Verification of systemapp

`systemapp` is a command line tool for rooted Android devices. Most of its
commands only print what they find; three of them (`overlayfs`, `install`,
`uninstall`) write below `/data/adb/modules`, where Magisk picks the files up
at the next boot and the generated shell scripts mount an overlay on `/system`.
This directory holds TLA+ modules for the parts of the program that keep or
derive state, TLC configurations that check them, and TLAPS proofs.

## The system

| Component | State | Operations | Talks to |
|---|---|---|---|
| Command line (`src/main.cpp`, `command.hpp`) | argv, `CommandContext`, registry | parse, dispatch | calls `run(ctx)` of one command |
| Module store (`cmd_overlayfs`, `cmd_install`, `cmd_uninstall`) | directories and files below `/data/adb/modules`, shared by every process, no lock | detect, check, mkdir/cp/chmod, write_file, rm/rmdir | the shell; boot scripts by what it leaves on disk |
| Boot scripts (`cmd_overlayfs.cpp`, `build-magisk-overlay.sh`) | mount table | post-fs-data.sh, service.sh | run by Magisk; read the store |
| PartitionDetector | `/proc/mounts` | detect, is_writable | used by `info`, `mounts` |
| RootDetector | files and tools of root providers | detect | used by `info`, `root` |
| `info`, `root`, `mounts`, `props`, `ls` | none of their own | print | detectors, store, getprop |
| JSON values, Logger, colours | none kept | format | all commands |
| Packaging scripts, release workflow | release/, GitHub release | build, zip, publish | - |

What makes it hard:

- Commands are processes without locks. Between any two system calls of one,
  another can scan, create or remove the same directories.
- A command is a long sequence (mkdir, cp, chmod, cp, chmod, three files) with
  no rollback, so a kill, a reboot or a full disk can end it anywhere, and a
  later command must cope with the debris.
- The tools run under `system()`, in processes of their own: a kill of the
  command leaves them at work while the user has the prompt back, and Ctrl-C
  stops them and not the command.
- No command syncs what it wrote, and the next boot runs scripts from what the
  disk has.
- Success is reported by exit codes which pass through `&&`, `|| true`,
  `system()` and `ofstream`.
- Two different tests decide whether "the module" exists (`module.prop` for
  `overlayfs`, `overlay/upper/system` for the others), and with two modules the
  order of the directory decides which is used. Modules that have nothing to do
  with overlays lie in the same directory, systemapp's own among them.
- The scripts of all modules share one mount table, and `service.sh` runs on
  every boot.
- The reporting commands read a device that changes while they read it, take
  a `popen()`, `lstat()` or `readdir()` that fails for an answer, and hand on whatever characters file names and properties have.

What makes each correct: the store is built in an order that a crash cannot
spoil; a command that reports success has done its work if nobody disturbed it;
to a user who runs one command at a time, each is one step; nobody but root
writes; a restart at any moment finds no overlay of a module that is not built;
whatever scripts do, overlays are not stacked and the device boots; the command
line is split as documented; one entry per partition, that of the topmost
mount; what stays on the device is reported, and the JSON says what was found.

## Modules

| Module | Models |
|---|---|
| `ModuleStore` | the store and the commands on it, one action per system call or tool |
| `ModuleStoreProps` | its type invariant and properties |
| `ModuleStoreProofs` | inductive invariant and theorems |
| `AppCatalog` | abstract: modules and their applications, each command one step |
| `SerialStore` | `ModuleStore` with one terminal, and the mapping that shows it implements `AppCatalog` |
| `SerialStoreProofs` | that it does, and that commands do what they report |
| `BootOverlay` | boot stages, mount table and the two kinds of boot script, with properties |
| `BootOverlayProofs` | theorems about them |
| `Device` | `ModuleStore` and `BootOverlay` on one device, with the disk, reboots and loss of power |
| `DeviceProofs` | theorems about the device, and that it implements `BootOverlay` |
| `Cli` | registration, `main()` and the argument loops, with properties |
| `CliProofs` | theorems about them |
| `PartitionTable` | `PartitionDetector::detect()`, with properties |
| `RootDetect` | `RootDetector::detect()` and the exit code of `root`, with properties |
| `DirListing` | the loop of `ls` over a directory that changes, with properties |
| `DetectorProofs` | theorems about these three |
| `Props` | the parser and filter of `props` |
| `Json` | `JsonValue`: building, escaping, writing; and a reader to compare with |
| `TextProofs` | theorems about the two: what is read back of what is written |
| `Reports` | `root`, `mounts`, `ls`, `props` and `info`, composed of the five above |
| `ReportsProofs` | theorems about them, from those about their parts |
| `MC...` | values of the constants for TLC |

Operators headed "Mutant of ..." are the modules' definitions with a mistake in
them. No specification uses them: each shows that a property can fail, by
standing in for the definition it varies.

### ModuleStore

`Procs` are processes: commands, and shells that outlive one. `Jobs` are the
command lines users type, already split (that is `Cli`'s business): command,
name, APK, whether the user is root. `Modules` are the modules there may be:
`Flashed` ones came from the prebuilt zip (`build-magisk-overlay.sh`), complete
and without an APK; `Foreign` ones are other Magisk modules, systemapp's own
(`build-magisk.sh`, id `systemapp`) among them, with a `module.prop`, no overlay
tree and no boot script of the overlay; the others (`Generated`) are what
`overlayfs` makes. Variables and the code:

- `upperSys`: modules whose `overlay/upper/system` is a directory, which is all
  `detect_overlay_module()` asks. Nothing removes it again.
- `dirs`, `apk`: the directory and file `priv-app/<app>/<app>.apk` below
  `overlay/upper/system` ("upper") and, for the module's own app, below
  `system` ("priv"). A file is `Absent`, a copy of an APK, or `Torn`: opened
  and truncated by `cp`, half written, or written by two at once.
- `files`: `module.prop`, `post-fs-data.sh`, `service.sh`: absent, empty
  (created by the `ofstream`) or written.
- `pc`, `job`, `mod`, `pos`, `out` are a process's place, arguments, module,
  position in a loop or list, and exit code. `wr` is its hold on the file `cp`
  has open: `clean`, `shared` with another writer, or `unlinked` by an rm.

| Actions | Code |
|---|---|
| `Invoke`, `InvokeRejected` | argument checks and `file_exists(apk_path)` |
| `AlreadyActive`, `CheckNotInstalled` | `is_overlay_module_installed()`, then `getuid()` |
| `ScanMiss`, `ScanHit`, `ScanEnd` | the readdir loop, then `getuid()` or `info`'s answer |
| `Mkdir`, `OpenDest`, `CopyBytes`, `ChmodApk` | the `&&` chain, twice for `overlayfs` |
| `CreateFile`, `FlushFile` | `write_file()`, three times |
| `StatApk`, `RemoveApk`, `RemoveDir` | `uninstall`'s stat and shell command |
| `MkdirFails`, `OpenNoDir`, `ChmodNoFile`, `RemoveApkFails`, `ToolFails` | error paths; those that need an I/O error are switched on by `Faults` |
| `Kill` | kill -9 anywhere, or Ctrl-C outside `system()` (`Kills`) |
| `Interrupt` | Ctrl-C inside `system()` (`Kills`) |

`Misreads` switches on that a look at a module fails and is taken for "not
there": the stat or open of `module.prop` (then `overlayfs` goes on over a
module that exists), the stat of a tree in the scan, `readdir()` itself.

`system()` runs its tools (`ToolSteps`) in a shell of its own. A kill -9 of the
command there ends the command only: the process becomes an `Orphan`, a shell
that works on to the end of its command line and then is gone (`ToolsEnd`),
without the steps the command would have gone on to. Its terminal has the prompt
back, so its next command is another member of `Procs`: two processes are two
terminals, or one terminal and an orphan. `system()` ignores Ctrl-C in the
command and not in its child, so that `Interrupt` ends the tool wherever it is,
with a torn file or half of the directories, and the command prints its error
and returns 1. Outside of `system()` a kill of either kind ends the command.

Left out: file modes (the two `chmod`s at the end of `overlayfs` change
nothing the model keeps, and their result is ignored), the `work` directory,
output, and the shell's handling of unusual file names. The scan reads one
entry per step and sees the store as it is at that step; the order of entries
is fixed (`ScanOrder`). An APK named on a command line does not change while it
is copied. Module names are not empty here (see the deviations).

### AppCatalog and SerialStore

`AppCatalog` is what a user may rely on who runs one command at a time. Its
state is what the user can tell: which modules there are, whether `overlayfs`
calls them active and rightly so, and what each holds for each application. A
foreign module is one that is called active and is not complete. `Overlayfs`,
`Install` and `Uninstall` are single steps. With exit code 0 they have done all.
With exit code 1 they were refused and have done nothing, or were interrupted
by Ctrl-C, and then, like one that was killed, have damaged at most the
application or module they were given (an `install` leaves the old copy, the new
one or a torn one). The user cannot tell the two apart by the code.

`SerialStore` adds the history variable `last`, the store as the last command
that returned left it, and `ImplementsCatalogue` says that `AppCatalog!Spec`
holds of `last`. A step of a running command is a stutter there. It is the
store with a single process, which amounts to an assumption about the user: the
next command is typed when the one before has returned and, if it was killed,
when its orphaned shell has ended as well. A user who does not wait can meet
the orphan's tools (see the deviations). The mapping needs no faults and no
misreads: with a failing `rm` it does not hold (run `store_rm_fails`), nor with
an `ofstream` that cannot be flushed (run `store_full_disk`).

### BootOverlay

Magisk is external and modelled from what the scripts need of it: on every
boot it runs `post-fs-data.sh` of all enabled modules one after another, then
`service.sh` of all enabled modules, with `MODPATH` naming the module. `mounts`
keeps the layers on `/system` and `/system_ext`. `mount` may fail. `umount`
takes the top layer or fails because it is busy; the partition's own mount is
always busy. `hasExt` is fixed for a device and both values are checked. What
`overlayfs` does to the scripts of its module is abstract here: `Rewrite` gives
them any value, and so does a restart. `Boot` may happen in any state, at most
`MaxBoots` times.

### Device

`Device` puts the two together: `Overlay` is `BootOverlay` with the scripts
that the store has (an empty one does nothing), and its `Prebuilt` modules are
the store's `Flashed` ones. Foreign modules have no script of the overlay; what
their own scripts may do is not modelled.

`disk` is what a loss of power would leave. The commands call no `sync()`, so
`disk` lags behind. `dirty` are the files and APKs that were written or
truncated since the disk last had them whole. `Writeback`, at any moment, gives
the disk all names there are now, and for any of the dirty files perhaps an
empty file (`late`) or a torn APK (`lateApk`), whatever the disk had of them
before: a truncation may be committed before the data that replaces it. This is
a journaling file system that commits names in order and may write data later,
as ext4 and f2fs do; a file system that reorders names would lose more.

Restarts happen at any step of any command: all processes end, orphans too, and
new ones are at their prompts (`NewProcesses`). `Reboot` syncs; `PowerLoss`
makes `disk` the store. `PostFsData` is the script's `mkdir -p` of the overlay
tree, then the mount. No command runs before post-fs-data is over: there is no
shell.

A module is `Settled` when its three files are whole, in the store and on the
disk, with none of them dirty and no `overlayfs` past its check on it. Then it
stays so (`CompletedSurvives`). Until then it may not: when two `overlayfs` are
past their checks on one module, or one repeats what a loss of power emptied,
the truncation of a file that was whole may reach the disk without the new data.

`ImplementsOverlay` is the refinement: `DeviceSpec => Overlay!Spec`. Commands
that write scripts are `Rewrite` steps, both kinds of restart are `Boot` steps,
and everything else of the store stutters. That it holds for the flashed
modules, whose scripts `Boot` and `Rewrite` may not touch, is because the
test for `module.prop` comes before `overlayfs` writes anything, and so needs
`~Misreads`.

### Cli and PartitionTable

`Cli` begins with the static registrars, in any order, then `main()`. The
loops are one action per token or line, checked against what the result should
be by definition: `SplitAsTyped`, `LastNameWins`, `TopmostReported`. `main()`
and `detect()` run to their end without anything else happening, so
`CHECK_DEADLOCK FALSE` stands in their configurations: the system stops. Mount
points and options are names; an option matters by whether it is `rw` or
contains these letters.

### RootDetect

One action per probe and per captured command. The device (`there`: the traces
this process would find) changes one trace at a time between any two steps, at
most `MaxDisturbances` times, and `popen()` may fail. A provider that is
installed or removed as a whole is several changes with no probe between them.
`stayed` and `unheard` are history variables: the traces that were there from
the start, and the tools that were there when `popen()` failed to ask for them.
`path` and `version` are whether the texts are there. An answer need not be true
of any one moment: with two changes a device that moves from Magisk to KernelSU
is reported without root. What holds is `StayingFound`, of traces that stay and
are not unheard; `PathFound`, that only an su that went away between the two
questions for it, or was unheard, is reported without its path; and
`RestingExact`. `root` reaches the exit code; `info` stops when detect() is
done, and the three properties are about its result from there on.

### Reports: DirListing, Props, Json

`Reports` runs one of the five commands that report, with or without `--json`,
on a device from `Cases`. Its steps are those of the detectors and readers in
the order in which the command calls them: `info` detects the root provider,
reads the mount table, then a property, and prints. The scan for the overlay
module that ends `info` is in `ModuleStore`, with the commands that change what
it finds; here its answer is given.

- `DirListing`: `Readdir` and `Lstat` are two steps, between which others
  create, remove or replace entries (`Alter`, as often as `MaxDisturbances`
  allows), and POSIX leaves open what `readdir()` returns of the changes.
  `lstat()` may fail on any entry that is there (a directory that cannot be
  searched, a policy for one file, a path that is too long), and a `readdir()`
  that fails ends the loop as the end does, with exit code 0. `errors` is a
  history variable that remembers which did. `SortEntries` may give entries of
  one name any order, as `std::sort()` does.
- `Props`: a key or a value is a sequence of characters, with `"]: ["` as one
  of them, since the parser looks for nothing smaller. `Getprop` prints what
  `getprop` prints, `parse_getprop_output` reads it back: at every line end, what
  the line up to there (`LineTo`) adds to the list.
- `Json`: `Write` gives the text as a sequence of characters, where words
  (`true`) and the four digits after `\u` are one character each. `write()` calls
  itself for the items of a value; the model has one definition per level, down
  to the deepest value any command prints (`info`'s object, its partitions, one
  of them, its name). `Reader` and `Means` read the text after RFC 8259, to any
  depth, and are no part of the code; `JsonReadsBack` compares. The
  two control characters stand for the first and last of all. White space,
  numbers (sizes, owners) and members with constant text are left out. Names
  that are not UTF-8 are outside of what the property is about.
- `Chars` is the set of characters of all these texts, any set that has those
  the parser, `escape()` and the reports name, and not the reader's own mark for
  the end of a text. `Cases` are of the types the detectors and readers take, and
  keys are as Android allows them (`Keyed`: no line end and no `"]: ["`; Android
  makes them of letters, digits and a few signs).

## Runs

| Run | Shows |
|---|---|
| `store_race` | two processes (two terminals, or a terminal and an orphan), one module, nine command lines, failures, misreads, kills and interrupts: `TypeOK`, `CreationOrder`, `ActiveIsDetected`, `ChosenModuleExists`, `OnlyRootWrites`, `InstallReturnsTruth` |
| `store_serial` | one terminal, whose user waits for orphans; a flashed, a generated and a foreign module; kills and interrupts: a success of `overlayfs` or `uninstall` is one, whatever was left behind (`OverlayReturnsTruth`, `UninstallReturnsTruth`), and each command is one step of the catalogue (`ImplementsCatalogue`) |
| `store_live` | two terminals, no failures or kills: `ActiveMeansComplete`, `CommandsReturn` |
| `boot` | two modules of each kind, two boots: `TypeOK`, `AtMostOneOverlay`, `BootCompletes` |
| `device` | a generated, a flashed and a foreign module, two restarts of either kind at any step: `DeviceTypeOK`, `CreationOrder` and `FlashedIntact` after any restart, `MountedIsBuilt`, `CompletedSurvives`, `ImplementsOverlay` |
| `cli` | all lines of up to four tokens over one token of each sort, and all tails of up to three options: `TypeOK`, `SplitAsTyped`, `CommandsKnown`, `HelpRunsNothing`, `LastNameWins` |
| `reports` | the five reporting commands: `ReportTypeOK`, `StayingFound`, `RestingExact`, `PathFound`, `OneEntryEach`, `TopmostReported`, `ListedTruly`, `JsonReadsBack`, `PropsExact` |

Runs that TLC ends with a counterexample, each a disagreement between the code
and its documentation:

| Run | Property | What happens |
|---|---|---|
| `store_crash` | `ActiveMeansComplete` | killed after `module.prop`: "overlayfs is active" for ever, without scripts |
| `store_rm_fails` | `UninstallReturnsTruth` | rm fails, `|| true`, "uninstalled successfully" |
| `store_stranded` | `NoStrandedApp` | a second module earlier in the directory hides apps of the first |
| `store_full_disk` | `OverlayReturnsTruth` | `write_file()` returns true before the flush: an empty file, and "created successfully" |
| `boot_unmount` | `EnabledStaysMounted` | `service.sh` unmounts the overlay on every boot |

More deviations are visible in the models without a run of their own.

- `overlayfs` given the name of a module that is no overlay module, as
  `--name=systemapp` (the id in `build-magisk.sh`), finds its `module.prop` and
  prints "overlayfs is active" (cmd_overlayfs.cpp:98); `install`, `uninstall` and
  `info` find no overlay there. `ActiveIsDetected` is of modules that are not
  `Foreign`, and false of those that are from the first state on.
- A kill -9 of an `install` whose `cp` has not opened its file yet leaves the
  shell at work (`Kill`, `Orphan`). A user who types `uninstall` of an APK
  installed before has it removed, then the orphan's `cp` puts it back, `rmdir`
  fails, `|| true` hides it, and "uninstalled successfully" is printed
  (cmd_uninstall.cpp:112-118): `UninstallReturnsTruth` is false of one terminal
  and one orphan, and so, by a `cp` between the copy and the last file, is
  `OverlayReturnsTruth`. `store_serial` and its proofs assume a user who waits.
- A `popen()` that fails is taken for a tool that is not there
  (root_detector.cpp:28, `PipeFails`), so that `root` can answer 1 on a device
  whose only trace is a tool that was there all the time, although the "exit
  code doubles as a scriptable check" (cmd_root.cpp:46).
- `is_writable` means "rw among its options" (partition_detector.hpp:33), and
  partition_detector.cpp:67 looks for these two letters anywhere in them, as in
  `lowerdir=/mnt/vendor_rw` (`ReadOnly`, `WithRw`).
- A listing that a `readdir()` error cut short is printed with exit code 0
  (`SortEntries`).
- A module whose `module.prop` cannot be read just now is overwritten by
  `overlayfs`, a flashed one too (`CheckNotInstalled`, `Misreads`).
- The post-fs-data.sh of a second module finds the first one's overlay and
  exits 0 without mounting its own (`PostFsDataSkips`), although `overlayfs`
  told the user to "reboot for the overlay to take effect".
- The prebuilt module mounts a tree laid out for `/system` over `/system_ext`
  where that exists (`SystemMount`).
- `overlayfs --name=` without a value goes on with an empty name, so that
  `/data/adb/modules/` becomes the module (`RunNamed`).
- `--dry-run` ("Show what would happen without making changes", main.cpp:35)
  is taken off the line and set in `ctx`, and no command reads it.
- `uninstall` of a module's own application removes the copy in the overlay;
  the one below `system/`, which Magisk mounts, stays (`Target`, `RemoveApk`;
  `mounted` in `AppCatalog`).
- A loss of power can leave `module.prop` whole and a script empty, which no
  later `overlayfs` repairs, as after a kill. And an `overlayfs` that was past
  its check when another finished the module truncates what the other wrote:
  `CompletedSurvives` is about modules that no such command is still building
  and that have nothing left to be written to the disk.
- A property whose value has several lines loses all but the first, and a line
  of it that looks like a property is listed as one (`PropsExact` has the exact
  condition).
- `mounts` that finds no partition exits with 1 as text and with 0 as JSON
  (`ShowMounts`).

### Bounds

- Two processes: every race here is between two commands, or a command and an
  orphan, on one file, module or directory. The proofs have no such bound.
- One module in `store_race` and `store_live`, where the commands should meet;
  one of each origin in `store_serial`, `store_stranded` and `device`, where the
  choice matters. Two APK contents tell an old copy from a new one; two
  applications, the module's own and another. The terminals are interchangeable
  (`SYMMETRY`), used only in the run without liveness.
- Two boots let a boot find what the one before, and the user between them,
  left. Two modules of each kind let each meet its own kind and the other.
- `device` has one terminal, one module of each origin, and restarts instead of
  kills: two terminals, kills and more modules of a kind are in the runs of its
  parts, and the proofs have none of these bounds.
- Two disturbances (changes of the device and pipes that fail) are the least
  that can hide a moving provider (one trace appears behind the cascade and one
  goes before it gets there), and the least that can make an entry of a directory vanish and come back.
- Four tokens hold a command, an operand and two flags or names in any order.
  Four lines hold two mounts of each of two partitions in any order.
- `Cases` varies for each command what that command reads: all sets of traces
  for `root`, all tables for `mounts`, all contents of a directory of three
  names for `ls`, two properties with five values each and four filters for
  `props`, and for `info` a few of each together. The names and values hold
  every character `escape()` treats specially.

### Fairness

`store_live` assumes weak fairness of `Run(p)`: a command that was typed keeps
being scheduled and its tools end. Typing commands and killing or
interrupting them is not assumed. `BootCompletes` assumes weak fairness of
`BootStep`: Magisk runs each script and each ends. Booting and toggling modules are choices of the user.

## Proofs

All theorems hold for all values of the constants that satisfy the named
assumptions of their modules. An invariant is seldom inductive alone; what each
proof adds to it is below.

### The store, with any number of terminals

`ModuleStoreProofs` is about any number of terminals, modules, flashed modules,
foreign modules, applications and APKs, any set of well-formed command lines,
failures, misreads and kills on or off: `TypeCorrect`, `BuiltInOrder`,
`ActiveFound`, `ChosenStays`, `RootOnly`, `InstallTruthful`.

`IInv` adds, for every process, `Local` (at each point, which command runs,
with which rights, in which position) and `Relies` (what it has seen or made
and goes on relying on: the overlay tree exists; the copy Magisk mounts exists
before the files are written; the files before the current one exist),
`PropMeansTree` and, unless there are misreads, `FlashedIntact`. The argument is
rely-guarantee: `GrowsStep` says no step of any process removes an overlay tree, a module file
or the "priv" copy (uninstall only reaches the "upper" tree), `OthersStay` that
a step moves one process, so `OthersKeep` carries everybody else's part over;
`LocalStep` and `ReliesStep` go through the actions for the process that moves;
`OrderStep` looks at the two actions that write module files, `FlashedStep` at
why they never write those of a flashed or foreign module. `RootOnly` follows because a
process past its checks is root by `Local`, and one before them has written
nothing.

`InstallTruthful` needs to know who else has a file open. `HInv` adds `Hold`:
a process whose hold is `clean` has its file to itself (no other process that
is copying holds it), and has its APK in it once `cp` is done; and
`FilesInDirs`: an APK file lies in a directory that exists, whoever runs rmdir.

`CompleteUnlessInterrupted` is `ActiveMeansComplete` under `~Faults` and
`~Kills`; with kills it is false (run `store_crash`). `FilesFollow` says that
once a module has one of its files, each other one is written or some process
is on its way to it; several `overlayfs` may write the same module at once.

### The store, with one terminal

`SerialStoreProofs` is about `SerialSpec` under `~Faults` and `~Misreads`: one
terminal whose user waits for orphans, any modules, applications, APKs and
command lines, kills and interrupts on or off. Without `~Faults` its theorems
are false (runs `store_rm_fails`, `store_full_disk`). The waiting user is in
`OneTerminal`, the assumption that there is one process (see the deviations for
what happens without it).

`SInv` relates the store to `last`, the store as the last command left it. A
command that has not written has `SameStore`. One that has differs from `last`
at most in the application or module it was given, and by exactly what its
place in the sequence of calls says: `Copied` gives each of the two copies
before, during and after its `cp`, `Making` the state of the module and the
files written so far, `Removing` the application after `rm`. `Choosing` says
that the module the scan returned is the one the catalogue calls chosen, and
`Showing` what is to be seen of the exit code while a command or its orphan is
at work. There is a lemma for every step (`CheckSteps` to `InterruptSteps`), which shows that it
keeps `SInv` and is, seen through the mapping, a step of `AppCatalog` or a
stutter. From these follow `SerialInductive`, `StoreImplementsCatalogue` (the
refinement), `OverlayTruthful` and `UninstallTruthful`.

### The device

`DeviceProofs` proves the order of creation for the device: `OrderOnDisk`,
`NeverMountedEarly`, and, under `~Misreads`, `FlashedKept`. Its invariant `DInv` is `IInv`, `DiskInv`
and `BootInv`. `DiskInv` says of `disk` what `IInv` says of a store with no
command running: the disk always holds a store that some run of commands could
have left, so a loss of power leads back to `IInv` (`LossKeeps`); that dirty
files exist, and that the files of flashed and foreign modules are never dirty
and are on the disk as they came (`OnDisk`). `BootInv`
says that a module whose script is still to run, or whose overlay is mounted,
has a `module.prop`, whose order then gives the rest. `BootsSeeAnOverlay` is the
refinement, under `~Misreads`: every step of the device is one of `BootOverlay` or leaves its
variables alone. `CommandRewrites` is its core: a command changes the scripts
of one module, and `FlashedIntact` makes it a generated one.

`NeverStackedOnDevice` and `DeviceTypeCorrect` take the invariant of
`BootOverlay` over through that refinement, and so have its `~Misreads`.
`CompletedStays` proves `CompletedSurvives`, again under `~Misreads`: no
`overlayfs` gets past its check on a module with a `module.prop`, what is not
dirty is written back whole, and a restart finds all three files on the disk.

### The rest

- `BootOverlayProofs`: `TypeCorrect` and `NeverStacked`, for any modules and any
  number of boots no mount point ever has more than one overlay.
- `CliProofs`: for any commands, any order of their registrars and lines of any
  length, `TypeCorrect`, `FoundIfThere`, `HelpIsSafe`, `SplitExact`,
  `LastNameDecides`. The invariant says that the command is the first word
  read, that a request for help that was read is in `flags`, and that main()
  runs only after the last registrar; for the last two, that `args` is what the
  tokens read give, in order, and `name` what the options read give.

### The detectors and readers

`DetectorProofs` has each of them alone.

- `RootDetector`: `TypeCorrect`; `StayingIsFound`, with any number of changes
  and failing pipes a trace that stays and is heard of (`Sure`) is not
  overlooked; `PathIsFound`, only su is ever found without its path. `RootInv`
  says that the probes made have found nothing that is sure, that afterwards the
  provider covers what is, and which provider may lack a path (`Located`).
  `RestingReport`: on a device at rest (`Resting`) the
  probes made had no trace, so the provider is the first that has one.
- `PartitionDetector`: for every `/proc/mounts`, `ReportedOnce` and
  `ReportedTopmost`; `RowRead` says what one more line does to the topmost
  mounts.
- `ls`: `AlwaysListedTruly`, for directories of any size, any number of
  changes, and any `lstat()` and `readdir()` that fail. By `ListInv`, a name that
  is there all the time is still unread, being read, or listed, only one of the
  three, and once; only a `readdir()` that failed ends the loop with names unread,
  and only an `lstat()` that failed lists an entry that stays without attributes.

### Texts of any length

`TextProofs` is about `Props` and `Json`: what the parser and a JSON reader make
of what was written, for any number of properties, items and members, any
lengths and any set of characters. That needs induction, and the library's
induction theorems take an operator as parameter, which the provers cannot
instantiate. So induction is over sets here. `NatSet` says that a set of
numbers with 0 and every successor holds all of them, `SeqSet` that a set of
sequences with `<<>>` and every sequence one longer holds all (`SeqSetFront`:
one longer at the front). Both follow from `WFMin`, the theorem that a
well-founded relation has minimal elements. A proof by induction defines the
set of those for which the claim holds.

A recursive function is what `CHOOSE` picks of the functions with its equation,
and nothing is known of it until there is one. `FlattensMore` and `BuildsMore` build such a function step by step, from the
front, and `ReadsMore` from the end of the text for the reader, whose results
depend on later places only (`Later`).

- `PropRead`: the pieces `parse_getprop_output` adds are split at a line that is
  whole; one line and a proper key make the line of a property add exactly this
  property (`PieceOfLine`), and no value before or after it reaches into it.
  `PropsRead`: if all are such, nothing else is added.
- `WrittenMeans`: `Means(Write(v), v)` for every value as deep as any command
  prints. Its core is `ReadsAs`: wherever the text of a value sits in a longer one,
  the reader returns that value and the place after it. It is proved for strings
  (`StringBodyReads`: no character of an escaped string ends it, and each reads as
  itself), for lists of items whose texts read back (`ListsRead`), and
  from these level by level (`LevelsRead`).

### The commands that report

`ReportsProofs` is about `ReportSpec`, the five commands composed of these parts,
on any device and with any texts. `IInv` is the invariants of the parts and
`ReportInv`: what `getprop` printed is what it prints of the properties there
are, a command that has exited has found all it prints (`Complete`), and the JSON
is what `Write` gives for it. `DetectorsStep` shows that the steps of one part
leave the others alone, a change of the directory under `ls` being one of the
disturbances `RootInv` counts. `ExitEnds` says that a command that has exited does nothing
more, so what was printed stays what was found (`ValueStays`), and `ValueIn` that
the value is no deeper than `Write` goes. From these follow `ReportTypeCorrect`,
`JsonAlwaysReadsBack` (with `WrittenMeans`), `PropsAlwaysExact` (with `PropRead`
and `PropsRead`), and that what was proved of the parts holds in the commands:
`ReportsWhatStays` (in `info` too, from the end of detect() on), `ReportsTopmost`,
`ReportsTruly`. `PropsAlwaysExact` rests on the assumption that keys are `Keyed`.

### Model-checked only

- Liveness (`CommandsReturn`, `BootCompletes`): out of the prover's reach.
- The properties of the runs that end with a counterexample, where they fail.
- What the commands of one terminal report when its user does not wait for the
  tools of a killed command: `store_race` has the orphans, and `InstallReturnsTruth`
  there and its proof cover them.

## Not modelled

Logger and colours are output nobody reads back; no command opens the log
file. The packaging scripts run external tools in sequence. The release
workflow is configuration of a hosted service: what can go wrong in it depends
on that service's scheduling, none of which is in the repository. `src/fs`,
`pm`, `package`, `system`, `selinux`, `zip`, `utils` are empty directories.

## Plan

All invariants and action properties of the runs are proved, and both
refinements. What is left:

1. Invariants of `AppCatalog` and, through `StoreImplementsCatalogue`, of the
   store.
2. Numbers and members with constant text in `Json`, which would make the sizes
   and owners of `ls` part of `JsonReadsBack`.
