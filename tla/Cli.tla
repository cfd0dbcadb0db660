--------------------------------- MODULE Cli ---------------------------------
(***************************************************************************)
(* The command line: the registration of commands before main(); main() in  *)
(* src/main.cpp, which splits the line into a command, global flags and the *)
(* command's arguments and dispatches; and the argument loops with which    *)
(* install and overlayfs begin.                                             *)
(*                                                                         *)
(* A token is a model string; what main() asks of it is whether it is       *)
(* empty, starts with '-', is a flag it knows or starts with "--name=".     *)
(***************************************************************************)
EXTENDS Naturals, Sequences

CONSTANTS
    Words,      \* tokens that are not empty and do not start with '-'
    Commands,   \* the words that are names of commands
    Argvs       \* the command lines users type

\* The empty string: a token, a name, and "no command yet".
NoText == ""

\* The flags main() strips, with the effect of each; --verbose, --force and
\* --no-reboot, which no command reads, are handled as --dry-run is.
Flag == [t \in {"-h", "--help", "-v", "--json", "--dry-run"} |->
            CASE t \in {"-h", "--help"} -> "help"
              [] t = "-v"        -> "version"
              [] t = "--json"    -> "json"
              [] t = "--dry-run" -> "dry_run"]

\* What follows "--name=" in the tokens that start so.
NameIn == [t \in {"--name=a", "--name=b", "--name="} |->
            CASE t = "--name=a" -> "a" [] t = "--name=b" -> "b" [] t = "--name=" -> NoText]

\* Neither words nor flags: the name options, other dashed tokens, no text.
Others == DOMAIN NameIn \cup {"-x", NoText}
Tokens == Words \cup DOMAIN Flag \cup Others

\* The commands whose arguments are an APK path and an optional name.
Named == {"install", "overlayfs"}

\* No text, a name taken from the APK's file name, overlayfs' own default.
DefaultName == [c \in Named |-> IF c = "install" THEN NoText ELSE "systemapp-overlay"]
FromFile == "from the file name"

ASSUME WordsAssumption ==
    /\ Commands \subseteq Words /\ NoText \notin Commands
    /\ Words \cap (DOMAIN Flag \cup Others) = {}

ASSUME ArgvsAssumption == Argvs \subseteq Seq(Tokens)

VARIABLES
    pending,    \* commands whose registrar has still to run
    registry,   \* commands_: the names find() finds
    argv,       \* the command line
    i,          \* the next token to look at, in argv or then in args
    cmd,        \* command_name
    flags,      \* the members of CommandContext that have been set
    args,       \* the tokens that remain
    name,       \* app_name or module_name
    stage,      \* "static", "parse", "name", or "exit"
    did         \* what the program did in the end

vars == <<pending, registry, argv, i, cmd, flags, args, name, stage, did>>

-----------------------------------------------------------------------------
(* Variants of the actions below with the mistakes the properties are to    *)
(* catch; no specification uses them.                                       *)

\* Mutant of Register: the map is a global of its own file, whose constructor
\* empties it again when it runs later.
RegisterInGlobal(c) ==
    /\ stage = "static" /\ c \in pending
    /\ pending' = pending \ {c}
    /\ registry' \in {registry \cup {c}, {c}}
    /\ UNCHANGED <<argv, i, cmd, flags, args, name, stage, did>>

\* Mutant of TakeCommand: without the continue, the command is an argument too.
TakeCommandAsArg ==
    /\ stage = "parse" /\ i <= Len(argv)
    /\ cmd = NoText /\ argv[i] \in Words
    /\ cmd' = argv[i]
    /\ args' = Append(args, argv[i])
    /\ i' = i + 1
    /\ UNCHANGED <<pending, registry, argv, flags, name, stage, did>>

\* Mutant of TakeFlag: the flag is not stripped.
TakeFlagKept ==
    /\ stage = "parse" /\ i <= Len(argv) /\ argv[i] \in DOMAIN Flag
    /\ flags' = flags \cup {Flag[argv[i]]}
    /\ args' = Append(args, argv[i])
    /\ i' = i + 1
    /\ UNCHANGED <<pending, registry, argv, cmd, name, stage, did>>

\* Mutant of RunCommand: help is only looked at when nothing else is there.
RunCommandUnlessAlone ==
    /\ stage = "parse" /\ i > Len(argv) /\ cmd \in registry
    /\ "help" \notin flags \/ args # <<>>
    /\ stage' = "exit" /\ did' = "run"
    /\ UNCHANGED <<pending, registry, argv, i, cmd, flags, args, name>>

\* Mutant of TakeName: the first name option is kept.
TakeFirstName ==
    /\ stage = "name" /\ i <= Len(args) /\ args[i] \in DOMAIN NameIn
    /\ name' = IF name = DefaultName[cmd] THEN NameIn[args[i]] ELSE name
    /\ i' = i + 1
    /\ UNCHANGED <<pending, registry, argv, cmd, flags, args, stage, did>>

-----------------------------------------------------------------------------
(* Static initialisation *)

Init ==
    /\ pending = Commands /\ registry = {}
    /\ argv = <<>> /\ i = 1
    /\ cmd = NoText /\ flags = {} /\ args = <<>> /\ name = NoText
    /\ stage = "static" /\ did = "nothing"

\* Each command's file registers it, in an order nobody fixes.  The registry is
\* a static of instance(), which the first registrar to call it constructs.
Register(c) ==
    /\ stage = "static" /\ c \in pending
    /\ pending' = pending \ {c}
    /\ registry' = registry \cup {c}
    /\ UNCHANGED <<argv, i, cmd, flags, args, name, stage, did>>

-----------------------------------------------------------------------------
(* main(): the loop over raw_args, after all registrars *)

Start ==
    /\ stage = "static" /\ pending = {}
    /\ argv' \in Argvs
    /\ stage' = "parse"
    /\ UNCHANGED <<pending, registry, i, cmd, flags, args, name, did>>

Parsing == stage = "parse" /\ i <= Len(argv)
Parsed  == stage = "parse" /\ i > Len(argv)

\* The first token that can be a command is the command.
TakeCommand ==
    /\ Parsing /\ cmd = NoText /\ argv[i] \in Words
    /\ cmd' = argv[i]
    /\ i' = i + 1
    /\ UNCHANGED <<pending, registry, argv, flags, args, name, stage, did>>

TakeFlag ==
    /\ Parsing /\ argv[i] \in DOMAIN Flag
    /\ flags' = flags \cup {Flag[argv[i]]}
    /\ i' = i + 1
    /\ UNCHANGED <<pending, registry, argv, cmd, args, name, stage, did>>

TakeArg ==
    /\ Parsing
    /\ argv[i] \in Others \/ (argv[i] \in Words /\ cmd # NoText)
    /\ args' = Append(args, argv[i])
    /\ i' = i + 1
    /\ UNCHANGED <<pending, registry, argv, cmd, flags, name, stage, did>>

-----------------------------------------------------------------------------
(* main(): after the loop *)

Exit(what) ==
    /\ stage' = "exit"
    /\ did' = what
    /\ UNCHANGED <<pending, registry, argv, i, cmd, flags, args, name>>

ShowVersion    == Parsed /\ cmd = NoText /\ "version" \in flags /\ Exit("version")
ShowHelp       == Parsed /\ cmd = NoText /\ "version" \notin flags /\ Exit("help")
UnknownCommand == Parsed /\ cmd # NoText /\ cmd \notin registry /\ Exit("unknown")
ShowUsage      == Parsed /\ cmd \in registry /\ "help" \in flags /\ Exit("help")

\* The other commands take their operand, if any, from args[0].  What they
\* throw is caught.
RunCommand ==
    /\ Parsed /\ cmd \in registry /\ "help" \notin flags
    /\ cmd \notin Named /\ (cmd = "uninstall" => args # <<>>)
    /\ Exit("run") \/ Exit("error")

\* uninstall needs an operand; install and overlayfs need an APK path, which
\* options may follow.
NoOperand ==
    /\ Parsed /\ cmd \in registry \cap (Named \cup {"uninstall"}) /\ "help" \notin flags
    /\ args = <<>>
    /\ Exit("error")

TakeOperand ==
    /\ Parsed /\ cmd \in registry \cap Named /\ "help" \notin flags
    /\ args # <<>>
    /\ stage' = "name"
    /\ name' = DefaultName[cmd]
    /\ i' = 2
    /\ UNCHANGED <<pending, registry, argv, cmd, flags, args, did>>

TakeName ==
    /\ stage = "name" /\ i <= Len(args) /\ args[i] \in DOMAIN NameIn
    /\ name' = NameIn[args[i]]
    /\ i' = i + 1
    /\ UNCHANGED <<pending, registry, argv, cmd, flags, args, stage, did>>

SkipArg ==
    /\ stage = "name" /\ i <= Len(args) /\ args[i] \notin DOMAIN NameIn
    /\ i' = i + 1
    /\ UNCHANGED <<pending, registry, argv, cmd, flags, args, name, stage, did>>

\* The path is no regular file: exit code 1.  Option tokens never are one.
NotAFile ==
    /\ stage = "name" /\ i > Len(args)
    /\ Exit("error")

\* It is one.  install falls back on the file name, overlayfs does not: there
\* an empty name makes /data/adb/modules/ itself the module.
RunNamed ==
    /\ stage = "name" /\ i > Len(args) /\ args[1] \in Words
    /\ name' = IF cmd = "install" /\ name = NoText THEN FromFile ELSE name
    /\ stage' = "exit" /\ did' = "run"
    /\ UNCHANGED <<pending, registry, argv, i, cmd, flags, args>>

Next ==
    \/ \E c \in Commands : Register(c)
    \/ Start
    \/ TakeCommand \/ TakeFlag \/ TakeArg
    \/ ShowVersion \/ ShowHelp \/ UnknownCommand \/ ShowUsage \/ RunCommand
    \/ NoOperand \/ TakeOperand \/ TakeName \/ SkipArg \/ NotAFile \/ RunNamed

Spec == Init /\ [][Next]_vars

-----------------------------------------------------------------------------
(* Properties *)

TypeOK ==
    /\ pending \subseteq Commands /\ registry \subseteq Commands
    /\ argv \in Seq(Tokens)
    /\ i \in Nat \ {0}
    /\ cmd \in Words \cup {NoText}
    /\ flags \subseteq {"help", "version", "json", "dry_run"}
    /\ args \in Seq(Words \cup Others)
    /\ name \in {NoText, "a", "b", "systemapp-overlay", FromFile}
    /\ stage \in {"static", "parse", "name", "exit"}
    /\ did \in {"nothing", "version", "help", "unknown", "error", "run"}

\* The position of the command among the first n tokens, 0 if there is none.
CommandAt(n) ==
    LET Found == {k \in 1 .. n : argv[k] \in Words} IN
    IF Found = {} THEN 0 ELSE CHOOSE k \in Found : \A l \in Found : k <= l

\* The first read tokens have been split: the first word is the command, the
\* flags have been noted, and the rest are the arguments, as they were typed.
Split(read) ==
    LET at   == CommandAt(read)
        Kept == {k \in 1 .. read : k # at /\ argv[k] \notin DOMAIN Flag}
    IN  /\ cmd = IF at = 0 THEN NoText ELSE argv[at]
        /\ flags = {Flag[argv[k]] : k \in {l \in 1 .. read : argv[l] \in DOMAIN Flag}}
        /\ \E from \in [1 .. Len(args) -> 1 .. read] :
              /\ {from[n] : n \in 1 .. Len(args)} = Kept
              /\ \A m, n \in 1 .. Len(args) : m < n => from[m] < from[n]
              /\ \A n \in 1 .. Len(args) : args[n] = argv[from[n]]

\* "Global flags are parsed here and stripped out of the args forwarded to
\* each command" (main.cpp), wherever on the line they stand: command, flags
\* and arguments are a partition of the tokens, with the arguments in the order
\* they were typed.
SplitAsTyped == Split(IF stage = "parse" THEN i - 1 ELSE Len(argv))

\* In whichever order the registrars of the program's files run, and wherever
\* flags and arguments stand, a command that exists is found.
CommandsKnown ==
    did = "unknown" =>
        \A k \in 1 .. Len(argv) : argv[k] \in Commands =>
            \E l \in 1 .. (k - 1) : argv[l] \in Words \ Commands

\* Asking for help anywhere on the line, even among the arguments, never runs
\* a command.
HelpRunsNothing ==
    (\E k \in 1 .. Len(argv) : argv[k] \in {"-h", "--help"}) => did \notin {"run", "error"}

\* The last --name= after the APK path decides; for install an empty one means
\* none.
LastNameWins ==
    did = "run" /\ cmd \in Named =>
        LET Given == {k \in 2 .. Len(args) : args[k] \in DOMAIN NameIn}
            last  == CHOOSE k \in Given : \A l \in Given : l <= k
            given == IF Given = {} THEN DefaultName[cmd] ELSE NameIn[args[last]]
        IN  name = IF cmd = "install" /\ given = NoText THEN FromFile ELSE given
=============================================================================
