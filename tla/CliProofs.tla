------------------------------ MODULE CliProofs ------------------------------
(***************************************************************************)
(* What holds of every command line, for any commands and words.            *)
(***************************************************************************)
EXTENDS Cli, TLAPS

-----------------------------------------------------------------------------
(* The inductive invariant *)

Help == {"-h", "--help"}

\* Every command is registered or about to be; main() comes after that.
RegistryInv ==
    /\ pending \cup registry = Commands
    /\ stage # "static" => pending = {}

\* main() has done nothing before its end, and does not look past the line.
StageInv ==
    /\ stage \in {"static", "parse", "name"} => did = "nothing"
    /\ stage = "static" => argv = <<>> /\ i = 1 /\ cmd = NoText
    /\ stage = "parse" => i <= Len(argv) + 1

\* The first word among the tokens read, if there is one, is the command.
CommandInv ==
    LET read == IF stage = "parse" THEN i - 1 ELSE Len(argv) IN
    /\ cmd = NoText => \A k \in 1 .. read : argv[k] \notin Words
    /\ cmd # NoText => \E l \in 1 .. read :
                       argv[l] = cmd /\ \A k \in 1 .. (l - 1) : argv[k] \notin Words

\* A request for help that was read is in flags, and ends main() there.
HelpInv ==
    /\ stage = "parse" => \A k \in 1 .. (i - 1) : argv[k] \in Help => "help" \in flags
    /\ stage = "name" \/ did \in {"run", "error"} => \A k \in 1 .. Len(argv) : argv[k] \notin Help

\* An unknown command is one that is not registered.
UnknownInv == did = "unknown" => cmd \in Words \ Commands

IInv == TypeOK /\ RegistryInv /\ StageInv /\ CommandInv /\ HelpInv /\ UnknownInv

-----------------------------------------------------------------------------
\* Words, flags and the other tokens are different things.
LEMMA SortsDiffer ==
    /\ NoText \notin Words /\ Commands \subseteq Words
    /\ \A t \in Words : t \notin DOMAIN Flag
    /\ \A t \in Others : t \notin Words /\ t \notin DOMAIN Flag
    /\ Help \subseteq DOMAIN Flag
    /\ \A t \in Help : Flag[t] = "help"
<1>1. \A t \in Others : t \notin DOMAIN Flag
    BY DEF Others, NameIn, Flag, NoText
<1>2. NoText \in Others
    BY DEF Others
<1>3. Help \subseteq DOMAIN Flag /\ \A t \in Help : Flag[t] = "help"
    BY DEF Help, Flag
<1>4. QED
    BY <1>1, <1>2, <1>3, WordsAssumption

LEMMA ReadsToken ==
    ASSUME TypeOK, Parsing
    PROVE  i \in 1 .. Len(argv) /\ argv[i] \in Tokens
<1>1. argv \in Seq(Tokens) /\ i \in Nat \ {0} /\ i <= Len(argv)
    BY DEF TypeOK, Parsing
<1>2. QED
    BY <1>1

LEMMA TypeStep ==
    ASSUME TypeOK, [Next]_vars
    PROVE  TypeOK'
<1> USE DEF TypeOK
<1>1. CASE UNCHANGED vars
    BY <1>1 DEF vars
<1>2. ASSUME NEW c \in Commands, Register(c) PROVE TypeOK'
    BY <1>2 DEF Register
<1>3. CASE Start
    BY <1>3, ArgvsAssumption DEF Start
<1>4. CASE TakeCommand
    BY <1>4 DEF TakeCommand, Parsing
<1>5. CASE TakeFlag
    <2>1. \A t \in DOMAIN Flag : Flag[t] \in {"help", "version", "json", "dry_run"}
        BY DEF Flag
    <2>2. QED
        <3>1. Flag[argv[i]] \in {"help", "version", "json", "dry_run"}
            BY <1>5, <2>1 DEF TakeFlag
        <3>2. PICK f : f = Flag[argv[i]]
            OBVIOUS
        <3>3. /\ flags' = flags \cup {f} /\ i' = i + 1
              /\ UNCHANGED <<pending, registry, argv, cmd, args, name, stage, did>>
            BY <1>5, <3>2 DEF TakeFlag
        <3>4. f \in {"help", "version", "json", "dry_run"}
            BY <3>1, <3>2
        <3>5. QED
            BY <3>3, <3>4
<1>6. CASE TakeArg
    BY <1>6 DEF TakeArg, Parsing
<1>7. CASE ShowVersion \/ ShowHelp \/ UnknownCommand \/ ShowUsage \/ RunCommand
           \/ NoOperand \/ NotAFile
    BY <1>7 DEF ShowVersion, ShowHelp, UnknownCommand, ShowUsage, RunCommand,
                NoOperand, NotAFile, Exit
<1>8. CASE TakeOperand
    BY <1>8 DEF TakeOperand, DefaultName, Named
<1>9. CASE TakeName
    <2>1. \A t \in DOMAIN NameIn : NameIn[t] \in {NoText, "a", "b"}
        BY DEF NameIn
    <2>2. QED
        BY <1>9, <2>1 DEF TakeName
<1>10. CASE SkipArg
    BY <1>10 DEF SkipArg
<1>11. CASE RunNamed
    BY <1>11 DEF RunNamed
<1>12. QED
    BY <1>1, <1>2, <1>3, <1>4, <1>5, <1>6, <1>7, <1>8, <1>9, <1>10, <1>11 DEF Next

-----------------------------------------------------------------------------
\* The three actions that read one more token of the line.
LEMMA TokenStep ==
    ASSUME IInv, TakeCommand \/ TakeFlag \/ TakeArg
    PROVE  RegistryInv' /\ StageInv' /\ CommandInv' /\ HelpInv' /\ UnknownInv'
<1> USE DEF IInv
<1>1. i \in 1 .. Len(argv) /\ argv[i] \in Tokens /\ stage = "parse" /\ did = "nothing"
    BY ReadsToken DEF TakeCommand, TakeFlag, TakeArg, StageInv, Parsing
<1>2. i' = i + 1 /\ UNCHANGED <<pending, registry, argv, stage, did, name>>
    BY DEF TakeCommand, TakeFlag, TakeArg
<1>3. RegistryInv' /\ StageInv' /\ UnknownInv'
    BY <1>1, <1>2 DEF RegistryInv, StageInv, UnknownInv
<1>4. 1 .. (i' - 1) = (1 .. (i - 1)) \cup {i}
    BY <1>1, <1>2
<1>5. CommandInv'
    <2>1. CASE TakeCommand
        <3>1. cmd' = argv[i] /\ argv[i] \in Words /\ cmd = NoText
            BY <2>1 DEF TakeCommand
        <3>2. \A k \in 1 .. (i - 1) : argv[k] \notin Words
            BY <1>1, <3>1 DEF CommandInv
        <3>3. cmd' # NoText
            BY <3>1, SortsDiffer
        <3>4. i \in 1 .. (i' - 1)
            BY <1>4
        <3>5. QED
            BY <1>1, <1>2, <3>1, <3>2, <3>3, <3>4 DEF CommandInv
    <2>2. CASE TakeFlag \/ TakeArg
        <3>1. cmd' = cmd /\ (cmd = NoText => argv[i] \notin Words)
            BY <2>2, SortsDiffer DEF TakeFlag, TakeArg
        <3>2. CASE cmd = NoText
            BY <1>1, <1>2, <1>4, <3>1, <3>2 DEF CommandInv
        <3>3. CASE cmd # NoText
            BY <1>1, <1>2, <1>4, <3>1, <3>3 DEF CommandInv
        <3>4. QED
            BY <3>2, <3>3
    <2>3. QED
        BY <2>1, <2>2
<1>6. HelpInv'
    <2>1. argv[i] \in Help => "help" \in flags'
        BY SortsDiffer DEF TakeCommand, TakeFlag, TakeArg
    <2>2. flags \subseteq flags'
        BY DEF TakeCommand, TakeFlag, TakeArg
    <2>3. QED
        BY <1>1, <1>2, <1>4, <2>1, <2>2 DEF HelpInv
<1>7. QED
    BY <1>3, <1>5, <1>6

\* The end of the loop: what main() does then, and the commands' own loops.
LEMMA EndStep ==
    ASSUME IInv,
           \/ ShowVersion \/ ShowHelp \/ UnknownCommand \/ ShowUsage \/ RunCommand
           \/ NoOperand \/ TakeOperand \/ TakeName \/ SkipArg \/ NotAFile \/ RunNamed
    PROVE  RegistryInv' /\ StageInv' /\ CommandInv' /\ HelpInv' /\ UnknownInv'
<1> USE DEF IInv
<1>1. /\ stage \in {"parse", "name"} /\ stage' \in {"name", "exit"}
      /\ stage = "parse" => i > Len(argv)
      /\ UNCHANGED <<pending, registry, argv, cmd>>
    <2>1. CASE \/ ShowVersion \/ ShowHelp \/ UnknownCommand \/ ShowUsage \/ RunCommand
               \/ NoOperand
        BY <2>1 DEF ShowVersion, ShowHelp, UnknownCommand, ShowUsage, RunCommand, NoOperand,
                    Exit, Parsed
    <2>2. CASE TakeOperand
        BY <2>2 DEF TakeOperand, Parsed
    <2>3. CASE TakeName \/ SkipArg \/ NotAFile \/ RunNamed
        BY <2>3 DEF TakeName, SkipArg, NotAFile, RunNamed, Exit
    <2>4. QED
        BY <2>1, <2>2, <2>3
<1>n. did = "nothing"
    BY <1>1 DEF StageInv
<1>i. stage = "parse" => i - 1 = Len(argv)
    BY <1>1 DEF StageInv, TypeOK
<1>2. RegistryInv' /\ StageInv'
    <2>1. stage' = "name" => did' = did
        <3>1. CASE \/ ShowVersion \/ ShowHelp \/ UnknownCommand \/ ShowUsage \/ RunCommand
                   \/ NoOperand \/ NotAFile \/ RunNamed
            BY <3>1 DEF ShowVersion, ShowHelp, UnknownCommand, ShowUsage, RunCommand,
                        NoOperand, NotAFile, RunNamed, Exit
        <3>2. CASE TakeOperand \/ TakeName \/ SkipArg
            BY <3>2 DEF TakeOperand, TakeName, SkipArg
        <3>3. QED
            BY <3>1, <3>2
    <2>2. QED
        BY <1>1, <1>n, <2>1 DEF RegistryInv, StageInv
<1>3. CommandInv'
    <2>1. stage' # "parse" /\ UNCHANGED <<argv, cmd>>
        BY <1>1
    <2>2. CASE stage = "parse"
        BY <1>i, <2>1, <2>2 DEF CommandInv
    <2>3. CASE stage # "parse"
        BY <2>1, <2>3 DEF CommandInv
    <2>4. QED
        BY <2>2, <2>3
<1>4. HelpInv'
    <2>1. \/ stage = "name"
          \/ stage = "parse" /\ "help" \notin flags
          \/ stage' = "exit" /\ did' \in {"version", "help", "unknown"}
        <3>1. CASE ShowVersion \/ ShowHelp \/ UnknownCommand \/ ShowUsage
            BY <3>1 DEF ShowVersion, ShowHelp, UnknownCommand, ShowUsage, Exit
        <3>2. CASE RunCommand \/ NoOperand \/ TakeOperand
            BY <3>2 DEF RunCommand, NoOperand, TakeOperand, Parsed
        <3>3. CASE TakeName \/ SkipArg \/ NotAFile \/ RunNamed
            BY <3>3 DEF TakeName, SkipArg, NotAFile, RunNamed
        <3>4. QED
            BY <3>1, <3>2, <3>3
    <2>2. CASE stage = "name" \/ (stage = "parse" /\ "help" \notin flags)
        <3>1. \A k \in 1 .. Len(argv) : argv[k] \notin Help
            BY <1>1, <1>i, <2>2 DEF HelpInv
        <3>2. QED
            BY <1>1, <3>1 DEF HelpInv
    <2>3. CASE stage' = "exit" /\ did' \in {"version", "help", "unknown"}
        BY <2>3 DEF HelpInv
    <2>4. QED
        BY <2>1, <2>2, <2>3
<1>5. UnknownInv'
    <2>1. CASE UnknownCommand
        <3>1. pending = {} /\ registry = Commands
            BY <1>1 DEF RegistryInv
        <3>2. cmd' = cmd /\ cmd # NoText /\ cmd \notin registry
            BY <2>1 DEF UnknownCommand, Exit
        <3>3. QED
            BY <3>1, <3>2 DEF UnknownInv, TypeOK
    <2>2. CASE ~UnknownCommand
        <3>1. did' # "unknown"
            <4>1. CASE ShowVersion \/ ShowHelp \/ ShowUsage \/ RunCommand \/ NoOperand \/ NotAFile
                BY <4>1 DEF ShowVersion, ShowHelp, ShowUsage, RunCommand, NoOperand, NotAFile, Exit
            <4>2. CASE TakeOperand \/ TakeName \/ SkipArg
                BY <1>n, <4>2 DEF TakeOperand, TakeName, SkipArg
            <4>3. CASE RunNamed
                BY <4>3 DEF RunNamed
            <4>4. QED
                BY <2>2, <4>1, <4>2, <4>3
        <3>2. QED
            BY <3>1 DEF UnknownInv
    <2>3. QED
        BY <2>1, <2>2
<1>6. QED
    BY <1>2, <1>3, <1>4, <1>5

LEMMA NextIInv == IInv /\ [Next]_vars => IInv'
<1>1. SUFFICES ASSUME IInv, [Next]_vars PROVE IInv'
    OBVIOUS
<1>2. TypeOK'
    BY <1>1, TypeStep DEF IInv
<1>3. CASE UNCHANGED vars
    BY <1>1, <1>2, <1>3
    DEF IInv, vars, RegistryInv, StageInv, CommandInv, HelpInv, UnknownInv
<1>4. ASSUME NEW c \in Commands, Register(c) PROVE IInv'
    <2>1. stage = "static" /\ c \in pending /\ UNCHANGED <<argv, i, cmd, flags, stage, did>>
          /\ pending' = pending \ {c} /\ registry' = registry \cup {c}
        BY <1>4 DEF Register
    <2>2. RegistryInv' /\ StageInv' /\ UnknownInv'
        BY <1>1, <2>1 DEF IInv, RegistryInv, StageInv, UnknownInv
    <2>3. CommandInv' /\ HelpInv'
        BY <1>1, <2>1 DEF IInv, CommandInv, HelpInv
    <2>4. QED
        BY <1>2, <2>2, <2>3 DEF IInv
<1>5. CASE Start
    <2>1. stage = "static" /\ stage' = "parse" /\ pending' = {} /\ i' = 1 /\ cmd' = NoText
          /\ did' = "nothing" /\ registry' = registry /\ pending = {}
        BY <1>1, <1>5 DEF IInv, Start, StageInv
    <2>2. Len(argv') \in Nat
        BY <1>2 DEF TypeOK
    <2>3. RegistryInv' /\ StageInv' /\ UnknownInv'
        BY <1>1, <2>1, <2>2 DEF IInv, RegistryInv, StageInv, UnknownInv
    <2>4. CommandInv' /\ HelpInv'
        <3>1. 1 .. (i' - 1) = {}
            BY <2>1
        <3>2. QED
            BY <2>1, <3>1 DEF CommandInv, HelpInv
    <2>5. QED
        BY <1>2, <2>3, <2>4 DEF IInv
<1>6. CASE TakeCommand \/ TakeFlag \/ TakeArg
    BY <1>1, <1>2, <1>6, TokenStep DEF IInv
<1>7. CASE \/ ShowVersion \/ ShowHelp \/ UnknownCommand \/ ShowUsage \/ RunCommand
           \/ NoOperand \/ TakeOperand \/ TakeName \/ SkipArg \/ NotAFile \/ RunNamed
    BY <1>1, <1>2, <1>7, EndStep DEF IInv
<1>8. QED
    BY <1>1, <1>3, <1>4, <1>5, <1>6, <1>7 DEF Next

LEMMA Inductive == Spec => []IInv
<1>1. ASSUME Init PROVE IInv
    <2>1. TypeOK
        BY <1>1 DEF Init, TypeOK
    <2>2. RegistryInv /\ StageInv /\ UnknownInv
        BY <1>1 DEF Init, RegistryInv, StageInv, UnknownInv
    <2>3. argv = <<>> /\ cmd = NoText /\ did = "nothing" /\ stage = "static" /\ Len(argv) = 0
        BY <1>1 DEF Init
    <2>4. CommandInv /\ HelpInv
        BY <2>3 DEF CommandInv, HelpInv
    <2>5. QED
        BY <2>1, <2>2, <2>4 DEF IInv
<1>2. QED
    BY <1>1, NextIInv, PTL DEF Spec

-----------------------------------------------------------------------------
(* The theorems *)

\* Every variable of main() keeps its type, on every command line.
THEOREM TypeCorrect == Spec => []TypeOK
<1>1. IInv => TypeOK
    BY DEF IInv
<1>2. QED
    BY <1>1, Inductive, PTL

\* However the registrars are ordered and however long the line is, main()
\* finds a command that exists (command.hpp, main.cpp).
THEOREM FoundIfThere == Spec => []CommandsKnown
<1>1. IInv => CommandsKnown
    <2>1. SUFFICES ASSUME IInv, did = "unknown",
                          NEW k \in 1 .. Len(argv), argv[k] \in Commands
                   PROVE  \E l \in 1 .. (k - 1) : argv[l] \in Words \ Commands
        BY DEF CommandsKnown
    <2>2. cmd \in Words \ Commands /\ cmd # NoText /\ stage # "parse"
        BY <2>1, SortsDiffer DEF IInv, UnknownInv, StageInv
    <2>3. PICK l \in 1 .. Len(argv) :
              argv[l] = cmd /\ \A n \in 1 .. (l - 1) : argv[n] \notin Words
        BY <2>1, <2>2 DEF IInv, CommandInv
    <2>4. l # k /\ argv[k] \in Words
        BY <2>1, <2>2, <2>3, SortsDiffer
    <2>5. l \in 1 .. (k - 1)
        BY <2>3, <2>4 DEF IInv, TypeOK
    <2>6. QED
        BY <2>2, <2>3, <2>5
<1>2. QED
    BY <1>1, Inductive, PTL

\* A request for help, wherever on the line, is never taken for an argument:
\* no command runs (main.cpp).
THEOREM HelpIsSafe == Spec => []HelpRunsNothing
<1>1. IInv => HelpRunsNothing
    BY DEF IInv, HelpInv, HelpRunsNothing, Help
<1>2. QED
    BY <1>1, Inductive, PTL

-----------------------------------------------------------------------------
(* How the line is split *)

\* The first word is the command.
LEMMA CommandAtIs ==
    ASSUME NEW n \in Nat, NEW l \in 1 .. n, argv[l] \in Words,
           \A k \in 1 .. (l - 1) : argv[k] \notin Words
    PROVE  CommandAt(n) = l
<1> DEFINE Found == {k \in 1 .. n : argv[k] \in Words}
<1>1. l \in Found /\ \A k \in Found : l <= k
    <2>1. ASSUME NEW k \in Found, ~(l <= k) PROVE FALSE
        <3>1. k \in 1 .. (l - 1) /\ argv[k] \in Words
            BY <2>1
        <3>2. QED
            BY <3>1
    <2>2. QED
        BY <2>1
<1>2. (CHOOSE k \in Found : \A m \in Found : k <= m) = l
    <2>1. \A k \in Found : (\A m \in Found : k <= m) => k = l
        BY <1>1
    <2>2. QED
        BY <1>1, <2>1
<1>3. Found # {}
    BY <1>1
<1>4. QED
    BY <1>2, <1>3 DEF CommandAt

LEMMA CommandAtNone ==
    ASSUME NEW n \in Nat, \A k \in 1 .. n : argv[k] \notin Words
    PROVE  CommandAt(n) = 0
BY DEF CommandAt

\* The tokens of c are those of the first n tokens of a that are neither in D
\* nor at position at, in the order of a.
KeptAs(a, D, at, n, c) ==
    \E from \in [1 .. Len(c) -> 1 .. n] :
        /\ {from[m] : m \in 1 .. Len(c)} = {k \in 1 .. n : k # at /\ a[k] \notin D}
        /\ \A k, m \in 1 .. Len(c) : k < m => from[k] < from[m]
        /\ \A m \in 1 .. Len(c) : c[m] = a[from[m]]

LEMMA KeptSkips ==
    ASSUME NEW a, NEW D, NEW n \in Nat, NEW c \in Seq(Tokens), NEW at \in 0 .. n,
           KeptAs(a, D, at, n, c),
           NEW now \in 0 .. (n + 1), now = at \/ (at = 0 /\ now = n + 1),
           now = n + 1 \/ a[n + 1] \in D
    PROVE  KeptAs(a, D, now, n + 1, c)
<1>1. PICK from \in [1 .. Len(c) -> 1 .. n] :
        /\ {from[m] : m \in 1 .. Len(c)} = {k \in 1 .. n : k # at /\ a[k] \notin D}
        /\ \A k, m \in 1 .. Len(c) : k < m => from[k] < from[m]
        /\ \A m \in 1 .. Len(c) : c[m] = a[from[m]]
    BY DEF KeptAs
<1>2. from \in [1 .. Len(c) -> 1 .. (n + 1)]
    OBVIOUS
<1>3. {k \in 1 .. n : k # at /\ a[k] \notin D} = {k \in 1 .. (n + 1) : k # now /\ a[k] \notin D}
    <2>1. \A k \in 1 .. (n + 1) : k \in 1 .. n \/ k = n + 1
        OBVIOUS
    <2>2. \A k \in 1 .. n : k \in 1 .. (n + 1) /\ k # n + 1 /\ k # 0
        OBVIOUS
    <2>3. QED
        BY <2>1, <2>2
<1>4. QED
    BY <1>1, <1>2, <1>3 DEF KeptAs

LEMMA KeptGrows ==
    ASSUME NEW a, NEW D, NEW n \in Nat, NEW c \in Seq(Tokens), NEW at \in 0 .. n,
           KeptAs(a, D, at, n, c), a[n + 1] \notin D, a[n + 1] \in Tokens
    PROVE  KeptAs(a, D, at, n + 1, Append(c, a[n + 1]))
<1> DEFINE more == Append(c, a[n + 1])
<1>1. PICK from \in [1 .. Len(c) -> 1 .. n] :
        /\ {from[m] : m \in 1 .. Len(c)} = {k \in 1 .. n : k # at /\ a[k] \notin D}
        /\ \A k, m \in 1 .. Len(c) : k < m => from[k] < from[m]
        /\ \A m \in 1 .. Len(c) : c[m] = a[from[m]]
    BY DEF KeptAs
<1>2. /\ Len(c) \in Nat /\ Len(more) = Len(c) + 1 /\ more[Len(c) + 1] = a[n + 1]
      /\ \A m \in 1 .. Len(c) : more[m] = c[m]
    OBVIOUS
<1> HIDE DEF more
<1> DEFINE now == [m \in 1 .. Len(more) |-> IF m = Len(more) THEN n + 1 ELSE from[m]]
<1>3. /\ now \in [1 .. Len(more) -> 1 .. (n + 1)]
      /\ now[Len(more)] = n + 1
      /\ \A m \in 1 .. Len(c) : now[m] = from[m] /\ from[m] \in 1 .. n
    <2>1. \A m \in 1 .. Len(c) : from[m] \in 1 .. n
        BY <1>1
    <2>2. \A m \in 1 .. Len(more) : m = Len(more) \/ m \in 1 .. Len(c)
        BY <1>2
    <2>3. n + 1 \in 1 .. (n + 1) /\ \A k \in 1 .. n : k \in 1 .. (n + 1)
        OBVIOUS
    <2>4. now \in [1 .. Len(more) -> 1 .. (n + 1)]
        BY <2>1, <2>2, <2>3
    <2>5. now[Len(more)] = n + 1
        BY <1>2
    <2>6. \A m \in 1 .. Len(c) : m \in 1 .. Len(more) /\ m # Len(more)
        BY <1>2
    <2>7. QED
        BY <2>1, <2>4, <2>5, <2>6
<1> HIDE DEF now
<1>4. {now[m] : m \in 1 .. Len(more)} = {k \in 1 .. (n + 1) : k # at /\ a[k] \notin D}
    <2>1. {now[m] : m \in 1 .. Len(more)} = {from[m] : m \in 1 .. Len(c)} \cup {n + 1}
        <3>1. 1 .. Len(more) = (1 .. Len(c)) \cup {Len(more)}
            BY <1>2
        <3>2. \A m \in 1 .. Len(c) : now[m] = from[m]
            BY <1>3
        <3>3. {now[m] : m \in 1 .. Len(more)}
                = {now[m] : m \in 1 .. Len(c)} \cup {now[Len(more)]}
            BY <3>1
        <3>4. {now[m] : m \in 1 .. Len(c)} = {from[m] : m \in 1 .. Len(c)}
            BY <3>2
        <3>5. QED
            BY <1>3, <3>3, <3>4
    <2>2. {k \in 1 .. (n + 1) : k # at /\ a[k] \notin D}
            = {k \in 1 .. n : k # at /\ a[k] \notin D} \cup {n + 1}
        <3>1. 1 .. (n + 1) = (1 .. n) \cup {n + 1} /\ n + 1 # at
            OBVIOUS
        <3>2. QED
            BY <3>1
    <2>3. QED
        BY <1>1, <2>1, <2>2
<1>5. \A k, m \in 1 .. Len(more) : k < m => now[k] < now[m]
    <2>1. SUFFICES ASSUME NEW k \in 1 .. Len(more), NEW m \in 1 .. Len(more), k < m
                   PROVE  now[k] < now[m]
        OBVIOUS
    <2>2. k \in 1 .. Len(c)
        BY <1>2, <2>1
    <2>3. CASE m = Len(more)
        BY <1>3, <2>2, <2>3
    <2>4. CASE m # Len(more)
        <3>1. m \in 1 .. Len(c)
            BY <1>2, <2>4
        <3>2. QED
            BY <1>1, <1>3, <2>1, <2>2, <3>1
    <2>5. QED
        BY <2>3, <2>4
<1>6. \A m \in 1 .. Len(more) : more[m] = a[now[m]]
    <2>1. ASSUME NEW m \in 1 .. Len(more) PROVE more[m] = a[now[m]]
        <3>1. CASE m = Len(more)
            BY <1>2, <1>3, <3>1
        <3>2. CASE m # Len(more)
            <4>1. m \in 1 .. Len(c)
                BY <1>2, <3>2
            <4>2. QED
                BY <1>1, <1>2, <1>3, <4>1
        <3>3. QED
            BY <3>1, <3>2
    <2>2. QED
        BY <2>1
<1>7. KeptAs(a, D, at, n + 1, more)
    BY <1>3, <1>4, <1>5, <1>6 DEF KeptAs
<1>8. QED
    BY <1>7 DEF more

\* The flags noted grow with the tokens read.
LEMMA FlagsGrow ==
    ASSUME NEW F, NEW D, NEW a, NEW n \in Nat
    PROVE  /\ a[n + 1] \in D =>
                {F[a[k]] : k \in {l \in 1 .. (n + 1) : a[l] \in D}}
                  = {F[a[k]] : k \in {l \in 1 .. n : a[l] \in D}} \cup {F[a[n + 1]]}
           /\ a[n + 1] \notin D =>
                {F[a[k]] : k \in {l \in 1 .. (n + 1) : a[l] \in D}}
                  = {F[a[k]] : k \in {l \in 1 .. n : a[l] \in D}}
<1>1. 1 .. (n + 1) = (1 .. n) \cup {n + 1}
    OBVIOUS
<1>2. a[n + 1] \in D => {l \in 1 .. (n + 1) : a[l] \in D} = {l \in 1 .. n : a[l] \in D} \cup {n + 1}
    BY <1>1
<1>3. a[n + 1] \notin D => {l \in 1 .. (n + 1) : a[l] \in D} = {l \in 1 .. n : a[l] \in D}
    BY <1>1
<1>4. QED
    BY <1>2, <1>3

LEMMA SplitIs ==
    ASSUME NEW n \in Nat
    PROVE  Split(n) <=> /\ cmd = IF CommandAt(n) = 0 THEN NoText ELSE argv[CommandAt(n)]
                        /\ flags = {Flag[argv[k]] : k \in {l \in 1 .. n : argv[l] \in DOMAIN Flag}}
                        /\ KeptAs(argv, DOMAIN Flag, CommandAt(n), n, args)
BY Zenon DEF Split, KeptAs

\* Where the command is, as far as the line was read.
LEMMA CommandIsAt ==
    ASSUME IInv, stage = "parse"
    PROVE  /\ i - 1 \in Nat /\ CommandAt(i - 1) \in 0 .. (i - 1)
           /\ cmd = NoText <=> CommandAt(i - 1) = 0
           /\ cmd # NoText => argv[CommandAt(i - 1)] = cmd
<1>1. i - 1 \in Nat
    BY DEF IInv, TypeOK
<1>2. CASE cmd = NoText
    <2>1. \A k \in 1 .. (i - 1) : argv[k] \notin Words
        BY <1>2 DEF IInv, CommandInv
    <2>2. QED
        BY <1>1, <1>2, <2>1, CommandAtNone
<1>3. CASE cmd # NoText
    <2>1. PICK l \in 1 .. (i - 1) : argv[l] = cmd /\ \A k \in 1 .. (l - 1) : argv[k] \notin Words
        BY <1>3 DEF IInv, CommandInv
    <2>2. cmd \in Words
        BY <1>3 DEF IInv, TypeOK
    <2>3. CommandAt(i - 1) = l
        BY <1>1, <2>1, <2>2, CommandAtIs
    <2>4. QED
        BY <1>1, <1>3, <2>1, <2>3
<1>4. QED
    BY <1>2, <1>3

\* One more token read keeps the split.
LEMMA SplitToken ==
    ASSUME IInv, SplitAsTyped, TakeCommand \/ TakeFlag \/ TakeArg
    PROVE  SplitAsTyped'
<1>n. PICK n \in Nat : n = i - 1
    BY DEF IInv, TypeOK
<1> DEFINE D == DOMAIN Flag
<1>1. i \in 1 .. Len(argv) /\ argv[i] \in Tokens /\ stage = "parse"
    BY ReadsToken DEF IInv, TakeCommand, TakeFlag, TakeArg, Parsing
<1>2. i' - 1 = n + 1 /\ i = n + 1 /\ UNCHANGED <<argv, stage>>
    BY <1>n, <1>1 DEF TakeCommand, TakeFlag, TakeArg
<1>3. Split(n)
    BY <1>n, <1>1 DEF SplitAsTyped
<1>4. KeptAs(argv, D, CommandAt(n), n, args)
    BY <1>3, SplitIs
<1>f. flags = {Flag[argv[k]] : k \in {l \in 1 .. n : argv[l] \in D}}
    BY <1>3, SplitIs
<1>5. /\ CommandAt(n) \in 0 .. n /\ (cmd = NoText <=> CommandAt(n) = 0)
      /\ cmd # NoText => argv[CommandAt(n)] = cmd
    BY <1>n, <1>1, CommandIsAt
<1>6. CommandAt(n + 1)' = CommandAt(n + 1)
    BY <1>2 DEF CommandAt
<1>7. /\ cmd # NoText \/ argv[i] \notin Words => CommandAt(n + 1) = CommandAt(n)
      /\ cmd = NoText /\ argv[i] \in Words => CommandAt(n + 1) = n + 1
    <2>1. CASE cmd = NoText
        <3>1. \A k \in 1 .. n : argv[k] \notin Words
            BY <1>n, <1>1, <2>1 DEF IInv, CommandInv
        <3>2. CASE argv[i] \in Words
            BY <1>2, <2>1, <3>1, <3>2, CommandAtIs
        <3>3. CASE argv[i] \notin Words
            <4>1. \A k \in 1 .. (n + 1) : argv[k] \notin Words
                BY <1>2, <3>1, <3>3
            <4>2. QED
                BY <1>2, <1>5, <2>1, <3>3, <4>1, CommandAtNone
        <3>4. QED
            BY <3>2, <3>3
    <2>2. CASE cmd # NoText
        <3>1. PICK l \in 1 .. n : argv[l] = cmd /\ \A k \in 1 .. (l - 1) : argv[k] \notin Words
            BY <1>n, <1>1, <2>2 DEF IInv, CommandInv
        <3>2. argv[l] \in Words
            BY <2>2, <3>1 DEF IInv, TypeOK
        <3>3. CommandAt(n) = l /\ CommandAt(n + 1) = l
            BY <1>2, <3>1, <3>2, CommandAtIs
        <3>4. QED
            BY <2>2, <3>3
    <2>3. QED
        BY <2>1, <2>2
<1>8. args \in Seq(Tokens)
    <2>1. args \in Seq(Words \cup Others)
        BY DEF IInv, TypeOK
    <2>2. Words \cup Others \subseteq Tokens
        BY DEF Tokens
    <2>3. QED
        BY <2>1, <2>2
<1>9. argv[n + 1] = argv[i]
    BY <1>2
<1>10. SUFFICES Split(n + 1)'
    BY <1>1, <1>2 DEF SplitAsTyped
<1>11. ASSUME /\ cmd' = IF CommandAt(n + 1) = 0 THEN NoText ELSE argv[CommandAt(n + 1)]
              /\ flags' = {Flag[argv[k]] : k \in {l \in 1 .. (n + 1) : argv[l] \in D}}
              /\ KeptAs(argv, D, CommandAt(n + 1), n + 1, args')
       PROVE  Split(n + 1)'
    <2>1. cmd' = IF CommandAt(n + 1)' = 0 THEN NoText ELSE argv'[CommandAt(n + 1)']
        BY <1>2, <1>6, <1>11
    <2>2. flags' = {Flag[argv'[k]] : k \in {l \in 1 .. (n + 1) : argv'[l] \in D}}
        BY <1>2, <1>11
    <2>3. KeptAs(argv', D, CommandAt(n + 1)', n + 1, args')
        BY <1>2, <1>6, <1>11
    <2>4. QED
        BY <2>1, <2>2, <2>3, Zenon DEF Split, KeptAs
<1>12. CASE TakeCommand
    <2>1. /\ argv[i] \in Words /\ cmd' = argv[i] /\ cmd = NoText
          /\ flags' = flags /\ args' = args
        BY <1>12 DEF TakeCommand
    <2>2. argv[i] \notin D
        BY <2>1, SortsDiffer
    <2>3. KeptAs(argv, D, n + 1, n + 1, args)
        <3>1. CommandAt(n) = 0
            BY <1>5, <2>1
        <3>2. KeptAs(argv, D, 0, n, args)
            BY <1>4, <3>1
        <3>3. n + 1 \in 0 .. (n + 1) /\ 0 \in 0 .. n
            OBVIOUS
        <3>4. QED
            BY <1>8, <3>2, <3>3, KeptSkips
    <2>4. {Flag[argv[k]] : k \in {l \in 1 .. (n + 1) : argv[l] \in D}} = flags
        BY <1>2, <1>f, <1>9, <2>2, FlagsGrow
    <2>5. QED
        BY <1>2, <1>7, <1>9, <1>11, <2>1, <2>3, <2>4
<1>13. CASE TakeFlag
    <2>1. /\ argv[i] \in D /\ flags' = flags \cup {Flag[argv[i]]}
          /\ cmd' = cmd /\ args' = args
        BY <1>13 DEF TakeFlag
    <2>2. argv[i] \notin Words
        BY <2>1, SortsDiffer
    <2>3. CommandAt(n + 1) = CommandAt(n)
        BY <1>7, <2>2
    <2>4. KeptAs(argv, D, CommandAt(n), n + 1, args)
        BY <1>2, <1>4, <1>5, <1>8, <1>9, <2>1, KeptSkips
    <2>5. {Flag[argv[k]] : k \in {l \in 1 .. (n + 1) : argv[l] \in D}} = flags'
        BY <1>2, <1>f, <1>9, <2>1, FlagsGrow
    <2>6. QED
        BY <1>5, <1>11, <2>1, <2>3, <2>4, <2>5
<1>14. CASE TakeArg
    <2>1. /\ argv[i] \in Others \/ (argv[i] \in Words /\ cmd # NoText)
          /\ args' = Append(args, argv[i]) /\ cmd' = cmd /\ flags' = flags
        BY <1>14 DEF TakeArg
    <2>2. argv[i] \notin D /\ (cmd # NoText \/ argv[i] \notin Words)
        BY <2>1, SortsDiffer
    <2>3. CommandAt(n + 1) = CommandAt(n)
        BY <1>7, <2>2
    <2>4. KeptAs(argv, D, CommandAt(n), n + 1, args')
        BY <1>1, <1>2, <1>4, <1>5, <1>8, <1>9, <2>1, <2>2, KeptGrows
    <2>5. {Flag[argv[k]] : k \in {l \in 1 .. (n + 1) : argv[l] \in D}} = flags
        BY <1>2, <1>f, <1>9, <2>2, FlagsGrow
    <2>6. QED
        BY <1>5, <1>11, <2>1, <2>3, <2>4, <2>5
<1>15. QED
    BY <1>12, <1>13, <1>14

\* Nothing else touches the line or what was made of it.
LEMMA SplitStep ==
    ASSUME IInv, SplitAsTyped, [Next]_vars
    PROVE  SplitAsTyped'
<1>1. ASSUME UNCHANGED <<argv, cmd, flags, args>>, NEW n \in Nat,
             SplitAsTyped => Split(n), SplitAsTyped' <=> Split(n)'
      PROVE  SplitAsTyped'
    <2>1. CommandAt(n)' = CommandAt(n)
        BY <1>1 DEF CommandAt
    <2>2. Split(n)
        BY <1>1
    <2>3. /\ cmd' = IF CommandAt(n)' = 0 THEN NoText ELSE argv'[CommandAt(n)']
          /\ KeptAs(argv', DOMAIN Flag, CommandAt(n)', n, args')
        BY <1>1, <2>1, <2>2, SplitIs
    <2>4. flags' = {Flag[argv'[k]] : k \in {l \in 1 .. n : argv'[l] \in DOMAIN Flag}}
        BY <1>1, <2>2, SplitIs
    <2>5. Split(n)'
        BY <2>3, <2>4, Zenon DEF Split, KeptAs
    <2>6. QED
        BY <1>1, <2>5
<1>2. CASE UNCHANGED <<argv, cmd, flags, args, i, stage>>
    <2>1. PICK n : n = IF stage = "parse" THEN i - 1 ELSE Len(argv)
        OBVIOUS
    <2>2. n \in Nat
        BY <2>1 DEF IInv, TypeOK
    <2>3. n = IF stage' = "parse" THEN i' - 1 ELSE Len(argv')
        BY <1>2, <2>1
    <2>4. SplitAsTyped => Split(n)
        BY <2>1 DEF SplitAsTyped
    <2>5. SplitAsTyped' <=> Split(n)'
        BY <2>3 DEF SplitAsTyped
    <2>6. QED
        BY <1>1, <1>2, <2>2, <2>4, <2>5
<1>3. ASSUME NEW c \in Commands, Register(c) PROVE SplitAsTyped'
    BY <1>2, <1>3 DEF Register
<1>4. CASE Start
    <2>1. /\ argv = <<>> /\ stage = "static" /\ stage' = "parse" /\ i' = 1 /\ cmd = NoText
          /\ UNCHANGED <<cmd, flags, args>>
        BY <1>4 DEF Start, IInv, StageInv
    <2>2. Split(0)
        BY <2>1 DEF SplitAsTyped
    <2>3. /\ flags = {Flag[argv[k]] : k \in {l \in 1 .. 0 : argv[l] \in DOMAIN Flag}}
          /\ KeptAs(argv, DOMAIN Flag, CommandAt(0), 0, args)
        BY <2>2, SplitIs
    <2>4. {l \in 1 .. 0 : argv[l] \in DOMAIN Flag} = {}
          /\ {l \in 1 .. 0 : argv'[l] \in DOMAIN Flag} = {}
        OBVIOUS
    <2>5. flags' = {Flag[argv'[k]] : k \in {l \in 1 .. 0 : argv'[l] \in DOMAIN Flag}}
        BY <2>1, <2>3, <2>4
    <2>6. Len(args) = 0
        <3>1. PICK from \in [1 .. Len(args) -> 1 .. 0] : TRUE
            BY <2>3 DEF KeptAs
        <3>2. Len(args) \in Nat
            BY DEF IInv, TypeOK
        <3>3. QED
            BY <3>1, <3>2
    <2>7. KeptAs(argv', DOMAIN Flag, CommandAt(0)', 0, args')
        <3>1. PICK from \in [1 .. Len(args) -> 1 .. 0] : TRUE
            BY <2>3 DEF KeptAs
        <3>2. 1 .. Len(args') = {} /\ 1 .. 0 = {} /\ args' = args
            BY <2>1, <2>6
        <3>3. from \in [1 .. Len(args') -> 1 .. 0]
            BY <3>2
        <3>4. {k \in 1 .. 0 : k # CommandAt(0)' /\ argv'[k] \notin DOMAIN Flag} = {}
            BY <3>2
        <3>5. {from[m] : m \in 1 .. Len(args')} = {}
            BY <3>2
        <3>6. QED
            BY <3>2, <3>3, <3>4, <3>5 DEF KeptAs
    <2>8. CommandAt(0)' = 0
        BY DEF CommandAt
    <2>9. Split(0)'
        BY <2>1, <2>5, <2>7, <2>8, Zenon DEF Split, KeptAs
    <2>10. QED
        BY <2>1, <2>9 DEF SplitAsTyped
<1>5. CASE TakeCommand \/ TakeFlag \/ TakeArg
    BY <1>5, SplitToken
<1>6. CASE \/ ShowVersion \/ ShowHelp \/ UnknownCommand \/ ShowUsage \/ RunCommand
           \/ NoOperand \/ TakeOperand \/ TakeName \/ SkipArg \/ NotAFile \/ RunNamed
    <2>1. /\ UNCHANGED <<argv, cmd, flags, args>>
          /\ stage' # "parse" /\ (stage = "parse" => i > Len(argv))
        <3>1. CASE \/ ShowVersion \/ ShowHelp \/ UnknownCommand \/ ShowUsage \/ RunCommand
                   \/ NoOperand
            BY <3>1 DEF ShowVersion, ShowHelp, UnknownCommand, ShowUsage, RunCommand, NoOperand,
                        Exit, Parsed
        <3>2. CASE TakeOperand
            BY <3>2 DEF TakeOperand, Parsed
        <3>3. CASE TakeName \/ SkipArg \/ NotAFile \/ RunNamed
            BY <3>3 DEF TakeName, SkipArg, NotAFile, RunNamed, Exit
        <3>4. QED
            BY <1>6, <3>1, <3>2, <3>3
    <2>2. PICK n \in Nat : n = Len(argv)
        BY DEF IInv, TypeOK
    <2>3. stage = "parse" => i - 1 = n
        BY <2>1, <2>2 DEF IInv, TypeOK, StageInv
    <2>4. SplitAsTyped => Split(n)
        BY <2>2, <2>3 DEF SplitAsTyped
    <2>5. SplitAsTyped' <=> Split(n)'
        BY <2>1, <2>2 DEF SplitAsTyped
    <2>6. QED
        BY <1>1, <2>1, <2>4, <2>5
<1>7. CASE UNCHANGED vars
    BY <1>2, <1>7 DEF vars
<1>8. QED
    BY <1>3, <1>4, <1>5, <1>6, <1>7 DEF Next

\* Global flags are stripped from the line wherever they stand, the first word
\* is the command, and the command gets every other token, once and in order,
\* however long the line is (the loop over raw_args in main.cpp).
THEOREM SplitExact == Spec => []SplitAsTyped
<1>1. ASSUME Init PROVE SplitAsTyped
    <2>1. argv = <<>> /\ stage = "static" /\ cmd = NoText /\ flags = {} /\ args = <<>>
        BY <1>1 DEF Init
    <2>2. Len(argv) = 0 /\ 1 .. Len(args) = {} /\ 1 .. 0 = {}
        BY <2>1
    <2>3. CommandAt(0) = 0
        BY DEF CommandAt
    <2>4. {l \in 1 .. 0 : argv[l] \in DOMAIN Flag} = {}
        BY <2>2
    <2>5. flags = {Flag[argv[k]] : k \in {l \in 1 .. 0 : argv[l] \in DOMAIN Flag}}
        BY <2>1, <2>4
    <2>6. KeptAs(argv, DOMAIN Flag, 0, 0, args)
        <3>1. PICK from : from = [m \in 1 .. Len(args) |-> 0]
            OBVIOUS
        <3>2. from \in [1 .. Len(args) -> 1 .. 0]
            BY <2>2, <3>1
        <3>3. /\ {k \in 1 .. 0 : k # 0 /\ argv[k] \notin DOMAIN Flag} = {}
              /\ {from[m] : m \in 1 .. Len(args)} = {}
            BY <2>2
        <3>4. QED
            BY <2>2, <3>2, <3>3 DEF KeptAs
    <2>7. Split(0)
        BY <2>1, <2>3, <2>5, <2>6, SplitIs
    <2>8. QED
        BY <2>1, <2>2, <2>7 DEF SplitAsTyped
<1>2. QED
    BY <1>1, Inductive, SplitStep, PTL DEF Spec

-----------------------------------------------------------------------------
(* The name a command is given *)

\* The last of the tokens 2 to n of a that is in D, if any, gives the name v.
LEMMA LastIs ==
    ASSUME NEW D, NEW n \in Nat, NEW a, NEW l \in 2 .. n, a[l] \in D,
           \A k \in (l + 1) .. n : a[k] \notin D
    PROVE  /\ {k \in 2 .. n : a[k] \in D} # {}
           /\ (CHOOSE k \in {j \in 2 .. n : a[j] \in D} :
                  \A m \in {j \in 2 .. n : a[j] \in D} : m <= k) = l
<1> DEFINE Given == {k \in 2 .. n : a[k] \in D}
<1>1. l \in Given /\ \A k \in Given : k <= l
    <2>1. ASSUME NEW k \in Given, ~(k <= l) PROVE FALSE
        <3>1. k \in (l + 1) .. n /\ a[k] \in D
            BY <2>1
        <3>2. QED
            BY <3>1
    <2>2. QED
        BY <2>1
<1>2. \A k \in Given : (\A m \in Given : m <= k) => k = l
    BY <1>1
<1>3. (CHOOSE k \in Given : \A m \in Given : m <= k) = l
    BY <1>1, <1>2
<1>4. QED
    BY <1>1, <1>3

\* v is the name that the arguments from the second to the n-th give.
GivenBy(n, v) ==
    \/ (\A k \in 2 .. n : args[k] \notin DOMAIN NameIn) /\ v = DefaultName[cmd]
    \/ \E l \in 2 .. n : /\ args[l] \in DOMAIN NameIn
                         /\ \A k \in (l + 1) .. n : args[k] \notin DOMAIN NameIn
                         /\ v = NameIn[args[l]]

\* While install or overlayfs go through their arguments, and when they run.
NameInv ==
    /\ stage = "name" => /\ args # <<>> /\ cmd \in Named
                         /\ i \in 2 .. (Len(args) + 1) /\ GivenBy(i - 1, name)
    /\ did = "run" /\ cmd \in Named =>
          \E v : /\ GivenBy(Len(args), v)
                 /\ name = IF cmd = "install" /\ v = NoText THEN FromFile ELSE v

LEMMA NameStep ==
    ASSUME IInv, NameInv, [Next]_vars
    PROVE  NameInv'
<1>1. CASE UNCHANGED vars
    BY <1>1 DEF vars, NameInv, GivenBy
<1>2. CASE stage' \notin {"name", "exit"}
    <2>1. did' # "run"
        BY <1>2, NextIInv DEF IInv, StageInv, TypeOK
    <2>2. QED
        BY <1>2, <2>1 DEF NameInv
<1>3. CASE ShowVersion \/ ShowHelp \/ UnknownCommand \/ ShowUsage \/ NoOperand \/ NotAFile
    BY <1>3 DEF ShowVersion, ShowHelp, UnknownCommand, ShowUsage, NoOperand, NotAFile, Exit, NameInv
<1>4. CASE RunCommand
    BY <1>4 DEF RunCommand, Exit, NameInv
<1>5. CASE TakeOperand
    <2>1. /\ args # <<>> /\ cmd \in Named /\ stage' = "name" /\ i' = 2
          /\ name' = DefaultName[cmd] /\ UNCHANGED <<args, cmd, did>> /\ stage = "parse"
        BY <1>5, Zenon DEF TakeOperand, Parsed
    <2>2. did' = "nothing"
        BY <2>1 DEF IInv, StageInv
    <2>3. 2 .. (i' - 1) = {}
        BY <2>1
    <2>4. GivenBy(i - 1, name)'
        BY <2>1, <2>3, Zenon DEF GivenBy
    <2>5. Len(args) >= 1
        BY <2>1 DEF IInv, TypeOK
    <2>6. QED
        BY <2>1, <2>2, <2>4, <2>5 DEF NameInv
<1>6. CASE TakeName \/ SkipArg
    <2>1. /\ stage = "name" /\ stage' = "name" /\ i \in 2 .. Len(args) /\ i' = i + 1
          /\ UNCHANGED <<args, cmd, did>> /\ args # <<>> /\ cmd \in Named
        <3>1. stage = "name" /\ stage' = "name" /\ i <= Len(args) /\ i' = i + 1
              /\ UNCHANGED <<args, cmd, did>>
            BY <1>6, Zenon DEF TakeName, SkipArg
        <3>2. QED
            BY <3>1 DEF NameInv, IInv, TypeOK
    <2>2. did' = "nothing"
        BY <2>1 DEF IInv, StageInv
    <2>3. GivenBy(i - 1, name)
        BY <2>1 DEF NameInv
    <2>4. PICK n \in Nat : n = i /\ n >= 2 /\ i' - 1 = n
        BY <2>1
    <2>5. 2 .. n = (2 .. (n - 1)) \cup {n} /\ (n + 1) .. n = {}
        BY <2>4
    <2>6. CASE TakeName
        <3>1. args[n] \in DOMAIN NameIn /\ name' = NameIn[args[n]]
            BY <2>4, <2>6, Zenon DEF TakeName
        <3>2. n \in 2 .. n
            BY <2>4
        <3>3. GivenBy(n, name)'
            BY <2>1, <2>5, <3>1, <3>2, Zenon DEF GivenBy
        <3>4. QED
            BY <2>1, <2>2, <2>4, <3>3 DEF NameInv
    <2>7. CASE SkipArg
        <3>1. args[n] \notin DOMAIN NameIn /\ name' = name
            BY <2>4, <2>7, Zenon DEF SkipArg
        <3>2. \A l \in 2 .. (n - 1) : (l + 1) .. n = ((l + 1) .. (n - 1)) \cup {n}
            BY <2>4
        <3>3. GivenBy(n - 1, name) => GivenBy(n, name)
            BY <2>5, <3>1, <3>2, Zenon DEF GivenBy
        <3>4. GivenBy(n, name) => GivenBy(n, name)'
            BY <2>1, <3>1, Zenon DEF GivenBy
        <3>5. QED
            BY <2>1, <2>2, <2>3, <2>4, <3>3, <3>4 DEF NameInv
    <2>8. QED
        BY <1>6, <2>6, <2>7
<1>7. CASE RunNamed
    <2>1. /\ stage = "name" /\ i > Len(args) /\ stage' = "exit"
          /\ UNCHANGED <<args, cmd>>
          /\ name' = IF cmd = "install" /\ name = NoText THEN FromFile ELSE name
        BY <1>7, Zenon DEF RunNamed
    <2>2. GivenBy(Len(args), name)
        <3>1. i - 1 = Len(args)
            BY <2>1 DEF NameInv, IInv, TypeOK
        <3>2. QED
            BY <2>1, <3>1 DEF NameInv
    <2>3. PICK v : v = name
        OBVIOUS
    <2>4. GivenBy(Len(args), v)'
        BY <2>1, <2>2, <2>3, Zenon DEF GivenBy
    <2>5. QED
        BY <2>1, <2>3, <2>4 DEF NameInv
<1>8. CASE (\E c \in Commands : Register(c)) \/ Start \/ TakeCommand \/ TakeFlag \/ TakeArg
    <2>1. stage' \notin {"name", "exit"}
        BY <1>8 DEF Register, Start, TakeCommand, TakeFlag, TakeArg, Parsing
    <2>2. QED
        BY <1>2, <2>1
<1>9. QED
    BY <1>1, <1>3, <1>4, <1>5, <1>6, <1>7, <1>8 DEF Next

\* The name install and overlayfs run with is that of the last --name= after
\* the APK path, however many there are; none, or for install an empty one,
\* means the default (cmd_install.cpp, cmd_overlayfs.cpp, the argument loops).
THEOREM LastNameDecides == Spec => []LastNameWins
<1>1. Init => NameInv
    BY DEF Init, NameInv
<1>2. IInv /\ NameInv => LastNameWins
    <2>1. ASSUME IInv, NameInv, did = "run", cmd \in Named
          PROVE  LastNameWins
        <3> DEFINE Given == {k \in 2 .. Len(args) : args[k] \in DOMAIN NameIn}
                   last  == CHOOSE k \in Given : \A l \in Given : l <= k
                   given == IF Given = {} THEN DefaultName[cmd] ELSE NameIn[args[last]]
        <3>1. PICK v : /\ GivenBy(Len(args), v)
                       /\ name = IF cmd = "install" /\ v = NoText THEN FromFile ELSE v
            BY <2>1 DEF NameInv
        <3>2. Len(args) \in Nat
            BY <2>1 DEF IInv, TypeOK
        <3>3. given = v
            <4>1. CASE /\ \A k \in 2 .. Len(args) : args[k] \notin DOMAIN NameIn
                       /\ v = DefaultName[cmd]
                <5>1. Given = {}
                    BY <4>1
                <5>2. QED
                    BY <4>1, <5>1
            <4>2. ASSUME NEW l \in 2 .. Len(args), args[l] \in DOMAIN NameIn,
                         \A k \in (l + 1) .. Len(args) : args[k] \notin DOMAIN NameIn,
                         v = NameIn[args[l]]
                  PROVE  given = v
                <5>1. Given # {} /\ last = l
                    BY <3>2, <4>2, LastIs
                <5>2. QED
                    BY <4>2, <5>1
            <4>3. QED
                BY <3>1, <4>1, <4>2, Zenon DEF GivenBy
        <3> HIDE DEF given
        <3>4. name = IF cmd = "install" /\ given = NoText THEN FromFile ELSE given
            BY <3>1, <3>3
        <3>5. QED
            BY <3>4, Zenon DEF LastNameWins, given
    <2>2. QED
        BY <2>1, Zenon DEF LastNameWins
<1>3. QED
    BY <1>1, <1>2, Inductive, NameStep, PTL DEF Spec
=============================================================================
