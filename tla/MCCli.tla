-------------------------------- MODULE MCCli --------------------------------
(***************************************************************************)
(* Every command line of up to four tokens drawn from one token of each     *)
(* sort for TLC.                                                            *)
(***************************************************************************)
EXTENDS Cli, SequencesExt

\* A path, one command of each sort, and flags.
LineTokens == {"app.apk", "install", "uninstall", "ls", "-h", "-v", "--name=a", "--name=b", ""}
Lines == BoundedSeq(LineTokens, 4)

\* Both commands that take a name, and every other token.
NameLines == {<<c, "app.apk">> \o rest : c \in Named, rest \in
    BoundedSeq({"--help", "--json", "--dry-run", "--name=", "--name=b", "-x"}, 3)}

AllLines == Lines \cup NameLines
=============================================================================
