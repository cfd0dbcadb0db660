SPECIFICATION Spec
CONSTANTS
    Words = {"app.apk", "install", "overlayfs", "uninstall", "ls"}
    Commands = {"install", "overlayfs", "uninstall", "ls"}
    Argvs <- AllLines
CHECK_DEADLOCK FALSE
INVARIANTS TypeOK SplitAsTyped CommandsKnown HelpRunsNothing LastNameWins
