SPECIFICATION ReportSpec
CONSTANTS
    MaxDisturbances = 2
    Names = {"system", "vendor"}
    Root = "/"
    Elsewhere = {"/data"}
    Options = {"ro", "rw", "seclabel", "lowerdir=/mnt/vendor_rw"}
    WithRw = {"lowerdir=/mnt/vendor_rw"}
    Tables <- SomeTables
    DirNames <- SomeNames
    Chars <- SomeChars
    Cases <- SomeCases
CHECK_DEADLOCK FALSE
INVARIANTS ReportTypeOK StayingFound RestingExact PathFound OneEntryEach TopmostReported ListedTruly JsonReadsBack PropsExact
