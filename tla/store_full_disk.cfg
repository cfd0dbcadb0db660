SPECIFICATION Spec
CONSTANTS
    m1 = m1
    m2 = m2
    m3 = m3
    a1 = a1
    x = x
    y = y
    p1 = p1
    p2 = p2
    NoApk = NoApk
    NoModule = NoModule
    NoJob = NoJob
    Absent = Absent
    Torn = Torn
    Procs = {p1}
    Modules = {m1}
    Flashed = {}
    Foreign = {}
    Apps = {m1, a1}
    Apks = {x}
    ScanOrder <- OneModule
    Jobs <- Lifecycle
    Faults = TRUE
    Misreads = FALSE
    Kills = FALSE
PROPERTY OverlayReturnsTruth
