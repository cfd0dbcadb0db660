SPECIFICATION Spec
CONSTANTS
    m1 = m1
    m2 = m2
    m3 = m3
    a1 = a1
    x = x
    y = y
    p1 = p1
    p2 = p2
    NoApk = NoApk
    NoModule = NoModule
    NoJob = NoJob
    Absent = Absent
    Torn = Torn
    Procs = {p1, p2}
    Modules = {m1}
    Flashed = {}
    Foreign = {}
    Apps = {m1, a1}
    Apks = {x, y}
    ScanOrder <- OneModule
    Jobs <- RaceJobs
    Faults = TRUE
    Misreads = TRUE
    Kills = TRUE
SYMMETRY Terminals
INVARIANTS TypeOK CreationOrder ActiveIsDetected ChosenModuleExists
PROPERTIES OnlyRootWrites InstallReturnsTruth
