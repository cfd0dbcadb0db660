SPECIFICATION Spec
CONSTANTS
    m1 = m1
    m2 = m2
    m3 = m3
    a1 = a1
    x = x
    y = y
    p1 = p1
    p2 = p2
    NoApk = NoApk
    NoModule = NoModule
    NoJob = NoJob
    Absent = Absent
    Torn = Torn
    Procs = {p1}
    Modules = {m1, m2, m3}
    Flashed = {m2}
    Foreign = {m3}
    Apps = {m1, m2, m3, a1}
    Apks = {x, y}
    ScanOrder <- ManyModules
    Jobs <- ManyModuleJobs
    Faults = FALSE
    Misreads = FALSE
    Kills = FALSE
INVARIANT NoStrandedApp
