----------------------------- MODULE RootDetect -----------------------------
(***************************************************************************)
(* RootDetector::detect() and the root command: a cascade of probes for     *)
(* traces of root providers, on a device where providers are installed,     *)
(* updated and removed meanwhile.                                           *)
(*                                                                         *)
(* A trace is a path stat() finds or a tool `command -v` finds, as seen by  *)
(* this process: /data/adb is closed to others than root.                   *)
(***************************************************************************)
EXTENDS Integers, Sequences

CONSTANT MaxDisturbances    \* bound on changes and failures during a detection

ASSUME DisturbancesAssumption == MaxDisturbances \in Nat

\* What detect() probes for, in its order.
Probes == <<"/data/adb/ksu", "/proc/ksu", "/sys/kernel/kernelsu",
            "/data/adb/ap", "apd", "/data/adb/magisk", "magisk", "su">>

\* The provider the probe at this place is for.
ProviderAt == [k \in 1 .. 8 |-> CASE k \in 1 .. 3 -> "KERNELSU"
                                  [] k \in 4 .. 5 -> "APATCH"
                                  [] k \in 6 .. 7 -> "MAGISK"
                                  [] k = 8        -> "SU_GENERIC"]

Providers == {"KERNELSU", "APATCH", "MAGISK", "SU_GENERIC"}

\* The tool asked for the version; ksud is asked but never probed for.
VersionTool == [p \in Providers |-> CASE p = "KERNELSU"   -> "ksud"
                                      [] p = "APATCH"     -> "apd"
                                      [] p = "MAGISK"     -> "magisk"
                                      [] p = "SU_GENERIC" -> "su"]

Tools  == {"ksud", "apd", "magisk", "su"}
Traces == {Probes[k] : k \in 1 .. 8} \cup Tools

VARIABLES
    there,      \* the traces the process would find now
    stayed,     \* those that have been there since it started
    unheard,    \* the tools it asked for over a pipe that failed
    disturbed,  \* number of changes and failures so far
    stage,      \* "probe", "path", "version", "report" or "exit"
    next,       \* the probe to make next
    provider,   \* info.provider
    path,       \* is info.binary_path set?
    version,    \* is info.version set?
    exit        \* exit code, -1 while running

vars == <<there, stayed, unheard, disturbed, stage, next, provider, path, version, exit>>
device == <<there, stayed, unheard, disturbed>>

Init ==
    /\ there \in SUBSET Traces /\ stayed = there /\ unheard = {} /\ disturbed = 0
    /\ stage = "probe" /\ next = 1
    /\ provider = "NONE" /\ path = FALSE /\ version = FALSE /\ exit = -1

-----------------------------------------------------------------------------
(* Variants of the actions below with the mistakes the properties are to    *)
(* catch; no specification uses them.                                       *)

\* Mutant of ProbeHit: no return, the cascade goes on and may overwrite.
ProbeHitGoesOn ==
    /\ stage = "probe" /\ next <= 8 /\ Probes[next] \in there
    /\ provider' = ProviderAt[next]
    /\ path' = TRUE
    /\ next' = next + 1
    /\ stage' = IF next = 8 THEN "path" ELSE stage
    /\ UNCHANGED <<device, version, exit>>

\* Mutant of ProbeHit: the branch of APatch does not set the path.
ProbeHitNoPath ==
    /\ stage = "probe" /\ next <= 8 /\ Probes[next] \in there
    /\ provider' = ProviderAt[next]
    /\ path' = (ProviderAt[next] \in {"KERNELSU", "MAGISK"})
    /\ stage' = IF ProviderAt[next] = "SU_GENERIC" THEN "path" ELSE "version"
    /\ UNCHANGED <<device, next, version, exit>>

\* Mutant of Report: root means that the version could be read.
ReportByVersion ==
    /\ stage = "report"
    /\ exit' = IF version THEN 0 ELSE 1
    /\ stage' = "exit"
    /\ UNCHANGED <<device, next, provider, path, version>>

\* Mutant of Report: the provider's number is the exit code.
ReportNumber ==
    /\ stage = "report"
    /\ exit' = CHOOSE n \in 1 .. 9 : n = 9 \/ provider = ProviderAt[n]
    /\ stage' = "exit"
    /\ UNCHANGED <<device, next, provider, path, version>>

-----------------------------------------------------------------------------
(* detect() *)

Probing == stage = "probe" /\ next <= 8
Disturb == disturbed < MaxDisturbances /\ disturbed' = disturbed + 1

ProbeMiss ==
    /\ Probing /\ Probes[next] \notin there
    /\ next' = next + 1
    /\ UNCHANGED <<device, stage, provider, path, version, exit>>

\* popen() fails, and capture() makes no difference between that and a tool
\* that is not there.
PipeFails ==
    /\ Probing /\ Probes[next] \in there \cap Tools
    /\ Disturb
    /\ unheard' = unheard \cup {Probes[next]}
    /\ next' = next + 1
    /\ UNCHANGED <<there, stayed, stage, provider, path, version, exit>>

\* The first trace found decides.  binary_path is a constant for all but su.
ProbeHit ==
    /\ Probing /\ Probes[next] \in there
    /\ provider' = ProviderAt[next]
    /\ path' = (ProviderAt[next] # "SU_GENERIC")
    /\ stage' = IF ProviderAt[next] = "SU_GENERIC" THEN "path" ELSE "version"
    /\ UNCHANGED <<device, next, version, exit>>

ProbesEnd ==
    /\ stage = "probe" /\ next > 8
    /\ stage' = "report"
    /\ UNCHANGED <<device, next, provider, path, version, exit>>

\* command -v su once more, for its path; popen() may fail.
CapturePath ==
    /\ stage = "path"
    /\ \/ path' = ("su" \in there) /\ UNCHANGED <<unheard, disturbed>>
       \/ path' = FALSE /\ unheard' = unheard \cup {"su"} /\ Disturb
    /\ stage' = "version"
    /\ UNCHANGED <<there, stayed, next, provider, version, exit>>

\* The provider's tool may be missing, or say nothing.
CaptureVersion ==
    /\ stage = "version"
    /\ \/ version' = TRUE /\ VersionTool[provider] \in there
       \/ version' = FALSE
    /\ stage' = "report"
    /\ UNCHANGED <<device, next, provider, path, exit>>

\* RootCommand::run(): "exit code doubles as a scriptable check".
Report ==
    /\ stage = "report"
    /\ exit' = IF provider # "NONE" THEN 0 ELSE 1
    /\ stage' = "exit"
    /\ UNCHANGED <<device, next, provider, path, version>>

\* A trace appears or disappears.
Change(t) ==
    /\ stage # "exit" /\ Disturb
    /\ there' = IF t \in there THEN there \ {t} ELSE there \cup {t}
    /\ stayed' = stayed \ {t}
    /\ UNCHANGED <<unheard, stage, next, provider, path, version, exit>>

Detect ==
    \/ ProbeMiss \/ PipeFails \/ ProbeHit \/ ProbesEnd
    \/ CapturePath \/ CaptureVersion

Next ==
    \/ Detect
    \/ Report
    \/ \E t \in Traces : Change(t)

Spec == Init /\ [][Next]_vars

-----------------------------------------------------------------------------
(* Properties *)

TypeOK ==
    /\ there \subseteq Traces /\ stayed \subseteq there /\ unheard \subseteq Tools
    /\ disturbed \in 0 .. MaxDisturbances
    /\ stage \in {"probe", "path", "version", "report", "exit"}
    /\ next \in 1 .. 9
    /\ provider \in Providers \cup {"NONE"}
    /\ path \in BOOLEAN /\ version \in BOOLEAN
    /\ exit \in {-1, 0, 1}

\* The provider of the first probe that finds one of these traces.
FirstOf(found) ==
    LET At == {k \in 1 .. 8 : Probes[k] \in found} IN
    IF At = {} THEN "NONE" ELSE ProviderAt[CHOOSE k \in At : \A l \in At : k <= l]

\* detect() is done: only the report of what it found is left.
Detected == stage \in {"report", "exit"}

\* Whatever is installed and removed while detect() looks, a trace that was
\* there all the time, and for which no pipe failed, is not overlooked: the
\* provider found is the trace's own or one that comes earlier in the cascade,
\* and the exit code of root is 0.
StayingFound ==
    Detected =>
        \A k \in 1 .. 8 : Probes[k] \in stayed \ unheard =>
            /\ \E l \in 1 .. k : provider = ProviderAt[l]
            /\ stage = "exit" => exit = 0

\* On a device at rest detect() finds what the cascade promises: the first
\* provider with a trace, and a version only from that provider's own tool.
RestingExact ==
    Detected /\ disturbed = 0 =>
        /\ provider = FirstOf(there)
        /\ path = (provider # "NONE")
        /\ version => VersionTool[provider] \in there
        /\ stage = "exit" => exit = IF provider = "NONE" THEN 1 ELSE 0

\* detect() asks for su twice, to know that it is there and to know where.
\* Only one that went away between the two, or for which the second pipe
\* failed, is reported without its path; every other provider has one.
PathFound ==
    Detected /\ provider # "NONE" /\ ~path =>
        provider = "SU_GENERIC" /\ "su" \notin stayed \ unheard
=============================================================================
