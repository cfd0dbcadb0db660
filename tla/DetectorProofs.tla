--------------------------- MODULE DetectorProofs ---------------------------
(***************************************************************************)
(* What the detectors and readers find, whatever they look at and however   *)
(* often it changes meanwhile: RootDetector::detect() what stays and, at    *)
(* rest, the first provider of its cascade; PartitionDetector::detect() the *)
(* topmost mount of each partition; ls the entries as they were.            *)
(***************************************************************************)
EXTENDS RootDetect, PartitionTable, DirListing, SequenceTheorems, TLAPS

-----------------------------------------------------------------------------
(* RootDetector::detect() and root *)

LEMMA ProviderAtType ==
    ASSUME NEW k \in 1 .. 8
    PROVE  ProviderAt[k] \in Providers /\ "NONE" \notin Providers
BY DEF ProviderAt, Providers

\* Traces that are there all the time and were not asked for in vain.
Sure == stayed \ unheard

\* The probes made so far have found none of these.
Passed == \A k \in 1 .. (next - 1) : Probes[k] \notin Sure

\* Each of them is the provider's own trace or comes later in the cascade.
Covers == \A k \in 1 .. 8 : Probes[k] \in Sure =>
              \E l \in 1 .. k : provider = ProviderAt[l]

\* Only su is ever found without its path.
Located == path \/ provider = "NONE" \/ (provider = "SU_GENERIC" /\ "su" \notin Sure)

RootInv ==
    /\ TypeOK
    /\ stage = "probe" => Passed /\ provider = "NONE"
    /\ stage # "probe" => Covers
    /\ stage = "version" => provider # "NONE"
    /\ stage = "path" => provider = "SU_GENERIC"
    /\ stage # "path" => Located
    /\ stage = "exit" => exit = IF provider # "NONE" THEN 0 ELSE 1

LEMMA RootInitSound == Init => RootInv
<1>1. SUFFICES ASSUME Init PROVE RootInv
    OBVIOUS
<1>2. path \in BOOLEAN /\ version \in BOOLEAN
    BY <1>1, Zenon DEF Init
<1>3. TypeOK
    BY <1>1, <1>2, DisturbancesAssumption DEF Init, TypeOK
<1>4. Passed /\ Located
    BY <1>1 DEF Init, Passed, Located
<1>5. QED
    BY <1>1, <1>3, <1>4 DEF Init, RootInv

\* What a step keeps that only takes from these, and leaves the rest alone.
LEMMA FewerSound ==
    ASSUME RootInv, TypeOK', Sure' \subseteq Sure, UNCHANGED <<stage, provider, path, exit>>,
           next' = next
    PROVE  RootInv'
<1>1. Passed => Passed'
    BY DEF Passed
<1>2. Covers => Covers'
    BY DEF Covers
<1>3. Located => Located'
    BY DEF Located
<1>4. QED
    BY <1>1, <1>2, <1>3 DEF RootInv

\* Changes only take from what stayed.
LEMMA ChangeSound ==
    ASSUME RootInv, NEW t \in Traces, Change(t) PROVE RootInv'
<1>1. stayed' \subseteq stayed /\ stayed' \subseteq there' /\ there' \subseteq Traces
    BY DEF RootInv, TypeOK, Change
<1>2. TypeOK'
    BY <1>1, DisturbancesAssumption DEF RootInv, TypeOK, Change, Disturb
<1>3. Sure' \subseteq Sure /\ UNCHANGED <<stage, next, provider, path, exit>>
    BY <1>1 DEF Change, Sure
<1>4. QED
    BY <1>2, <1>3, FewerSound

LEMMA ProbeHitSound ==
    ASSUME RootInv, ProbeHit PROVE RootInv'
<1>1. /\ stage = "probe" /\ next \in 1 .. 8 /\ provider' = ProviderAt[next]
      /\ UNCHANGED <<stayed, unheard>> /\ Sure' = Sure
    BY DEF RootInv, TypeOK, ProbeHit, Probing, device, Sure
<1>2. provider' \in Providers /\ provider' # "NONE"
    BY <1>1, ProviderAtType
<1>3. path' \in BOOLEAN /\ (path' <=> provider' # "SU_GENERIC")
    BY Zenon DEF ProbeHit
<1>4. /\ stage' = IF provider' = "SU_GENERIC" THEN "path" ELSE "version"
      /\ UNCHANGED <<there, disturbed, next, version, exit>>
    BY Zenon DEF ProbeHit, device
<1>5. TypeOK'
    BY <1>1, <1>2, <1>3, <1>4 DEF RootInv, TypeOK
<1>6. Covers'
    <2>1. SUFFICES ASSUME NEW k \in 1 .. 8, Probes[k] \in Sure
                   PROVE  \E l \in 1 .. k : provider' = ProviderAt[l]
        BY <1>1 DEF Covers
    <2>2. next <= k
        BY <1>1, <2>1 DEF RootInv, Passed
    <2>3. QED
        BY <1>1, <2>2
<1>7. stage' # "path" => Located'
    BY <1>3, <1>4 DEF Located
<1>8. QED
    BY <1>2, <1>4, <1>5, <1>6, <1>7 DEF RootInv

LEMMA RootStep ==
    ASSUME RootInv, [Next]_vars PROVE RootInv'
<1>1. CASE UNCHANGED vars
    BY <1>1 DEF RootInv, TypeOK, Passed, Covers, Located, Sure, vars
<1>2. CASE ProbeMiss
    <2>1. Passed'
        BY <1>2 DEF RootInv, TypeOK, Passed, Sure, ProbeMiss, Probing, device
    <2>2. TypeOK'
        BY <1>2 DEF RootInv, TypeOK, ProbeMiss, Probing, device
    <2>3. QED
        BY <1>2, <2>1, <2>2 DEF RootInv, Located, ProbeMiss, Probing, device
<1>3. CASE PipeFails
    <2>1. Passed'
        BY <1>3 DEF RootInv, TypeOK, Passed, Sure, PipeFails, Probing
    <2>2. TypeOK'
        BY <1>3, DisturbancesAssumption DEF RootInv, TypeOK, PipeFails, Probing, Disturb
    <2>3. QED
        BY <1>3, <2>1, <2>2 DEF RootInv, Located, PipeFails, Probing
<1>4. CASE ProbeHit
    BY <1>4, ProbeHitSound
<1>5. CASE ProbesEnd
    <2>1. Covers'
        BY <1>5 DEF RootInv, TypeOK, Passed, Covers, Sure, ProbesEnd, device
    <2>2. TypeOK'
        BY <1>5 DEF RootInv, TypeOK, ProbesEnd, device
    <2>3. QED
        BY <1>5, <2>1, <2>2 DEF RootInv, Located, ProbesEnd, device
<1>6. CASE CapturePath
    <2>1. \/ path' = ("su" \in there) /\ unheard' = unheard /\ disturbed' = disturbed
          \/ path' = FALSE /\ unheard' = unheard \cup {"su"} /\ Disturb
        BY <1>6, Zenon DEF CapturePath
    <2>8. path' \in BOOLEAN
        <3>1. CASE path' = ("su" \in there)
            BY <3>1, SMT
        <3>2. CASE path' = FALSE
            BY <3>2, Zenon
        <3>3. QED
            BY <2>1, <3>1, <3>2, Zenon
    <2>9. \/ unheard' = unheard /\ disturbed' = disturbed
          \/ unheard' = unheard \cup {"su"} /\ Disturb
        BY <2>1, Zenon
    <2>2. /\ disturbed' \in 0 .. MaxDisturbances
          /\ unheard' \subseteq Tools /\ unheard \subseteq unheard'
        <3>1. disturbed \in 0 .. MaxDisturbances /\ unheard \subseteq Tools /\ "su" \in Tools
            BY DEF RootInv, TypeOK, Tools
        <3>2. disturbed' \in 0 .. MaxDisturbances
            BY <2>9, <3>1, DisturbancesAssumption DEF Disturb
        <3>3. unheard' \subseteq Tools /\ unheard \subseteq unheard'
            BY <2>9, <3>1, Zenon
        <3>4. QED
            BY <3>2, <3>3
    <2>3. /\ stage = "path" /\ stage' = "version"
          /\ UNCHANGED <<there, stayed, next, provider, version, exit>>
        BY <1>6, Zenon DEF CapturePath
    <2>4. TypeOK'
        BY <2>2, <2>3, <2>8 DEF RootInv, TypeOK
    <2>5. Located'
        <3>1. \/ (path' <=> "su" \in there)
              \/ unheard' = unheard \cup {"su"}
            BY <1>6, Zenon DEF CapturePath
        <3>2. path' \/ "su" \notin stayed' \ unheard'
            BY <2>3, <3>1 DEF RootInv, TypeOK
        <3>3. QED
            BY <2>3, <3>2 DEF Located, Sure, RootInv
    <2>6. Covers'
        BY <2>2, <2>3 DEF RootInv, Covers, Sure
    <2>7. QED
        BY <2>3, <2>4, <2>5, <2>6 DEF RootInv
<1>7. CASE CaptureVersion
    <2>1. version' \in BOOLEAN
        BY <1>7, Zenon DEF CaptureVersion
    <2>2. /\ stage = "version" /\ stage' = "report"
          /\ UNCHANGED <<there, stayed, unheard, disturbed, next, provider, path, exit>>
        BY <1>7, Zenon DEF CaptureVersion, device
    <2>3. TypeOK'
        BY <2>1, <2>2 DEF RootInv, TypeOK
    <2>4. QED
        BY <2>2, <2>3 DEF RootInv, Covers, Located, Sure
<1>8. CASE Report
    <2>1. TypeOK'
        BY <1>8 DEF RootInv, TypeOK, Report, device
    <2>2. QED
        BY <1>8, <2>1 DEF RootInv, Covers, Located, Sure, Report, device
<1>9. CASE \E t \in Traces : Change(t)
    BY <1>9, ChangeSound
<1>10. QED
    BY <1>1, <1>2, <1>3, <1>4, <1>5, <1>6, <1>7, <1>8, <1>9 DEF Next, Detect

LEMMA RootEnough == RootInv => StayingFound
<1>1. SUFFICES ASSUME RootInv, Detected, NEW k \in 1 .. 8, Probes[k] \in Sure
               PROVE  /\ \E l \in 1 .. k : provider = ProviderAt[l]
                      /\ stage = "exit" => exit = 0
    BY DEF StayingFound, Sure
<1>2. PICK l \in 1 .. k : provider = ProviderAt[l]
    BY <1>1 DEF RootInv, Covers, Detected
<1>3. provider # "NONE"
    BY <1>2, ProviderAtType
<1>4. QED
    BY <1>1, <1>2, <1>3 DEF RootInv

LEMMA PathEnough == RootInv => PathFound
BY DEF RootInv, Located, Sure, PathFound, Detected

LEMMA RootInductive == Spec => []RootInv
<1>1. Init => RootInv
    BY RootInitSound
<1>2. RootInv /\ [Next]_vars => RootInv'
    BY RootStep
<1>3. QED
    BY <1>1, <1>2, PTL DEF Spec

\* Every variable of a detection keeps its type, however often the device changes.
THEOREM TypeCorrect == Spec => []TypeOK
<1>1. RootInv => TypeOK
    BY DEF RootInv
<1>2. QED
    BY <1>1, RootInductive, PTL

\* Whatever appears and disappears during a detection, and whichever popen()
\* fails for another trace, one that is there all the time makes detect() report
\* its provider or an earlier one, and the root command exit with 0.
THEOREM StayingIsFound == Spec => []StayingFound
BY RootInductive, RootEnough, PTL

\* A provider is reported without a path only if it is su, and su went away
\* between the two questions for it or the second of them was not heard.
THEOREM PathIsFound == Spec => []PathFound
BY RootInductive, PathEnough, PTL

-----------------------------------------------------------------------------
(* A device at rest *)

\* The first trace of a set decides what the cascade reports of it.
LEMMA FirstIs ==
    ASSUME NEW found, NEW n \in 1 .. 8, Probes[n] \in found,
           \A k \in 1 .. (n - 1) : Probes[k] \notin found
    PROVE  FirstOf(found) = ProviderAt[n]
<1> DEFINE At == {k \in 1 .. 8 : Probes[k] \in found}
<1>1. n \in At /\ \A l \in At : n <= l
    <2>1. ASSUME NEW l \in At, ~(n <= l) PROVE FALSE
        <3>1. l \in 1 .. (n - 1) /\ Probes[l] \in found
            BY <2>1
        <3>2. QED
            BY <3>1
    <2>2. QED
        BY <2>1
<1>2. \A k \in At : (\A l \in At : k <= l) => k = n
    BY <1>1
<1>3. (CHOOSE k \in At : \A l \in At : k <= l) = n
    BY <1>1, <1>2
<1>4. At # {}
    BY <1>1
<1>5. QED
    BY <1>3, <1>4 DEF FirstOf

LEMMA FirstIsNone ==
    ASSUME NEW found, \A k \in 1 .. 8 : Probes[k] \notin found
    PROVE  FirstOf(found) = "NONE"
BY DEF FirstOf

\* What detect() knows as long as nothing has changed or failed.
Resting ==
    /\ stage = "probe" => \A k \in 1 .. (next - 1) : Probes[k] \notin there
    /\ stage # "probe" => provider = FirstOf(there)
    /\ stage \in {"probe", "path", "version"} => ~version
    /\ stage = "probe" => ~path
    /\ stage = "path" => Probes[8] \in there
    /\ stage \in {"version", "report", "exit"} => (path <=> provider # "NONE")
    /\ version => VersionTool[provider] \in there

RestInv == disturbed = 0 => Resting

\* A step that counts as a disturbance leaves nothing to show.
LEMMA Disturbed ==
    ASSUME RootInv, Disturb PROVE RestInv'
BY DEF RootInv, TypeOK, Disturb, RestInv

LEMMA RestingHit ==
    ASSUME RootInv, Resting, ProbeHit PROVE Resting'
<1>1. /\ stage = "probe" /\ next \in 1 .. 8 /\ Probes[next] \in there
      /\ provider' = ProviderAt[next] /\ there' = there
      /\ stage' \in {"path", "version"}
    BY DEF RootInv, TypeOK, ProbeHit, Probing, device
<1>2. provider' = FirstOf(there) /\ provider' # "NONE"
    <2>1. \A k \in 1 .. (next - 1) : Probes[k] \notin there
        BY <1>1 DEF Resting
    <2>2. QED
        BY <1>1, <2>1, FirstIs, ProviderAtType
<1>3. ~version /\ version' = version
    BY <1>1, Zenon DEF Resting, ProbeHit
<1>4. stage' = "path" => next = 8
    BY <1>1 DEF ProbeHit, ProviderAt
<1>5. stage' = "version" => path'
    BY Zenon DEF ProbeHit
<1>6. QED
    BY <1>1, <1>2, <1>3, <1>4, <1>5 DEF Resting

LEMMA RestingStep ==
    ASSUME RootInv, RestInv, [Next]_vars PROVE RestInv'
<1>1. SUFFICES ASSUME disturbed' = 0 PROVE Resting'
    BY DEF RestInv
<1>2. ASSUME Disturb PROVE Resting'
    BY <1>1, <1>2, Disturbed DEF RestInv
<1>3. CASE UNCHANGED disturbed
    <2>1. Resting
        BY <1>1, <1>3 DEF RestInv
    <2>2. CASE UNCHANGED vars
        BY <2>1, <2>2 DEF Resting, vars
    <2>3. CASE ProbeMiss
        BY <2>1, <2>3 DEF RootInv, TypeOK, Resting, ProbeMiss, Probing, device
    <2>4. CASE PipeFails
        BY <1>2, <2>4 DEF PipeFails
    <2>5. CASE ProbeHit
        BY <2>1, <2>5, RestingHit
    <2>6. CASE ProbesEnd
        <3>1. \A k \in 1 .. 8 : Probes[k] \notin there
            BY <2>1, <2>6 DEF RootInv, TypeOK, Resting, ProbesEnd
        <3>2. provider = "NONE" /\ FirstOf(there) = "NONE"
            BY <2>6, <3>1, FirstIsNone DEF RootInv, ProbesEnd
        <3>3. QED
            BY <2>1, <2>6, <3>2 DEF Resting, ProbesEnd, device
    <2>7. CASE CapturePath
        <3>1. stage = "path" /\ stage' = "version" /\ "su" \in there
            BY <2>1, <2>7 DEF Resting, CapturePath, Probes
        <3>2. CASE Disturb
            BY <1>2, <3>2
        <3>3. CASE ~Disturb
            <4>1. path' = TRUE
                BY <2>7, <3>1, <3>3, Zenon DEF CapturePath
            <4>2. UNCHANGED <<there, provider, version>>
                BY <2>7, Zenon DEF CapturePath
            <4>3. provider # "NONE"
                BY <3>1 DEF RootInv
            <4>4. QED
                BY <2>1, <3>1, <4>1, <4>2, <4>3 DEF Resting
        <3>4. QED
            BY <3>2, <3>3
    <2>8. CASE CaptureVersion
        <3>1. /\ stage = "version" /\ stage' = "report"
              /\ UNCHANGED <<there, provider, path>>
              /\ version' => VersionTool[provider] \in there
            BY <2>8, Zenon DEF CaptureVersion, device
        <3>2. QED
            BY <2>1, <3>1 DEF Resting
    <2>9. CASE Report
        BY <2>1, <2>9 DEF Resting, Report, device
    <2>10. CASE \E t \in Traces : Change(t)
        BY <1>2, <2>10 DEF Change
    <2>11. QED
        BY <2>2, <2>3, <2>4, <2>5, <2>6, <2>7, <2>8, <2>9, <2>10 DEF Next, Detect
<1>4. CASE ~UNCHANGED disturbed
    <2>1. Disturb
        BY <1>4 DEF Next, Detect, ProbeMiss, PipeFails, ProbeHit, ProbesEnd, CapturePath,
            CaptureVersion, Report, Change, device, vars
    <2>2. QED
        BY <1>2, <2>1
<1>5. QED
    BY <1>3, <1>4

LEMMA RestInit == Init => RestInv
<1>1. ASSUME Init PROVE ~path /\ ~version
    BY <1>1, Zenon DEF Init
<1>2. QED
    BY <1>1 DEF Init, RestInv, Resting

LEMMA RestEnough == RootInv /\ RestInv => RestingExact
<1>1. ASSUME RootInv, RestInv, Detected, disturbed = 0
      PROVE  /\ provider = FirstOf(there)
             /\ path = (provider # "NONE")
             /\ version => VersionTool[provider] \in there
             /\ stage = "exit" => exit = IF provider = "NONE" THEN 1 ELSE 0
    <2>1. Resting /\ path \in BOOLEAN /\ stage \in {"report", "exit"}
        BY <1>1 DEF RootInv, TypeOK, RestInv, Detected
    <2>2. path = (provider # "NONE")
        BY <2>1 DEF Resting
    <2>3. QED
        BY <1>1, <2>1, <2>2 DEF RootInv, Resting
<1>2. QED
    BY <1>1 DEF RestingExact

\* On a device where nothing changes and no popen() fails, detect() reports the
\* first provider of its cascade that has a trace, with a path, and no version
\* but that of this provider's own tool; the exit code says whether there is one.
THEOREM RestingReport == Spec => []RestingExact
BY RootInductive, RestInit, RestingStep, RestEnough, PTL DEF Spec

-----------------------------------------------------------------------------
(* PartitionDetector::detect() *)

LEMMA EntryHasType ==
    ASSUME TableTypeOK, row <= Len(table), Counts
    PROVE  table[row] \in LineType /\ Entry(table[row]) \in EntryType
<1>1. table \in Seq(LineType) /\ row \in 1 .. Len(table)
    BY TablesAssumption DEF TableTypeOK
<1>2. table[row] \in LineType
    BY <1>1
<1>3. classify_mount_point(table[row].point) \in Names
    BY <1>2, NamesAssumption DEF Counts, line, classify_mount_point
<1>4. QED
    BY <1>2, <1>3 DEF Entry, EntryType, LineType, ReadOnly

\* The entry Replace overwrites is one for the same partition.
LEMMA Replaces ==
    ASSUME TableTypeOK, OneEntryEach, Replace
    PROVE  \E at \in Found(Entry(line).name) :
              result' = [result EXCEPT ![at] = Entry(line)]
<1> DEFINE Matches == Found(Entry(line).name)
           at == CHOOSE k \in Matches : \A l \in Matches : k <= l
<1>1. Matches # {} /\ result' = [result EXCEPT ![at] = Entry(line)]
    BY DEF Replace
<1>2. PICK k \in Matches : TRUE
    BY <1>1
<1>3. \A l \in Matches : l = k
    BY <1>2 DEF OneEntryEach, Found
<1>4. k <= k
    BY <1>2 DEF Found
<1>5. at \in Matches
    BY <1>2, <1>3, <1>4
<1>6. QED
    BY <1>1, <1>5

LEMMA TableTypeStep ==
    ASSUME TableTypeOK, OneEntryEach, [TableNext]_tableVars
    PROVE  TableTypeOK'
<1> USE DEF TableTypeOK
<1>1. CASE Skip
    BY <1>1, TablesAssumption DEF Skip
<1>2. CASE Add
    BY <1>2, EntryHasType, TablesAssumption DEF Add, line
<1>3. CASE Replace
    <2>1. PICK at \in 1 .. Len(result) : result' = [result EXCEPT ![at] = Entry(table[row])]
        BY <1>3, Replaces DEF Found, line
    <2>2. Entry(table[row]) \in EntryType
        BY <1>3, EntryHasType DEF Replace
    <2>3. result' \in Seq(EntryType)
        BY <2>1, <2>2, ExceptSeq
    <2>4. QED
        BY <1>3, <2>3, TablesAssumption DEF Replace
<1>4. CASE UNCHANGED tableVars
    BY <1>4 DEF tableVars
<1>5. QED
    BY <1>1, <1>2, <1>3, <1>4 DEF TableNext

LEMMA OnceStep ==
    ASSUME TableTypeOK, OneEntryEach, [TableNext]_tableVars
    PROVE  OneEntryEach'
<1> USE DEF TableTypeOK
<1>1. CASE Skip \/ UNCHANGED tableVars
    BY <1>1 DEF Skip, tableVars, OneEntryEach
<1>2. CASE Add
    <2>1. /\ result' = Append(result, Entry(line))
          /\ \A k \in 1 .. Len(result) : result[k].name # Entry(line).name
        BY <1>2 DEF Add, Found
    <2>2. QED
        BY <2>1 DEF OneEntryEach
<1>3. CASE Replace
    <2>1. PICK at \in Found(Entry(line).name) : result' = [result EXCEPT ![at] = Entry(line)]
        BY <1>3, Replaces
    <2>2. at \in 1 .. Len(result) /\ result[at].name = Entry(line).name
        BY DEF Found
    <2>3. \A k \in 1 .. Len(result) :
              result'[k] = IF k = at THEN Entry(line) ELSE result[k]
        BY <2>1, <2>2
    <2>4. Len(result') = Len(result)
        BY <2>1, <2>2
    <2>5. QED
        BY <2>2, <2>3, <2>4 DEF OneEntryEach
<1>4. QED
    BY <1>1, <1>2, <1>3 DEF TableNext

-----------------------------------------------------------------------------
(* The last mount of each partition *)

\* What a line that is long enough mounts is what it is classified as.
LEMMA MountsItsName ==
    ASSUME NEW l \in LineType, NEW n \in Names
    PROVE  (l.point = n \/ (n = "system" /\ l.point = Root))
               <=> classify_mount_point(l.point) = n
BY NamesAssumption DEF LineType, MountPoints, classify_mount_point

\* Reading a line of partition n makes it the topmost; of others it changes nothing.
LEMMA RowRead ==
    ASSUME TableTypeOK, row <= Len(table), row' = row + 1, UNCHANGED table, NEW n \in Names
    PROVE  /\ Counts /\ Entry(line).name = n => MountsOf(n)' # {} /\ Topmost(n)' = line
           /\ ~(Counts /\ Entry(line).name = n) =>
                  MountsOf(n)' = MountsOf(n) /\ Topmost(n)' = Topmost(n)
<1> DEFINE Mine == Counts /\ Entry(line).name = n
<1>1. row \in 1 .. Len(table) /\ table \in Seq(LineType) /\ line \in LineType
    BY TablesAssumption DEF TableTypeOK, line
<1>2. Mine <=> ~line.short /\ (line.point = n \/ (n = "system" /\ line.point = Root))
    <2>1. Entry(line).name = classify_mount_point(line.point)
        BY DEF Entry
    <2>2. n # ""
        BY NamesAssumption
    <2>3. QED
        BY <1>1, <2>1, <2>2, MountsItsName DEF Counts
<1>3. MountsOf(n)' = IF Mine THEN MountsOf(n) \cup {row} ELSE MountsOf(n)
    <2>1. 1 .. (row + 1 - 1) = (1 .. (row - 1)) \cup {row}
        BY <1>1
    <2>2. QED
        BY <1>1, <1>2, <2>1 DEF MountsOf, line
<1>4. CASE Mine
    <2>1. \A l \in MountsOf(n) : l \in Int /\ l < row
        BY <1>1 DEF MountsOf
    <2>2. (CHOOSE k \in MountsOf(n)' : \A l \in MountsOf(n)' : l <= k) = row
        BY <1>1, <1>3, <1>4, <2>1
    <2>3. QED
        BY <1>3, <1>4, <2>2 DEF Topmost, line
<1>5. CASE ~Mine
    BY <1>3, <1>5 DEF Topmost
<1>6. QED
    BY <1>4, <1>5

LEMMA TopmostStep ==
    ASSUME TableTypeOK, OneEntryEach, TopmostReported, [TableNext]_tableVars
    PROVE  TopmostReported'
<1> DEFINE Line(n) == [name |-> n, is_overlay |-> Topmost(n).overlay,
                       read_only |-> ReadOnly(Topmost(n).opts)]
           Good(n) == IF MountsOf(n) = {} THEN Found(n) = {}
                      ELSE \E k \in Found(n) : result[k] = Line(n)
<1> USE DEF TableTypeOK
<1>1. ASSUME NEW n \in Names PROVE Good(n)'
    <2>1. Good(n)
        BY DEF TopmostReported
    <2>2. CASE Skip
        <3>1. MountsOf(n)' = MountsOf(n) /\ Topmost(n)' = Topmost(n) /\ result' = result
            BY <2>2, RowRead DEF Skip
        <3>2. QED
            BY <2>1, <3>1 DEF Found
    <2>3. CASE Add /\ Entry(line).name = n
        <3>1. Topmost(n)' = line /\ MountsOf(n)' # {}
            BY <2>3, RowRead DEF Add
        <3>2. Len(result) + 1 \in 1 .. Len(result') /\ result'[Len(result) + 1] = Entry(line)
            BY <2>3 DEF Add
        <3>3. Entry(line) = Line(n)'
            BY <2>3, <3>1 DEF Entry
        <3>4. Len(result) + 1 \in Found(n)'
            BY <2>3, <3>2 DEF Found
        <3>5. QED
            BY <3>1, <3>2, <3>3, <3>4
    <2>4. CASE Add /\ Entry(line).name # n
        <3>1. MountsOf(n)' = MountsOf(n) /\ Topmost(n)' = Topmost(n)
            BY <2>4, RowRead DEF Add
        <3>2. /\ Len(result') = Len(result) + 1
              /\ result'[Len(result) + 1].name # n
              /\ \A k \in 1 .. Len(result) : result'[k] = result[k]
            BY <2>4 DEF Add
        <3>3. Found(n)' = Found(n)
            BY <3>2 DEF Found
        <3>4. Line(n)' = Line(n)
            BY <3>1
        <3>5. QED
            BY <2>1, <3>1, <3>2, <3>3, <3>4 DEF Found
    <2>5. CASE Replace
        <3>1. PICK at \in Found(Entry(line).name) : result' = [result EXCEPT ![at] = Entry(line)]
            BY <2>5, Replaces
        <3>2. /\ at \in 1 .. Len(result) /\ result[at].name = Entry(line).name
              /\ Len(result') = Len(result)
              /\ \A k \in 1 .. Len(result) :
                     result'[k] = IF k = at THEN Entry(line) ELSE result[k]
            BY <3>1 DEF Found
        <3>3. Found(n)' = Found(n)
            BY <3>2 DEF Found
        <3>4. CASE Entry(line).name = n
            <4>1. Topmost(n)' = line /\ MountsOf(n)' # {}
                BY <2>5, <3>4, RowRead DEF Replace
            <4>2. Entry(line) = Line(n)'
                BY <3>4, <4>1 DEF Entry
            <4>3. at \in Found(n)' /\ result'[at] = Entry(line)
                BY <3>1, <3>2, <3>3, <3>4
            <4>4. QED
                BY <4>1, <4>2, <4>3
        <3>5. CASE Entry(line).name # n
            <4>1. MountsOf(n)' = MountsOf(n) /\ Topmost(n)' = Topmost(n)
                BY <2>5, <3>5, RowRead DEF Replace
            <4>2. \A k \in Found(n) : result'[k] = result[k]
                BY <3>2, <3>5 DEF Found
            <4>3. Line(n)' = Line(n)
                BY <4>1
            <4>4. QED
                BY <2>1, <3>3, <4>1, <4>2, <4>3
        <3>6. QED
            BY <3>4, <3>5
    <2>6. CASE UNCHANGED tableVars
        BY <2>1, <2>6 DEF tableVars, Found, MountsOf, Topmost
    <2>7. QED
        BY <2>2, <2>3, <2>4, <2>5, <2>6 DEF TableNext
<1>2. QED
    BY <1>1 DEF TopmostReported

-----------------------------------------------------------------------------
TableInv == TableTypeOK /\ OneEntryEach /\ TopmostReported

LEMMA TableInitSound == TableInit => TableInv
<1>1. TableInit => \A n \in Names : MountsOf(n) = {} /\ Found(n) = {}
    BY DEF TableInit, MountsOf, Found
<1>2. QED
    BY <1>1, TablesAssumption
    DEF TableInit, TableInv, TableTypeOK, OneEntryEach, TopmostReported

LEMMA TableStep ==
    ASSUME TableInv, [TableNext]_tableVars
    PROVE  TableInv'
BY TableTypeStep, OnceStep, TopmostStep DEF TableInv

LEMMA TableInductive == TableSpec => []TableInv
BY TableInitSound, TableStep, PTL DEF TableSpec

\* At every line detect() reads, what it has found are entries of known partitions.
THEOREM TableTypeCorrect == TableSpec => []TableTypeOK
<1>1. TableInv => TableTypeOK
    BY DEF TableInv
<1>2. QED
    BY <1>1, TableInductive, PTL

\* detect() reports no partition twice, whatever /proc/mounts holds.
THEOREM ReportedOnce == TableSpec => []OneEntryEach
<1>1. TableInv => OneEntryEach
    BY DEF TableInv
<1>2. QED
    BY <1>1, TableInductive, PTL

\* What detect() reports of a partition is its topmost mount, for every
\* /proc/mounts and all sets of partitions and options.
THEOREM ReportedTopmost == TableSpec => []TopmostReported
<1>1. TableInv => TopmostReported
    BY DEF TableInv
<1>2. QED
    BY <1>1, TableInductive, PTL

-----------------------------------------------------------------------------
(* ls *)

\* A name is listed at most once, at a place that is then unique, or never.
Once(n)  == \E k \in DOMAIN entries : \A l \in DOMAIN entries : entries[l].name = n <=> l = k
Never(n) == \A k \in DOMAIN entries : entries[k].name # n

\* A name that was there all the time is still to be returned, has just been
\* returned or is listed, and only one of the three.
Accounted(n) ==
    \/ n \in unread /\ reading # n /\ Never(n)
    \/ n \notin unread /\ reading = n /\ Never(n)
    \/ n \notin unread /\ reading # n /\ Once(n)

\* What is listed of an entry was true of it at some time.
Truly(e) == IF e.kind = "?" THEN None \in was[e.name] \/ e.name \in errors
                            ELSE e.kind \in was[e.name]

AllTruly == \A k \in DOMAIN entries : Truly(entries[k])

ListInv ==
    /\ ListTypeOK
    /\ listing \in {"start", "failed"} => entries = <<>> /\ unread = {} /\ reading = 0
    /\ listing = "loop" => \A n \in Places : content[n] \in was[n]
    /\ listing = "loop" => \A n \in Places : None \notin was[n] => Accounted(n)
    /\ AllTruly
    /\ ListedTruly

\* Before opendir() nothing is listed.
LEMMA ListInitSound == ListInit => ListInv
<1> SUFFICES ASSUME ListInit PROVE ListInv
    OBVIOUS
<1>1. ListTypeOK
    BY DEF ListInit, ListTypeOK, Places, Kinds
<1>2. QED
    BY <1>1 DEF ListInit, ListInv, ListedTruly, AllTruly

LEMMA ElementIn ==
    ASSUME NEW S, NEW s \in Seq(S), NEW k \in DOMAIN s
    PROVE  s[k] \in S
OBVIOUS

LEMMA EntryName ==
    ASSUME ListTypeOK, NEW k \in DOMAIN entries
    PROVE  entries[k].name \in Places
<1>1. entries[k] \in [name : Places, kind : Kinds \cup {"?"}]
    BY ElementIn DEF ListTypeOK
<1>2. QED
    BY <1>1

\* What was under a name stays among what was under it, and an error an error:
\* what is listed truly stays listed truly.
LEMMA TrulyStays ==
    ASSUME ListInv, entries' = entries, errors \subseteq errors',
           \A n \in Places : was[n] \subseteq was'[n]
    PROVE  AllTruly'
<1>1. ASSUME NEW k \in DOMAIN entries
      PROVE  Truly(entries[k]) => IF entries[k].kind = "?"
                                  THEN \/ None \in was'[entries[k].name]
                                       \/ entries[k].name \in errors'
                                  ELSE entries[k].kind \in was'[entries[k].name]
  <2>1. entries[k].name \in Places
      BY EntryName DEF ListInv
  <2>2. QED
      BY <2>1, Zenon DEF Truly
<1>2. QED
    BY <1>1 DEF ListInv, AllTruly, Truly

LEMMA OpenStep ==
    ASSUME ListInv, OpenDir \/ OpenDirFails
    PROVE  ListInv'
<1>1. CASE OpenDir
  <2>1. ListTypeOK'
      BY <1>1 DEF OpenDir, ListInv, ListTypeOK
  <2>2. entries' = <<>> /\ reading' = 0 /\ listing' = "loop"
      BY <1>1 DEF OpenDir, ListInv
  <2>3. \A n \in Places : content'[n] \in was'[n]
      BY <1>1 DEF OpenDir
  <2>4. ASSUME NEW n \in Places, None \notin was'[n]
        PROVE  Accounted(n)'
    <3>1. n \in unread'
        BY <1>1, <2>4 DEF OpenDir
    <3>2. reading' # n
        BY <2>2 DEF Places
    <3>3. QED
        BY <2>2, <3>1, <3>2 DEF Accounted, Never
  <2>5. QED
      BY <2>1, <2>2, <2>3, <2>4 DEF ListInv, ListedTruly, AllTruly
<1>2. CASE OpenDirFails
  <2>1. ListTypeOK'
      BY <1>2 DEF OpenDirFails, ListInv, ListTypeOK
  <2>2. QED
      BY <1>2, <2>1 DEF OpenDirFails, ListInv, ListedTruly, AllTruly
<1>3. QED
    BY <1>1, <1>2

LEMMA ReaddirStep ==
    ASSUME ListInv, NEW n \in Places, Readdir(n)
    PROVE  ListInv'
<1>1. ListTypeOK'
    BY DEF Readdir, ListInv, ListTypeOK
<1>2. ASSUME NEW m \in Places, None \notin was'[m]
      PROVE  Accounted(m)'
  <2>1. Accounted(m)
      BY <1>2 DEF Readdir, ListInv
  <2>2. entries' = entries /\ reading = 0 /\ n \in unread /\ m # 0
      BY DEF Readdir, Places
  <2>3. (Once(m)' <=> Once(m)) /\ (Never(m)' <=> Never(m))
      BY <2>2 DEF Once, Never
  <2>4. QED
      BY <2>1, <2>2, <2>3 DEF Accounted, Readdir
<1>3. AllTruly'
    BY TrulyStays DEF Readdir
<1>4. QED
    BY <1>1, <1>2, <1>3 DEF Readdir, ListInv, ListedTruly

LEMMA LstatStep ==
    ASSUME ListInv, Lstat
    PROVE  ListInv'
<1>1. reading \in Places
    BY DEF Lstat, ListInv, ListTypeOK
<1>2. PICK has_stat \in BOOLEAN :
          /\ has_stat => content[reading] # None
          /\ entries' = Append(entries, [name |-> reading,
                                         kind |-> IF has_stat THEN content[reading] ELSE "?"])
          /\ errors' = IF ~has_stat /\ content[reading] # None
                       THEN errors \cup {reading} ELSE errors
    BY DEF Lstat
<1> DEFINE kind == IF has_stat THEN content[reading] ELSE "?"
           e    == [name |-> reading, kind |-> kind]
<1>3. /\ entries' = Append(entries, e)
      /\ entries \in Seq([name : Places, kind : Kinds \cup {"?"}])
    BY <1>2 DEF ListInv, ListTypeOK
<1>11. errors' \subseteq Places \cup {0} /\ errors \subseteq errors'
    BY <1>1, <1>2 DEF ListInv, ListTypeOK
<1>4. ListTypeOK'
  <2>1. kind \in Kinds \cup {"?"}
      BY <1>1, <1>2 DEF ListInv, ListTypeOK
  <2>2. QED
      BY <1>1, <1>3, <1>11, <2>1 DEF Lstat, ListInv, ListTypeOK
<1>5. IF e.kind = "?" THEN None \in was[e.name] \/ e.name \in errors'
                      ELSE e.kind \in was[e.name]
  <2>1. content[reading] \in was[reading]
      BY <1>1 DEF Lstat, ListInv
  <2>2. "?" \notin Kinds
      BY DEF Kinds
  <2>3. has_stat => content[reading] \in Kinds
      BY <1>1, <1>2 DEF ListInv, ListTypeOK
  <2>4. QED
      BY <1>2, <2>1, <2>2, <2>3
<1> HIDE DEF e
<1>6. e.name = reading
    BY DEF e
<1>7. /\ DOMAIN entries' = 1 .. Len(entries) + 1
      /\ DOMAIN entries = 1 .. Len(entries) /\ Len(entries) \in Nat
      /\ \A k \in DOMAIN entries : entries'[k] = entries[k]
      /\ entries'[Len(entries) + 1] = e
    BY <1>3
<1>8. ASSUME NEW m \in Places, None \notin was'[m]
      PROVE  Accounted(m)'
  <2>1. Accounted(m) /\ reading' = 0 /\ unread' = unread /\ m # 0
      BY <1>8 DEF Lstat, ListInv, Places
  <2>2. CASE m = reading
    <3>1. m \notin unread /\ Never(m)
        BY <2>1, <2>2 DEF Accounted
    <3>2. Once(m)'
        BY <1>6, <1>7, <2>2, <3>1 DEF Once, Never
    <3>3. QED
        BY <2>1, <3>1, <3>2 DEF Accounted
  <2>3. CASE m # reading
    <3>1. Never(m) => Never(m)'
        BY <1>6, <1>7, <2>3 DEF Never
    <3>2. Once(m) => Once(m)'
        BY <1>6, <1>7, <2>3 DEF Once
    <3>3. QED
        BY <2>1, <2>3, <3>1, <3>2 DEF Accounted
  <2>4. QED
      BY <2>2, <2>3
<1>9. AllTruly'
  <2>1. was' = was
      BY DEF Lstat
  <2>2. ASSUME NEW k \in DOMAIN entries', k # Len(entries) + 1
        PROVE  Truly(entries[k])
      BY <1>7, <2>2 DEF ListInv, AllTruly
  <2>3. ASSUME NEW k \in DOMAIN entries'
        PROVE  LET f == entries'[k] IN
               IF f.kind = "?" THEN None \in was[f.name] \/ f.name \in errors'
                               ELSE f.kind \in was[f.name]
    <3>1. CASE k = Len(entries) + 1
        BY <1>5, <1>7, <3>1
    <3>2. CASE k # Len(entries) + 1
        BY <1>7, <1>11, <2>2, <3>2 DEF Truly
    <3>3. QED
        BY <3>1, <3>2
  <2>4. QED
      BY <2>1, <2>3 DEF AllTruly, Truly
<1>10. QED
    BY <1>4, <1>8, <1>9 DEF Lstat, ListInv, ListedTruly

LEMMA Reordered ==
    ASSUME NEW S, NEW s \in Seq(S), NEW order \in [DOMAIN s -> DOMAIN s]
    PROVE  [k \in DOMAIN s |-> s[order[k]]] \in Seq(S)
<1>1. DOMAIN s = 1 .. Len(s) /\ Len(s) \in Nat
    OBVIOUS
<1>2. [k \in DOMAIN s |-> s[order[k]]] \in [1 .. Len(s) -> S]
    BY <1>1
<1>3. QED
    BY <1>1, <1>2

\* Sorting only changes the order.
LEMMA SortStep ==
    ASSUME ListInv, SortEntries
    PROVE  ListInv'
<1> DEFINE D == DOMAIN entries
<1>1. PICK order \in Bijection(D, D) :
          /\ entries' = [k \in D |-> entries[order[k]]]
          /\ \A k, l \in D : k < l => entries'[k].name <= entries'[l].name
    BY DEF SortEntries
<1>2. /\ order \in [D -> D]
      /\ \A k, l \in D : order[k] = order[l] => k = l
      /\ \A l \in D : \E k \in D : order[k] = l
    BY <1>1 DEF Bijection, Injection, Surjection, IsInjective
<1>3. /\ entries \in Seq([name : Places, kind : Kinds \cup {"?"}])
      /\ D = 1 .. Len(entries) /\ Len(entries) \in Nat
    BY DEF ListInv, ListTypeOK
<1>4. entries' \in Seq([name : Places, kind : Kinds \cup {"?"}])
  <2> DEFINE Named == [name : Places, kind : Kinds \cup {"?"}]
  <2>1. entries \in Seq(Named) /\ order \in [DOMAIN entries -> DOMAIN entries]
      BY <1>2, <1>3
  <2> HIDE DEF Named
  <2>2. [k \in DOMAIN entries |-> entries[order[k]]] \in Seq(Named)
      BY <2>1, Reordered
  <2>3. QED
      BY <1>1, <2>2 DEF Named
<1>12. errors' \subseteq Places \cup {0} /\ errors \subseteq errors'
    BY DEF SortEntries, ListInv, ListTypeOK
<1>5. ListTypeOK'
    BY <1>4, <1>12 DEF SortEntries, ListInv, ListTypeOK
<1>6. DOMAIN entries' = D /\ \A k \in D : order[k] \in D /\ entries'[k] = entries[order[k]]
    BY <1>1, <1>2
<1> HIDE DEF D
<1>7. was' = was /\ listing' = "listed"
    BY DEF SortEntries
<1>8. AllTruly'
  <2>1. ASSUME NEW k \in D
        PROVE  LET f == entries'[k] IN
               IF f.kind = "?" THEN None \in was[f.name] \/ f.name \in errors'
                               ELSE f.kind \in was[f.name]
    <3>1. Truly(entries[order[k]])
        BY <1>6 DEF ListInv, D, AllTruly
    <3>2. QED
        BY <1>6, <1>12, <3>1 DEF Truly
  <2>2. QED
      BY <1>6, <1>7, <2>1 DEF AllTruly, Truly
<1>9. ASSUME NEW n \in Places, None \notin was'[n]
      PROVE  /\ 0 \notin errors' => \E j \in D : entries'[j].name = n
             /\ \A i, j \in D : entries'[i].name = n /\ entries'[j].name = n => i = j
  <2>1. Accounted(n) /\ reading = 0 /\ n # 0
      BY <1>9, <1>7 DEF SortEntries, ListInv, Places
  <2>2. Once(n) \/ Never(n)
      BY <2>1 DEF Accounted
  <2>3. 0 \notin errors' => Once(n)
      BY <2>1 DEF SortEntries, Accounted
  <2>4. ASSUME Once(n) PROVE \E j \in D : entries'[j].name = n
    <3>1. PICK k \in D : entries[k].name = n
        BY <2>4 DEF Once, D
    <3>2. PICK j \in D : order[j] = k
        BY <1>2
    <3>3. QED
        BY <1>6, <3>1, <3>2
  <2>5. \A i, j \in D : entries[i].name = n /\ entries[j].name = n => i = j
      BY <2>2 DEF Once, Never, D
  <2>6. ASSUME NEW i \in D, NEW j \in D, entries'[i].name = n, entries'[j].name = n
        PROVE  i = j
      BY <1>2, <1>6, <2>5, <2>6
  <2>7. QED
      BY <2>3, <2>4, <2>6
<1>10. ListedTruly'
    BY <1>1, <1>6, <1>8, <1>9 DEF ListedTruly, AllTruly, Truly
<1>11. QED
    BY <1>5, <1>6, <1>7, <1>8, <1>10 DEF ListInv

\* A name that was there all the time is none that others created or removed.
LEMMA AlterStep ==
    ASSUME ListInv, NEW n \in Places, NEW k \in Kinds \cup {None}, Alter(n, k)
    PROVE  ListInv'
<1>1. /\ was \in [Places -> SUBSET (Kinds \cup {None})]
      /\ content \in [Places -> Kinds \cup {None}]
      /\ listing = "loop" /\ unread \subseteq Places
    BY DEF Alter, ListInv, ListTypeOK
<1>2. /\ was' \in [Places -> SUBSET (Kinds \cup {None})]
      /\ content' \in [Places -> Kinds \cup {None}]
      /\ was'[n] = was[n] \cup {k} /\ content'[n] = k
      /\ \A m \in Places \ {n} : was'[m] = was[m] /\ content'[m] = content[m]
    BY <1>1 DEF Alter
<1>3. /\ unread' \subseteq Places
      /\ \A m \in Places \ {n} : m \in unread' <=> m \in unread
      /\ None \notin was'[n] => unread' = unread
  <2>1. content[n] \in was[n]
      BY <1>1 DEF ListInv
  <2>2. QED
      BY <1>1, <1>2, <2>1 DEF Alter
<1>4. ListTypeOK'
    BY <1>2, <1>3 DEF Alter, ListInv, ListTypeOK
<1>5. \A m \in Places : content'[m] \in was'[m]
    BY <1>1, <1>2 DEF ListInv
<1>6. ASSUME NEW m \in Places, None \notin was'[m]
      PROVE  Accounted(m)'
  <2>1. None \notin was[m]
      BY <1>2, <1>6
  <2>2. Accounted(m) /\ reading' = reading /\ entries' = entries
      BY <1>1, <2>1 DEF ListInv, Alter
  <2>3. m \in unread' <=> m \in unread
      BY <1>3, <1>6
  <2>4. QED
      BY <2>2, <2>3 DEF Accounted, Once, Never
<1>7. AllTruly'
  <2>1. entries' = entries /\ errors \subseteq errors'
      BY DEF Alter
  <2>2. \A m \in Places : was[m] \subseteq was'[m]
      BY <1>2
  <2>3. QED
      BY <2>1, <2>2, TrulyStays
<1>8. QED
    BY <1>1, <1>4, <1>5, <1>6, <1>7 DEF Alter, ListInv, ListedTruly

LEMMA StutterStep ==
    ASSUME ListInv, UNCHANGED listVars
    PROVE  ListInv'
BY DEF listVars, ListInv, ListTypeOK, ListedTruly, Accounted, Once, Never, AllTruly, Truly

AlterSome == \E n \in Places, k \in Kinds \cup {None} : Alter(n, k)

LEMMA ListStep ==
    ASSUME ListInv, [ListNext \/ AlterSome]_listVars
    PROVE  ListInv'
BY OpenStep, ReaddirStep, LstatStep, SortStep, AlterStep, StutterStep DEF ListNext, AlterSome

\* The entries listed so far, the one being read and those unread account for
\* all that stays in the directory, at every step of the loop.
THEOREM ListInductive == ListSpec => []ListInv
BY ListInitSound, ListStep, PTL DEF ListSpec, AlterSome

\* What is listed is true, whatever others do to the directory and however
\* often: an entry that is there all the time once, at most once if readdir()
\* fails, the names in order, of each entry what it was at some time, and none
\* without attributes but those gone at some time or failed by lstat()
\* (LsCommand::run).
THEOREM AlwaysListedTruly == ListSpec => []ListedTruly
<1>1. ListInv => ListedTruly
    BY DEF ListInv
<1>2. QED
    BY <1>1, ListInductive, PTL
=============================================================================
