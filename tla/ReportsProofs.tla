---------------------------- MODULE ReportsProofs ----------------------------
(***************************************************************************)
(* What the commands that report print, on any device and for any texts:    *)
(* what the detectors found, every property as it is, and JSON that reads   *)
(* back as the value that was written.                                     *)
(***************************************************************************)
EXTENDS Reports, DetectorProofs, TextProofs

-----------------------------------------------------------------------------
(* The inductive invariant *)

\* All that the command prints has been found.
Complete ==
    /\ case.cmd = "root" => stage = "exit"
    /\ case.cmd = "mounts" => TableRead
    /\ case.cmd = "ls" => listing \in {"listed", "failed"}
    /\ case.cmd \in {"props", "info"} => asked
    /\ case.cmd = "info" => RootDetected /\ TableRead

ReportInv ==
    /\ case \in Cases /\ json \in BOOLEAN /\ asked \in BOOLEAN
    /\ raw \in Seq(Chars) /\ code \in {-1, 0, 1}
    /\ asked /\ case.cmd = "info" => RootDetected /\ TableRead
    /\ case.cmd = "props" => raw \in {<<>>, Getprop(case.props)}
    /\ code # -1 => Complete
    /\ printed # <<>> => json /\ code # -1 /\ printed = Write(Value)

IInv == RootInv /\ RestInv /\ TableInv /\ ListInv /\ ReportInv

-----------------------------------------------------------------------------
(* The texts *)

LEMMA CaseIs ==
    ASSUME NEW c \in Cases
    PROVE  /\ c.cmd \in {"root", "mounts", "ls", "props", "info"}
           /\ c.there \subseteq Traces /\ c.table \in Tables
           /\ c.content \in [Places -> Kinds \cup {None}]
           /\ c.props \in Seq(PropType(Chars))
           /\ c.filter \in Seq(Chars) /\ c.model \in Seq(Chars) /\ c.overlay \in Seq(Chars)
           /\ \A k \in DOMAIN c.props : Keyed(c.props[k])
BY CasesAssumption DEF CaseType, PropType

LEMMA SymbolsIn == Symbols(Chars) /\ TextSymbols(Chars)
<1>1. "0001" \in Chars /\ "001f" \in Chars
    <2>1. "^A" \in DOMAIN Hex /\ "^_" \in DOMAIN Hex /\ Hex["^A"] = "0001" /\ Hex["^_"] = "001f"
        BY DEF Hex
    <2>2. QED
        BY <2>1, CharsAssumption
<1>2. QED
    BY <1>1, CharsAssumption DEF Symbols, TextSymbols, Words, Sep

LEMMA RawType ==
    ASSUME NEW c \in Cases
    PROVE  Getprop(c.props) \in Seq(Chars) /\ Stripped(Append(c.model, "\n")) \in Seq(Chars)
<1>1. Getprop(c.props) \in Seq(Chars)
    BY CaseIs, SymbolsIn, GetpropType
<1>2. "\n" \in Chars
    BY SymbolsIn DEF Symbols
<1>3. Append(c.model, "\n") \in Seq(Chars)
    BY <1>2, CaseIs, AppendProperties
<1>4. QED
    BY <1>1, <1>3, StrippedType

-----------------------------------------------------------------------------
(* Every step keeps it *)

LEMMA ReportInitSound == ReportInit => IInv
<1> SUFFICES ASSUME ReportInit PROVE IInv
    OBVIOUS
<1>1. RootInv /\ RestInv
    BY RootInitSound, RestInit DEF ReportInit
<1>2. TableInv /\ ListInv
    BY TableInitSound, ListInitSound DEF ReportInit
<1>3. ReportInv
    <2>1. <<>> \in Seq(Chars)
        BY EmptySeq
    <2>2. case \in Cases /\ asked = FALSE /\ raw = <<>> /\ printed = <<>> /\ code = -1
        BY DEF ReportInit
    <2>3. json \in BOOLEAN
        BY Zenon DEF ReportInit
    <2>4. QED
        BY <2>1, <2>2, <2>3 DEF ReportInv
<1>4. QED
    BY <1>1, <1>2, <1>3 DEF IInv

\* Whether the device or the directory changes, it is the one disturbance.
LEMMA DetectorsStep ==
    ASSUME IInv, [ReportNext]_reportVars
    PROVE  RootInv' /\ RestInv' /\ TableInv' /\ ListInv'
<1> USE DEF IInv
<1>1. ASSUME [Next]_vars PROVE RootInv' /\ RestInv'
    BY <1>1, RootStep, RestingStep
<1>2. ASSUME [TableNext]_tableVars PROVE TableInv'
    BY <1>2, TableStep
<1>3. ASSUME [ListNext \/ AlterSome]_listVars PROVE ListInv'
    BY <1>3, ListStep
<1>4. CASE DetectRoot
    BY <1>1, <1>2, <1>3, <1>4 DEF DetectRoot, Next
<1>5. CASE ShowRoot
    BY <1>1, <1>2, <1>3, <1>5 DEF ShowRoot, Next
<1>6. CASE ReadTable
    BY <1>1, <1>2, <1>3, <1>6 DEF ReadTable, rootVars
<1>7. CASE ShowMounts
    BY <1>1, <1>2, <1>3, <1>7 DEF ShowMounts, rootVars
<1>8. CASE List
    <2>1. UNCHANGED <<there, stayed, unheard, stage, next, provider, path, version, exit>>
          /\ UNCHANGED tableVars
        BY <1>8, Zenon DEF List
    <2>2. ListInv'
        BY <1>3, <1>8 DEF List, AlterSome
    <2>3. CASE UNCHANGED disturbed
        BY <1>1, <1>2, <2>1, <2>2, <2>3 DEF vars
    <2>4. CASE Disturb
        <3>1. disturbed' \in 0 .. MaxDisturbances
            BY <2>4, DisturbancesAssumption DEF RootInv, TypeOK, Disturb
        <3>2. TypeOK'
            BY <2>1, <3>1 DEF RootInv, TypeOK
        <3>3. RootInv'
            BY <2>1, <3>2 DEF RootInv, Passed, Covers, Located, Sure
        <3>4. RestInv'
            BY <2>4, Disturbed
        <3>5. QED
            BY <1>2, <2>1, <2>2, <3>3, <3>4
    <2>5. QED
        BY <1>8, <2>3, <2>4 DEF List
<1>9. CASE ShowListing
    BY <1>1, <1>2, <1>3, <1>9 DEF ShowListing, rootVars
<1>10. CASE CannotList
    BY <1>1, <1>2, <1>3, <1>10 DEF CannotList, rootVars
<1>11. CASE RunGetprop
    BY <1>1, <1>2, <1>3, <1>11 DEF RunGetprop, rootVars
<1>12. CASE ShowProps
    BY <1>1, <1>2, <1>3, <1>12 DEF ShowProps, rootVars
<1>13. CASE UNCHANGED reportVars
    BY <1>1, <1>2, <1>3, <1>13 DEF reportVars, rootVars
<1>14. QED
    BY <1>4, <1>5, <1>6, <1>7, <1>8, <1>9, <1>10, <1>11, <1>12, <1>13 DEF ReportNext

\* A command that has exited does nothing more.
LEMMA ExitEnds ==
    ASSUME IInv, ReportNext
    PROVE  code = -1
<1> SUFFICES ASSUME code # -1 PROVE FALSE
    OBVIOUS
<1>1. Complete
    BY DEF IInv, ReportInv
<1>2. case.cmd \in {"root", "mounts", "ls", "props", "info"}
    BY CaseIs DEF IInv, ReportInv
<1>3. TableTypeOK
    BY DEF IInv, TableInv
<1>4. ~DetectRoot /\ ~ShowRoot
    BY <1>1 DEF Complete, DetectRoot, ShowRoot, Detect, ProbeMiss, PipeFails, ProbeHit,
        ProbesEnd, CapturePath, CaptureVersion, Change, Report, Probing
<1>5. ~ReadTable
    <2>1. ~TableNext \/ ~TableRead
        BY <1>3, TablesAssumption DEF TableNext, Skip, Add, Replace, TableRead, TableTypeOK
    <2>2. QED
        BY <1>1, <2>1 DEF Complete, ReadTable, RootDetected
<1>6. ~List
    BY <1>1 DEF Complete, List, ListNext, OpenDir, OpenDirFails, Readdir, Lstat, SortEntries,
        Alter
<1>7. ~RunGetprop
    BY <1>1 DEF Complete, RunGetprop, RootDetected
<1>8. QED
    BY <1>4, <1>5, <1>6, <1>7 DEF ReportNext, ShowMounts, ShowListing, CannotList, ShowProps

\* What is printed depends on what was found only.
LEMMA ValueStays ==
    ASSUME UNCHANGED <<case, provider, path, version, result, entries, raw>>
    PROVE  Value' = Value
<1>1. Provider' = Provider /\ HasRoot' = HasRoot /\ RootPath' = RootPath /\ Version' = Version
    BY DEF Provider, HasRoot, RootPath, Version
<1>2. Partitions' = Partitions
    BY DEF Partitions
<1>3. Listing' = Listing
    BY DEF Listing
<1>4. Properties' = Properties
    BY DEF Properties, FoundProps
<1>5. Overlay' = Overlay
    BY DEF Overlay
<1>6. QED
    BY <1>1, <1>2, <1>3, <1>4, <1>5 DEF Value

LEMMA ShowStep ==
    ASSUME IInv, code = -1, NEW status \in {0, 1}, Show(status), Complete',
           UNCHANGED <<provider, path, version, result, entries>>,
           case.cmd = "info" => RootDetected' /\ TableRead'
    PROVE  ReportInv'
<1>1. /\ printed' = (IF json THEN Write(Value) ELSE <<>>) /\ code' = status
      /\ UNCHANGED <<case, json, asked, raw>>
    BY DEF Show
<1>2. Value' = Value
    BY <1>1, ValueStays
<1>3. printed' # <<>> => json' /\ code' # -1 /\ printed' = Write(Value')
    BY <1>1, <1>2
<1>4. /\ case' \in Cases /\ json' \in BOOLEAN /\ asked' \in BOOLEAN
      /\ raw' \in Seq(Chars)
      /\ case'.cmd = "props" => raw' \in {<<>>, Getprop(case'.props)}
    BY <1>1 DEF IInv, ReportInv
<1>5. code' \in {-1, 0, 1}
    BY <1>1
<1>6. QED
    BY <1>1, <1>3, <1>4, <1>5 DEF ReportInv

LEMMA ReportStep ==
    ASSUME IInv, [ReportNext]_reportVars
    PROVE  ReportInv'
<1> USE DEF IInv
<1>1. CASE UNCHANGED reportVars
    <2>1. /\ UNCHANGED <<case, provider, path, version, result, entries, raw>>
          /\ UNCHANGED <<stage, row, table, listing, json, asked, printed, code>>
        BY <1>1 DEF reportVars, rootVars, vars, tableVars, listVars, output
    <2>2. Value' = Value
        BY <2>1, ValueStays
    <2>3. QED
        BY <2>1, <2>2 DEF ReportInv, Complete, RootDetected, TableRead
<1>2. ASSUME ReportNext PROVE code = -1 /\ printed = <<>>
    BY <1>2, ExitEnds DEF ReportInv
<1>3. ASSUME UNCHANGED <<case, json, output>>, code = -1, printed = <<>>,
             asked /\ case.cmd = "info" => RootDetected' /\ TableRead'
      PROVE  ReportInv'
    BY <1>3 DEF ReportInv, output
<1>4. CASE DetectRoot
    <2>1. case.cmd = "info" => ~asked
        BY <1>4 DEF DetectRoot, ReportInv
    <2>2. QED
        BY <1>2, <1>3, <1>4, <2>1 DEF DetectRoot, ReportNext
<1>5. CASE ReadTable
    <2>1. case.cmd = "info" => ~asked
        BY <1>5, TablesAssumption DEF ReadTable, ReportInv, TableNext, Skip, Add, Replace,
            TableRead, TableInv, TableTypeOK
    <2>2. QED
        BY <1>2, <1>3, <1>5, <2>1 DEF ReadTable, ReportNext
<1>6. CASE List
    <2>1. case.cmd # "info" /\ UNCHANGED <<case, json, output>>
        BY <1>6, Zenon DEF List
    <2>2. QED
        BY <1>2, <1>3, <1>6, <2>1 DEF ReportNext
<1>7. CASE ShowRoot
    <2>1. PICK status : status = exit'
        OBVIOUS
    <2>2. /\ case.cmd = "root" /\ Show(status) /\ status \in {0, 1} /\ stage' = "exit"
          /\ UNCHANGED <<provider, path, version, result, entries>>
        BY <1>7, <2>1 DEF ShowRoot, Report, tableVars, listVars
    <2>3. Complete'
        BY <2>2 DEF Complete, Show
    <2>4. QED
        BY <1>2, <1>7, <2>2, <2>3, ShowStep DEF ReportNext
<1>8. CASE ShowMounts
    <2>1. PICK status \in {0, 1} : Show(status)
        BY <1>8 DEF ShowMounts
    <2>2. /\ case.cmd = "mounts" /\ TableRead
          /\ UNCHANGED <<provider, path, version, result, entries, row, table>>
        BY <1>8 DEF ShowMounts, rootVars, vars, tableVars, listVars
    <2>3. Complete'
        BY <2>1, <2>2 DEF Complete, Show, TableRead
    <2>4. QED
        BY <1>2, <1>8, <2>1, <2>2, <2>3, ShowStep DEF ReportNext
<1>9. CASE ShowListing
    <2>1. /\ case.cmd = "ls" /\ listing = "listed" /\ Show(0)
          /\ UNCHANGED <<provider, path, version, result, entries, listing>>
        BY <1>9 DEF ShowListing, rootVars, vars, tableVars, listVars
    <2>2. Complete'
        BY <2>1 DEF Complete, Show
    <2>3. QED
        BY <1>2, <1>9, <2>1, <2>2, ShowStep DEF ReportNext
<1>10. CASE CannotList
    <2>1. /\ case.cmd = "ls" /\ listing = "failed" /\ code' = 1
          /\ UNCHANGED <<case, json, asked, raw, printed, listing>>
        BY <1>10 DEF CannotList, listVars
    <2>2. printed' = <<>> /\ Complete'
        BY <1>2, <1>10, <2>1 DEF ReportNext, Complete
    <2>3. QED
        BY <2>1, <2>2 DEF ReportInv
<1>11. CASE RunGetprop
    <2>1. /\ case.cmd = "props" \/ (RootDetected /\ TableRead)
          /\ asked' = TRUE
          /\ raw' \in {<<>>, IF case.cmd = "props" THEN Getprop(case.props)
                             ELSE Stripped(Append(case.model, "\n"))}
          /\ UNCHANGED <<stage, row, table, case, json, printed, code>>
        BY <1>11 DEF RunGetprop, rootVars, vars, tableVars
    <2>2. raw' \in Seq(Chars)
        BY <2>1, RawType, EmptySeq DEF ReportInv
    <2>3. case.cmd = "info" => RootDetected' /\ TableRead'
        BY <2>1 DEF RootDetected, TableRead
    <2>4. code' = -1 /\ printed' = <<>>
        BY <1>2, <1>11, <2>1 DEF ReportNext
    <2>5. QED
        BY <2>1, <2>2, <2>3, <2>4 DEF ReportInv
<1>12. CASE ShowProps
    <2>1. /\ case.cmd \in {"props", "info"} /\ asked /\ Show(0)
          /\ UNCHANGED <<provider, path, version, result, entries, stage, row, table>>
        BY <1>12 DEF ShowProps, rootVars, vars, tableVars, listVars
    <2>2. case.cmd = "info" => RootDetected' /\ TableRead'
        BY <2>1 DEF ReportInv, RootDetected, TableRead, Show
    <2>3. Complete'
        BY <2>1, <2>2 DEF Complete, Show
    <2>4. QED
        BY <1>2, <1>12, <2>1, <2>2, <2>3, ShowStep DEF ReportNext
<1>13. QED
    BY <1>1, <1>4, <1>5, <1>6, <1>7, <1>8, <1>9, <1>10, <1>11, <1>12 DEF ReportNext

LEMMA ReportInductive == ReportSpec => []IInv
<1>1. IInv /\ [ReportNext]_reportVars => IInv'
    BY DetectorsStep, ReportStep DEF IInv
<1>2. QED
    BY <1>1, ReportInitSound, PTL DEF ReportSpec

-----------------------------------------------------------------------------
(* What is printed are values that Write() and a reader agree on *)

LEMMA OverGrows ==
    ASSUME NEW V, NEW W, NEW X, W \subseteq X
    PROVE  Over(V, W) \subseteq Over(V, X)
<1>1. Seq(W) \subseteq Seq(X) /\ Seq(Seq(V) \X W) \subseteq Seq(Seq(V) \X X)
    <2>1. Seq(V) \X W \subseteq Seq(V) \X X
        OBVIOUS
    <2>2. QED
        BY <2>1
<1>2. QED
    BY <1>1 DEF Over

LEMMA LevelsGrow ==
    ASSUME NEW V
    PROVE  Scalars(V) \subseteq Level1(V) /\ Level1(V) \subseteq Level2(V)
           /\ Level2(V) \subseteq Level3(V)
<1>1. Scalars(V) \subseteq Level1(V)
    BY DEF Level1, Over
<1>2. Level1(V) \subseteq Level2(V)
    BY <1>1, OverGrows DEF Level1, Level2
<1>3. Level2(V) \subseteq Level3(V)
    BY <1>2, OverGrows DEF Level2, Level3
<1>4. QED
    BY <1>1, <1>2, <1>3

LEMMA ObjectIn ==
    ASSUME NEW W, NEW pairs \in PairsOver(Chars, W)
    PROVE  Object(pairs) \in Over(Chars, W)
<1>1. PICK ms \in PairsOver(Chars, W) : Object(pairs) = <<"object", ms>>
    BY ObjectType
<1>2. QED
    BY <1>1 DEF Over, PairsOver

LEMMA ArrayIn ==
    ASSUME NEW W, NEW s \in Seq(W)
    PROVE  Array(s) \in Over(Chars, W)
BY DEF Array, Over

LEMMA ScalarIn ==
    /\ \A s \in Seq(Chars) : String(s) \in Scalars(Chars)
    /\ \A c \in Chars : <<c>> \in Seq(Chars) /\ String(<<c>>) \in Scalars(Chars)
    /\ \A b : Boolean(b) \in Scalars(Chars)
<1>1. \A s \in Seq(Chars) : String(s) \in Scalars(Chars)
    BY DEF String, Scalars
<1>2. \A c \in Chars : <<c>> \in Seq(Chars)
    BY OneCharacter
<1>3. ASSUME NEW b PROVE Boolean(b) \in Scalars(Chars)
    <2>1. (IF b THEN "true" ELSE "false") \in Words
        BY DEF Words
    <2>2. QED
        BY <2>1 DEF Boolean, Scalars
<1>4. QED
    BY <1>1, <1>2, <1>3

LEMMA PairIn ==
    ASSUME NEW W, NEW c \in Chars, NEW w \in W
    PROVE  <<<<c>>, w>> \in Seq(Chars) \X W
BY ScalarIn

LEMMA FewPairs ==
    ASSUME NEW S, NEW a \in S, NEW b \in S, NEW c \in S
    PROVE  <<a>> \in Seq(S) /\ <<a, b>> \in Seq(S) /\ <<a, b, c>> \in Seq(S)
OBVIOUS

LEMMA MappedSeq ==
    ASSUME NEW S, NEW W, NEW s \in Seq(S), NEW f, DOMAIN f = DOMAIN s,
           f = [k \in DOMAIN s |-> f[k]], \A k \in DOMAIN s : s[k] \in S => f[k] \in W
    PROVE  f \in Seq(W)
<1>1. DOMAIN s = 1 .. Len(s) /\ Len(s) \in Nat /\ \A k \in DOMAIN s : s[k] \in S
    BY ElementOfSeq, LenProperties
<1>2. QED
    BY <1>1

LEMMA PartitionsIn ==
    ASSUME TableTypeOK
    PROVE  Partitions \in Level2(Chars)
<1>1. ASSUME NEW p \in EntryType PROVE Partition(p) \in Level1(Chars)
    <2>1. "name" \in Chars /\ "read_only" \in Chars /\ "overlay" \in Chars /\ p.name \in Chars
        BY CharsAssumption DEF EntryType
    <2>2. PICK a, b, c : /\ a = <<<<"name">>, String(<<p.name>>)>>
                         /\ b = <<<<"read_only">>, Boolean(p.read_only)>>
                         /\ c = <<<<"overlay">>, Boolean(p.is_overlay)>>
        OBVIOUS
    <2>3. /\ a \in Seq(Chars) \X Scalars(Chars) /\ b \in Seq(Chars) \X Scalars(Chars)
          /\ c \in Seq(Chars) \X Scalars(Chars)
        BY <2>1, <2>2, ScalarIn, PairIn
    <2>4. <<a, b, c>> \in PairsOver(Chars, Scalars(Chars))
        BY <2>3, FewPairs DEF PairsOver
    <2>5. QED
        BY <2>2, <2>4, ObjectIn DEF Partition, Level1
<1>2. PICK f : f = [k \in DOMAIN result |-> Partition(result[k])]
    OBVIOUS
<1>3. result \in Seq(EntryType)
    BY DEF TableTypeOK
<1>4. f \in Seq(Level1(Chars))
    <2>1. DOMAIN f = DOMAIN result /\ f = [k \in DOMAIN result |-> f[k]]
          /\ \A k \in DOMAIN result : result[k] \in EntryType => f[k] \in Level1(Chars)
        BY <1>1, <1>2
    <2>2. QED
        BY <1>3, <2>1, MappedSeq
<1>5. QED
    BY <1>2, <1>4, ArrayIn DEF Partitions, Level2

LEMMA ListingIn ==
    ASSUME ListTypeOK
    PROVE  Listing \in Level2(Chars)
<1> DEFINE EntryOf == [name : Places, kind : Kinds \cup {"?"}]
           ObjectOf(e) == Object(<<<<<<"name">>, String(DirNames[e.name])>>>> \o Attributes(e))
<1>1. ASSUME NEW e \in EntryOf PROVE ObjectOf(e) \in Level1(Chars)
    <2>1. "name" \in Chars /\ "mode" \in Chars /\ "is_dir" \in Chars /\ "is_symlink" \in Chars
          /\ Kinds \subseteq Chars
        BY CharsAssumption
    <2>2. PICK a : a = <<<<"name">>, String(DirNames[e.name])>>
        OBVIOUS
    <2>3. DirNames[e.name] \in Seq(Chars)
        BY DirNamesAssumption, ElementOfSeq DEF Places
    <2>4. a \in Seq(Chars) \X Scalars(Chars)
        BY <2>1, <2>2, <2>3, ScalarIn, PairIn
    <2>5. Attributes(e) \in PairsOver(Chars, Scalars(Chars))
        <3>1. CASE e.kind = "?"
            BY <3>1, EmptySeq DEF Attributes, PairsOver
        <3>2. CASE e.kind # "?"
            <4>1. PICK b, c, d : /\ b = <<<<"mode">>, String(<<e.kind>>)>>
                                 /\ c = <<<<"is_dir">>, Boolean(e.kind = "d")>>
                                 /\ d = <<<<"is_symlink">>, Boolean(e.kind = "l")>>
                OBVIOUS
            <4>2. e.kind \in Chars
                BY <2>1, <3>2
            <4>3. /\ b \in Seq(Chars) \X Scalars(Chars) /\ c \in Seq(Chars) \X Scalars(Chars)
                  /\ d \in Seq(Chars) \X Scalars(Chars)
                BY <2>1, <4>1, <4>2, ScalarIn, PairIn
            <4>4. <<b, c, d>> \in PairsOver(Chars, Scalars(Chars))
                BY <4>3, FewPairs DEF PairsOver
            <4>5. QED
                BY <3>2, <4>1, <4>4 DEF Attributes
        <3>3. QED
            BY <3>1, <3>2
    <2>6. <<a>> \in PairsOver(Chars, Scalars(Chars))
        BY <2>4, FewPairs DEF PairsOver
    <2>7. PICK ps : ps = <<a>> \o Attributes(e)
        OBVIOUS
    <2>8. ps \in PairsOver(Chars, Scalars(Chars))
        BY <2>5, <2>6, <2>7, ConcatProperties DEF PairsOver
    <2>9. QED
        BY <2>2, <2>7, <2>8, ObjectIn DEF Level1
<1>2. PICK f : f = [k \in DOMAIN entries |-> ObjectOf(entries[k])]
    OBVIOUS
<1>3. entries \in Seq(EntryOf)
    BY DEF ListTypeOK
<1>4. Array(f) = Listing
    BY <1>2 DEF Listing
<1>5. f \in Seq(Level1(Chars))
    <2>1. DOMAIN f = DOMAIN entries /\ f = [k \in DOMAIN entries |-> f[k]]
          /\ \A k \in DOMAIN entries : entries[k] \in EntryOf => f[k] \in Level1(Chars)
        BY <1>1, <1>2
    <2> HIDE DEF EntryOf
    <2>2. QED
        BY <1>3, <2>1, MappedSeq
<1>6. QED
    BY <1>4, <1>5, ArrayIn DEF Level2

LEMMA FoundPropsIn ==
    ASSUME raw \in Seq(Chars)
    PROVE  FoundProps \in Seq(PropType(Chars))
BY PiecesType, FilteredType DEF FoundProps

LEMMA PropertiesIn ==
    ASSUME raw \in Seq(Chars)
    PROVE  Properties \in Level2(Chars)
<1> DEFINE ObjectOf(p) == Object(<<<<<<"key">>, String(p.key)>>, <<<<"value">>, String(p.value)>>>>)
<1>1. ASSUME NEW p \in PropType(Chars) PROVE ObjectOf(p) \in Level1(Chars)
    <2>1. "key" \in Chars /\ "value" \in Chars
        BY CharsAssumption
    <2>2. p.key \in Seq(Chars) /\ p.value \in Seq(Chars)
        BY DEF PropType
    <2>3. PICK a, b : a = <<<<"key">>, String(p.key)>> /\ b = <<<<"value">>, String(p.value)>>
        OBVIOUS
    <2>4. a \in Seq(Chars) \X Scalars(Chars) /\ b \in Seq(Chars) \X Scalars(Chars)
        BY <2>1, <2>2, <2>3, ScalarIn, PairIn
    <2>5. <<a, b>> \in PairsOver(Chars, Scalars(Chars))
        BY <2>4, FewPairs DEF PairsOver
    <2>6. QED
        BY <2>3, <2>5, ObjectIn DEF Level1
<1>2. PICK s, f : s = FoundProps /\ f = [k \in DOMAIN s |-> ObjectOf(s[k])]
    OBVIOUS
<1>3. s \in Seq(PropType(Chars))
    BY <1>2, FoundPropsIn
<1>4. Array(f) = Properties
    BY <1>2 DEF Properties
<1>5. f \in Seq(Level1(Chars))
    <2>1. DOMAIN f = DOMAIN s /\ f = [k \in DOMAIN s |-> f[k]]
          /\ \A k \in DOMAIN s : s[k] \in PropType(Chars) => f[k] \in Level1(Chars)
        BY <1>1, <1>2
    <2>2. QED
        BY <1>3, <2>1, MappedSeq
<1>6. QED
    BY <1>4, <1>5, ArrayIn DEF Level2

LEMMA RootIn ==
    ASSUME TypeOK
    PROVE  /\ Provider \in PairsOver(Chars, Scalars(Chars))
           /\ HasRoot \in PairsOver(Chars, Scalars(Chars))
           /\ RootPath \in PairsOver(Chars, Scalars(Chars))
           /\ Version \in PairsOver(Chars, Scalars(Chars))
<1>1. /\ "provider" \in Chars /\ "has_root" \in Chars /\ "is_root_uid" \in Chars
      /\ "binary_path" \in Chars /\ "path" \in Chars /\ "version" \in Chars /\ provider \in Chars
    BY CharsAssumption DEF TypeOK
<1>2. PICK p, v : /\ p = (IF path THEN <<"path">> ELSE <<>>)
                  /\ v = (IF version THEN <<"version">> ELSE <<>>)
    OBVIOUS
<1>3. p \in Seq(Chars) /\ v \in Seq(Chars)
    <2>1. <<"path">> \in Seq(Chars) /\ <<"version">> \in Seq(Chars) /\ <<>> \in Seq(Chars)
        BY <1>1, ScalarIn, EmptySeq
    <2>2. QED
        BY <1>2, <2>1, Zenon
<1>4. PICK a, b, u, c, d : /\ a = <<<<"provider">>, String(<<provider>>)>>
                           /\ b = <<<<"has_root">>, Boolean(provider # "NONE")>>
                           /\ u = <<<<"is_root_uid">>, Boolean(case.root)>>
                           /\ c = <<<<"binary_path">>, String(p)>>
                           /\ d = <<<<"version">>, String(v)>>
    OBVIOUS
<1>5. /\ a \in Seq(Chars) \X Scalars(Chars) /\ b \in Seq(Chars) \X Scalars(Chars)
      /\ u \in Seq(Chars) \X Scalars(Chars)
      /\ c \in Seq(Chars) \X Scalars(Chars) /\ d \in Seq(Chars) \X Scalars(Chars)
    BY <1>1, <1>3, <1>4, ScalarIn, PairIn
<1>6. /\ <<a>> \in PairsOver(Chars, Scalars(Chars)) /\ <<b>> \in PairsOver(Chars, Scalars(Chars))
      /\ <<u, c>> \in PairsOver(Chars, Scalars(Chars))
      /\ <<d>> \in PairsOver(Chars, Scalars(Chars))
    BY <1>5, FewPairs DEF PairsOver
<1>7. Provider = <<a>> /\ HasRoot = <<b>> /\ RootPath = <<u, c>> /\ Version = <<d>>
    BY <1>2, <1>4 DEF Provider, HasRoot, RootPath, Version
<1>8. QED
    BY <1>6, <1>7

\* The members about root, as the root command and as info order them.
RootMembers == HasRoot \o Provider \o RootPath \o Version
InfoMembers == Provider \o HasRoot \o RootPath

LEMMA MembersIn ==
    ASSUME TypeOK
    PROVE  /\ RootMembers \in PairsOver(Chars, Scalars(Chars))
           /\ InfoMembers \in PairsOver(Chars, Scalars(Chars))
<1>1. PICK P : P = Seq(Chars) \X Scalars(Chars)
    OBVIOUS
<1>2. /\ Provider \in Seq(P) /\ HasRoot \in Seq(P) /\ RootPath \in Seq(P) /\ Version \in Seq(P)
    BY <1>1, RootIn DEF PairsOver
<1>3. \A s, t \in Seq(P) : s \o t \in Seq(P)
    BY ConcatProperties
<1>4. RootMembers \in Seq(P) /\ InfoMembers \in Seq(P)
    BY <1>2, <1>3, Zenon DEF RootMembers, InfoMembers
<1>5. QED
    BY <1>1, <1>4 DEF PairsOver

LEMMA OverlayIn ==
    ASSUME case \in Cases
    PROVE  Overlay \in PairsOver(Chars, Scalars(Chars))
<1>1. "overlayfs_active" \in Chars /\ "overlay_module" \in Chars /\ case.overlay \in Seq(Chars)
    BY CharsAssumption, CaseIs
<1>2. PICK a, b, o : /\ a = <<<<"overlayfs_active">>, Boolean(case.overlay # <<>>)>>
                     /\ b = <<<<"overlay_module">>, String(case.overlay)>>
                     /\ o = IF case.overlay = <<>> THEN <<>> ELSE <<b>>
    OBVIOUS
<1>3. a \in Seq(Chars) \X Scalars(Chars) /\ b \in Seq(Chars) \X Scalars(Chars)
    BY <1>1, <1>2, ScalarIn, PairIn
<1>4. <<a>> \in PairsOver(Chars, Scalars(Chars)) /\ <<b>> \in PairsOver(Chars, Scalars(Chars))
      /\ <<>> \in PairsOver(Chars, Scalars(Chars))
    BY <1>3, FewPairs, EmptySeq DEF PairsOver
<1>5. o \in PairsOver(Chars, Scalars(Chars))
    BY <1>2, <1>4
<1>6. <<a>> \o o \in PairsOver(Chars, Scalars(Chars))
    BY <1>4, <1>5, ConcatProperties DEF PairsOver
<1>7. Overlay = <<a>> \o o
    BY <1>2 DEF Overlay
<1>8. QED
    BY <1>6, <1>7

LEMMA PairsGrow ==
    ASSUME NEW W, NEW X, W \subseteq X
    PROVE  PairsOver(Chars, W) \subseteq PairsOver(Chars, X)
<1>1. Seq(Chars) \X W \subseteq Seq(Chars) \X X
    OBVIOUS
<1>2. QED
    BY <1>1 DEF PairsOver

\* A value is never deeper than Write() goes.
LEMMA ValueIn ==
    ASSUME case \in Cases, raw \in Seq(Chars), TypeOK, TableTypeOK, ListTypeOK
    PROVE  Value \in Level3(Chars)
<1>1. /\ Partitions \in Level2(Chars) /\ Listing \in Level2(Chars)
      /\ Properties \in Level2(Chars)
    BY PartitionsIn, ListingIn, PropertiesIn
<1>2. /\ RootMembers \in PairsOver(Chars, Scalars(Chars))
      /\ InfoMembers \in PairsOver(Chars, Scalars(Chars))
      /\ Overlay \in PairsOver(Chars, Scalars(Chars))
    BY MembersIn, OverlayIn
<1>3. Object(InfoMembers) \in Level1(Chars) /\ Object(RootMembers) \in Level1(Chars)
    BY <1>2, ObjectIn DEF Level1
<1> DEFINE Some == <<<<<<"model">>, String(raw)>>, <<<<"root">>, Object(InfoMembers)>>,
                     <<<<"partitions">>, Partitions>>>>
<1>4. Object(Some \o Overlay) \in Level3(Chars)
    <2>1. "model" \in Chars /\ "root" \in Chars /\ "partitions" \in Chars
        BY CharsAssumption
    <2>2. /\ String(raw) \in Level2(Chars) /\ Object(InfoMembers) \in Level2(Chars)
          /\ Scalars(Chars) \subseteq Level2(Chars)
        BY <1>3, ScalarIn, LevelsGrow
    <2>3. PICK a, b, c : /\ a = <<<<"model">>, String(raw)>>
                         /\ b = <<<<"root">>, Object(InfoMembers)>>
                         /\ c = <<<<"partitions">>, Partitions>>
        OBVIOUS
    <2>4. /\ a \in Seq(Chars) \X Level2(Chars) /\ b \in Seq(Chars) \X Level2(Chars)
          /\ c \in Seq(Chars) \X Level2(Chars)
        BY <1>1, <2>1, <2>2, <2>3, PairIn
    <2>5. <<a, b, c>> \in PairsOver(Chars, Level2(Chars)) /\ Some = <<a, b, c>>
        BY <2>3, <2>4, FewPairs DEF PairsOver
    <2>6. Overlay \in PairsOver(Chars, Level2(Chars))
        BY <1>2, <2>2, PairsGrow
    <2> HIDE DEF Some
    <2>7. Some \o Overlay \in PairsOver(Chars, Level2(Chars))
        BY <2>5, <2>6, ConcatProperties DEF PairsOver
    <2>8. QED
        BY <2>7, ObjectIn DEF Level3
<1>5. case.cmd \in {"root", "mounts", "ls", "props", "info"}
    BY CaseIs
<1>6. Value \in {Object(RootMembers), Partitions, Listing, Properties,
                 Object(Some \o Overlay)}
    <2> HIDE DEF Some
    <2>1. PICK r, i : r = Object(RootMembers) /\ i = Object(Some \o Overlay)
        OBVIOUS
    <2>2. Value \in {r, Partitions, Listing, Properties, i}
        BY <1>5, <2>1 DEF Value, Some, RootMembers, InfoMembers
    <2>3. QED
        BY <2>1, <2>2
<1> HIDE DEF Some
<1>7. QED
    BY <1>1, <1>3, <1>4, <1>6, LevelsGrow

-----------------------------------------------------------------------------
(* The theorems *)

\* Every variable of every command that reports keeps its type: what getprop
\* printed is text, and the exit code is 0 or 1 (cmd_root.cpp, cmd_mounts.cpp,
\* cmd_ls.cpp, cmd_props.cpp, cmd_info.cpp).
THEOREM ReportTypeCorrect == ReportSpec => []ReportTypeOK
<1>1. IInv => ReportTypeOK
    BY DEF IInv, RootInv, TableInv, ListInv, ReportInv, ReportTypeOK
<1>2. QED
    BY <1>1, ReportInductive, PTL

\* Whatever characters property values and file, module and partition names are
\* made of, a JSON reader makes of the text --json prints the value that
\* the command found, for root, mounts, ls, props and info (json.cpp).
THEOREM JsonAlwaysReadsBack == ReportSpec => []JsonReadsBack
<1>1. IInv => JsonReadsBack
    <2>1. SUFFICES ASSUME IInv, printed # <<>> PROVE Means(printed, Value)
        BY DEF JsonReadsBack
    <2>2. printed = Write(Value)
        BY <2>1 DEF IInv, ReportInv
    <2>3. Value \in Level3(Chars)
        BY <2>1, ValueIn DEF IInv, RootInv, TableInv, ListInv, ReportInv
    <2>4. QED
        BY <2>2, <2>3, SymbolsIn, WrittenMeans
<1>2. QED
    BY <1>1, ReportInductive, PTL

\* props lists every property with one line that matches the filter as it is,
\* whatever stands around it, and nothing else if all have one
\* (parse_getprop_output).
THEOREM PropsAlwaysExact == ReportSpec => []PropsExact
<1>1. IInv => PropsExact
    <2>1. SUFFICES ASSUME IInv, case.cmd = "props", raw # <<>>
                   PROVE  /\ \A p \in ToSet(case.props) :
                                 OneLine(p) /\ Matches(p, case.filter) => p \in ToSet(FoundProps)
                          /\ (\A p \in ToSet(case.props) : OneLine(p)) =>
                                 FoundProps = Filtered(case.props, case.filter)
        BY DEF PropsExact
    <2>2. PICK ps, found : ps = case.props /\ found = parse_getprop_output(raw)
        OBVIOUS
    <2>3. /\ raw = Getprop(ps) /\ raw \in Seq(Chars) /\ ps \in Seq(PropType(Chars))
          /\ \A k \in DOMAIN ps : Keyed(ps[k])
        BY <2>1, <2>2, CaseIs DEF IInv, ReportInv
    <2>4. found \in Seq(PropType(Chars)) /\ Symbols(Chars)
        BY <2>2, <2>3, PiecesType, SymbolsIn
    <2>5. ToSet(ps) = {ps[k] : k \in 1 .. Len(ps)} /\ DOMAIN ps = 1 .. Len(ps)
        BY <2>3, LenProperties DEF ToSet
    <2>6. ToSet(found) = {found[k] : k \in 1 .. Len(found)}
        BY <2>4, LenProperties DEF ToSet
    <2>7. ASSUME NEW p \in ToSet(ps), OneLine(p), Matches(p, case.filter)
          PROVE  p \in ToSet(FoundProps)
        <3>1. PICK k \in 1 .. Len(ps) : p = ps[k]
            BY <2>5
        <3>2. p \in ToSet(found)
            BY <2>2, <2>3, <2>4, <2>5, <2>7, <3>1, PropRead
        <3>3. PICK l \in 1 .. Len(found) : p = found[l]
            BY <2>6, <3>2
        <3>4. found[l] \in ToSet(Filtered(found, case.filter))
            BY <2>4, <2>7, <3>3, FilterKeeps
        <3>5. QED
            BY <2>2, <3>3, <3>4 DEF FoundProps
    <2>8. ASSUME \A p \in ToSet(ps) : OneLine(p)
          PROVE  FoundProps = Filtered(ps, case.filter)
        <3>1. AllPlain(ps)
            BY <2>3, <2>5, <2>8 DEF AllPlain
        <3>2. found = ps
            BY <2>2, <2>3, <2>4, <3>1, PropsRead
        <3>3. QED
            BY <2>2, <3>2 DEF FoundProps
    <2>9. QED
        BY <2>2, <2>7, <2>8
<1>2. QED
    BY <1>1, ReportInductive, PTL

\* What detect() finds when root, and info before it goes on to the partitions,
\* is done with it: a provider whose trace was there all the time and was not
\* asked for in vain, its path, and on a device at rest exactly the cascade's.
\* No step of what info does then changes it.
THEOREM ReportsWhatStays == ReportSpec => [](StayingFound /\ RestingExact /\ PathFound)
<1>1. IInv => StayingFound /\ RestingExact /\ PathFound
    BY RootEnough, RestEnough, PathEnough DEF IInv
<1>2. QED
    BY <1>1, ReportInductive, PTL

\* mounts and info print of each partition its topmost mount, once.
THEOREM ReportsTopmost == ReportSpec => [](OneEntryEach /\ TopmostReported)
<1>1. IInv => OneEntryEach /\ TopmostReported
    BY DEF IInv, TableInv
<1>2. QED
    BY <1>1, ReportInductive, PTL

\* ls prints what was true, though others alter the directory and lstat() and
\* readdir() may fail: it leaves an entry that stays out only if readdir() does.
THEOREM ReportsTruly == ReportSpec => []ListedTruly
<1>1. IInv => ListedTruly
    BY DEF IInv, ListInv
<1>2. QED
    BY <1>1, ReportInductive, PTL
=============================================================================
