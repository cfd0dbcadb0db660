-------------------------- MODULE BootOverlayProofs --------------------------
(***************************************************************************)
(* Overlays are never stacked, for any modules and any number of boots.     *)
(***************************************************************************)
EXTENDS BootOverlay, SequenceTheorems, TLAPS

LEMMA SystemMountType == ASSUME NEW m PROVE SystemMount(m) \in Points
BY DEF SystemMount, Points

LEMMA PairIsAppend ==
    ASSUME NEW a, NEW b PROVE Append(<<a>>, b) = <<a, b>>
<1>1. /\ <<a>> \in Seq({a, b}) /\ <<a, b>> \in Seq({a, b})
      /\ Len(<<a>>) = 1 /\ Len(<<a, b>>) = 2
    OBVIOUS
<1>2. <<a>>[1] = a /\ <<a, b>>[1] = a /\ <<a, b>>[2] = b
    OBVIOUS
<1> DEFINE both == Append(<<a>>, b)
<1>3. both \in Seq({a, b}) /\ Len(both) = 2 /\ both[1] = a /\ both[2] = b
    BY <1>1, <1>2, AppendProperties
<1> HIDE DEF both
<1>4. \A i \in 1 .. Len(both) : both[i] = <<a, b>>[i]
    <2>1. ASSUME NEW i \in 1 .. Len(both) PROVE i = 1 \/ i = 2
        BY <1>3, <2>1
    <2>2. QED
        BY <1>2, <1>3, <2>1
<1>5. both = <<a, b>>
    BY <1>1, <1>3, <1>4, SeqEqual
<1>6. QED
    BY <1>5 DEF both

\* A mount point without an overlay has its partition only.
LEMMA Bare ==
    ASSUME AtMostOneOverlay, NEW point \in Points, Overlays(point) = {}
    PROVE  mounts[point] = <<Base>>
<1>1. ASSUME NEW m \in OverlayModules, mounts[point] = <<Base, m>> PROVE FALSE
    <2>1. Len(mounts[point]) = 2 /\ mounts[point][2] = m /\ m # Base
        BY <1>1, ModulesAssumption DEF OverlayModules
    <2>2. 2 \in Overlays(point)
        BY <2>1 DEF Overlays
    <2>3. QED
        BY <2>2
<1>2. QED
    BY <1>1 DEF AtMostOneOverlay

\* umount leaves the partition.
LEMMA Unmounted ==
    ASSUME AtMostOneOverlay, NEW point \in Points, Top(point) # Base
    PROVE  SubSeq(mounts[point], 1, Len(mounts[point]) - 1) = <<Base>>
<1>1. PICK m \in OverlayModules : mounts[point] = <<Base, m>>
    BY DEF AtMostOneOverlay, Top
<1>2. SubSeq(<<Base, m>>, 1, 1) = <<Base>>
    <2>1. <<Base, m>> \in Seq({Base, m}) /\ <<Base>> \in Seq({Base, m})
        OBVIOUS
    <2> DEFINE rest == SubSeq(<<Base, m>>, 1, 1)
    <2>2. rest \in Seq({Base, m}) /\ Len(rest) = 1 /\ rest[1] = <<Base, m>>[1]
        BY <2>1
    <2>3. rest[1] = Base /\ Len(<<Base>>) = 1 /\ <<Base>>[1] = Base
        BY <2>2
    <2>4. \A i \in 1 .. Len(rest) : rest[i] = <<Base>>[i]
        BY <2>2, <2>3
    <2> HIDE DEF rest
    <2>5. rest = <<Base>>
        BY <2>1, <2>2, <2>3, <2>4, SeqEqual
    <2>6. QED
        BY <2>5 DEF rest
<1>3. QED
    BY <1>1, <1>2

LEMMA NextSound ==
    ASSUME TypeOK, AtMostOneOverlay, [Next]_vars
    PROVE  AtMostOneOverlay'
<1> USE DEF TypeOK
<1>1. SUFFICES ASSUME NEW point \in Points
               PROVE  \/ mounts'[point] = <<Base>>
                      \/ \E m \in OverlayModules : /\ mounts'[point] = <<Base, m>>
                                            /\ SystemMount(m)' = point
    BY DEF AtMostOneOverlay
<1>2. \A m \in OverlayModules : SystemMount(m)' = SystemMount(m)
    BY DEF Next, BootStep, Boot, PostFsDataSkips, PostFsDataMounts, Service, LateStart, Up,
        Rewrite, Toggle, settled, vars, SystemMount
<1>3. CASE UNCHANGED mounts
    BY <1>2, <1>3 DEF AtMostOneOverlay
<1>4. CASE Boot
    BY <1>4 DEF Boot, Factory
<1>5. ASSUME NEW m \in OverlayModules, PostFsDataMounts(m), mounts' # mounts
      PROVE  mounts'[point] = mounts[point] \/
             (mounts'[point] = <<Base, m>> /\ SystemMount(m) = point)
    <2>1. mounts' = [mounts EXCEPT ![SystemMount(m)] = Append(@, m)]
        BY <1>5 DEF PostFsDataMounts
    <2>2. mounts[SystemMount(m)] = <<Base>>
        BY <1>5, Bare, SystemMountType DEF PostFsDataMounts, AlreadyMounted
    <2>3. mounts'[SystemMount(m)] = <<Base, m>>
        <3>1. mounts'[SystemMount(m)] = Append(<<Base>>, m)
            BY <2>1, <2>2, SystemMountType
        <3>2. Append(<<Base>>, m) = <<Base, m>>
            BY PairIsAppend
        <3>3. QED
            BY <3>1, <3>2
    <2>4. CASE point = SystemMount(m)
        BY <2>3, <2>4
    <2>5. CASE point # SystemMount(m)
        BY <2>1, <2>5
    <2>6. QED
        BY <2>4, <2>5
<1>6. ASSUME NEW m \in OverlayModules, Service(m)
      PROVE  mounts'[point] = mounts[point] \/ mounts'[point] = <<Base>>
    BY <1>6, Unmounted DEF Service
<1>7. QED
    BY <1>2, <1>3, <1>4, <1>5, <1>6
    DEF AtMostOneOverlay, Next, BootStep, PostFsDataSkips, LateStart, Up,
        Rewrite, Toggle, vars

LEMMA NextType ==
    ASSUME TypeOK, AtMostOneOverlay, [Next]_vars
    PROVE  TypeOK'
<1> USE DEF TypeOK
<1>1. CASE UNCHANGED vars
    BY <1>1 DEF vars
<1>2. CASE Boot
    BY <1>2, MaxBootsAssumption DEF Boot, Factory, Points
<1>3. ASSUME NEW m \in OverlayModules, PostFsDataSkips(m) PROVE TypeOK'
    BY <1>3 DEF PostFsDataSkips, settled
<1>4. ASSUME NEW m \in OverlayModules, PostFsDataMounts(m) PROVE TypeOK'
    <2>1. mounts' \in [Points -> Seq(OverlayModules \cup {Base})]
        <3>1. Append(mounts[SystemMount(m)], m) \in Seq(OverlayModules \cup {Base})
            BY SystemMountType
        <3>2. QED
            BY <1>4, <3>1 DEF PostFsDataMounts
    <2>2. QED
        BY <1>4, <2>1 DEF PostFsDataMounts, settled
<1>5. ASSUME NEW m \in OverlayModules, Service(m) PROVE TypeOK'
    <2>1. mounts' \in [Points -> Seq(OverlayModules \cup {Base})]
        <3>1. <<Base>> \in Seq(OverlayModules \cup {Base})
            OBVIOUS
        <3>2. CASE UNCHANGED mounts
            BY <3>2
        <3>3. CASE mounts' # mounts
            <4>1. mounts' = [mounts EXCEPT ![SystemMount(m)] = <<Base>>]
                BY <1>5, <3>3, Unmounted, SystemMountType DEF Service
            <4>2. QED
                BY <3>1, <4>1
        <3>4. QED
            BY <3>2, <3>3
    <2>2. QED
        BY <1>5, <2>1 DEF Service, settled
<1>6. CASE LateStart \/ Up
    BY <1>6 DEF LateStart, Up, settled
<1>7. ASSUME NEW m \in OverlayModules, Rewrite(m) \/ Toggle(m)
      PROVE  TypeOK'
    BY <1>7 DEF Rewrite, Toggle, Scripts
<1>8. QED
    BY <1>1, <1>2, <1>3, <1>4, <1>5, <1>6, <1>7 DEF Next, BootStep

LEMMA Inductive == Spec => [](TypeOK /\ AtMostOneOverlay)
<1>1. Init => TypeOK /\ AtMostOneOverlay
    BY MaxBootsAssumption DEF Init, TypeOK, AtMostOneOverlay, Factory, Points, Scripts
<1>2. TypeOK /\ AtMostOneOverlay /\ [Next]_vars => (TypeOK /\ AtMostOneOverlay)'
    BY NextSound, NextType
<1>3. QED
    BY <1>1, <1>2, PTL DEF Spec

\* Every variable keeps its type, at every step of every boot.
THEOREM TypeCorrect == Spec => []TypeOK
BY Inductive, PTL

\* Whatever modules of either kind there are, and however mounts and umounts
\* turn out, no mount point has two overlays: the grep in post-fs-data.sh
\* suffices (cmd_overlayfs.cpp, build-magisk-overlay.sh).
THEOREM NeverStacked == Spec => []AtMostOneOverlay
BY Inductive, PTL
=============================================================================
