----------------------------- MODULE TextProofs -----------------------------
(***************************************************************************)
(* What props reads out of getprop's output, and what a JSON reader makes   *)
(* of the text that JsonValue writes, for texts of any length.             *)
(*                                                                         *)
(* Induction is over sets: a set of numbers with 0 and every successor, a  *)
(* set of sequences with <<>> and every longer one.                        *)
(***************************************************************************)
EXTENDS Props, Json, SequenceTheorems, WellFoundedInduction, TLAPS

-----------------------------------------------------------------------------
(* Induction *)

Below == {ss \in Nat \X Nat : ss[1] < ss[2]}

LEMMA SmallestIn ==
    ASSUME NEW T \in SUBSET Nat, T # {}
    PROVE  \E x \in T : \A y \in T : x <= y
<1>1. IsWellFoundedOn(Below, Nat)
    BY NatLessThanWellFounded DEF OpToRel, Below
<1>2. PICK x \in T : \A y \in T : <<y, x>> \notin Below
    BY <1>1, WFMin
<1>3. ASSUME NEW y \in T PROVE x <= y
    <2>1. <<y, x>> \in Nat \X Nat /\ <<y, x>>[1] = y /\ <<y, x>>[2] = x
        OBVIOUS
    <2>2. ~(y < x)
        BY <1>2, <2>1 DEF Below
    <2>3. QED
        BY <2>2
<1>4. QED
    BY <1>3

LEMMA NatSet ==
    ASSUME NEW T, 0 \in T, \A n \in Nat : n \in T => n + 1 \in T
    PROVE  Nat \subseteq T
<1>1. SUFFICES ASSUME Nat \ T # {} PROVE FALSE
    OBVIOUS
<1>2. PICK m \in Nat \ T : \A y \in Nat \ T : m <= y
    BY <1>1, SmallestIn, Nat \ T \in SUBSET Nat
<1>3. m # 0 /\ m - 1 \in Nat /\ m - 1 \notin Nat \ T /\ (m - 1) + 1 = m
    BY <1>2
<1>4. QED
    BY <1>2, <1>3

\* Sequences that grow at their end.
LEMMA SeqSet ==
    ASSUME NEW V, NEW T, <<>> \in T,
           \A s \in Seq(V), e \in V : s \in T => Append(s, e) \in T
    PROVE  Seq(V) \subseteq T
<1> DEFINE N == {n \in Nat : \A s \in Seq(V) : Len(s) = n => s \in T}
<1>1. 0 \in N
    BY EmptySeq
<1>2. ASSUME NEW n \in Nat, n \in N PROVE n + 1 \in N
    <2>1. ASSUME NEW s \in Seq(V), Len(s) = n + 1 PROVE s \in T
        <3>1. PICK r \in Seq(V), e \in V : s = Append(r, e)
            BY <2>1, SequenceEmptyOrAppend, EmptySeq
        <3>2. Len(r) = n
            BY <2>1, <3>1, LenProperties, AppendProperties
        <3>3. QED
            BY <1>2, <3>1, <3>2
    <2>2. QED
        BY <2>1
<1> HIDE DEF N
<1>3. Nat \subseteq N
    BY <1>1, <1>2, NatSet
<1>4. QED
    BY <1>3, LenProperties DEF N

\* Sequences that grow at their beginning.
LEMMA SeqSetFront ==
    ASSUME NEW V, NEW T, <<>> \in T,
           \A s \in Seq(V), e \in V : s \in T => <<e>> \o s \in T
    PROVE  Seq(V) \subseteq T
<1> DEFINE N == {n \in Nat : \A s \in Seq(V) : Len(s) = n => s \in T}
<1>1. 0 \in N
    BY EmptySeq
<1>2. ASSUME NEW n \in Nat, n \in N PROVE n + 1 \in N
    <2>1. ASSUME NEW s \in Seq(V), Len(s) = n + 1 PROVE s \in T
        <3>1. s # <<>> /\ Len(s) \in Nat /\ 1 \in 1 .. Len(s) /\ Len(s) \in 1 .. Len(s)
            BY <2>1, EmptySeq
        <3>2. Head(s) \in V /\ Tail(s) \in Seq(V) /\ Len(Tail(s)) = n
            BY <2>1, <3>1, HeadTailProperties
        <3>3. s = <<Head(s)>> \o Tail(s)
            <4>1. s = SubSeq(s, 1, Len(s))
                BY SubSeqFull
            <4>2. SubSeq(s, 1, Len(s)) = <<s[1]>> \o SubSeq(s, 2, Len(s))
                BY <3>1, SubSeqRecursiveFirst
            <4>3. Tail(s) = SubSeq(s, 2, Len(s)) /\ Head(s) = s[1]
                BY <3>1, TailIsSubSeq
            <4>4. QED
                BY <4>1, <4>2, <4>3
        <3>4. QED
            BY <1>2, <3>2, <3>3
    <2>2. QED
        BY <2>1
<1> HIDE DEF N
<1>3. Nat \subseteq N
    BY <1>1, <1>2, NatSet
<1>4. QED
    BY <1>3, LenProperties DEF N

-----------------------------------------------------------------------------
(* Sequences *)

\* ConcatProperties, counted from the beginning of each part.
LEMMA ConcatParts ==
    ASSUME NEW V, NEW s \in Seq(V), NEW t \in Seq(V), NEW n, NEW m, n = Len(s), m = Len(t)
    PROVE  /\ s \o t \in Seq(V) /\ Len(s \o t) = n + m /\ n \in Nat /\ m \in Nat
           /\ \A i \in 1 .. n : (s \o t)[i] = s[i]
           /\ \A i \in 1 .. m : (s \o t)[n + i] = t[i]
<1>1. n \in Nat /\ m \in Nat
    BY LenProperties
<1>2. /\ s \o t \in Seq(V) /\ Len(s \o t) = n + m
      /\ \A i \in 1 .. n + m : (s \o t)[i] = IF i <= n THEN s[i] ELSE t[i - n]
    BY ConcatProperties
<1>3. ASSUME NEW i \in 1 .. n PROVE (s \o t)[i] = s[i]
    BY <1>1, <1>2
<1>4. ASSUME NEW i \in 1 .. m PROVE (s \o t)[n + i] = t[i]
    <2>1. PICK j : j = n + i
        OBVIOUS
    <2>2. j \in 1 .. n + m /\ ~(j <= n) /\ j - n = i
        BY <1>1, <2>1
    <2>3. QED
        BY <1>2, <2>1, <2>2
<1>5. QED
    BY <1>1, <1>2, <1>3, <1>4


\* A sequence around one of its places.
LEMMA SplitAround ==
    ASSUME NEW V, NEW s \in Seq(V), NEW k \in 1 .. Len(s)
    PROVE  s = SubSeq(s, 1, k - 1) \o (<<s[k]>> \o SubSeq(s, k + 1, Len(s)))
<1>1. Len(s) \in Nat
    BY LenProperties
<1>2. s = SubSeq(s, 1, Len(s))
    BY SubSeqFull
<1>3. SubSeq(s, k, Len(s)) = <<s[k]>> \o SubSeq(s, k + 1, Len(s))
    BY <1>1, SubSeqRecursiveFirst
<1>4. SubSeq(s, 1, k - 1) \o SubSeq(s, (k - 1) + 1, Len(s)) = SubSeq(s, 1, Len(s))
    BY <1>1, ConcatAdjacentSubSeq, 1 \in 1 .. Len(s) + 1, k - 1 \in 1 - 1 .. Len(s),
       Len(s) \in k - 1 .. Len(s)
<1>5. QED
    BY <1>2, <1>3, <1>4, (k - 1) + 1 = k

LEMMA PartType ==
    ASSUME NEW V, NEW s \in Seq(V), NEW m \in Nat \ {0}, NEW n \in Int, n <= Len(s)
    PROVE  SubSeq(s, m, n) \in Seq(V)
<1>1. Len(s) \in Nat /\ \A i \in 1 .. Len(s) : s[i] \in V
    BY LenProperties, ElementOfSeq
<1>2. \A i \in m .. n : s[i] \in V
    BY <1>1
<1>3. QED
    BY <1>2, SubSeqProperties
-----------------------------------------------------------------------------
(* FlattenSeq *)

\* What its recursive function is to satisfy, up to place n.
FlattensTo(f, s, n) ==
    \A i \in 1 .. n : f[i] = IF i = 1 THEN s[1] ELSE f[i - 1] \o s[i]
Flattens(f, s) == FlattensTo(f, s, Len(s))
Flattened(V, s, n) == \E f \in [1 .. n -> Seq(V)] : FlattensTo(f, s, n)

LEMMA FlattensMore ==
    ASSUME NEW V, NEW s \in Seq(Seq(V)), NEW n \in Nat, n + 1 <= Len(s), Flattened(V, s, n)
    PROVE  Flattened(V, s, n + 1)
<1>1. s[n + 1] \in Seq(V) /\ (n = 0 => s[1] \in Seq(V))
    BY LenProperties, ElementOfSeq
<1>2. PICK f \in [1 .. n -> Seq(V)] : FlattensTo(f, s, n)
    BY DEF Flattened
<1>3. PICK x : x = IF n = 0 THEN s[1] ELSE f[n] \o s[n + 1]
    OBVIOUS
<1>4. x \in Seq(V)
    <2>1. CASE n = 0
        BY <1>1, <1>3, <2>1
    <2>2. CASE n # 0
        <3>1. f[n] \in Seq(V)
            BY <2>2
        <3>2. QED
            BY <1>1, <1>3, <2>2, <3>1, ConcatProperties
    <2>3. QED
        BY <2>1, <2>2
<1> DEFINE g == [i \in 1 .. (n + 1) |-> IF i = n + 1 THEN x ELSE f[i]]
<1>5. g \in [1 .. (n + 1) -> Seq(V)]
    BY <1>4
<1>6. g[n + 1] = x /\ \A i \in 1 .. n : g[i] = f[i]
    OBVIOUS
<1> HIDE DEF g
<1>7. ASSUME NEW i \in 1 .. (n + 1)
      PROVE  g[i] = IF i = 1 THEN s[1] ELSE g[i - 1] \o s[i]
    <2>1. CASE i = n + 1
        <3>1. i # 1 => i - 1 = n /\ n \in 1 .. n /\ n # 0
            BY <2>1
        <3>2. QED
            BY <1>3, <1>6, <2>1, <3>1
    <2>2. CASE i # n + 1
        <3>1. i \in 1 .. n /\ (i # 1 => i - 1 \in 1 .. n)
            BY <2>2
        <3>2. QED
            BY <1>2, <1>6, <3>1 DEF FlattensTo
    <2>3. QED
        BY <2>1, <2>2
<1>8. FlattensTo(g, s, n + 1)
    BY <1>7 DEF FlattensTo
<1>9. QED
    BY <1>5, <1>8 DEF Flattened

LEMMA FlattensExists ==
    ASSUME NEW V, NEW s \in Seq(Seq(V))
    PROVE  \E f \in [1 .. Len(s) -> Seq(V)] : Flattens(f, s)
<1> DEFINE T == {n \in Nat : n <= Len(s) => Flattened(V, s, n)}
<1>1. Flattened(V, s, 0)
    <2>1. PICK f : f = [i \in 1 .. 0 |-> <<>>]
        OBVIOUS
    <2>2. f \in [1 .. 0 -> Seq(V)] /\ FlattensTo(f, s, 0)
        BY <2>1 DEF FlattensTo
    <2>3. QED
        BY <2>2 DEF Flattened
<1>2. ASSUME NEW n \in Nat, n \in T PROVE n + 1 \in T
    BY <1>2, FlattensMore, LenProperties
<1>3. 0 \in T
    BY <1>1
<1>4. Len(s) \in Nat
    BY LenProperties
<1> HIDE DEF T
<1>5. Len(s) \in T
    BY <1>2, <1>3, <1>4, NatSet
<1>6. QED
    BY <1>4, <1>5 DEF T, Flattened, Flattens

Agree(s, t, n) == \A i \in 1 .. n : s[i] = t[i]

\* Two functions that satisfy it for sequences with the same beginning agree there.
LEMMA FlattensUnique ==
    ASSUME NEW s, NEW t, NEW f, NEW g, NEW m \in Nat,
           Len(s) \in Nat, Len(t) \in Nat, m <= Len(s), m <= Len(t),
           Flattens(f, s), Flattens(g, t), Agree(s, t, m)
    PROVE  Agree(f, g, m)
<1> DEFINE T == {n \in Nat : n \in 1 .. m => f[n] = g[n]}
<1>1. 0 \in T
    OBVIOUS
<1>2. ASSUME NEW n \in Nat, n \in T PROVE n + 1 \in T
    <2>1. SUFFICES ASSUME n + 1 \in 1 .. m PROVE f[n + 1] = g[n + 1]
        OBVIOUS
    <2>2. n + 1 \in 1 .. Len(s) /\ n + 1 \in 1 .. Len(t) /\ (n + 1) - 1 = n
          /\ s[n + 1] = t[n + 1] /\ (n + 1 = 1 => s[1] = t[1])
        BY <2>1 DEF Agree
    <2>3. f[n + 1] = (IF n + 1 = 1 THEN s[1] ELSE f[n] \o s[n + 1])
          /\ g[n + 1] = (IF n + 1 = 1 THEN t[1] ELSE g[n] \o t[n + 1])
        BY <2>2 DEF Flattens, FlattensTo
    <2>4. n + 1 # 1 => f[n] = g[n]
        BY <1>2, <2>1
    <2>5. QED
        BY <2>2, <2>3, <2>4
<1> HIDE DEF T
<1>3. Nat \subseteq T
    BY <1>1, <1>2, NatSet
<1>4. QED
    BY <1>3 DEF T, Agree

LEMMA FlattenIs ==
    ASSUME NEW V, NEW s \in Seq(Seq(V)), Len(s) # 0,
           NEW f \in [1 .. Len(s) -> Seq(V)], Flattens(f, s)
    PROVE  FlattenSeq(s) = f[Len(s)]
<1> DEFINE D(g) == [i \in 1 .. Len(s) |-> IF i = 1 THEN s[i] ELSE g[i - 1] \o s[i]]
<1>1. f = D(f)
    BY DEF Flattens, FlattensTo
<1>2. PICK g : g = CHOOSE h : h = D(h)
    OBVIOUS
<1>3. g = D(g)
    BY <1>1, <1>2
<1>4. Flattens(g, s)
    BY <1>3 DEF Flattens, FlattensTo
<1>5. Len(s) \in Nat /\ Len(s) \in 1 .. Len(s)
    BY LenProperties
<1>6. f[Len(s)] = g[Len(s)]
    <2>1. Len(s) <= Len(s) /\ Agree(s, s, Len(s))
        BY <1>5 DEF Agree
    <2>2. Agree(f, g, Len(s))
        BY <1>4, <1>5, <2>1, FlattensUnique
    <2>3. QED
        BY <1>5, <2>2 DEF Agree
<1>7. FlattenSeq(s) = g[Len(s)]
    BY <1>2 DEF FlattenSeq
<1>8. QED
    BY <1>6, <1>7

LEMMA FlattenType ==
    ASSUME NEW V, NEW s \in Seq(Seq(V))
    PROVE  FlattenSeq(s) \in Seq(V) /\ (s = <<>> => FlattenSeq(s) = <<>>)
<1>1. CASE Len(s) = 0
    <2>1. s = <<>>
        BY <1>1, EmptySeq
    <2>2. QED
        BY <1>1, <2>1, EmptySeq DEF FlattenSeq
<1>2. CASE Len(s) # 0
    <2>1. PICK f \in [1 .. Len(s) -> Seq(V)] : Flattens(f, s)
        BY FlattensExists
    <2>2. Len(s) \in 1 .. Len(s) /\ s # <<>>
        BY <1>2, LenProperties, EmptySeq
    <2>3. QED
        BY <1>2, <2>1, <2>2, FlattenIs
<1>3. QED
    BY <1>1, <1>2

LEMMA FlattenAppend ==
    ASSUME NEW V, NEW s \in Seq(Seq(V)), NEW x \in Seq(V)
    PROVE  FlattenSeq(Append(s, x)) = FlattenSeq(s) \o x
<1>0. PICK t : t = Append(s, x)
    OBVIOUS
<1>1. /\ t \in Seq(Seq(V)) /\ Len(t) = Len(s) + 1 /\ t[Len(s) + 1] = x
      /\ Len(s) \in Nat /\ Len(t) # 0 /\ Len(t) \in Nat
      /\ \A i \in 1 .. Len(s) : s[i] = t[i]
    BY <1>0, AppendProperties, LenProperties
<1>2. PICK f \in [1 .. Len(t) -> Seq(V)] : Flattens(f, t)
    BY <1>1, FlattensExists
<1>3. FlattenSeq(t) = f[Len(t)] /\ f[Len(t)] = IF Len(t) = 1 THEN t[1] ELSE f[Len(s)] \o x
    <2>1. FlattenSeq(t) = f[Len(t)]
        BY <1>1, <1>2, FlattenIs
    <2>2. Len(t) \in 1 .. Len(t) /\ Len(t) - 1 = Len(s)
        BY <1>1
    <2>3. QED
        BY <1>1, <1>2, <2>1, <2>2 DEF Flattens, FlattensTo
<1>4. CASE Len(s) = 0
    <2>1. s = <<>> /\ FlattenSeq(s) = <<>>
        BY <1>4, EmptySeq, FlattenType
    <2>2. FlattenSeq(t) = x
        BY <1>1, <1>3, <1>4
    <2>3. QED
        BY <1>0, <2>1, <2>2, ConcatEmptySeq
<1>5. CASE Len(s) # 0
    <2>1. PICK g \in [1 .. Len(s) -> Seq(V)] : Flattens(g, s)
        BY FlattensExists
    <2>2. FlattenSeq(s) = g[Len(s)]
        BY <1>5, <2>1, FlattenIs
    <2>3. \A i \in 1 .. Len(s) : g[i] = f[i]
        <3>1. Len(s) <= Len(s) /\ Len(s) <= Len(t) /\ Agree(s, t, Len(s))
            BY <1>1 DEF Agree
        <3>2. Agree(g, f, Len(s))
            BY <1>1, <1>2, <2>1, <3>1, FlattensUnique
        <3>3. QED
            BY <3>2 DEF Agree
    <2>4. Len(s) \in 1 .. Len(s) /\ Len(t) # 1
        BY <1>1, <1>5
    <2>5. QED
        BY <1>0, <1>3, <2>2, <2>3, <2>4
<1>6. QED
    BY <1>4, <1>5

LEMMA FlattenOne ==
    ASSUME NEW V, NEW x \in Seq(V)
    PROVE  FlattenSeq(<<x>>) = x
<1>1. <<x>> = Append(<<>>, x) /\ <<>> \in Seq(Seq(V))
    BY EmptySeq
<1>2. FlattenSeq(<<x>>) = FlattenSeq(<<>>) \o x
    BY <1>1, FlattenAppend
<1>3. QED
    BY <1>1, <1>2, FlattenType, ConcatEmptySeq

LEMMA FlattenConcat ==
    ASSUME NEW V, NEW r \in Seq(Seq(V)), NEW s \in Seq(Seq(V))
    PROVE  FlattenSeq(r \o s) = FlattenSeq(r) \o FlattenSeq(s)
<1> DEFINE T == {q \in Seq(Seq(V)) : FlattenSeq(r \o q) = FlattenSeq(r) \o FlattenSeq(q)}
<1>1. <<>> \in T
    <2>1. <<>> \in Seq(Seq(V)) /\ r \o <<>> = r /\ FlattenSeq(<<>>) = <<>>
        BY EmptySeq, ConcatEmptySeq, FlattenType
    <2>2. FlattenSeq(r) \in Seq(V)
        BY FlattenType
    <2>3. QED
        BY <2>1, <2>2, ConcatEmptySeq
<1>2. ASSUME NEW q \in Seq(Seq(V)), NEW x \in Seq(V), q \in T PROVE Append(q, x) \in T
    <2>1. r \o q \in Seq(Seq(V)) /\ Append(q, x) \in Seq(Seq(V))
        BY ConcatProperties, AppendProperties
    <2>2. r \o Append(q, x) = Append(r \o q, x)
        <3>1. <<x>> \in Seq(Seq(V))
            OBVIOUS
        <3>2. Append(q, x) = q \o <<x>> /\ Append(r \o q, x) = (r \o q) \o <<x>>
            BY <2>1, AppendIsConcat
        <3>3. QED
            BY <3>1, <3>2, ConcatAssociative
    <2>3. FlattenSeq(r \o Append(q, x)) = (FlattenSeq(r) \o FlattenSeq(q)) \o x
        BY <1>2, <2>1, <2>2, FlattenAppend
    <2>4. FlattenSeq(r) \in Seq(V) /\ FlattenSeq(q) \in Seq(V)
        BY FlattenType
    <2>5. FlattenSeq(Append(q, x)) = FlattenSeq(q) \o x
        BY FlattenAppend
    <2>6. (FlattenSeq(r) \o FlattenSeq(q)) \o x = FlattenSeq(r) \o (FlattenSeq(q) \o x)
        BY <2>4, ConcatAssociative
    <2>7. QED
        BY <2>1, <2>3, <2>5, <2>6
<1> HIDE DEF T
<1>3. Seq(Seq(V)) \subseteq T
    BY <1>1, <1>2, SeqSet
<1>4. QED
    BY <1>3 DEF T

\* Sequences of which only the last is not empty.
LEMMA FlattenNone ==
    ASSUME NEW V, NEW s \in Seq(Seq(V)), \A k \in 1 .. Len(s) : s[k] = <<>>
    PROVE  FlattenSeq(s) = <<>>
<1> DEFINE T == {q \in Seq(Seq(V)) :
                    (\A k \in 1 .. Len(q) : q[k] = <<>>) => FlattenSeq(q) = <<>>}
<1>1. <<>> \in T
    BY EmptySeq, FlattenType
<1>2. ASSUME NEW q \in Seq(Seq(V)), NEW x \in Seq(V), q \in T PROVE Append(q, x) \in T
    <2>1. /\ Append(q, x) \in Seq(Seq(V)) /\ Len(Append(q, x)) = Len(q) + 1
          /\ \A i \in 1 .. Len(q) : Append(q, x)[i] = q[i]
          /\ Append(q, x)[Len(q) + 1] = x /\ Len(q) \in Nat
        BY AppendProperties, LenProperties
    <2>2. SUFFICES ASSUME \A k \in 1 .. Len(Append(q, x)) : Append(q, x)[k] = <<>>
                   PROVE  FlattenSeq(Append(q, x)) = <<>>
        BY <2>1
    <2>3. x = <<>> /\ \A k \in 1 .. Len(q) : q[k] = <<>>
        BY <2>1, <2>2
    <2>4. FlattenSeq(q) = <<>>
        BY <1>2, <2>3
    <2>5. FlattenSeq(Append(q, x)) = FlattenSeq(q) \o x
        BY FlattenAppend
    <2>6. <<>> \in Seq(V) /\ <<>> \o <<>> = <<>>
        BY EmptySeq, ConcatEmptySeq
    <2>7. QED
        BY <2>3, <2>4, <2>5, <2>6
<1> HIDE DEF T
<1>3. Seq(Seq(V)) \subseteq T
    BY <1>1, <1>2, SeqSet
<1>4. QED
    BY <1>3 DEF T

\* Each element of each of the sequences is in the result.
LEMMA FlattenHas ==
    ASSUME NEW V, NEW s \in Seq(Seq(V)), NEW k \in 1 .. Len(s), NEW j \in 1 .. Len(s[k])
    PROVE  s[k][j] \in ToSet(FlattenSeq(s))
<1>1. Len(s) \in Nat /\ s[k] \in Seq(V)
    BY LenProperties, ElementOfSeq
<1>2. PICK pre, post : pre = SubSeq(s, 1, k - 1) /\ post = SubSeq(s, k + 1, Len(s))
    OBVIOUS
<1>3. pre \in Seq(Seq(V)) /\ post \in Seq(Seq(V)) /\ <<s[k]>> \in Seq(Seq(V))
    BY <1>1, <1>2, SubSeqProperties, ElementOfSeq
<1>4. s = pre \o (<<s[k]>> \o post)
    BY <1>2, SplitAround
<1>5. PICK a, b, c : a = FlattenSeq(pre) /\ b = s[k] /\ c = FlattenSeq(post)
    OBVIOUS
<1>6. FlattenSeq(s) = a \o (b \o c) /\ a \in Seq(V) /\ b \in Seq(V) /\ c \in Seq(V)
    <2>1. <<s[k]>> \o post \in Seq(Seq(V))
        BY <1>3, ConcatProperties
    <2>2. FlattenSeq(s) = a \o FlattenSeq(<<s[k]>> \o post)
        BY <1>3, <1>4, <1>5, <2>1, FlattenConcat
    <2>3. FlattenSeq(<<s[k]>> \o post) = FlattenSeq(<<s[k]>>) \o c
        BY <1>3, <1>5, FlattenConcat
    <2>4. FlattenSeq(<<s[k]>>) = b
        BY <1>1, <1>5, FlattenOne
    <2>5. a \in Seq(V) /\ c \in Seq(V)
        BY <1>3, <1>5, FlattenType
    <2>6. QED
        BY <1>1, <1>5, <2>2, <2>3, <2>4, <2>5
<1>7. PICK n : n = Len(a) + j
    OBVIOUS
<1>8. b \o c \in Seq(V) /\ Len(b \o c) = Len(b) + Len(c) /\ (b \o c)[j] = b[j]
      /\ Len(a) \in Nat /\ Len(b) \in Nat /\ Len(c) \in Nat
    <2>1. Len(a) \in Nat /\ Len(b) \in Nat /\ Len(c) \in Nat
        BY <1>6, LenProperties
    <2>2. QED
        BY <1>5, <1>6, <2>1, ConcatProperties
<1>9. n \in DOMAIN FlattenSeq(s) /\ FlattenSeq(s)[n] = s[k][j]
    <2>1. a \o (b \o c) \in Seq(V) /\ Len(a \o (b \o c)) = Len(a) + (Len(b) + Len(c))
        BY <1>6, <1>8, ConcatProperties
    <2>2. n \in 1 .. Len(a) + Len(b \o c) /\ ~(n <= Len(a)) /\ n - Len(a) = j
        BY <1>5, <1>7, <1>8
    <2>3. (a \o (b \o c))[n] = (b \o c)[j]
        BY <1>6, <1>8, <2>2, ConcatProperties
    <2>4. DOMAIN (a \o (b \o c)) = 1 .. Len(a \o (b \o c))
        BY <2>1, LenProperties
    <2>5. QED
        BY <1>5, <1>6, <1>8, <2>1, <2>2, <2>3, <2>4
<1>10. QED
    BY <1>9 DEF ToSet

-----------------------------------------------------------------------------
(* The lines of getprop *)

PropType(V) == [key : Seq(V), value : Seq(V)]

\* Where the line that ends at k begins.
StartsAt(raw, k, l) ==
    /\ l \in 0 .. (k - 1)
    /\ l = 0 \/ raw[l] = "\n"
    /\ \A m \in (l + 1) .. (k - 1) : raw[m] # "\n"

LEMMA LineStarts ==
    ASSUME NEW raw, NEW k \in Nat \ {0}
    PROVE  \E l : StartsAt(raw, k, l)
<1> DEFINE Ends(l) == l = 0 \/ raw[l] = "\n"
           T == {d \in Nat : d <= k - 1 /\ Ends(k - 1 - d)}
<1>1. k - 1 \in T
    BY k - 1 - (k - 1) = 0
<1>2. PICK d \in T : \A e \in T : d <= e
    BY <1>1, SmallestIn, T \in SUBSET Nat
<1>3. PICK l : l = k - 1 - d
    OBVIOUS
<1>4. l \in 0 .. (k - 1) /\ Ends(l)
    BY <1>2, <1>3
<1>5. ASSUME NEW m \in (l + 1) .. (k - 1) PROVE raw[m] # "\n"
    <2>1. PICK e : e = k - 1 - m
        OBVIOUS
    <2>2. e \in Nat /\ e < d /\ k - 1 - e = m /\ e <= k - 1
        BY <1>2, <1>3, <1>4, <1>5, <2>1
    <2>3. e \notin T
        BY <1>2, <2>2
    <2>4. QED
        BY <2>2, <2>3
<1>6. QED
    BY <1>4, <1>5 DEF StartsAt

LEMMA LineToIs ==
    ASSUME NEW raw, NEW k \in Nat \ {0}, NEW l, StartsAt(raw, k, l)
    PROVE  LineTo(raw, k) = SubSeq(raw, l + 1, k - 1)
<1>1. ASSUME NEW m, StartsAt(raw, k, m) PROVE m = l
    <2>1. m \in 0 .. (k - 1) /\ l \in 0 .. (k - 1)
        BY <1>1 DEF StartsAt
    <2>2. ~(m < l)
        BY <1>1, <2>1 DEF StartsAt
    <2>3. ~(l < m)
        BY <1>1, <2>1 DEF StartsAt
    <2>4. QED
        BY <2>1, <2>2, <2>3
<1>2. l = CHOOSE m \in 0 .. (k - 1) : /\ m = 0 \/ raw[m] = "\n"
                                      /\ \A n \in (m + 1) .. (k - 1) : raw[n] # "\n"
    BY <1>1 DEF StartsAt
<1>3. QED
    BY <1>2 DEF LineTo

LEMMA LineToType ==
    ASSUME NEW V, NEW raw \in Seq(V), NEW k \in 1 .. Len(raw)
    PROVE  LineTo(raw, k) \in Seq(V)
<1>1. Len(raw) \in Nat /\ k \in Nat \ {0}
    BY LenProperties
<1>2. PICK l : StartsAt(raw, k, l)
    BY <1>1, LineStarts
<1>3. l + 1 \in Int /\ k - 1 \in Int /\ \A i \in (l + 1) .. (k - 1) : i \in 1 .. Len(raw)
    BY <1>1, <1>2 DEF StartsAt
<1>4. SubSeq(raw, l + 1, k - 1) \in Seq(V)
    BY <1>3, SubSeqProperties, ElementOfSeq
<1>5. QED
    BY <1>1, <1>2, <1>4, LineToIs

\* A line does not depend on what follows it.
LEMMA LineToStays ==
    ASSUME NEW V, NEW r \in Seq(V), NEW s \in Seq(V), NEW k \in 1 .. Len(r)
    PROVE  LineTo(r \o s, k) = LineTo(r, k)
<1>1. Len(r) \in Nat /\ k \in Nat \ {0} /\ Len(s) \in Nat
    BY LenProperties
<1>2. PICK l : StartsAt(r, k, l)
    BY <1>1, LineStarts
<1>3. \A i \in 1 .. Len(r) : (r \o s)[i] = r[i]
    BY <1>1, ConcatProperties
<1>4. StartsAt(r \o s, k, l)
    BY <1>1, <1>2, <1>3 DEF StartsAt
<1>5. LineTo(r, k) = SubSeq(r, l + 1, k - 1) /\ LineTo(r \o s, k) = SubSeq(r \o s, l + 1, k - 1)
    BY <1>1, <1>2, <1>4, LineToIs
<1>6. l \in 0 .. (k - 1)
    BY <1>2 DEF StartsAt
<1>7. CASE l + 1 > k - 1
    BY <1>1, <1>5, <1>6, <1>7, SubSeqEmpty
<1>8. CASE ~(l + 1 > k - 1)
    <2>1. l + 1 \in 1 .. Len(r) /\ k - 1 \in 1 .. Len(r)
        BY <1>1, <1>6, <1>8
    <2>2. QED
        BY <1>5, <2>1, SubSeqOfConcat1
<1>9. QED
    BY <1>7, <1>8

\* What getprop prints for a property, character by character.
LEMMA LineCharacters ==
    ASSUME NEW V, "[" \in V, Sep \in V, "]" \in V, "\n" \in V, NEW p \in PropType(V)
    PROVE  LET l == GetpropLine(p)
               n == Len(p.key)
               v == Len(p.value)
           IN  /\ l \in Seq(V) /\ n \in Nat /\ v \in Nat /\ Len(l) = n + v + 4
               /\ l[1] = "[" /\ l[n + 2] = Sep /\ l[n + v + 3] = "]" /\ l[n + v + 4] = "\n"
               /\ \A i \in 1 .. n : l[1 + i] = p.key[i]
               /\ \A i \in 1 .. v : l[n + 2 + i] = p.value[i]
<1>1. PICK k, w : k = p.key /\ w = p.value
    OBVIOUS
<1>2. PICK n, v : n = Len(k) /\ v = Len(w)
    OBVIOUS
<1>3. k \in Seq(V) /\ w \in Seq(V) /\ n \in Nat /\ v \in Nat
    BY <1>1, <1>2, LenProperties DEF PropType
<1>4. PICK a : a = <<"[">> \o k
    OBVIOUS
<1>5. /\ a \in Seq(V) /\ Len(a) = 1 + n /\ a[1] = "["
      /\ \A i \in 1 .. n : a[1 + i] = k[i]
    <2>1. <<"[">> \in Seq(V) /\ Len(<<"[">>) = 1 /\ 1 \in 1 .. 1 /\ <<"[">>[1] = "["
        OBVIOUS
    <2>2. QED
        BY <1>2, <1>3, <1>4, <2>1, ConcatParts
<1>6. PICK b : b = a \o <<Sep>>
    OBVIOUS
<1>7. /\ b \in Seq(V) /\ Len(b) = n + 2 /\ b[n + 2] = Sep
      /\ \A i \in 1 .. (n + 1) : b[i] = a[i]
    <2>1. <<Sep>> \in Seq(V) /\ Len(<<Sep>>) = 1 /\ 1 \in 1 .. 1 /\ <<Sep>>[1] = Sep
        OBVIOUS
    <2>2. PICK q : q = 1 + n
        OBVIOUS
    <2>3. /\ b \in Seq(V) /\ Len(b) = q + 1 /\ b[q + 1] = Sep
          /\ \A i \in 1 .. q : b[i] = a[i]
        BY <1>5, <1>6, <2>1, <2>2, ConcatParts
    <2>4. QED
        BY <1>3, <2>2, <2>3
<1>8. PICK c : c = b \o w
    OBVIOUS
<1>9. /\ c \in Seq(V) /\ Len(c) = n + v + 2
      /\ \A i \in 1 .. (n + 2) : c[i] = b[i]
      /\ \A i \in 1 .. v : c[n + 2 + i] = w[i]
    <2>1. PICK q : q = n + 2
        OBVIOUS
    <2>2. /\ c \in Seq(V) /\ Len(c) = q + v
          /\ \A i \in 1 .. q : c[i] = b[i]
          /\ \A i \in 1 .. v : c[q + i] = w[i]
        <3>1. b \in Seq(V) /\ w \in Seq(V) /\ q = Len(b) /\ v = Len(w) /\ c = b \o w
            BY <1>2, <1>3, <1>7, <1>8, <2>1
        <3>2. QED
            BY <3>1, ConcatParts
    <2>3. QED
        BY <1>3, <2>1, <2>2
<1>10. PICK d : d = c \o <<"]", "\n">>
    OBVIOUS
<1>11. /\ d \in Seq(V) /\ Len(d) = n + v + 4
       /\ \A i \in 1 .. (n + v + 2) : d[i] = c[i]
       /\ d[n + v + 3] = "]" /\ d[n + v + 4] = "\n"
    <2>1. PICK e : e = <<"]", "\n">>
        OBVIOUS
    <2>2. /\ e \in Seq(V) /\ Len(e) = 2 /\ e[1] = "]" /\ e[2] = "\n"
          /\ 1 \in 1 .. 2 /\ 2 \in 1 .. 2
        BY <2>1
    <2>3. PICK q : q = n + v + 2
        OBVIOUS
    <2>4. /\ d \in Seq(V) /\ Len(d) = q + 2
          /\ \A i \in 1 .. q : d[i] = c[i]
          /\ \A i \in 1 .. 2 : d[q + i] = e[i]
        BY <1>9, <1>10, <2>1, <2>2, <2>3, ConcatParts
    <2>5. d[q + 1] = "]" /\ d[q + 2] = "\n"
        BY <2>2, <2>4
    <2>6. QED
        BY <1>3, <2>3, <2>4, <2>5
<1>12. GetpropLine(p) = d
    BY <1>1, <1>4, <1>6, <1>8, <1>10 DEF GetpropLine
<1>13. d[1] = "[" /\ d[n + 2] = Sep
    BY <1>3, <1>5, <1>7, <1>9, <1>11
<1>14. \A i \in 1 .. n : d[1 + i] = k[i]
    <2>1. ASSUME NEW i \in 1 .. n PROVE d[1 + i] = k[i]
        <3>1. 1 + i \in 1 .. (n + 1) /\ 1 + i \in 1 .. (n + 2) /\ 1 + i \in 1 .. (n + v + 2)
            BY <1>3
        <3>2. QED
            BY <1>5, <1>7, <1>9, <1>11, <3>1
    <2>2. QED
        BY <2>1
<1>15. \A i \in 1 .. v : d[n + 2 + i] = w[i]
    BY <1>3, <1>9, <1>11
<1>16. QED
    BY <1>1, <1>2, <1>3, <1>11, <1>12, <1>13, <1>14, <1>15

\* A line gives back its key and its value.
LineOf(l, p, n, v) ==
    /\ n = Len(p.key) /\ v = Len(p.value)
    /\ Len(l) = n + v + 3 /\ l[1] = "[" /\ l[n + 2] = Sep /\ l[n + v + 3] = "]"
    /\ \A i \in 1 .. n : l[1 + i] = p.key[i]
    /\ \A i \in 1 .. v : l[n + 2 + i] = p.value[i]

LEMMA LineReadsBack ==
    ASSUME NEW V, NEW p \in PropType(V), Keyed(p), NEW l \in Seq(V), NEW n, NEW v,
           LineOf(l, p, n, v)
    PROVE  Parsed(l) = <<p>>
<1>0. /\ n = Len(p.key) /\ v = Len(p.value)
      /\ Len(l) = n + v + 3 /\ l[1] = "[" /\ l[n + 2] = Sep /\ l[n + v + 3] = "]"
    BY DEF LineOf
<1>1. p.key \in Seq(V) /\ p.value \in Seq(V) /\ n \in Nat /\ v \in Nat
    BY <1>0, LenProperties DEF PropType
<1>2. DOMAIN l = 1 .. n + v + 3 /\ \A i \in 1 .. n + v + 3 : l[i] \in V
    BY <1>0, LenProperties, ElementOfSeq
<1>3. Split(l) = n + 2
    <2> DEFINE At == {k \in DOMAIN l : l[k] = Sep}
    <2>1. n + 2 \in At
        <3>1. n + 2 \in 1 .. n + v + 3
            BY <1>1
        <3>2. n + 2 \in DOMAIN l /\ l[n + 2] = Sep
            BY <1>0, <1>2, <3>1
        <3>3. QED
            BY <3>2
    <2>2. ASSUME NEW k \in At PROVE n + 2 <= k
        <3>1. k \in 1 .. n + v + 3 /\ l[k] = Sep
            BY <1>2
        <3>2. k # 1
            BY <1>0, <3>1 DEF Sep
        <3>3. ASSUME k < n + 2 PROVE FALSE
            <4>1. PICK i : i = k - 1
                OBVIOUS
            <4>2. i \in 1 .. n /\ 1 + i = k
                BY <1>1, <3>1, <3>2, <3>3, <4>1
            <4>3. p.key[i] # Sep
                BY <1>0, <1>1, <4>2, LenProperties DEF Keyed
            <4>4. l[1 + i] = p.key[i]
                BY <4>2 DEF LineOf
            <4>5. QED
                BY <3>1, <4>2, <4>3, <4>4
        <3>4. QED
            BY <1>1, <3>1, <3>3
    <2>3. At # {} /\ n + 2 = CHOOSE k \in At : \A m \in At : k <= m
        <3>1. ASSUME NEW k \in At, \A m \in At : k <= m PROVE k = n + 2
            BY <1>1, <1>2, <2>1, <2>2, <3>1
        <3>2. QED
            BY <2>1, <2>2, <3>1
    <2>4. QED
        BY <2>3 DEF Split
<1>4. IsProp(l)
    <2>1. l # <<>>
        <3>1. n + v + 3 # 0
            BY <1>1
        <3>2. QED
            BY <1>0, <3>1, EmptySeq
    <2>2. QED
        BY <1>0, <1>1, <1>3, <2>1 DEF IsProp
<1>5. SubSeq(l, 2, Split(l) - 1) = p.key
    <2>1. PICK s : s = SubSeq(l, 2, n + 1)
        OBVIOUS
    <2>2. \A i \in 2 .. n + 1 : l[i] \in V
        BY <1>1, <1>2
    <2>3. /\ s \in Seq(V) /\ Len(s) = n
          /\ \A i \in 1 .. n : s[i] = l[2 + i - 1]
        <3>1. /\ s \in Seq(V) /\ Len(s) = IF 2 <= n + 1 THEN (n + 1) - 2 + 1 ELSE 0
              /\ \A i \in 1 .. (n + 1) - 2 + 1 : s[i] = l[2 + i - 1]
            BY <1>1, <2>1, <2>2, SubSeqProperties
        <3>2. (n + 1) - 2 + 1 = n
            BY <1>1
        <3>3. QED
            BY <1>1, <3>1, <3>2
    <2>4. ASSUME NEW i \in 1 .. n PROVE s[i] = p.key[i]
        <3>1. 2 + i - 1 = 1 + i
            BY <1>1
        <3>2. QED
            BY <2>3, <3>1 DEF LineOf
    <2>5. s = p.key
        BY <1>0, <1>1, <2>3, <2>4, SeqEqual
    <2>6. Split(l) - 1 = n + 1
        BY <1>1, <1>3
    <2>7. QED
        BY <2>1, <2>5, <2>6
<1>6. PICK s : s = SubSeq(l, Split(l) + 1, Len(l))
    OBVIOUS
<1>7. /\ s \in Seq(V) /\ Len(s) = v + 1 /\ s[v + 1] = "]"
      /\ \A i \in 1 .. v : s[i] = p.value[i]
    <2>1. s = SubSeq(l, n + 3, n + v + 3)
        BY <1>0, <1>1, <1>3, <1>6, n + 2 + 1 = n + 3
    <2>2. \A i \in n + 3 .. n + v + 3 : l[i] \in V
        BY <1>1, <1>2
    <2>3. /\ s \in Seq(V) /\ Len(s) = IF n + 3 <= n + v + 3 THEN (n + v + 3) - (n + 3) + 1 ELSE 0
          /\ \A i \in 1 .. (n + v + 3) - (n + 3) + 1 : s[i] = l[n + 3 + i - 1]
        BY <1>1, <2>1, <2>2, SubSeqProperties
    <2>4. (n + v + 3) - (n + 3) + 1 = v + 1 /\ n + 3 <= n + v + 3
        BY <1>1
    <2>5. s[v + 1] = "]"
        <3>1. n + 3 + (v + 1) - 1 = n + v + 3 /\ v + 1 \in 1 .. v + 1
            BY <1>1
        <3>2. QED
            BY <1>0, <2>3, <2>4, <3>1
    <2>6. ASSUME NEW i \in 1 .. v PROVE s[i] = p.value[i]
        <3>1. n + 3 + i - 1 = n + 2 + i /\ i \in 1 .. v + 1
            BY <1>1
        <3>2. s[i] = l[n + 3 + i - 1]
            BY <2>3, <2>4, <3>1
        <3>3. l[n + 2 + i] = p.value[i]
            BY DEF LineOf
        <3>4. QED
            BY <3>1, <3>2, <3>3
    <2>7. QED
        BY <2>3, <2>4, <2>5, <2>6
<1>8. s # <<>> /\ Last(s) = "]"
    BY <1>1, <1>7, EmptySeq DEF Last
<1>9. Front(s) = p.value
    <2>1. Front(s) = SubSeq(s, 1, v) /\ 1 \in Int /\ v \in Int
        BY <1>1, <1>7, v + 1 - 1 = v DEF Front
    <2>2. \A i \in 1 .. v : s[i] \in V
        BY <1>1, <1>7, ElementOfSeq
    <2>3. PICK f : f = SubSeq(s, 1, v)
        OBVIOUS
    <2>4. /\ f \in Seq(V) /\ Len(f) = IF 1 <= v THEN v - 1 + 1 ELSE 0
          /\ \A i \in 1 .. v - 1 + 1 : f[i] = s[1 + i - 1]
        BY <2>1, <2>2, <2>3, SubSeqProperties
    <2>5. Len(f) = v /\ v - 1 + 1 = v /\ \A i \in 1 .. v : 1 + i - 1 = i
        BY <1>1, <2>4
    <2>6. \A i \in 1 .. v : f[i] = p.value[i]
        BY <1>7, <2>4, <2>5
    <2>7. f = p.value
        BY <1>0, <1>1, <2>4, <2>5, <2>6, SeqEqual
    <2>8. QED
        BY <2>1, <2>3, <2>7
<1>10. Pair(l) = [key |-> p.key, value |-> p.value]
    BY <1>5, <1>6, <1>8, <1>9 DEF Pair
<1>11. p = [key |-> p.key, value |-> p.value]
    BY DEF PropType
<1>12. QED
    BY <1>4, <1>10, <1>11 DEF Parsed

LEMMA SplitRange ==
    ASSUME NEW V, NEW l \in Seq(V)
    PROVE  Split(l) \in 0 .. Len(l)
<1> DEFINE At == {k \in DOMAIN l : l[k] = Sep}
<1>1. Len(l) \in Nat /\ DOMAIN l = 1 .. Len(l)
    BY LenProperties
<1>2. CASE At = {}
    BY <1>1, <1>2 DEF Split
<1>3. CASE At # {}
    <2>1. \E k \in At : \A m \in At : k <= m
        BY <1>1, <1>3, SmallestIn, At \in SUBSET Nat
    <2>2. Split(l) = CHOOSE k \in At : \A m \in At : k <= m
        BY <1>3 DEF Split
    <2>3. Split(l) \in At
        BY <2>1, <2>2
    <2>4. QED
        BY <1>1, <2>3
<1>4. QED
    BY <1>2, <1>3

LEMMA ParsedType ==
    ASSUME NEW V, NEW l \in Seq(V)
    PROVE  Parsed(l) \in Seq(PropType(V))
<1>1. CASE IsProp(l)
    <2>1. Split(l) \in 0 .. Len(l) /\ Len(l) \in Nat
        BY SplitRange, LenProperties
    <2>2. SubSeq(l, 2, Split(l) - 1) \in Seq(V)
        BY <2>1, PartType
    <2>3. PICK w : w = SubSeq(l, Split(l) + 1, Len(l))
        OBVIOUS
    <2>4. w \in Seq(V)
        BY <2>1, <2>3, PartType
    <2>5. Front(w) \in Seq(V)
        BY <2>4, PartType, LenProperties DEF Front
    <2>6. Pair(l) \in PropType(V)
        BY <2>2, <2>3, <2>4, <2>5 DEF Pair, PropType
    <2>7. QED
        BY <1>1, <2>6 DEF Parsed
<1>2. CASE ~IsProp(l)
    BY <1>2, EmptySeq DEF Parsed
<1>3. QED
    BY <1>1, <1>2

\* What each character adds to the properties.
Pieces(raw) == [k \in DOMAIN raw |-> IF raw[k] = "\n" THEN Parsed(LineTo(raw, k)) ELSE <<>>]

LEMMA PiecesType ==
    ASSUME NEW V, NEW raw \in Seq(V)
    PROVE  /\ Pieces(raw) \in Seq(Seq(PropType(V)))
           /\ Len(Pieces(raw)) = Len(raw)
           /\ FlattenSeq(Pieces(raw)) = parse_getprop_output(raw)
           /\ parse_getprop_output(raw) \in Seq(PropType(V))
<1>1. Len(raw) \in Nat /\ DOMAIN raw = 1 .. Len(raw)
    BY LenProperties
<1>2. ASSUME NEW k \in 1 .. Len(raw) PROVE Pieces(raw)[k] \in Seq(PropType(V))
    <2>1. Parsed(LineTo(raw, k)) \in Seq(PropType(V))
        BY LineToType, ParsedType
    <2>2. <<>> \in Seq(PropType(V))
        BY EmptySeq
    <2>3. QED
        BY <1>1, <2>1, <2>2 DEF Pieces
<1>3. Pieces(raw) \in [1 .. Len(raw) -> Seq(PropType(V))]
    BY <1>1, <1>2 DEF Pieces
<1>4. Pieces(raw) \in Seq(Seq(PropType(V))) /\ Len(Pieces(raw)) = Len(raw)
    BY <1>1, <1>3
<1>5. FlattenSeq(Pieces(raw)) = parse_getprop_output(raw)
    BY DEF Pieces, parse_getprop_output
<1>6. QED
    BY <1>4, <1>5, FlattenType

\* Before a text whose lines are read, only whole lines.
Whole(r) == r = <<>> \/ r[Len(r)] = "\n"

Symbols(V) == "[" \in V /\ Sep \in V /\ "]" \in V /\ "\n" \in V

\* The line of a property with whole lines before it: what its characters add.
LineAt(V, p, r, s, raw, a, m) ==
    /\ Symbols(V) /\ p \in PropType(V) /\ Keyed(p) /\ OneLine(p)
    /\ r \in Seq(V) /\ Whole(r) /\ s \in Seq(V)
    /\ raw = (r \o GetpropLine(p)) \o s /\ a = Len(r) /\ m = Len(GetpropLine(p))

LinePieces(V, p, r, raw, a, m) ==
    /\ raw \in Seq(V) /\ a \in Nat /\ m \in Nat /\ m > 0 /\ a + m <= Len(raw)
    /\ Pieces(raw)[a + m] = <<p>>
    /\ \A j \in 1 .. (m - 1) : Pieces(raw)[a + j] = <<>>

LEMMA PieceOfLine ==
    ASSUME NEW V, NEW p, NEW r, NEW s, NEW raw, NEW a, NEW m, LineAt(V, p, r, s, raw, a, m)
    PROVE  LinePieces(V, p, r, raw, a, m)
<1>0. /\ "[" \in V /\ Sep \in V /\ "]" \in V /\ "\n" \in V
      /\ p \in PropType(V) /\ Keyed(p) /\ OneLine(p)
      /\ r \in Seq(V) /\ Whole(r) /\ s \in Seq(V)
      /\ raw = (r \o GetpropLine(p)) \o s /\ a = Len(r) /\ m = Len(GetpropLine(p))
    BY DEF LineAt, Symbols
<1>1. PICK l, n, v : l = GetpropLine(p) /\ n = Len(p.key) /\ v = Len(p.value)
    OBVIOUS
<1>2. /\ l \in Seq(V) /\ n \in Nat /\ v \in Nat /\ m = n + v + 4
      /\ l[1] = "[" /\ l[n + 2] = Sep /\ l[n + v + 3] = "]" /\ l[n + v + 4] = "\n"
      /\ \A i \in 1 .. n : l[1 + i] = p.key[i]
      /\ \A i \in 1 .. v : l[n + 2 + i] = p.value[i]
    BY <1>0, <1>1, LineCharacters
<1>3. m \in Nat /\ m > 3 /\ m - 1 = n + v + 3 /\ a \in Nat
    BY <1>0, <1>2, LenProperties
<1>4. PICK q : q = r \o l
    OBVIOUS
<1>5. /\ q \in Seq(V) /\ Len(q) = a + m
      /\ \A i \in 1 .. a : q[i] = r[i]
      /\ \A i \in 1 .. m : q[a + i] = l[i]
    <2>1. r \in Seq(V) /\ l \in Seq(V) /\ a = Len(r) /\ m = Len(l) /\ q = r \o l
        BY <1>0, <1>1, <1>2, <1>4
    <2>2. QED
        BY <2>1, ConcatParts
<1>6. /\ raw \in Seq(V) /\ a + m <= Len(raw)
      /\ \A i \in 1 .. a + m : raw[i] = q[i]
    <2>1. PICK b, c : b = Len(s) /\ c = Len(q)
        OBVIOUS
    <2>2. /\ raw \in Seq(V) /\ Len(raw) = c + b /\ b \in Nat
          /\ \A i \in 1 .. c : raw[i] = q[i]
        BY <1>0, <1>1, <1>4, <1>5, <2>1, ConcatParts
    <2>3. QED
        BY <1>3, <1>5, <2>1, <2>2
<1>7. ASSUME NEW j \in 1 .. m PROVE raw[a + j] = l[j]
    <2>1. PICK i : i = a + j
        OBVIOUS
    <2>2. i \in 1 .. a + m
        BY <1>3, <2>1
    <2>3. QED
        BY <1>5, <1>6, <2>1, <2>2
<1>8. ASSUME NEW j \in 1 .. (m - 1) PROVE l[j] # "\n"
    <2>1. CASE j = 1
        BY <1>2, <2>1
    <2>2. CASE j \in 2 .. (n + 1)
        <3>1. PICK i : i = j - 1
            OBVIOUS
        <3>2. i \in 1 .. n /\ 1 + i = j
            BY <1>2, <2>2, <3>1
        <3>3. l[j] = p.key[i] /\ i \in DOMAIN p.key
            BY <1>1, <1>2, <3>2, LenProperties DEF PropType
        <3>4. QED
            BY <1>0, <3>3 DEF Keyed
    <2>3. CASE j = n + 2
        BY <1>2, <2>3 DEF Sep
    <2>4. CASE j \in (n + 3) .. (n + 2 + v)
        <3>1. PICK i : i = j - (n + 2)
            OBVIOUS
        <3>2. i \in 1 .. v /\ n + 2 + i = j
            BY <1>2, <2>4, <3>1
        <3>3. l[j] = p.value[i] /\ i \in DOMAIN p.value
            BY <1>1, <1>2, <3>2, LenProperties DEF PropType
        <3>4. QED
            BY <1>0, <3>3 DEF OneLine
    <2>5. CASE j = n + v + 3
        BY <1>2, <2>5
    <2>6. j = 1 \/ j \in 2 .. (n + 1) \/ j = n + 2 \/ j \in (n + 3) .. (n + 2 + v) \/ j = n + v + 3
        BY <1>2, <1>3
    <2>7. QED
        BY <2>1, <2>2, <2>3, <2>4, <2>5, <2>6
<1>9. DOMAIN raw = 1 .. Len(raw) /\ Len(raw) \in Nat
    BY <1>6, LenProperties
<1>10. ASSUME NEW j \in 1 .. (m - 1) PROVE Pieces(raw)[a + j] = <<>>
    <2>1. a + j \in DOMAIN raw /\ j \in 1 .. m
        BY <1>3, <1>6, <1>9
    <2>2. raw[a + j] # "\n"
        BY <1>7, <1>8, <2>1
    <2>3. QED
        BY <2>1, <2>2 DEF Pieces
<1>11. PICK k : k = a + m
    OBVIOUS
<1>12. k \in DOMAIN raw /\ raw[k] = "\n" /\ k \in Nat \ {0}
    <2>1. m \in 1 .. m
        BY <1>3
    <2>2. raw[a + m] = "\n"
        BY <1>2, <1>7, <2>1
    <2>3. QED
        BY <1>3, <1>6, <1>9, <1>11, <2>2
<1>13. StartsAt(raw, k, a)
    <2>1. a = 0 \/ raw[a] = "\n"
        <3>1. CASE r = <<>>
            BY <1>0, <3>1, EmptySeq
        <3>2. CASE a # 0
            <4>1. a \in 1 .. a /\ a \in 1 .. a + m
                BY <1>3, <3>2
            <4>2. raw[a] = r[a] /\ r # <<>>
                BY <1>0, <1>5, <1>6, <3>2, <4>1, EmptySeq
            <4>3. QED
                BY <1>0, <4>2 DEF Whole
        <3>3. QED
            BY <3>1, <3>2
    <2>2. ASSUME NEW i \in (a + 1) .. (k - 1) PROVE raw[i] # "\n"
        <3>1. PICK j : j = i - a
            OBVIOUS
        <3>2. j \in 1 .. (m - 1) /\ a + j = i /\ j \in 1 .. m
            BY <1>3, <1>11, <2>2, <3>1
        <3>3. QED
            BY <1>7, <1>8, <3>2
    <2>3. a \in 0 .. (k - 1)
        BY <1>3, <1>11
    <2>4. QED
        BY <2>1, <2>2, <2>3 DEF StartsAt
<1>14. PICK t : t = SubSeq(raw, a + 1, k - 1)
    OBVIOUS
<1>15. t = LineTo(raw, k)
    BY <1>12, <1>13, <1>14, LineToIs
<1>16. /\ t \in Seq(V) /\ Len(t) = m - 1
       /\ \A i \in 1 .. (m - 1) : t[i] = l[i]
    <2>1. \A i \in (a + 1) .. (k - 1) : raw[i] \in V
        <3>1. \A i \in 1 .. Len(raw) : raw[i] \in V
            BY <1>6, ElementOfSeq
        <3>2. QED
            BY <1>3, <1>6, <1>9, <1>11, <3>1
    <2>2. /\ t \in Seq(V) /\ Len(t) = IF a + 1 <= k - 1 THEN (k - 1) - (a + 1) + 1 ELSE 0
          /\ \A i \in 1 .. (k - 1) - (a + 1) + 1 : t[i] = raw[a + 1 + i - 1]
        BY <1>3, <1>11, <1>14, <2>1, SubSeqProperties
    <2>3. (k - 1) - (a + 1) + 1 = m - 1 /\ a + 1 <= k - 1
        BY <1>3, <1>11
    <2>4. ASSUME NEW i \in 1 .. (m - 1) PROVE t[i] = l[i]
        <3>1. a + 1 + i - 1 = a + i /\ i \in 1 .. m
            BY <1>3
        <3>2. QED
            BY <1>7, <2>2, <2>3, <3>1
    <2>5. QED
        BY <2>2, <2>3, <2>4
<1>17. LineOf(t, p, n, v)
    <2>1. Len(t) = n + v + 3 /\ \A i \in 1 .. n + v + 3 : t[i] = l[i]
        BY <1>3, <1>16
    <2>2. 1 \in 1 .. n + v + 3 /\ n + 2 \in 1 .. n + v + 3 /\ n + v + 3 \in 1 .. n + v + 3
        BY <1>2
    <2>3. ASSUME NEW i \in 1 .. n PROVE t[1 + i] = p.key[i]
        <3>1. 1 + i \in 1 .. n + v + 3
            BY <1>2
        <3>2. QED
            BY <1>2, <2>1, <3>1
    <2>4. ASSUME NEW i \in 1 .. v PROVE t[n + 2 + i] = p.value[i]
        <3>1. n + 2 + i \in 1 .. n + v + 3
            BY <1>2
        <3>2. QED
            BY <1>2, <2>1, <3>1
    <2>5. QED
        BY <1>1, <1>2, <2>1, <2>2, <2>3, <2>4 DEF LineOf
<1>18. Pieces(raw)[k] = <<p>>
    BY <1>0, <1>12, <1>15, <1>16, <1>17, LineReadsBack DEF Pieces
<1>19. QED
    BY <1>3, <1>6, <1>10, <1>11, <1>18 DEF LinePieces

\* What earlier characters add does not depend on later ones.
LEMMA PiecesConcat ==
    ASSUME NEW V, NEW r \in Seq(V), NEW s \in Seq(V)
    PROVE  \A k \in 1 .. Len(r) : Pieces(r \o s)[k] = Pieces(r)[k]
<1>1. PICK n, m, q : n = Len(r) /\ m = Len(s) /\ q = r \o s
    OBVIOUS
<1>2. /\ q \in Seq(V) /\ Len(q) = n + m /\ n \in Nat /\ m \in Nat
      /\ \A i \in 1 .. n : q[i] = r[i]
    BY <1>1, ConcatParts
<1>3. DOMAIN q = 1 .. n + m /\ DOMAIN r = 1 .. n
    BY <1>1, <1>2, LenProperties
<1>4. ASSUME NEW k \in 1 .. n PROVE Pieces(q)[k] = Pieces(r)[k]
    <2>1. k \in DOMAIN q /\ k \in DOMAIN r /\ q[k] = r[k]
        BY <1>2, <1>3
    <2>2. LineTo(q, k) = LineTo(r, k)
        BY <1>1, LineToStays
    <2>3. QED
        BY <2>1, <2>2 DEF Pieces
<1>5. QED
    BY <1>1, <1>4

-----------------------------------------------------------------------------
(* Functions on the elements of a sequence *)

Each(f, s) == [k \in DOMAIN s |-> f[s[k]]]

Maps(f, V, W) == f \in [V -> W]

LEMMA EachType ==
    ASSUME NEW V, NEW W, NEW f, Maps(f, V, W), NEW s \in Seq(V)
    PROVE  Each(f, s) \in Seq(W) /\ Len(Each(f, s)) = Len(s)
<1>1. Len(s) \in Nat /\ DOMAIN s = 1 .. Len(s) /\ \A k \in 1 .. Len(s) : s[k] \in V
    BY LenProperties, ElementOfSeq
<1>2. Each(f, s) \in [1 .. Len(s) -> W]
    BY <1>1 DEF Each, Maps
<1>3. QED
    BY <1>1, <1>2

LEMMA EachConcat ==
    ASSUME NEW V, NEW W, NEW f, Maps(f, V, W), NEW r \in Seq(V), NEW s \in Seq(V)
    PROVE  Each(f, r \o s) = Each(f, r) \o Each(f, s)
<1>1. PICK n, m, q : n = Len(r) /\ m = Len(s) /\ q = r \o s
    OBVIOUS
<1>2. /\ q \in Seq(V) /\ Len(q) = n + m /\ n \in Nat /\ m \in Nat
      /\ \A i \in 1 .. n : q[i] = r[i]
      /\ \A i \in 1 .. m : q[n + i] = s[i]
    BY <1>1, ConcatParts
<1>3. PICK a, b, c : a = Each(f, r) /\ b = Each(f, s) /\ c = Each(f, q)
    OBVIOUS
<1>4. /\ a \in Seq(W) /\ Len(a) = n /\ b \in Seq(W) /\ Len(b) = m
      /\ c \in Seq(W) /\ Len(c) = n + m
    <2>1. a \in Seq(W) /\ Len(a) = n
        BY <1>1, <1>3, EachType
    <2>2. b \in Seq(W) /\ Len(b) = m
        BY <1>1, <1>3, EachType
    <2>3. c \in Seq(W) /\ Len(c) = n + m
        BY <1>2, <1>3, EachType
    <2>4. QED
        BY <2>1, <2>2, <2>3
<1>5. /\ a \o b \in Seq(W) /\ Len(a \o b) = n + m
      /\ \A i \in 1 .. n : (a \o b)[i] = a[i]
      /\ \A i \in 1 .. m : (a \o b)[n + i] = b[i]
    BY <1>4, ConcatParts
<1>6. DOMAIN q = 1 .. n + m /\ DOMAIN r = 1 .. n /\ DOMAIN s = 1 .. m
    BY <1>1, <1>2, LenProperties
<1>7. ASSUME NEW i \in 1 .. n + m PROVE c[i] = (a \o b)[i]
    <2>1. c[i] = f[q[i]]
        BY <1>3, <1>6 DEF Each
    <2>2. CASE i \in 1 .. n
        <3>1. a[i] = f[r[i]]
            BY <1>3, <1>6, <2>2 DEF Each
        <3>2. QED
            BY <1>2, <1>5, <2>1, <2>2, <3>1
    <2>3. CASE i \notin 1 .. n
        <3>1. PICK j : j = i - n
            OBVIOUS
        <3>2. j \in 1 .. m /\ i = n + j
            BY <1>2, <2>3, <3>1
        <3>3. b[j] = f[s[j]]
            BY <1>3, <1>6, <3>2 DEF Each
        <3>4. q[n + j] = s[j] /\ (a \o b)[n + j] = b[j]
            BY <1>2, <1>5, <3>2
        <3>5. QED
            BY <2>1, <3>2, <3>3, <3>4
    <2>4. QED
        BY <2>2, <2>3
<1>8. c = a \o b
    BY <1>2, <1>4, <1>5, <1>7, SeqEqual
<1>9. QED
    BY <1>1, <1>3, <1>8

LEMMA EachOne ==
    ASSUME NEW V, NEW W, NEW f, Maps(f, V, W), NEW x \in V
    PROVE  Each(f, <<x>>) = <<f[x]>> /\ f[x] \in W
    BY DEF Each, Maps

-----------------------------------------------------------------------------
(* Lines one after another *)

LineFun(V) == [p \in PropType(V) |-> GetpropLine(p)]

LEMMA GetpropEach ==
    ASSUME NEW V, Symbols(V)
    PROVE  /\ Maps(LineFun(V), PropType(V), Seq(V))
           /\ \A ps \in Seq(PropType(V)) : Getprop(ps) = FlattenSeq(Each(LineFun(V), ps))
<1>1. ASSUME NEW p \in PropType(V) PROVE GetpropLine(p) \in Seq(V)
    BY LineCharacters DEF Symbols
<1>2. Maps(LineFun(V), PropType(V), Seq(V))
    BY <1>1 DEF LineFun, Maps
<1>3. ASSUME NEW ps \in Seq(PropType(V))
      PROVE  Getprop(ps) = FlattenSeq(Each(LineFun(V), ps))
    <2>1. \A k \in DOMAIN ps : ps[k] \in PropType(V)
        BY LenProperties, ElementOfSeq
    <2>2. [k \in DOMAIN ps |-> GetpropLine(ps[k])] = Each(LineFun(V), ps)
        BY <2>1 DEF Each, LineFun
    <2>3. QED
        BY <2>2 DEF Getprop
<1>4. QED
    BY <1>2, <1>3

LEMMA GetpropConcat ==
    ASSUME NEW V, Symbols(V), NEW a \in Seq(PropType(V)), NEW b \in Seq(PropType(V))
    PROVE  Getprop(a \o b) = Getprop(a) \o Getprop(b)
<1>1. /\ Maps(LineFun(V), PropType(V), Seq(V))
      /\ \A ps \in Seq(PropType(V)) : Getprop(ps) = FlattenSeq(Each(LineFun(V), ps))
    BY GetpropEach
<1>2. a \o b \in Seq(PropType(V))
    BY ConcatProperties
<1>3. Each(LineFun(V), a \o b) = Each(LineFun(V), a) \o Each(LineFun(V), b)
    BY <1>1, EachConcat
<1>4. Each(LineFun(V), a) \in Seq(Seq(V)) /\ Each(LineFun(V), b) \in Seq(Seq(V))
    BY <1>1, EachType
<1>5. FlattenSeq(Each(LineFun(V), a) \o Each(LineFun(V), b)) =
          FlattenSeq(Each(LineFun(V), a)) \o FlattenSeq(Each(LineFun(V), b))
    BY <1>4, FlattenConcat
<1>6. QED
    BY <1>1, <1>2, <1>3, <1>5

LEMMA GetpropOne ==
    ASSUME NEW V, Symbols(V), NEW p \in PropType(V)
    PROVE  Getprop(<<p>>) = GetpropLine(p) /\ GetpropLine(p) \in Seq(V)
<1>1. /\ Maps(LineFun(V), PropType(V), Seq(V))
      /\ \A ps \in Seq(PropType(V)) : Getprop(ps) = FlattenSeq(Each(LineFun(V), ps))
    BY GetpropEach
<1>2. Each(LineFun(V), <<p>>) = <<LineFun(V)[p]>>
    BY <1>1, EachOne
<1>3. LineFun(V)[p] = GetpropLine(p) /\ LineFun(V)[p] \in Seq(V)
    BY <1>1, <1>2, EachOne DEF LineFun
<1>4. FlattenSeq(<<LineFun(V)[p]>>) = LineFun(V)[p]
    BY <1>3, FlattenOne
<1>5. <<p>> \in Seq(PropType(V))
    OBVIOUS
<1>6. QED
    BY <1>1, <1>2, <1>3, <1>4, <1>5

LEMMA GetpropAppend ==
    ASSUME NEW V, Symbols(V), NEW ps \in Seq(PropType(V)), NEW p \in PropType(V)
    PROVE  Getprop(Append(ps, p)) = Getprop(ps) \o GetpropLine(p)
<1>1. <<p>> \in Seq(PropType(V)) /\ Append(ps, p) = ps \o <<p>>
    BY AppendIsConcat
<1>2. QED
    BY <1>1, GetpropConcat, GetpropOne

LEMMA GetpropType ==
    ASSUME NEW V, Symbols(V), NEW ps \in Seq(PropType(V))
    PROVE  Getprop(ps) \in Seq(V) /\ Whole(Getprop(ps)) /\ (ps = <<>> => Getprop(ps) = <<>>)
<1> DEFINE T == {q \in Seq(PropType(V)) : Getprop(q) \in Seq(V) /\ Whole(Getprop(q))}
<1>1. Getprop(<<>>) = <<>> /\ <<>> \in T
    <2>1. <<>> \in Seq(PropType(V)) /\ <<>> \in Seq(V) /\ <<>> \in Seq(Seq(V))
        BY EmptySeq
    <2>2. Each(LineFun(V), <<>>) = <<>>
        BY DEF Each
    <2>3. Getprop(<<>>) = <<>>
        <3>1. Getprop(<<>>) = FlattenSeq(<<>>)
            BY <2>1, <2>2, GetpropEach
        <3>2. QED
            BY <2>1, <3>1, FlattenType
    <2>4. QED
        BY <2>1, <2>3 DEF Whole
<1>2. ASSUME NEW q \in Seq(PropType(V)), NEW p \in PropType(V), q \in T PROVE Append(q, p) \in T
    <2>1. PICK r, l, a, m, n, v : /\ r = Getprop(q) /\ l = GetpropLine(p) /\ a = Len(r) /\ m = Len(l)
                                  /\ n = Len(p.key) /\ v = Len(p.value)
        OBVIOUS
    <2>2. l \in Seq(V) /\ n \in Nat /\ v \in Nat /\ m = n + v + 4 /\ l[n + v + 4] = "\n"
        BY <2>1, LineCharacters DEF Symbols
    <2>3. r \in Seq(V)
        BY <1>2, <2>1
    <2>4. PICK t : t = r \o l
        OBVIOUS
    <2>5. t \in Seq(V) /\ Len(t) = a + m /\ \A i \in 1 .. m : t[a + i] = l[i]
        <3>1. r \in Seq(V) /\ l \in Seq(V) /\ a = Len(r) /\ m = Len(l) /\ t = r \o l
            BY <2>1, <2>2, <2>3, <2>4
        <3>2. QED
            BY <3>1, ConcatParts
    <2>6. m \in 1 .. m
        BY <2>2
    <2>7. t[a + m] = "\n"
        BY <2>2, <2>5, <2>6
    <2>8. Getprop(Append(q, p)) = t
        BY <2>1, <2>4, GetpropAppend
    <2>9. Append(q, p) \in Seq(PropType(V))
        BY AppendProperties
    <2>10. QED
        BY <2>5, <2>7, <2>8, <2>9 DEF Whole
<1> HIDE DEF T
<1>3. Seq(PropType(V)) \subseteq T
    BY <1>1, <1>2, SeqSet
<1>4. QED
    BY <1>1, <1>3 DEF T

-----------------------------------------------------------------------------
(* What is read out of getprop's output *)

\* One line and a proper key are enough for a property to be read out of what
\* getprop prints as it is, whatever the values of the others do to the lines
\* around it (parse_getprop_output in cmd_props.cpp).
THEOREM PropRead ==
    ASSUME NEW V, Symbols(V), NEW ps \in Seq(PropType(V)), NEW k \in 1 .. Len(ps),
           Keyed(ps[k]), OneLine(ps[k])
    PROVE  ps[k] \in ToSet(parse_getprop_output(Getprop(ps)))
<1>1. PICK p, pre, post : p = ps[k] /\ pre = SubSeq(ps, 1, k - 1) /\ post = SubSeq(ps, k + 1, Len(ps))
    OBVIOUS
<1>2. Len(ps) \in Nat /\ p \in PropType(V)
    BY <1>1, LenProperties, ElementOfSeq
<1>3. pre \in Seq(PropType(V)) /\ post \in Seq(PropType(V)) /\ <<p>> \in Seq(PropType(V))
    BY <1>1, <1>2, PartType
<1>4. ps = pre \o (<<p>> \o post)
    BY <1>1, SplitAround
<1>5. PICK r, l, s : r = Getprop(pre) /\ l = GetpropLine(p) /\ s = Getprop(post)
    OBVIOUS
<1>6. r \in Seq(V) /\ Whole(r) /\ s \in Seq(V) /\ l \in Seq(V) /\ Getprop(<<p>>) = l
    BY <1>2, <1>3, <1>5, GetpropType, GetpropOne
<1>7. Getprop(ps) = r \o (l \o s)
    <2>1. <<p>> \o post \in Seq(PropType(V))
        BY <1>3, ConcatProperties
    <2>2. Getprop(<<p>> \o post) = l \o s
        BY <1>3, <1>5, <1>6, GetpropConcat
    <2>3. Getprop(pre \o (<<p>> \o post)) = Getprop(pre) \o Getprop(<<p>> \o post)
        BY <1>3, <2>1, GetpropConcat
    <2>4. QED
        BY <1>4, <1>5, <2>2, <2>3
<1>8. Getprop(ps) = (r \o l) \o s
    <2>1. r \in Seq(V) /\ l \in Seq(V) /\ s \in Seq(V)
        BY <1>6
    <2>2. (r \o l) \o s = r \o (l \o s)
        BY <2>1, ConcatAssociative
    <2>3. QED
        BY <1>7, <2>2
<1>9. PICK raw, a, m : raw = Getprop(ps) /\ a = Len(r) /\ m = Len(l)
    OBVIOUS
<1>10. /\ raw \in Seq(V) /\ a \in Nat /\ m \in Nat /\ m > 0 /\ a + m <= Len(raw)
       /\ Pieces(raw)[a + m] = <<p>>
    <2>1. raw = (r \o GetpropLine(p)) \o s /\ a = Len(r) /\ m = Len(GetpropLine(p))
        BY <1>5, <1>8, <1>9
    <2>2. Keyed(p) /\ OneLine(p)
        BY <1>1
    <2>3. QED
        <3>1. LineAt(V, p, r, s, raw, a, m)
            BY <1>2, <1>6, <2>1, <2>2 DEF LineAt
        <3>2. QED
            BY <3>1, PieceOfLine DEF LinePieces
<1>11. /\ Pieces(raw) \in Seq(Seq(PropType(V))) /\ Len(Pieces(raw)) = Len(raw)
       /\ FlattenSeq(Pieces(raw)) = parse_getprop_output(raw)
    BY <1>10, PiecesType
<1>12. PICK j : j = a + m
    OBVIOUS
<1>13. j \in 1 .. Len(Pieces(raw)) /\ Pieces(raw)[j] = <<p>>
    BY <1>10, <1>11, <1>12, LenProperties
<1>14. 1 \in 1 .. Len(Pieces(raw)[j]) /\ Pieces(raw)[j][1] = p
    BY <1>13
<1>15. Pieces(raw)[j][1] \in ToSet(FlattenSeq(Pieces(raw)))
    BY <1>11, <1>13, <1>14, FlattenHas
<1>16. QED
    BY <1>1, <1>9, <1>11, <1>14, <1>15

AllPlain(ps) == \A k \in 1 .. Len(ps) : Keyed(ps[k]) /\ OneLine(ps[k])

\* If all have one line, they are what parse_getprop_output() reads, in order.
THEOREM PropsRead ==
    ASSUME NEW V, Symbols(V), NEW ps \in Seq(PropType(V)), AllPlain(ps)
    PROVE  parse_getprop_output(Getprop(ps)) = ps
<1> DEFINE T == {q \in Seq(PropType(V)) : AllPlain(q) => parse_getprop_output(Getprop(q)) = q}
<1>1. <<>> \in T
    <2>1. <<>> \in Seq(PropType(V)) /\ Getprop(<<>>) = <<>>
        BY EmptySeq, GetpropType
    <2>2. Pieces(<<>>) = <<>>
        BY DEF Pieces
    <2>3. FlattenSeq(Pieces(<<>>)) = parse_getprop_output(<<>>)
          /\ Pieces(<<>>) \in Seq(Seq(PropType(V)))
        <3>1. <<>> \in Seq(V)
            BY EmptySeq
        <3>2. QED
            BY <3>1, PiecesType
    <2>4. QED
        BY <2>1, <2>2, <2>3, FlattenType
<1>2. ASSUME NEW q \in Seq(PropType(V)), NEW p \in PropType(V), q \in T PROVE Append(q, p) \in T
    <2>1. SUFFICES ASSUME AllPlain(Append(q, p))
                   PROVE  parse_getprop_output(Getprop(Append(q, p))) = Append(q, p)
        BY AppendProperties
    <2>2. AllPlain(q) /\ Keyed(p) /\ OneLine(p)
        <3>1. /\ Len(Append(q, p)) = Len(q) + 1 /\ Len(q) \in Nat
              /\ \A i \in 1 .. Len(q) : Append(q, p)[i] = q[i]
              /\ Append(q, p)[Len(q) + 1] = p
            BY AppendProperties, LenProperties
        <3>2. QED
            BY <2>1, <3>1 DEF AllPlain
    <2>3. parse_getprop_output(Getprop(q)) = q
        BY <1>2, <2>2
    <2>4. PICK r, l, a, m : r = Getprop(q) /\ l = GetpropLine(p) /\ a = Len(r) /\ m = Len(l)
        OBVIOUS
    <2>5. r \in Seq(V) /\ Whole(r) /\ l \in Seq(V)
        BY <2>4, GetpropType, GetpropOne
    <2>6. PICK raw : raw = r \o l
        OBVIOUS
    <2>7. raw = Getprop(Append(q, p))
        BY <2>4, <2>6, GetpropAppend
    <2>8. /\ raw \in Seq(V) /\ Len(raw) = a + m
          /\ \A k \in 1 .. a : Pieces(raw)[k] = Pieces(r)[k]
        <3>1. r \in Seq(V) /\ l \in Seq(V) /\ a = Len(r) /\ m = Len(l) /\ raw = r \o l
            BY <2>4, <2>5, <2>6
        <3>2. raw \in Seq(V) /\ Len(raw) = a + m
            BY <3>1, ConcatParts
        <3>3. QED
            BY <3>1, <3>2, PiecesConcat
    <2>9. /\ a \in Nat /\ m \in Nat /\ m > 0
          /\ Pieces(raw)[a + m] = <<p>>
          /\ \A j \in 1 .. (m - 1) : Pieces(raw)[a + j] = <<>>
        <3>1. <<>> \in Seq(V) /\ raw = (r \o GetpropLine(p)) \o <<>>
            BY <2>4, <2>6, <2>8, EmptySeq, ConcatEmptySeq
        <3>2. QED
            <4>1. LineAt(V, p, r, <<>>, raw, a, m)
                BY <2>2, <2>4, <2>5, <3>1 DEF LineAt
            <4>2. QED
                BY <4>1, PieceOfLine DEF LinePieces
    <2>10. PICK z : /\ z \in Seq(Seq(PropType(V))) /\ Len(z) = m - 1
                    /\ \A j \in 1 .. (m - 1) : z[j] = <<>>
        <3>1. PICK i : i = m - 1
            OBVIOUS
        <3>2. i \in Nat /\ <<>> \in Seq(PropType(V))
            BY <2>9, <3>1, EmptySeq
        <3> DEFINE x == [j \in 1 .. i |-> <<>>]
        <3>3. x \in Seq(Seq(PropType(V))) /\ Len(x) = i /\ \A j \in 1 .. i : x[j] = <<>>
            <4>1. x \in [1 .. i -> Seq(PropType(V))]
                BY <3>2
            <4>2. QED
                BY <3>2, <4>1
        <3> HIDE DEF x
        <3>4. QED
            BY <3>1, <3>3
    <2>11. PICK b, c, d : b = Append(z, <<p>>) /\ c = Pieces(r) /\ d = Pieces(raw)
        OBVIOUS
    <2>12. /\ b \in Seq(Seq(PropType(V))) /\ Len(b) = m /\ b[m] = <<p>>
           /\ \A j \in 1 .. (m - 1) : b[j] = <<>>
        <3>1. PICK i : i = m - 1
            OBVIOUS
        <3>2. /\ b \in Seq(Seq(PropType(V))) /\ Len(b) = i + 1 /\ b[i + 1] = <<p>>
              /\ \A j \in 1 .. i : b[j] = z[j]
            <4>1. <<p>> \in Seq(PropType(V))
                OBVIOUS
            <4>2. QED
                BY <2>10, <2>11, <3>1, <4>1, AppendProperties
        <3>3. i + 1 = m
            BY <2>9, <3>1
        <3>4. QED
            BY <2>10, <3>1, <3>2, <3>3
    <2>13. /\ c \in Seq(Seq(PropType(V))) /\ Len(c) = a /\ FlattenSeq(c) = q
           /\ d \in Seq(Seq(PropType(V))) /\ Len(d) = a + m
           /\ FlattenSeq(d) = parse_getprop_output(raw)
        BY <2>3, <2>4, <2>5, <2>8, <2>11, PiecesType
    <2>14. PICK e : e = c \o b
        OBVIOUS
    <2>15. /\ e \in Seq(Seq(PropType(V))) /\ Len(e) = a + m
           /\ \A i \in 1 .. a : e[i] = c[i]
           /\ \A i \in 1 .. m : e[a + i] = b[i]
        <3>1. c \in Seq(Seq(PropType(V))) /\ b \in Seq(Seq(PropType(V)))
              /\ a = Len(c) /\ m = Len(b) /\ e = c \o b
            BY <2>12, <2>13, <2>14
        <3>2. QED
            BY <3>1, ConcatParts
    <2>16. ASSUME NEW i \in 1 .. a + m PROVE d[i] = e[i]
        <3>1. CASE i \in 1 .. a
            BY <2>8, <2>11, <2>15, <3>1
        <3>2. CASE i \notin 1 .. a
            <4>1. PICK j : j = i - a
                OBVIOUS
            <4>2. j \in 1 .. m /\ i = a + j /\ (j # m => j \in 1 .. (m - 1))
                BY <2>9, <3>2, <4>1
            <4>3. d[a + j] = b[j]
                BY <2>9, <2>11, <2>12, <4>2
            <4>4. QED
                BY <2>15, <4>2, <4>3
        <3>3. QED
            BY <3>1, <3>2
    <2>17. d = e
        BY <2>9, <2>13, <2>15, <2>16, SeqEqual
    <2>18. FlattenSeq(b) = <<p>>
        <3>1. FlattenSeq(z) = <<>>
            BY <2>10, FlattenNone
        <3>2. <<p>> \in Seq(PropType(V)) /\ <<>> \o <<p>> = <<p>>
            BY ConcatEmptySeq
        <3>3. FlattenSeq(b) = FlattenSeq(z) \o <<p>>
            BY <2>10, <2>11, <3>2, FlattenAppend
        <3>4. QED
            BY <3>1, <3>2, <3>3
    <2>19. FlattenSeq(e) = q \o <<p>>
        BY <2>12, <2>13, <2>14, <2>18, FlattenConcat
    <2>20. QED
        BY <2>7, <2>13, <2>17, <2>19, AppendIsConcat
<1> HIDE DEF T
<1>3. Seq(PropType(V)) \subseteq T
    BY <1>1, <1>2, SeqSet
<1>4. QED
    BY <1>3 DEF T

\* What the filter is in stays.
LEMMA FilterKeeps ==
    ASSUME NEW V, NEW ps \in Seq(V), NEW filter, NEW k \in 1 .. Len(ps), Matches(ps[k], filter)
    PROVE  ps[k] \in ToSet(Filtered(ps, filter))
<1> DEFINE s == [i \in DOMAIN ps |-> IF Matches(ps[i], filter) THEN <<ps[i]>> ELSE <<>>]
<1>1. Len(ps) \in Nat /\ DOMAIN ps = 1 .. Len(ps) /\ \A i \in 1 .. Len(ps) : ps[i] \in V
    BY LenProperties, ElementOfSeq
<1>2. \A i \in 1 .. Len(ps) : s[i] \in Seq(V)
    BY <1>1
<1>3. s \in Seq(Seq(V)) /\ Len(s) = Len(ps)
    BY <1>1, <1>2
<1>4. s[k] = <<ps[k]>> /\ k \in 1 .. Len(s) /\ FlattenSeq(s) = Filtered(ps, filter)
    BY <1>1, <1>3 DEF Filtered
<1> HIDE DEF s
<1>5. 1 \in 1 .. Len(s[k]) /\ s[k][1] = ps[k]
    BY <1>4
<1>6. s[k][1] \in ToSet(FlattenSeq(s))
    BY <1>3, <1>4, <1>5, FlattenHas
<1>7. QED
    BY <1>4, <1>5, <1>6

-----------------------------------------------------------------------------
(* The reader's recursive function exists: a result depends on later places *)

Later(r, i) == r.at = 0 \/ (r.at \in Nat /\ r.at > i)
LaterAfter(g, t, i) == \A ty \in Types, j \in (i + 1) .. (Len(t) + 1) : Later(g[<<ty, j>>], j)
AgreeAfter(g, h, t, i) ==
    \A ty \in Types, j \in (i + 1) .. (Len(t) + 1) : g[<<ty, j>>] = h[<<ty, j>>]

LEMMA CharAtEnd ==
    ASSUME NEW V, NEW t \in Seq(V), NEW i, CharAt(t, i) # "end of text"
    PROVE  i \in 1 .. Len(t) /\ CharAt(t, i) = t[i] /\ Len(t) \in Nat
    BY LenProperties DEF CharAt

\* A result at a later place, read with either of two functions.
LEMMA LaterResult ==
    ASSUME NEW t, NEW g, NEW h, NEW i \in Nat, LaterAfter(g, t, i), AgreeAfter(g, h, t, i),
           NEW ty \in Types, NEW j \in (i + 1) .. (Len(t) + 1)
    PROVE  g[<<ty, j>>] = h[<<ty, j>>] /\ Later(g[<<ty, j>>], j) /\ Later(g[<<ty, j>>], i)
<1>1. g[<<ty, j>>] = h[<<ty, j>>] /\ Later(g[<<ty, j>>], j)
    BY DEF LaterAfter, AgreeAfter
<1>2. QED
    BY <1>1 DEF Later

LEMMA UnescapedLater ==
    ASSUME NEW V, NEW t \in Seq(V), NEW i \in Nat, Unescaped(t, i).at # 0
    PROVE  Unescaped(t, i).at \in (i + 1) .. (Len(t) + 1)
<1>1. PICK c, d : c = CharAt(t, i) /\ d = CharAt(t, i + 1)
    OBVIOUS
<1>2. Wrong.at = 0
    BY DEF Wrong
<1>3. CASE c \in {Quote, Backslash}
    <2>1. i \in 1 .. Len(t) /\ Len(t) \in Nat
        BY <1>1, <1>3, CharAtEnd DEF Quote, Backslash
    <2>2. Unescaped(t, i).at = i + 1
        BY <1>1, <1>3 DEF Unescaped, Quote, Backslash
    <2>3. QED
        BY <2>1, <2>2
<1>4. CASE c = "n"
    <2>1. i \in 1 .. Len(t) /\ Len(t) \in Nat
        BY <1>1, <1>4, CharAtEnd
    <2>2. Unescaped(t, i).at = i + 1
        BY <1>1, <1>4 DEF Unescaped, Quote, Backslash
    <2>3. QED
        BY <2>1, <2>2
<1>5. CASE c = "t"
    <2>1. i \in 1 .. Len(t) /\ Len(t) \in Nat
        BY <1>1, <1>5, CharAtEnd
    <2>2. Unescaped(t, i).at = i + 1
        BY <1>1, <1>5 DEF Unescaped, Quote, Backslash
    <2>3. QED
        BY <2>1, <2>2
<1>6. CASE c = "u" /\ d \in {Hex[k] : k \in DOMAIN Hex}
    <2>1. d # "end of text"
        BY <1>6 DEF Hex
    <2>2. i + 1 \in 1 .. Len(t) /\ Len(t) \in Nat
        BY <1>1, <2>1, CharAtEnd
    <2>3. Unescaped(t, i).at = i + 2
        BY <1>1, <1>6 DEF Unescaped, Quote, Backslash
    <2>4. QED
        BY <2>2, <2>3
<1>7. CASE ~(c \in {Quote, Backslash} \/ c = "n" \/ c = "t" \/ (c = "u" /\ d \in {Hex[k] : k \in DOMAIN Hex}))
    BY <1>1, <1>2, <1>7 DEF Unescaped
<1>8. QED
    BY <1>3, <1>4, <1>5, <1>6, <1>7

LEMMA StringAtLater ==
    ASSUME NEW V, NEW t \in Seq(V), NEW g, NEW h, NEW i \in Nat,
           LaterAfter(g, t, i), AgreeAfter(g, h, t, i)
    PROVE  StringAt(g, t, i) = StringAt(h, t, i) /\ Later(StringAt(g, t, i), i)
<1>1. PICK c, one : /\ c = CharAt(t, i)
                    /\ one = IF c = Backslash THEN Unescaped(t, i + 1) ELSE [v |-> c, at |-> i + 1]
    OBVIOUS
<1>2. Later(Wrong, i)
    BY DEF Wrong, Later
<1>3. CASE c = Quote
    <2>1. StringAt(g, t, i) = [v |-> <<>>, at |-> i + 1] /\ StringAt(h, t, i) = [v |-> <<>>, at |-> i + 1]
        <3>1. c \notin InNoString /\ c # Backslash
            BY <1>3 DEF InNoString, Quote, Backslash, Hex
        <3>2. one.at # 0
            BY <1>1, <3>1
        <3>3. QED
            BY <1>1, <1>3, <3>1, <3>2 DEF StringAt
    <2>2. QED
        BY <2>1 DEF Later
<1>4. CASE c # Quote /\ (c \in InNoString \/ one.at = 0)
    <2>1. StringAt(g, t, i) = Wrong /\ StringAt(h, t, i) = Wrong
        BY <1>1, <1>4 DEF StringAt
    <2>2. QED
        BY <1>2, <2>1
<1>5. CASE c # Quote /\ c \notin InNoString /\ one.at # 0
    <2>1. i \in 1 .. Len(t) /\ Len(t) \in Nat
        BY <1>1, <1>5, CharAtEnd DEF InNoString
    <2>2. one.at \in (i + 1) .. (Len(t) + 1)
        <3>1. CASE c = Backslash
            <4>1. one.at \in (i + 1 + 1) .. (Len(t) + 1)
                BY <1>1, <1>5, <3>1, UnescapedLater
            <4>2. QED
                BY <4>1
        <3>2. CASE c # Backslash
            <4>1. one.at = i + 1
                BY <1>1, <3>2
            <4>2. QED
                BY <2>1, <4>1
        <3>3. QED
            BY <3>1, <3>2
    <2>3. PICK r : r = g[<<"string", one.at>>]
        OBVIOUS
    <2>4. r = h[<<"string", one.at>>] /\ Later(r, i)
        BY <2>2, <2>3, LaterResult DEF Types
    <2>5. StringAt(g, t, i) = Then(one, r) /\ StringAt(h, t, i) = Then(one, r)
        BY <1>1, <1>5, <2>3, <2>4 DEF StringAt
    <2>6. QED
        BY <1>2, <2>4, <2>5 DEF Then, Later
<1>6. QED
    BY <1>3, <1>4, <1>5

LEMMA ValueAtLater ==
    ASSUME NEW V, NEW t \in Seq(V), NEW g, NEW h, NEW i \in Nat,
           LaterAfter(g, t, i), AgreeAfter(g, h, t, i)
    PROVE  ValueAt(g, t, i) = ValueAt(h, t, i) /\ Later(ValueAt(g, t, i), i)
<1>1. PICK c : c = CharAt(t, i)
    OBVIOUS
<1>2. Later(Wrong, i)
    BY DEF Wrong, Later
<1>3. CASE c \in Words
    <2>1. ValueAt(g, t, i) = [v |-> <<"word", c>>, at |-> i + 1]
          /\ ValueAt(h, t, i) = [v |-> <<"word", c>>, at |-> i + 1]
        BY <1>1, <1>3 DEF ValueAt, Words, Quote
    <2>2. QED
        BY <2>1 DEF Later
<1>4. ASSUME c \in {Quote, "[", "{"} PROVE i + 1 \in (i + 1) .. (Len(t) + 1)
    <2>1. i \in 1 .. Len(t) /\ Len(t) \in Nat
        BY <1>1, <1>4, CharAtEnd DEF Quote
    <2>2. QED
        BY <2>1
<1>5. CASE c = Quote
    <2>1. PICK r : r = g[<<"string", i + 1>>]
        OBVIOUS
    <2>2. r = h[<<"string", i + 1>>] /\ Later(r, i)
        BY <1>4, <1>5, <2>1, LaterResult DEF Types
    <2>3. PICK x : x = IF r.at = 0 THEN Wrong ELSE [v |-> <<"string", r.v>>, at |-> r.at]
        OBVIOUS
    <2>4. ValueAt(g, t, i) = x /\ ValueAt(h, t, i) = x
        BY <1>1, <1>5, <2>1, <2>2, <2>3 DEF ValueAt, Words, Quote
    <2>5. QED
        BY <1>2, <2>2, <2>3, <2>4 DEF Later
<1>6. CASE c = "["
    <2>1. PICK r : r = IF CharAt(t, i + 1) = "]" THEN [v |-> <<>>, at |-> i + 2] ELSE g[<<"array", i + 1>>]
        OBVIOUS
    <2>2. g[<<"array", i + 1>>] = h[<<"array", i + 1>>] /\ Later(g[<<"array", i + 1>>], i)
        BY <1>4, <1>6, LaterResult DEF Types
    <2>3. PICK x : x = IF r.at = 0 THEN Wrong ELSE [v |-> <<"array", r.v>>, at |-> r.at]
        OBVIOUS
    <2>4. ValueAt(g, t, i) = x /\ ValueAt(h, t, i) = x
        BY <1>1, <1>6, <2>1, <2>2, <2>3 DEF ValueAt, Words, Quote
    <2>5. Later(r, i)
        BY <2>1, <2>2 DEF Later
    <2>6. QED
        BY <1>2, <2>3, <2>4, <2>5 DEF Later
<1>7. CASE c = "{"
    <2>1. PICK r : r = IF CharAt(t, i + 1) = "}" THEN [v |-> <<>>, at |-> i + 2] ELSE g[<<"object", i + 1>>]
        OBVIOUS
    <2>2. g[<<"object", i + 1>>] = h[<<"object", i + 1>>] /\ Later(g[<<"object", i + 1>>], i)
        <3>1. i + 1 \in (i + 1) .. (Len(t) + 1) /\ "object" \in Types
            BY <1>4, <1>7 DEF Types
        <3>2. QED
            BY <3>1, LaterResult
    <2>3. PICK x : x = IF r.at = 0 THEN Wrong ELSE [v |-> <<"object", r.v>>, at |-> r.at]
        OBVIOUS
    <2>4. ValueAt(g, t, i) = x /\ ValueAt(h, t, i) = x
        BY <1>1, <1>7, <2>1, <2>2, <2>3 DEF ValueAt, Words, Quote
    <2>5. Later(r, i)
        <3>1. CASE CharAt(t, i + 1) = "}"
            <4>1. r.at = i + 2
                BY <2>1, <3>1
            <4>2. QED
                BY <4>1 DEF Later
        <3>2. CASE CharAt(t, i + 1) # "}"
            BY <2>1, <2>2, <3>2
        <3>3. QED
            BY <3>1, <3>2
    <2>6. QED
        BY <1>2, <2>3, <2>4, <2>5 DEF Later
<1>8. CASE c \notin Words /\ c # Quote /\ c # "[" /\ c # "{"
    <2>1. ValueAt(g, t, i) = Wrong /\ ValueAt(h, t, i) = Wrong
        BY <1>1, <1>8 DEF ValueAt
    <2>2. QED
        BY <1>2, <2>1
<1>9. QED
    BY <1>3, <1>5, <1>6, <1>7, <1>8

LEMMA MemberAtLater ==
    ASSUME NEW V, NEW t \in Seq(V), NEW g, NEW h, NEW i \in Nat,
           LaterAfter(g, t, i), AgreeAfter(g, h, t, i)
    PROVE  MemberAt(g, t, i) = MemberAt(h, t, i) /\ Later(MemberAt(g, t, i), i)
<1>1. PICK key : key = IF CharAt(t, i) = Quote THEN g[<<"string", i + 1>>] ELSE Wrong
    OBVIOUS
<1>2. key = (IF CharAt(t, i) = Quote THEN h[<<"string", i + 1>>] ELSE Wrong) /\ Later(key, i)
    <2>1. CASE CharAt(t, i) = Quote
        <3>1. i \in 1 .. Len(t) /\ Len(t) \in Nat
            BY <2>1, CharAtEnd DEF Quote
        <3>2. i + 1 \in (i + 1) .. (Len(t) + 1)
            BY <3>1
        <3>3. QED
            BY <1>1, <2>1, <3>2, LaterResult DEF Types
    <2>2. CASE CharAt(t, i) # Quote
        BY <1>1, <2>2 DEF Later, Wrong
    <2>3. QED
        BY <2>1, <2>2
<1>3. PICK val : val = IF CharAt(t, key.at) = ":" THEN g[<<"value", key.at + 1>>] ELSE Wrong
    OBVIOUS
<1>4. val = (IF CharAt(t, key.at) = ":" THEN h[<<"value", key.at + 1>>] ELSE Wrong) /\ Later(val, i)
    <2>1. CASE CharAt(t, key.at) = ":"
        <3>1. PICK k : k = key.at + 1
            OBVIOUS
        <3>2. key.at \in 1 .. Len(t) /\ Len(t) \in Nat
            BY <2>1, CharAtEnd
        <3>3. k \in (i + 1) .. (Len(t) + 1)
            BY <1>2, <3>1, <3>2 DEF Later
        <3>4. QED
            BY <1>3, <2>1, <3>1, <3>3, LaterResult DEF Types
    <2>2. CASE CharAt(t, key.at) # ":"
        BY <1>3, <2>2 DEF Later, Wrong
    <2>3. QED
        BY <2>1, <2>2
<1>5. PICK x : x = IF val.at = 0 THEN Wrong ELSE [v |-> <<key.v, val.v>>, at |-> val.at]
    OBVIOUS
<1>6. MemberAt(g, t, i) = x /\ MemberAt(h, t, i) = x
    <2>1. MemberAt(g, t, i) = x
        BY <1>1, <1>3, <1>5 DEF MemberAt
    <2>2. MemberAt(h, t, i) = x
        BY <1>2, <1>4, <1>5 DEF MemberAt
    <2>3. QED
        BY <2>1, <2>2
<1>7. QED
    BY <1>4, <1>5, <1>6 DEF Later, Wrong

LEMMA ItemsAtLater ==
    ASSUME NEW V, NEW t \in Seq(V), NEW g, NEW h, NEW i \in Nat, NEW ty \in Types,
           LaterAfter(g, t, i), AgreeAfter(g, h, t, i)
    PROVE  ItemsAt(g, t, ty, i) = ItemsAt(h, t, ty, i) /\ Later(ItemsAt(g, t, ty, i), i)
<1>1. PICK item, end : /\ item = IF ty = "array" THEN ValueAt(g, t, i) ELSE MemberAt(g, t, i)
                       /\ end = IF ty = "array" THEN "]" ELSE "}"
    OBVIOUS
<1>2. item = (IF ty = "array" THEN ValueAt(h, t, i) ELSE MemberAt(h, t, i)) /\ Later(item, i)
    <2>1. ValueAt(g, t, i) = ValueAt(h, t, i) /\ Later(ValueAt(g, t, i), i)
        BY ValueAtLater
    <2>2. MemberAt(g, t, i) = MemberAt(h, t, i) /\ Later(MemberAt(g, t, i), i)
        BY MemberAtLater
    <2>3. QED
        BY <1>1, <2>1, <2>2
<1>3. PICK c : c = CharAt(t, item.at)
    OBVIOUS
<1>4. ASSUME c # "end of text"
      PROVE  item.at \in (i + 1) .. Len(t) /\ item.at + 1 \in (i + 1) .. (Len(t) + 1)
    <2>1. item.at \in 1 .. Len(t) /\ Len(t) \in Nat
        BY <1>3, <1>4, CharAtEnd
    <2>2. QED
        BY <1>2, <2>1 DEF Later
<1>5. CASE c = end
    <2>1. ItemsAt(g, t, ty, i) = [v |-> <<item.v>>, at |-> item.at + 1]
        BY <1>1, <1>3, <1>5 DEF ItemsAt
    <2>2. ItemsAt(h, t, ty, i) = [v |-> <<item.v>>, at |-> item.at + 1]
        BY <1>1, <1>2, <1>3, <1>5 DEF ItemsAt
    <2>3. item.at \in (i + 1) .. Len(t)
        BY <1>1, <1>4, <1>5
    <2>4. QED
        BY <2>1, <2>2, <2>3 DEF Later
<1>6. CASE c # end /\ c = ","
    <2>1. PICK k : k = item.at + 1
        OBVIOUS
    <2>2. k \in (i + 1) .. (Len(t) + 1)
        BY <1>4, <1>6, <2>1
    <2>3. PICK r : r = g[<<ty, k>>]
        OBVIOUS
    <2>4. r = h[<<ty, k>>] /\ Later(r, i)
        BY <2>2, <2>3, LaterResult
    <2>5. ItemsAt(g, t, ty, i) = Then(item, r)
        BY <1>1, <1>3, <1>6, <2>1, <2>3 DEF ItemsAt
    <2>6. ItemsAt(h, t, ty, i) = Then(item, r)
        BY <1>1, <1>2, <1>3, <1>6, <2>1, <2>4 DEF ItemsAt
    <2>7. QED
        BY <2>4, <2>5, <2>6 DEF Then, Later, Wrong
<1>7. CASE c # end /\ c # ","
    <2>1. ItemsAt(g, t, ty, i) = Wrong
        BY <1>1, <1>3, <1>7 DEF ItemsAt
    <2>2. ItemsAt(h, t, ty, i) = Wrong
        BY <1>1, <1>2, <1>3, <1>7 DEF ItemsAt
    <2>3. QED
        BY <2>1, <2>2 DEF Later, Wrong
<1>8. QED
    BY <1>5, <1>6, <1>7

LEMMA ResultAtLater ==
    ASSUME NEW V, NEW t \in Seq(V), NEW g, NEW h, NEW i \in Nat, NEW ty \in Types,
           LaterAfter(g, t, i), AgreeAfter(g, h, t, i)
    PROVE  ResultAt(g, t, <<ty, i>>) = ResultAt(h, t, <<ty, i>>) /\ Later(ResultAt(g, t, <<ty, i>>), i)
<1>1. <<ty, i>>[1] = ty /\ <<ty, i>>[2] = i
    OBVIOUS
<1>2. CASE ty = "string"
    BY <1>1, <1>2, StringAtLater DEF ResultAt
<1>3. CASE ty = "value"
    BY <1>1, <1>3, ValueAtLater DEF ResultAt
<1>4. CASE ty # "string" /\ ty # "value"
    BY <1>1, <1>4, ItemsAtLater DEF ResultAt
<1>5. QED
    BY <1>2, <1>3, <1>4

\* Its equation, from place d on.
ReadFrom(g, t, d) ==
    \A ty \in Types, j \in d .. (Len(t) + 1) :
        g[<<ty, j>>] = ResultAt(g, t, <<ty, j>>) /\ Later(g[<<ty, j>>], j)
Places2(t) == Types \X (1 .. Len(t) + 1)
ReadsFrom(t, d) == \E g : g = [x \in Places2(t) |-> g[x]] /\ ReadFrom(g, t, d)

LEMMA ReadsMore ==
    ASSUME NEW V, NEW t \in Seq(V), NEW d \in 1 .. (Len(t) + 1), ReadsFrom(t, d + 1)
    PROVE  ReadsFrom(t, d)
<1>1. Len(t) \in Nat
    BY LenProperties
<1>2. PICK g : g = [x \in Places2(t) |-> g[x]] /\ ReadFrom(g, t, d + 1)
    BY DEF ReadsFrom
<1> DEFINE h == [x \in Places2(t) |-> IF x[2] = d THEN ResultAt(g, t, x) ELSE g[x]]
<1>3. ASSUME NEW ty \in Types, NEW j \in 1 .. (Len(t) + 1)
      PROVE  h[<<ty, j>>] = IF j = d THEN ResultAt(g, t, <<ty, j>>) ELSE g[<<ty, j>>]
    BY DEF Places2
<1>4. h = [x \in Places2(t) |-> h[x]]
    OBVIOUS
<1> HIDE DEF h
<1>5. ASSUME NEW j \in d .. (Len(t) + 1)
      PROVE  LaterAfter(g, t, j) /\ AgreeAfter(g, h, t, j)
    <2>1. ASSUME NEW ty \in Types, NEW k \in (j + 1) .. (Len(t) + 1)
          PROVE  Later(g[<<ty, k>>], k) /\ g[<<ty, k>>] = h[<<ty, k>>]
        <3>1. k \in (d + 1) .. (Len(t) + 1) /\ k \in 1 .. (Len(t) + 1) /\ k # d
            BY <1>1
        <3>2. Later(g[<<ty, k>>], k)
            BY <1>2, <3>1 DEF ReadFrom
        <3>3. QED
            BY <1>3, <3>1, <3>2
    <2>2. QED
        BY <2>1 DEF LaterAfter, AgreeAfter
<1>6. ASSUME NEW ty \in Types, NEW j \in d .. (Len(t) + 1)
      PROVE  h[<<ty, j>>] = ResultAt(h, t, <<ty, j>>) /\ Later(h[<<ty, j>>], j)
    <2>1. j \in Nat /\ j \in 1 .. (Len(t) + 1)
        BY <1>1
    <2>2. ResultAt(g, t, <<ty, j>>) = ResultAt(h, t, <<ty, j>>) /\ Later(ResultAt(g, t, <<ty, j>>), j)
        BY <1>5, <2>1, ResultAtLater
    <2>3. CASE j = d
        BY <1>3, <2>1, <2>2, <2>3
    <2>4. CASE j # d
        <3>1. j \in (d + 1) .. (Len(t) + 1)
            BY <1>1, <2>4
        <3>2. g[<<ty, j>>] = ResultAt(g, t, <<ty, j>>) /\ Later(g[<<ty, j>>], j)
            BY <1>2, <3>1 DEF ReadFrom
        <3>3. h[<<ty, j>>] = g[<<ty, j>>]
            BY <1>3, <2>1, <2>4
        <3>4. QED
            BY <2>2, <3>2, <3>3
    <2>5. QED
        BY <2>3, <2>4
<1>7. ReadFrom(h, t, d)
    BY <1>6 DEF ReadFrom
<1>8. QED
    BY <1>4, <1>7 DEF ReadsFrom

\* What is read at a place is what its equation says.
LEMMA ReaderResult ==
    ASSUME NEW V, NEW t \in Seq(V), NEW ty \in Types, NEW i \in 1 .. (Len(t) + 1)
    PROVE  Reader(t)[<<ty, i>>] = ResultAt(Reader(t), t, <<ty, i>>)
<1>1. Len(t) \in Nat
    BY LenProperties
<1> DEFINE T == {n \in Nat : n <= Len(t) + 1 => ReadsFrom(t, Len(t) + 2 - n)}
<1>2. 0 \in T
    <2>1. PICK g : g = [x \in Places2(t) |-> 0]
        OBVIOUS
    <2>2. g = [x \in Places2(t) |-> g[x]]
        BY <2>1
    <2>3. ReadFrom(g, t, Len(t) + 2)
        <3>1. (Len(t) + 2) .. (Len(t) + 1) = {}
            BY <1>1
        <3>2. QED
            BY <3>1 DEF ReadFrom
    <2>4. ReadsFrom(t, Len(t) + 2 - 0)
        BY <1>1, <2>2, <2>3, Len(t) + 2 - 0 = Len(t) + 2 DEF ReadsFrom
    <2>5. QED
        BY <2>4
<1>3. ASSUME NEW n \in Nat, n \in T PROVE n + 1 \in T
    <2>1. SUFFICES ASSUME n + 1 <= Len(t) + 1 PROVE ReadsFrom(t, Len(t) + 2 - (n + 1))
        OBVIOUS
    <2>2. PICK d : d = Len(t) + 2 - (n + 1)
        OBVIOUS
    <2>3. d \in 1 .. (Len(t) + 1) /\ d + 1 = Len(t) + 2 - n
        BY <1>1, <2>1, <2>2
    <2>4. ReadsFrom(t, d + 1)
        BY <1>1, <1>3, <2>1, <2>3
    <2>5. QED
        BY <2>2, <2>3, <2>4, ReadsMore
<1> HIDE DEF T
<1>4. Nat \subseteq T
    BY <1>2, <1>3, NatSet
<1>5. ReadsFrom(t, 1)
    <2>1. Len(t) + 1 \in T
        BY <1>1, <1>4
    <2>2. Len(t) + 2 - (Len(t) + 1) = 1 /\ Len(t) + 1 <= Len(t) + 1
        BY <1>1
    <2>3. QED
        BY <2>1, <2>2 DEF T
<1>6. PICK g : g = [x \in Places2(t) |-> g[x]] /\ ReadFrom(g, t, 1)
    BY <1>5 DEF ReadsFrom
<1>7. g = [x \in Places2(t) |-> ResultAt(g, t, x)]
    <2>1. ASSUME NEW x \in Places2(t) PROVE g[x] = ResultAt(g, t, x)
        <3>1. x[1] \in Types /\ x[2] \in 1 .. (Len(t) + 1) /\ x = <<x[1], x[2]>>
            BY DEF Places2
        <3>2. QED
            BY <1>6, <3>1 DEF ReadFrom
    <2>2. QED
        BY <1>6, <2>1
<1>8. PICK f : f = CHOOSE h : h = [x \in Places2(t) |-> ResultAt(h, t, x)]
    OBVIOUS
<1>9. f = [x \in Places2(t) |-> ResultAt(f, t, x)]
    BY <1>7, <1>8
<1>10. Reader(t) = f
    BY <1>8 DEF Reader, Places2
<1>11. <<ty, i>> \in Places2(t)
    BY DEF Places2
<1>12. QED
    BY <1>9, <1>10, <1>11

-----------------------------------------------------------------------------
(* A text within a text *)

Sits(s, t, i) ==
    /\ i \in Nat \ {0} /\ i + Len(s) <= Len(t) + 1
    /\ \A k \in 1 .. Len(s) : CharAt(t, i + k - 1) = s[k]

LEMMA SitsWhole ==
    ASSUME NEW V, NEW s \in Seq(V)
    PROVE  Sits(s, s, 1)
<1>1. Len(s) \in Nat /\ DOMAIN s = 1 .. Len(s)
    BY LenProperties
<1>2. ASSUME NEW k \in 1 .. Len(s) PROVE CharAt(s, 1 + k - 1) = s[k]
    <2>1. 1 + k - 1 = k
        BY <1>1
    <2>2. QED
        BY <1>1, <2>1 DEF CharAt
<1>3. QED
    BY <1>1, <1>2 DEF Sits

LEMMA SitsConcat ==
    ASSUME NEW V, NEW a \in Seq(V), NEW b \in Seq(V), NEW t \in Seq(V), NEW i, Sits(a \o b, t, i)
    PROVE  Sits(a, t, i) /\ Sits(b, t, i + Len(a))
<1>1. PICK n, m, s : n = Len(a) /\ m = Len(b) /\ s = a \o b
    OBVIOUS
<1>2. /\ Len(s) = n + m /\ n \in Nat /\ m \in Nat
      /\ \A k \in 1 .. n : s[k] = a[k]
      /\ \A k \in 1 .. m : s[n + k] = b[k]
    BY <1>1, ConcatParts
<1>3. i \in Nat \ {0} /\ i + Len(s) <= Len(t) + 1 /\ Len(t) \in Nat
    BY <1>1, LenProperties DEF Sits
<1>4. ASSUME NEW j \in 1 .. n + m, NEW k, k = i + j - 1 PROVE CharAt(t, k) = s[j]
    BY <1>1, <1>2, <1>4 DEF Sits
<1>5. Sits(a, t, i)
    <2>1. ASSUME NEW k \in 1 .. n PROVE CharAt(t, i + k - 1) = a[k]
        <3>1. k \in 1 .. n + m
            BY <1>2
        <3>2. QED
            BY <1>2, <1>4, <3>1
    <2>2. QED
        BY <1>1, <1>2, <1>3, <2>1 DEF Sits
<1>6. Sits(b, t, i + n)
    <2>1. ASSUME NEW k \in 1 .. m PROVE CharAt(t, (i + n) + k - 1) = b[k]
        <3>1. PICK j : j = n + k
            OBVIOUS
        <3>2. j \in 1 .. n + m /\ (i + n) + k - 1 = i + j - 1
            BY <1>2, <1>3, <3>1
        <3>3. QED
            BY <1>2, <1>4, <3>1, <3>2
    <2>2. i + n \in Nat \ {0} /\ (i + n) + m <= Len(t) + 1
        BY <1>2, <1>3
    <2>3. QED
        BY <1>1, <2>1, <2>2 DEF Sits
<1>7. QED
    BY <1>1, <1>5, <1>6

LEMMA SitsFirst ==
    ASSUME NEW V, NEW s \in Seq(V), s # <<>>, NEW t \in Seq(V), NEW i, Sits(s, t, i)
    PROVE  CharAt(t, i) = s[1] /\ i \in 1 .. Len(t) /\ i + Len(s) \in (i + 1) .. (Len(t) + 1)
<1>1. Len(s) \in Nat /\ Len(s) # 0 /\ Len(t) \in Nat
    BY LenProperties, EmptySeq
<1>2. i \in Nat \ {0} /\ i + Len(s) <= Len(t) + 1
    BY DEF Sits
<1>3. CharAt(t, i) = s[1]
    <2>1. 1 \in 1 .. Len(s) /\ i + 1 - 1 = i
        BY <1>1, <1>2
    <2>2. CharAt(t, i + 1 - 1) = s[1]
        BY <2>1 DEF Sits
    <2>3. QED
        BY <2>1, <2>2
<1>4. QED
    BY <1>1, <1>2, <1>3

\* One character, followed by a text.
LEMMA SitsOne ==
    ASSUME NEW V, NEW c \in V, NEW s \in Seq(V), NEW t \in Seq(V), NEW i, Sits(<<c>> \o s, t, i)
    PROVE  /\ i \in 1 .. Len(t) /\ CharAt(t, i) = c /\ Sits(s, t, i + 1)
           /\ Len(<<c>> \o s) = 1 + Len(s) /\ <<c>> \o s \in Seq(V) /\ Len(s) \in Nat
<1>1. PICK o : o = <<c>>
    OBVIOUS
<1>2. o \in Seq(V) /\ Len(o) = 1 /\ o[1] = c /\ o # <<>>
    BY <1>1
<1>3. Sits(o, t, i) /\ Sits(s, t, i + 1)
    BY <1>1, <1>2, SitsConcat
<1>4. Len(o \o s) = Len(o) + Len(s) /\ o \o s \in Seq(V) /\ Len(s) \in Nat
    BY <1>2, ConcatProperties, LenProperties
<1>5. QED
    BY <1>1, <1>2, <1>3, <1>4, SitsFirst

-----------------------------------------------------------------------------
(* Strings are read as they are written *)

TextSymbols(V) ==
    /\ Quote \in V /\ Backslash \in V /\ "n" \in V /\ "t" \in V
    /\ "u" \in V /\ "0001" \in V /\ "001f" \in V
    /\ "[" \in V /\ "]" \in V /\ "{" \in V /\ "}" \in V /\ "," \in V /\ ":" \in V
    /\ "true" \in V /\ "false" \in V /\ "end of text" \notin V

\* What the reader makes of the text of one character.
CharReads(t, i, c, n) ==
    /\ n \in Nat /\ n > 0 /\ i + n <= Len(t) + 1
    /\ \A read : StringAt(read, t, i) = Then([v |-> c, at |-> i + n], read[<<"string", i + n>>])

\* Of two characters, the first a backslash.
Stands(t, i, c) == Unescaped(t, i) = [v |-> c, at |-> i + 1]

LEMMA PairReads ==
    ASSUME NEW V, TextSymbols(V), NEW t \in Seq(V), NEW i \in Nat, NEW c, NEW d \in V,
           NEW s, s = <<Backslash, d>>, Sits(s, t, i), Stands(t, i + 1, c)
    PROVE  CharReads(t, i, c, 2)
<1>2. s \in Seq(V) /\ Len(s) = 2 /\ s[1] = Backslash /\ s # <<>>
    <2>1. Backslash \in V
        BY DEF TextSymbols
    <2>2. QED
        BY <2>1
<1>3. CharAt(t, i) = Backslash /\ i \in 1 .. Len(t) /\ i + 2 \in (i + 1) .. (Len(t) + 1)
    BY <1>2, SitsFirst
<1>4. Len(t) \in Nat
    BY LenProperties
<1>5. ASSUME NEW read
      PROVE  StringAt(read, t, i) = Then([v |-> c, at |-> i + 2], read[<<"string", i + 2>>])
    <2>1. PICK one : one = Unescaped(t, i + 1)
        OBVIOUS
    <2>2. one = [v |-> c, at |-> i + 2] /\ one.at = i + 2 /\ one.at # 0
        <3>1. (i + 1) + 1 = i + 2 /\ i + 2 # 0
            BY <1>3
        <3>2. QED
            BY <2>1, <3>1 DEF Stands
    <2>3. Backslash # Quote /\ Backslash \notin InNoString
        BY DEF Backslash, Quote, InNoString, Hex
    <2>4. StringAt(read, t, i) = Then(one, read[<<"string", one.at>>])
        BY <1>3, <2>1, <2>2, <2>3 DEF StringAt
    <2>5. QED
        BY <2>2, <2>4
<1>6. QED
    <2>1. 2 \in Nat /\ 2 > 0 /\ i + 2 <= Len(t) + 1
        BY <1>3, <1>4
    <2>2. QED
        BY <1>5, <2>1 DEF CharReads

LEMMA SecondSits ==
    ASSUME NEW V, NEW t \in Seq(V), NEW i, NEW s \in Seq(V), Len(s) > 1, Sits(s, t, i)
    PROVE  i \in Nat /\ CharAt(t, i + 1) = s[2] /\ (Len(s) > 2 => CharAt(t, (i + 1) + 1) = s[3])
<1>1. i \in Nat /\ i + 2 - 1 = i + 1 /\ i + 3 - 1 = (i + 1) + 1 /\ Len(s) \in Nat
    BY LenProperties DEF Sits
<1>2. CharAt(t, i + 2 - 1) = s[2]
    <2>1. 2 \in 1 .. Len(s)
        BY <1>1
    <2>2. QED
        BY <2>1 DEF Sits
<1>3. ASSUME Len(s) > 2 PROVE CharAt(t, i + 3 - 1) = s[3]
    <2>1. 3 \in 1 .. Len(s)
        BY <1>1, <1>3
    <2>2. QED
        BY <2>1 DEF Sits
<1>4. QED
    BY <1>1, <1>2, <1>3

LEMMA EscapedReads ==
    ASSUME NEW V, TextSymbols(V), NEW c \in V
    PROVE  /\ Escaped(c) \in Seq(V) /\ Escaped(c) # <<>>
           /\ \A t \in Seq(V) : \A i : Sits(Escaped(c), t, i) => CharReads(t, i, c, Len(Escaped(c)))
<1>1. CASE c \in {Quote, Backslash}
    <2>1. Escaped(c) = <<Backslash, c>>
        BY <1>1 DEF Escaped, Quote, Backslash, Hex
    <2>2. Escaped(c) \in Seq(V) /\ Len(Escaped(c)) = 2 /\ Escaped(c)[2] = c /\ Escaped(c) # <<>>
        <3>1. Backslash \in V /\ c \in V
            BY DEF TextSymbols
        <3>2. QED
            BY <2>1, <3>1
    <2>3. ASSUME NEW t \in Seq(V), NEW i, Sits(Escaped(c), t, i) PROVE CharReads(t, i, c, 2)
        <3>1. CharAt(t, i + 1) = c /\ i \in Nat
            <4>1. Len(Escaped(c)) > 1
                BY <2>2
            <4>2. QED
                BY <2>2, <2>3, <4>1, SecondSits
        <3>2. Stands(t, i + 1, c)
            BY <1>1, <3>1 DEF Stands, Unescaped, Quote, Backslash
        <3>3. QED
            BY <2>1, <2>3, <3>1, <3>2, PairReads
    <2>4. QED
        BY <2>2, <2>3
<1>2. CASE c = "\n"
    <2>1. Escaped(c) = <<Backslash, "n">>
        BY <1>2 DEF Escaped, Quote, Backslash, Hex
    <2>2. Escaped(c) \in Seq(V) /\ Len(Escaped(c)) = 2 /\ Escaped(c)[2] = "n" /\ Escaped(c) # <<>>
        <3>1. Backslash \in V /\ "n" \in V
            BY DEF TextSymbols
        <3>2. QED
            BY <2>1, <3>1
    <2>3. ASSUME NEW t \in Seq(V), NEW i, Sits(Escaped(c), t, i) PROVE CharReads(t, i, c, 2)
        <3>1. CharAt(t, i + 1) = "n" /\ i \in Nat
            <4>1. Len(Escaped(c)) > 1
                BY <2>2
            <4>2. QED
                BY <2>2, <2>3, <4>1, SecondSits
        <3>2. Stands(t, i + 1, c)
            BY <1>2, <3>1 DEF Stands, Unescaped, Quote, Backslash
        <3>3. "n" \in V
            BY DEF TextSymbols
        <3>4. QED
            BY <2>1, <2>3, <3>1, <3>2, <3>3, PairReads
    <2>4. QED
        BY <2>2, <2>3
<1>3. CASE c = "\t"
    <2>1. Escaped(c) = <<Backslash, "t">>
        BY <1>3 DEF Escaped, Quote, Backslash, Hex
    <2>2. Escaped(c) \in Seq(V) /\ Len(Escaped(c)) = 2 /\ Escaped(c)[2] = "t" /\ Escaped(c) # <<>>
        <3>1. Backslash \in V /\ "t" \in V
            BY DEF TextSymbols
        <3>2. QED
            BY <2>1, <3>1
    <2>3. ASSUME NEW t \in Seq(V), NEW i, Sits(Escaped(c), t, i) PROVE CharReads(t, i, c, 2)
        <3>1. CharAt(t, i + 1) = "t" /\ i \in Nat
            <4>1. Len(Escaped(c)) > 1
                BY <2>2
            <4>2. QED
                BY <2>2, <2>3, <4>1, SecondSits
        <3>2. Stands(t, i + 1, c)
            BY <1>3, <3>1 DEF Stands, Unescaped, Quote, Backslash
        <3>3. "t" \in V
            BY DEF TextSymbols
        <3>4. QED
            BY <2>1, <2>3, <3>1, <3>2, <3>3, PairReads
    <2>4. QED
        BY <2>2, <2>3
<1>4. CASE c \in DOMAIN Hex
    <2>1. PICK x : x = Hex[c]
        OBVIOUS
    <2>2. Escaped(c) = <<Backslash, "u", x>> /\ x \in {"0001", "001f"}
        BY <1>4, <2>1 DEF Escaped, Quote, Backslash, Hex
    <2>3. PICK s : s = <<Backslash, "u", x>>
        OBVIOUS
    <2>4. /\ s \in Seq(V) /\ Len(s) = 3 /\ s[1] = Backslash /\ s[2] = "u" /\ s[3] = x /\ s # <<>>
        <3>1. x \in V /\ Backslash \in V /\ "u" \in V
            BY <2>2 DEF TextSymbols
        <3>2. QED
            BY <2>3, <3>1
    <2>5. ASSUME NEW t \in Seq(V), NEW i, Sits(s, t, i) PROVE CharReads(t, i, c, 3)
        <3>1. CharAt(t, i) = Backslash /\ i \in 1 .. Len(t) /\ i + 3 \in (i + 1) .. (Len(t) + 1)
            BY <2>4, <2>5, SitsFirst
        <3>2. CharAt(t, i + 1) = "u" /\ CharAt(t, (i + 1) + 1) = x
            <4>1. s \in Seq(V) /\ Len(s) > 1 /\ Len(s) > 2
                BY <2>4
            <4>2. CharAt(t, i + 1) = s[2] /\ CharAt(t, (i + 1) + 1) = s[3]
                BY <2>5, <4>1, SecondSits
            <4>3. QED
                BY <2>4, <4>2
        <3>3. x # "end of text" /\ x \in {Hex[k] : k \in DOMAIN Hex}
            BY <1>4, <2>1, <2>2
        <3>4. t[(i + 1) + 1] = x
            BY <3>2, <3>3, CharAtEnd
        <3>5. c = CHOOSE k \in DOMAIN Hex : Hex[k] = x
            BY <1>4, <2>1 DEF Hex
        <3>6. Unescaped(t, i + 1) = [v |-> c, at |-> (i + 1) + 2]
            BY <3>2, <3>3, <3>4, <3>5 DEF Unescaped, Quote, Backslash
        <3>7. Len(t) \in Nat
            BY LenProperties
        <3>8. ASSUME NEW read
              PROVE  StringAt(read, t, i) = Then([v |-> c, at |-> i + 3], read[<<"string", i + 3>>])
            <4>1. PICK one : one = Unescaped(t, i + 1)
                OBVIOUS
            <4>2. one = [v |-> c, at |-> i + 3] /\ one.at = i + 3 /\ one.at # 0
                BY <3>1, <3>6, <3>7, <4>1
            <4>3. Backslash # Quote /\ Backslash \notin InNoString
                BY DEF Backslash, Quote, InNoString, Hex
            <4>4. StringAt(read, t, i) = Then(one, read[<<"string", one.at>>])
                BY <3>1, <4>1, <4>2, <4>3 DEF StringAt
            <4>5. QED
                BY <4>2, <4>4
        <3>9. QED
            BY <3>1, <3>7, <3>8 DEF CharReads
    <2>6. QED
        BY <2>2, <2>3, <2>4, <2>5
<1>5. CASE c \notin {Quote, Backslash, "\n", "\t"} \cup DOMAIN Hex
    <2>1. Escaped(c) = <<c>>
        BY <1>5 DEF Escaped
    <2>2. Escaped(c) \in Seq(V) /\ Len(Escaped(c)) = 1 /\ Escaped(c)[1] = c /\ Escaped(c) # <<>>
        BY <2>1
    <2>3. ASSUME NEW t \in Seq(V), NEW i, Sits(Escaped(c), t, i) PROVE CharReads(t, i, c, 1)
        <3>1. CharAt(t, i) = c /\ i \in 1 .. Len(t) /\ i + 1 \in (i + 1) .. (Len(t) + 1)
            BY <2>2, <2>3, SitsFirst
        <3>2. c # Quote /\ c # Backslash /\ c \notin InNoString
            BY <1>5 DEF InNoString, TextSymbols
        <3>3. Len(t) \in Nat
            BY LenProperties
        <3>4. ASSUME NEW read
              PROVE  StringAt(read, t, i) = Then([v |-> c, at |-> i + 1], read[<<"string", i + 1>>])
            <4>1. PICK one : one = [v |-> c, at |-> i + 1]
                OBVIOUS
            <4>2. one.at = i + 1 /\ one.at # 0
                BY <3>1, <3>3, <4>1
            <4>3. StringAt(read, t, i) = Then(one, read[<<"string", one.at>>])
                BY <3>1, <3>2, <4>1, <4>2 DEF StringAt
            <4>4. QED
                BY <4>1, <4>2, <4>3
        <3>5. QED
            BY <3>1, <3>3, <3>4 DEF CharReads
    <2>4. QED
        BY <2>2, <2>3
<1>6. QED
    BY <1>1, <1>2, <1>3, <1>4, <1>5

EscapedFun(V) == [c \in V |-> Escaped(c)]
EscapedAll(V, s) == FlattenSeq(Each(EscapedFun(V), s))

\* The characters of a string and the quote after them.
BodyReads(V, s) ==
    LET body == EscapedAll(V, s) \o <<Quote>> IN
    \A t \in Seq(V) : \A i : Sits(body, t, i) =>
        Reader(t)[<<"string", i>>] = [v |-> s, at |-> i + Len(body)]

LEMMA EscapedType ==
    ASSUME NEW V, TextSymbols(V)
    PROVE  /\ Maps(EscapedFun(V), V, Seq(V))
           /\ \A s \in Seq(V) : /\ EscapedAll(V, s) \in Seq(V)
                                /\ Escape(s) = <<Quote>> \o (EscapedAll(V, s) \o <<Quote>>)
<1>1. Maps(EscapedFun(V), V, Seq(V))
    <2>1. \A c \in V : Escaped(c) \in Seq(V)
        BY EscapedReads
    <2>2. QED
        BY <2>1 DEF EscapedFun, Maps
<1>2. ASSUME NEW s \in Seq(V)
      PROVE  /\ EscapedAll(V, s) \in Seq(V)
             /\ Escape(s) = <<Quote>> \o (EscapedAll(V, s) \o <<Quote>>)
    <2>1. Each(EscapedFun(V), s) \in Seq(Seq(V))
        BY <1>1, EachType
    <2>2. EscapedAll(V, s) \in Seq(V)
        BY <2>1, FlattenType DEF EscapedAll
    <2>3. \A k \in DOMAIN s : s[k] \in V
        BY LenProperties, ElementOfSeq
    <2>4. [k \in DOMAIN s |-> Escaped(s[k])] = Each(EscapedFun(V), s)
        BY <2>3 DEF Each, EscapedFun
    <2>5. Escape(s) = (<<Quote>> \o EscapedAll(V, s)) \o <<Quote>>
        BY <2>4 DEF Escape, EscapedAll
    <2>6. Quote \in V
        BY DEF TextSymbols
    <2>7. <<Quote>> \in Seq(V)
        BY <2>6
    <2>8. QED
        BY <2>2, <2>5, <2>7, ConcatAssociative
<1>3. QED
    BY <1>1, <1>2

LEMMA EscapedMore ==
    ASSUME NEW V, TextSymbols(V), NEW c \in V, NEW s \in Seq(V)
    PROVE  EscapedAll(V, <<c>> \o s) = Escaped(c) \o EscapedAll(V, s)
<1>1. PICK f, o, one : f = EscapedFun(V) /\ o = <<c>> /\ one = <<f[c]>>
    OBVIOUS
<1>2. Maps(f, V, Seq(V)) /\ o \in Seq(V)
    BY <1>1, EscapedType
<1>3. Each(f, o \o s) = Each(f, o) \o Each(f, s)
    BY <1>2, EachConcat
<1>4. Each(f, o) = one /\ f[c] = Escaped(c) /\ f[c] \in Seq(V)
    <2>1. Each(f, <<c>>) = <<f[c]>> /\ f[c] \in Seq(V)
        BY <1>2, EachOne
    <2>2. f[c] = Escaped(c)
        BY <1>1 DEF EscapedFun
    <2>3. QED
        BY <1>1, <2>1, <2>2
<1>5. one \in Seq(Seq(V)) /\ FlattenSeq(one) = f[c]
    BY <1>1, <1>4, FlattenOne
<1>6. Each(f, s) \in Seq(Seq(V))
    BY <1>2, EachType
<1>7. FlattenSeq(one \o Each(f, s)) = FlattenSeq(one) \o FlattenSeq(Each(f, s))
    BY <1>5, <1>6, FlattenConcat
<1>8. QED
    BY <1>1, <1>3, <1>4, <1>5, <1>7 DEF EscapedAll

\* The text of each character is read, then the rest.
LEMMA StringBodyReads ==
    ASSUME NEW V, TextSymbols(V), NEW s \in Seq(V)
    PROVE  BodyReads(V, s)
<1> DEFINE T == {q \in Seq(V) : BodyReads(V, q)}
<1>1. <<>> \in T
    <2>1. Each(EscapedFun(V), <<>>) = <<>> /\ <<>> \in Seq(Seq(V)) /\ <<>> \in Seq(V)
        BY EmptySeq DEF Each
    <2>2. EscapedAll(V, <<>>) = <<>>
        BY <2>1, FlattenType DEF EscapedAll
    <2>3. PICK body : body = <<Quote>>
        OBVIOUS
    <2>4. body \in Seq(V) /\ Len(body) = 1 /\ body[1] = Quote /\ body # <<>> /\ <<>> \o body = body
        <3>1. Quote \in V
            BY DEF TextSymbols
        <3>2. body \in Seq(V)
            BY <2>3, <3>1
        <3>3. QED
            BY <2>3, <3>2, ConcatEmptySeq
    <2>5. ASSUME NEW t \in Seq(V), NEW i, Sits(body, t, i)
          PROVE  Reader(t)[<<"string", i>>] = [v |-> <<>>, at |-> i + 1]
        <3>1. CharAt(t, i) = Quote /\ i \in 1 .. Len(t)
            BY <2>4, <2>5, SitsFirst
        <3>2. Reader(t)[<<"string", i>>] = ResultAt(Reader(t), t, <<"string", i>>)
            <4>1. i \in 1 .. (Len(t) + 1) /\ "string" \in Types
                BY <3>1, LenProperties DEF Types
            <4>2. QED
                BY <4>1, ReaderResult
        <3>3. ResultAt(Reader(t), t, <<"string", i>>) = StringAt(Reader(t), t, i)
            BY DEF ResultAt
        <3>4. StringAt(Reader(t), t, i) = [v |-> <<>>, at |-> i + 1]
            <4>1. Quote # Backslash /\ Quote \notin InNoString
                BY DEF Quote, Backslash, InNoString, Hex
            <4>2. PICK one : one = [v |-> Quote, at |-> i + 1]
                OBVIOUS
            <4>3. one.at # 0
                BY <3>1, <4>2
            <4>4. QED
                BY <3>1, <4>1, <4>2, <4>3 DEF StringAt
        <3>5. QED
            BY <3>2, <3>3, <3>4
    <2>6. QED
        BY <2>1, <2>2, <2>3, <2>4, <2>5 DEF BodyReads
<1>2. ASSUME NEW q \in Seq(V), NEW c \in V, q \in T PROVE <<c>> \o q \in T
    <2>1. PICK a, b, body, n, m, qq : /\ a = Escaped(c) /\ b = EscapedAll(V, q) \o <<Quote>>
                                      /\ body = EscapedAll(V, <<c>> \o q) \o <<Quote>>
                                      /\ n = Len(a) /\ m = Len(b) /\ qq = <<c>> \o q
        OBVIOUS
    <2>2. a \in Seq(V) /\ a # <<>>
          /\ \A t \in Seq(V) : \A i : Sits(a, t, i) => CharReads(t, i, c, n)
        BY <2>1, EscapedReads
    <2>3. EscapedAll(V, q) \in Seq(V) /\ <<Quote>> \in Seq(V)
        <3>1. Quote \in V
            BY DEF TextSymbols
        <3>2. EscapedAll(V, q) \in Seq(V)
            BY EscapedType
        <3>3. QED
            BY <3>1, <3>2
    <2>4. b \in Seq(V)
        BY <2>1, <2>3, ConcatProperties
    <2>5. body = a \o b
        <3>1. body = (a \o EscapedAll(V, q)) \o <<Quote>>
            BY <2>1, EscapedMore
        <3>2. PICK x, y : x = EscapedAll(V, q) /\ y = <<Quote>>
            OBVIOUS
        <3>3. a \in Seq(V) /\ x \in Seq(V) /\ y \in Seq(V)
            BY <2>2, <2>3, <3>2
        <3>4. (a \o x) \o y = a \o (x \o y)
            BY <3>3, ConcatAssociative
        <3>5. QED
            BY <2>1, <3>1, <3>2, <3>4
    <2>6. body \in Seq(V) /\ Len(body) = n + m /\ n \in Nat /\ m \in Nat
        <3>1. a \in Seq(V) /\ b \in Seq(V) /\ n = Len(a) /\ m = Len(b)
            BY <2>1, <2>2, <2>4
        <3>2. QED
            BY <2>5, <3>1, ConcatParts
    <2>7. ASSUME NEW t \in Seq(V), NEW i, Sits(b, t, i)
          PROVE  Reader(t)[<<"string", i>>] = [v |-> q, at |-> i + m]
        BY <1>2, <2>1, <2>7 DEF BodyReads
    <2>8. ASSUME NEW t \in Seq(V), NEW i, Sits(body, t, i)
          PROVE  Reader(t)[<<"string", i>>] = [v |-> qq, at |-> i + (n + m)]
        <3>1. Sits(a, t, i) /\ Sits(b, t, i + n)
            <4>1. a \in Seq(V) /\ b \in Seq(V) /\ n = Len(a) /\ Sits(a \o b, t, i)
                BY <2>1, <2>2, <2>4, <2>5, <2>8
            <4>2. QED
                BY <4>1, SitsConcat
        <3>2. CharReads(t, i, c, n)
            BY <2>2, <3>1
        <3>3. PICK r : r = Reader(t)[<<"string", i + n>>]
            OBVIOUS
        <3>4. r = [v |-> q, at |-> (i + n) + m]
            BY <2>7, <3>1, <3>3
        <3>5. i \in 1 .. Len(t)
            BY <2>2, <3>1, SitsFirst
        <3>6. Reader(t)[<<"string", i>>] = ResultAt(Reader(t), t, <<"string", i>>)
            <4>1. i \in 1 .. (Len(t) + 1) /\ "string" \in Types
                BY <3>5, LenProperties DEF Types
            <4>2. QED
                BY <4>1, ReaderResult
        <3>7. ResultAt(Reader(t), t, <<"string", i>>) = StringAt(Reader(t), t, i)
            BY DEF ResultAt
        <3>8. PICK one : one = [v |-> c, at |-> i + n]
            OBVIOUS
        <3>9. StringAt(Reader(t), t, i) = Then(one, r)
            BY <3>2, <3>3, <3>8 DEF CharReads
        <3>10. r.at = i + (n + m) /\ r.v = q /\ r.at # 0 /\ one.v = c
            BY <2>6, <3>4, <3>5, <3>8
        <3>11. Then(one, r) = [v |-> qq, at |-> i + (n + m)]
            BY <2>1, <3>10 DEF Then
        <3>12. QED
            BY <3>6, <3>7, <3>9, <3>11
    <2>9. qq \in Seq(V)
        BY <2>1, ConcatProperties
    <2>10. BodyReads(V, qq)
        BY <2>1, <2>6, <2>8 DEF BodyReads
    <2>11. QED
        BY <2>1, <2>9, <2>10
<1> HIDE DEF T
<1>3. Seq(V) \subseteq T
    BY <1>1, <1>2, SeqSetFront
<1>4. QED
    BY <1>3 DEF T

\* A string, wherever it is.
LEMMA QuotedReads ==
    ASSUME NEW V, TextSymbols(V), NEW s \in Seq(V)
    PROVE  /\ Escape(s) \in Seq(V) /\ Escape(s) # <<>> /\ Escape(s)[1] = Quote
           /\ \A t \in Seq(V) : \A i : Sits(Escape(s), t, i) =>
                  /\ CharAt(t, i) = Quote /\ i \in 1 .. Len(t)
                  /\ Reader(t)[<<"string", i + 1>>] = [v |-> s, at |-> i + Len(Escape(s))]
<1>1. PICK body : body = EscapedAll(V, s) \o <<Quote>>
    OBVIOUS
<1>2. PICK e : e = Escape(s)
    OBVIOUS
<1>3. EscapedAll(V, s) \in Seq(V) /\ e = <<Quote>> \o body
    BY <1>1, <1>2, EscapedType
<1>4. Quote \in V /\ <<Quote>> \in Seq(V)
    <2>1. Quote \in V
        BY DEF TextSymbols
    <2>2. QED
        BY <2>1
<1>5. body \in Seq(V)
    BY <1>1, <1>3, <1>4, ConcatProperties
<1>6. e \in Seq(V) /\ e # <<>> /\ e[1] = Quote
    <2>1. PICK o : o = <<Quote>>
        OBVIOUS
    <2>2. o \in Seq(V) /\ Len(o) = 1 /\ o[1] = Quote /\ Len(body) \in Nat
        BY <1>4, <1>5, <2>1, LenProperties
    <2>3. e \in Seq(V) /\ Len(e) = 1 + Len(body) /\ e[1] = o[1]
        <3>1. 1 \in 1 .. 1
            OBVIOUS
        <3>2. QED
            BY <1>3, <1>5, <2>1, <2>2, <3>1, ConcatParts
    <2>4. QED
        BY <2>2, <2>3, EmptySeq
<1>7. ASSUME NEW t \in Seq(V), NEW i, Sits(e, t, i)
      PROVE  /\ CharAt(t, i) = Quote /\ i \in 1 .. Len(t)
             /\ Reader(t)[<<"string", i + 1>>] = [v |-> s, at |-> i + Len(e)]
    <2>1. Sits(<<Quote>> \o body, t, i)
        BY <1>3, <1>7
    <2>2. /\ i \in 1 .. Len(t) /\ CharAt(t, i) = Quote /\ Sits(body, t, i + 1)
          /\ Len(<<Quote>> \o body) = 1 + Len(body) /\ Len(body) \in Nat
        BY <1>4, <1>5, <2>1, SitsOne
    <2>3. BodyReads(V, s)
        BY StringBodyReads
    <2>4. Reader(t)[<<"string", i + 1>>] = [v |-> s, at |-> (i + 1) + Len(body)]
        BY <1>1, <2>2, <2>3 DEF BodyReads
    <2>5. (i + 1) + Len(body) = i + Len(e)
        BY <1>3, <2>2
    <2>6. QED
        BY <2>2, <2>4, <2>5
<1>8. QED
    BY <1>2, <1>6, <1>7

-----------------------------------------------------------------------------
(* Lists are read as they are written *)

\* A text of one character.
LEMMA OneCharacter ==
    ASSUME NEW V, NEW c \in V
    PROVE  <<c>> \in Seq(V) /\ Len(<<c>>) = 1 /\ <<c>>[1] = c /\ <<c>> # <<>>
    OBVIOUS

LEMMA CommaText ==
    ASSUME NEW V, TextSymbols(V)
    PROVE  \E o \in Seq(V) : o = <<",">> /\ Len(o) = 1 /\ o[1] = "," /\ o # <<>>
<1>1. "," \in V
    BY DEF TextSymbols
<1>2. QED
    BY <1>1, OneCharacter

Commas(items) == [k \in DOMAIN items |-> IF k = Len(items) THEN items[k] ELSE items[k] \o <<",">>]

LEMMA CommasType ==
    ASSUME NEW V, TextSymbols(V), NEW items \in Seq(Seq(V))
    PROVE  /\ Commas(items) \in Seq(Seq(V)) /\ Len(Commas(items)) = Len(items)
           /\ Listed(items) = FlattenSeq(Commas(items)) /\ Listed(items) \in Seq(V)
<1>1. Len(items) \in Nat /\ DOMAIN items = 1 .. Len(items)
    BY LenProperties
<1>2. ASSUME NEW k \in 1 .. Len(items)
      PROVE  (IF k = Len(items) THEN items[k] ELSE items[k] \o <<",">>) \in Seq(V)
    <2>1. PICK o \in Seq(V) : o = <<",">>
        BY CommaText
    <2>2. items[k] \in Seq(V)
        BY ElementOfSeq
    <2>3. items[k] \o o \in Seq(V)
        BY <2>2, ConcatProperties
    <2>4. QED
        BY <2>1, <2>2, <2>3
<1>3. Commas(items) \in [1 .. Len(items) -> Seq(V)]
    BY <1>1, <1>2 DEF Commas
<1>4. Commas(items) \in Seq(Seq(V)) /\ Len(Commas(items)) = Len(items)
    BY <1>1, <1>3
<1>5. Listed(items) = FlattenSeq(Commas(items))
    BY DEF Listed, Commas
<1>6. QED
    BY <1>4, <1>5, FlattenType

LEMMA ListedOne ==
    ASSUME NEW V, TextSymbols(V), NEW x \in Seq(V)
    PROVE  Listed(<<x>>) = x
<1>1. <<x>> \in Seq(Seq(V)) /\ Len(<<x>>) = 1 /\ <<x>>[1] = x
    OBVIOUS
<1>2. Commas(<<x>>) = <<x>>
    BY <1>1 DEF Commas
<1>3. QED
    BY <1>1, <1>2, CommasType, FlattenOne

LEMMA ListedMore ==
    ASSUME NEW V, TextSymbols(V), NEW x \in Seq(V), NEW items \in Seq(Seq(V)), items # <<>>
    PROVE  Listed(<<x>> \o items) = (x \o <<",">>) \o Listed(items)
<1>1. PICK n, o, s : n = Len(items) /\ o = <<x>> /\ s = o \o items
    OBVIOUS
<1>2. o \in Seq(Seq(V)) /\ Len(o) = 1 /\ o[1] = x
    BY <1>1
<1>3. /\ s \in Seq(Seq(V)) /\ Len(s) = 1 + n /\ n \in Nat
      /\ \A k \in 1 .. 1 : s[k] = o[k]
      /\ \A k \in 1 .. n : s[1 + k] = items[k]
    BY <1>1, <1>2, ConcatParts
<1>4. n # 0
    BY <1>1, EmptySeq
<1>5. PICK y, p : y = x \o <<",">> /\ p = <<y>>
    OBVIOUS
<1>6. y \in Seq(V)
    <2>1. PICK q \in Seq(V) : q = <<",">>
        BY CommaText
    <2>2. x \o q \in Seq(V)
        BY ConcatProperties
    <2>3. QED
        BY <1>5, <2>1, <2>2
<1>7. p \in Seq(Seq(V)) /\ Len(p) = 1 /\ p[1] = y /\ FlattenSeq(p) = y
    <2>1. FlattenSeq(<<y>>) = y
        BY <1>6, FlattenOne
    <2>2. p \in Seq(Seq(V)) /\ Len(p) = 1 /\ p[1] = y
        BY <1>5, <1>6, OneCharacter
    <2>3. QED
        BY <1>5, <2>1, <2>2
<1>8. PICK a, b : a = Commas(s) /\ b = Commas(items)
    OBVIOUS
<1>9. /\ a \in Seq(Seq(V)) /\ Len(a) = 1 + n /\ Listed(s) = FlattenSeq(a)
      /\ b \in Seq(Seq(V)) /\ Len(b) = n /\ Listed(items) = FlattenSeq(b)
    <2>1. a \in Seq(Seq(V)) /\ Len(a) = 1 + n /\ Listed(s) = FlattenSeq(a)
        BY <1>3, <1>8, CommasType
    <2>2. b \in Seq(Seq(V)) /\ Len(b) = n /\ Listed(items) = FlattenSeq(b)
        BY <1>1, <1>8, CommasType
    <2>3. QED
        BY <2>1, <2>2
<1>10. PICK c : c = p \o b
    OBVIOUS
<1>11. /\ c \in Seq(Seq(V)) /\ Len(c) = 1 + n
       /\ \A k \in 1 .. 1 : c[k] = p[k]
       /\ \A k \in 1 .. n : c[1 + k] = b[k]
    <2>1. PICK u, S : u = 1 /\ S = Seq(V)
        OBVIOUS
    <2>2. p \in Seq(S) /\ b \in Seq(S) /\ u = Len(p) /\ n = Len(b) /\ c = p \o b
        BY <1>7, <1>9, <1>10, <2>1
    <2>3. /\ c \in Seq(S) /\ Len(c) = u + n
          /\ \A k \in 1 .. u : c[k] = p[k]
          /\ \A k \in 1 .. n : c[u + k] = b[k]
        BY <2>2, ConcatParts
    <2>4. QED
        BY <2>1, <2>3
<1>12. DOMAIN s = 1 .. (1 + n) /\ DOMAIN items = 1 .. n
    BY <1>1, <1>3, LenProperties
<1>13. ASSUME NEW k \in 1 .. (1 + n) PROVE a[k] = c[k]
    <2>1. CASE k = 1
        <3>1. s[1] = x /\ c[1] = y /\ 1 # Len(s)
            BY <1>2, <1>3, <1>4, <1>7, <1>11
        <3>2. a[1] = s[1] \o <<",">>
            BY <1>8, <1>12, <2>1, <3>1 DEF Commas
        <3>3. QED
            BY <1>5, <2>1, <3>1, <3>2
    <2>2. CASE k # 1
        <3>1. PICK j : j = k - 1
            OBVIOUS
        <3>2. j \in 1 .. n /\ 1 + j = k /\ (k = Len(s) <=> j = Len(items))
            BY <1>1, <1>3, <2>2, <3>1
        <3>3. s[k] = items[j] /\ c[k] = b[j]
            BY <1>3, <1>11, <3>2
        <3>4. a[k] = IF k = Len(s) THEN s[k] ELSE s[k] \o <<",">>
            BY <1>8, <1>12 DEF Commas
        <3>5. b[j] = IF j = Len(items) THEN items[j] ELSE items[j] \o <<",">>
            BY <1>8, <1>12, <3>2 DEF Commas
        <3>6. QED
            BY <3>2, <3>3, <3>4, <3>5
    <2>3. QED
        BY <2>1, <2>2
<1>14. a = c
    BY <1>3, <1>9, <1>11, <1>13, SeqEqual
<1>15. FlattenSeq(c) = FlattenSeq(p) \o FlattenSeq(b)
    BY <1>7, <1>9, <1>10, FlattenConcat
<1>16. QED
    BY <1>1, <1>5, <1>7, <1>9, <1>14, <1>15

\* Of an array the items are values, of an object they are members.
Lists == {"array", "object"}
End(type)  == IF type = "array" THEN "]" ELSE "}"
Open(type) == IF type = "array" THEN "[" ELSE "{"
ItemAt(t, type, i) ==
    IF type = "array" THEN ValueAt(Reader(t), t, i) ELSE MemberAt(Reader(t), t, i)

\* Wherever this text sits, it is read as this item.
ReadsAs(V, type, s, v) ==
    /\ s \in Seq(V) /\ s # <<>> /\ s[1] \notin {"]", "}"}
    /\ \A t \in Seq(V) : \A i : Sits(s, t, i) => ItemAt(t, type, i) = [v |-> v, at |-> i + Len(s)]

\* Text of a value, or of a member, for each of W.
AllRead(V, type, W, f) ==
    Maps(f, W, Seq(V)) /\ \A w \in W : ReadsAs(V, type, f[w], w)

Ended(type, f, ws) == Listed(Each(f, ws)) \o <<End(type)>>

ListReads(V, type, f, ws) ==
    \A t \in Seq(V) : \A i : Sits(Ended(type, f, ws), t, i) =>
        /\ CharAt(t, i) \notin {"]", "}"}
        /\ Reader(t)[<<type, i>>] = [v |-> ws, at |-> i + Len(Ended(type, f, ws))]

LEMMA EndedType ==
    ASSUME NEW V, TextSymbols(V), NEW type \in Lists, NEW W, NEW f, Maps(f, W, Seq(V)), NEW ws \in Seq(W)
    PROVE  /\ Each(f, ws) \in Seq(Seq(V)) /\ Listed(Each(f, ws)) \in Seq(V)
           /\ End(type) \in V /\ <<End(type)>> \in Seq(V)
           /\ Ended(type, f, ws) \in Seq(V)
           /\ Len(Ended(type, f, ws)) = Len(Listed(Each(f, ws))) + 1
<1>1. PICK a, e : a = Listed(Each(f, ws)) /\ e = <<End(type)>>
    OBVIOUS
<1>2. End(type) \in V
    BY DEF End, TextSymbols, Lists
<1>3. e \in Seq(V) /\ Len(e) = 1
    BY <1>1, <1>2, OneCharacter
<1>4. Each(f, ws) \in Seq(Seq(V))
    BY EachType
<1>5. a \in Seq(V)
    BY <1>1, <1>2, <1>4, CommasType
<1>6. a \o e \in Seq(V) /\ Len(a \o e) = Len(a) + Len(e)
    BY <1>3, <1>5, ConcatProperties
<1>7. QED
    BY <1>1, <1>2, <1>3, <1>4, <1>5, <1>6 DEF Ended

\* What is read at a place where an item sits.
LEMMA ItemsStep ==
    ASSUME NEW V, NEW type \in Lists, NEW t \in Seq(V), NEW i \in 1 .. Len(t), NEW item,
           item = ItemAt(t, type, i)
    PROVE  /\ CharAt(t, item.at) = End(type) =>
                  Reader(t)[<<type, i>>] = [v |-> <<item.v>>, at |-> item.at + 1]
           /\ CharAt(t, item.at) = "," =>
                  Reader(t)[<<type, i>>] = Then(item, Reader(t)[<<type, item.at + 1>>])
<1>1. PICK read : read = Reader(t)
    OBVIOUS
<1>2. i \in 1 .. (Len(t) + 1) /\ type \in Types /\ type # "string" /\ type # "value"
    BY LenProperties DEF Lists, Types
<1>3. read[<<type, i>>] = ResultAt(read, t, <<type, i>>)
    BY <1>1, <1>2, ReaderResult
<1>4. ResultAt(read, t, <<type, i>>) = ItemsAt(read, t, type, i)
    BY <1>2 DEF ResultAt
<1>5. item = IF type = "array" THEN ValueAt(read, t, i) ELSE MemberAt(read, t, i)
    BY <1>1 DEF ItemAt
<1>6. PICK c, e : c = CharAt(t, item.at) /\ e = End(type)
    OBVIOUS
<1>7. e = (IF type = "array" THEN "]" ELSE "}") /\ e # ","
    BY <1>6 DEF End
<1>8. c = e => ItemsAt(read, t, type, i) = [v |-> <<item.v>>, at |-> item.at + 1]
    BY <1>5, <1>6, <1>7 DEF ItemsAt
<1>9. c = "," => ItemsAt(read, t, type, i) = Then(item, read[<<type, item.at + 1>>])
    BY <1>5, <1>6, <1>7 DEF ItemsAt
<1>10. QED
    BY <1>1, <1>3, <1>4, <1>6, <1>8, <1>9

LEMMA LastReads ==
    ASSUME NEW V, TextSymbols(V), NEW type \in Lists, NEW W, NEW f, AllRead(V, type, W, f), NEW w \in W
    PROVE  ListReads(V, type, f, <<w>>)
<1>1. Maps(f, W, Seq(V)) /\ ReadsAs(V, type, f[w], w)
    BY DEF AllRead
<1>2. PICK a, e, ws, n, text : /\ a = f[w] /\ e = <<End(type)>> /\ ws = <<w>>
                               /\ n = Len(a) /\ text = Ended(type, f, ws)
    OBVIOUS
<1>3. a \in Seq(V) /\ a # <<>> /\ a[1] \notin {"]", "}"} /\ n \in Nat
    BY <1>1, <1>2, LenProperties DEF ReadsAs
<1>4. e \in Seq(V) /\ Len(e) = 1 /\ e[1] = End(type) /\ e # <<>>
    <2>1. End(type) \in V
        BY DEF End, TextSymbols, Lists
    <2>2. QED
        BY <1>2, <2>1, OneCharacter
<1>5. text = a \o e
    <2>1. Each(f, ws) = <<a>>
        BY <1>1, <1>2, EachOne
    <2>2. Listed(<<a>>) = a
        BY <1>3, ListedOne
    <2>3. QED
        BY <1>2, <2>1, <2>2 DEF Ended
<1>6. Len(text) = n + 1
    <2>1. Len(a \o e) = Len(a) + Len(e)
        BY <1>3, <1>4, ConcatProperties
    <2>2. QED
        BY <1>2, <1>4, <1>5, <2>1
<1>7. ASSUME NEW t \in Seq(V), NEW i, Sits(text, t, i)
      PROVE  /\ CharAt(t, i) \notin {"]", "}"}
             /\ Reader(t)[<<type, i>>] = [v |-> ws, at |-> i + Len(text)]
    <2>1. Sits(a, t, i) /\ Sits(e, t, i + n)
        <3>1. Sits(a \o e, t, i)
            BY <1>5, <1>7
        <3>2. QED
            BY <1>2, <1>3, <1>4, <3>1, SitsConcat
    <2>2. CharAt(t, i) = a[1] /\ i \in 1 .. Len(t)
        BY <1>3, <2>1, SitsFirst
    <2>3. PICK item : item = ItemAt(t, type, i)
        OBVIOUS
    <2>4. item = [v |-> w, at |-> i + n]
        BY <1>1, <1>2, <2>1, <2>3 DEF ReadsAs
    <2>5. CharAt(t, item.at) = End(type) /\ item.at = i + n /\ item.v = w
        BY <1>4, <2>1, <2>4, SitsFirst
    <2>6. Reader(t)[<<type, i>>] = [v |-> <<item.v>>, at |-> item.at + 1]
        BY <2>2, <2>3, <2>5, ItemsStep
    <2>7. item.at + 1 = i + Len(text)
        <3>1. (i + n) + 1 = i + (n + 1)
            <4>1. n \in Nat
                BY <1>3
            <4>2. i \in Int
                BY <2>2
            <4>3. QED
                BY <4>1, <4>2
        <3>2. QED
            BY <1>6, <2>5, <3>1
    <2>8. QED
        BY <1>2, <1>3, <2>2, <2>5, <2>6, <2>7
<1>8. QED
    BY <1>2, <1>7 DEF ListReads

LEMMA MoreReads ==
    ASSUME NEW V, TextSymbols(V), NEW type \in Lists, NEW W, NEW f, AllRead(V, type, W, f), NEW w \in W,
           NEW ws \in Seq(W), ws # <<>>, ListReads(V, type, f, ws)
    PROVE  ListReads(V, type, f, <<w>> \o ws)
<1>1. Maps(f, W, Seq(V)) /\ ReadsAs(V, type, f[w], w)
    BY DEF AllRead
<1>2. PICK a, b, c, qq, text : /\ a = f[w] /\ b = Ended(type, f, ws) /\ c = <<",">> \o b
                               /\ qq = <<w>> \o ws /\ text = Ended(type, f, qq)
    OBVIOUS
<1>3. PICK n, m : n = Len(a) /\ m = Len(b)
    OBVIOUS
<1>4. a \in Seq(V) /\ a # <<>> /\ a[1] \notin {"]", "}"} /\ n \in Nat
    BY <1>1, <1>2, <1>3, LenProperties DEF ReadsAs
<1>5. PICK o \in Seq(V) : o = <<",">> /\ Len(o) = 1 /\ o[1] = "," /\ o # <<>>
    BY CommaText
<1>6. PICK l, e : l = Listed(Each(f, ws)) /\ e = <<End(type)>>
    OBVIOUS
<1>7. /\ l \in Seq(V) /\ e \in Seq(V) /\ b \in Seq(V) /\ b = l \o e /\ m \in Nat
      /\ Each(f, ws) \in Seq(Seq(V))
    <2>1. l \in Seq(V) /\ e \in Seq(V) /\ b \in Seq(V) /\ Each(f, ws) \in Seq(Seq(V))
        BY <1>1, <1>2, <1>6, EndedType
    <2>2. QED
        BY <1>2, <1>3, <1>6, <2>1, LenProperties DEF Ended
<1>8. c \in Seq(V) /\ Len(c) = 1 + m
    <2>1. o \o b \in Seq(V) /\ Len(o \o b) = Len(o) + Len(b)
        BY <1>7, ConcatProperties
    <2>2. QED
        BY <1>2, <1>3, <1>5, <2>1
<1>9. text = a \o c
    <2>1. Each(f, qq) = <<a>> \o Each(f, ws)
        <3>1. PICK y : y = <<w>>
            OBVIOUS
        <3>2. Each(f, <<w>> \o ws) = Each(f, <<w>>) \o Each(f, ws)
            <4>1. Maps(f, W, Seq(V))
                BY <1>1
            <4>2. y \in Seq(W)
                BY <3>1, OneCharacter
            <4>3. Each(f, y \o ws) = Each(f, y) \o Each(f, ws)
                BY <4>1, <4>2, EachConcat
            <4>4. QED
                BY <3>1, <4>3
        <3>3. Each(f, <<w>>) = <<a>>
            <4>1. Maps(f, W, Seq(V))
                BY <1>1
            <4>2. Each(f, <<w>>) = <<f[w]>>
                BY <4>1, EachOne
            <4>3. QED
                BY <1>2, <4>2
        <3>4. QED
            BY <1>2, <3>2, <3>3
    <2>2. Each(f, ws) # <<>>
        BY <1>1, <1>7, EachType, EmptySeq
    <2>3. Listed(<<a>> \o Each(f, ws)) = (a \o <<",">>) \o l
        BY <1>4, <1>6, <1>7, <2>2, ListedMore
    <2>4. text = ((a \o <<",">>) \o l) \o e
        BY <1>2, <1>6, <2>1, <2>3 DEF Ended
    <2>5. a \in Seq(V) /\ o \in Seq(V) /\ b \in Seq(V) /\ l \in Seq(V) /\ e \in Seq(V)
        BY <1>4, <1>7
    <2>6. a \o o \in Seq(V)
        BY <2>5, ConcatProperties
    <2>7. ((a \o o) \o l) \o e = (a \o o) \o (l \o e)
        <3>1. PICK x : x = a \o o
            OBVIOUS
        <3>2. x \in Seq(V) /\ l \in Seq(V) /\ e \in Seq(V)
            BY <2>5, <2>6, <3>1
        <3>3. (x \o l) \o e = x \o (l \o e)
            BY <3>2, ConcatAssociative, SMTT(30)
        <3>4. QED
            BY <3>1, <3>3
    <2>8. (a \o o) \o b = a \o (o \o b)
        BY <2>5, ConcatAssociative, SMTT(30)
    <2>9. QED
        BY <1>2, <1>5, <1>7, <2>4, <2>7, <2>8
<1>10. Len(text) = n + (1 + m)
    <2>1. Len(a \o c) = Len(a) + Len(c)
        BY <1>4, <1>8, ConcatProperties
    <2>2. QED
        BY <1>3, <1>8, <1>9, <2>1
<1>11. ASSUME NEW t \in Seq(V), NEW i, Sits(text, t, i)
       PROVE  /\ CharAt(t, i) \notin {"]", "}"}
              /\ Reader(t)[<<type, i>>] = [v |-> qq, at |-> i + Len(text)]
    <2>1. Sits(a, t, i) /\ Sits(c, t, i + n)
        <3>1. Sits(a \o c, t, i)
            BY <1>9, <1>11
        <3>2. QED
            BY <1>3, <1>4, <1>8, <3>1, SitsConcat
    <2>2. CharAt(t, i) = a[1] /\ i \in 1 .. Len(t)
        BY <1>4, <2>1, SitsFirst
    <2>3. PICK item : item = ItemAt(t, type, i)
        OBVIOUS
    <2>4. item = [v |-> w, at |-> i + n]
        BY <1>1, <1>2, <1>3, <2>1, <2>3 DEF ReadsAs
    <2>5. CharAt(t, i + n) = "," /\ Sits(b, t, (i + n) + 1)
        <3>1. Sits(o, t, i + n) /\ Sits(b, t, (i + n) + 1)
            <4>1. Sits(o \o b, t, i + n)
                BY <1>2, <1>5, <2>1
            <4>2. Sits(o, t, i + n) /\ Sits(b, t, (i + n) + Len(o))
                BY <1>7, <4>1, SitsConcat
            <4>3. QED
                BY <1>5, <4>2
        <3>2. CharAt(t, i + n) = o[1]
            BY <1>5, <3>1, SitsFirst
        <3>3. QED
            BY <1>5, <3>1, <3>2
    <2>6. PICK r : r = Reader(t)[<<type, (i + n) + 1>>]
        OBVIOUS
    <2>7. r = [v |-> ws, at |-> ((i + n) + 1) + m]
        BY <1>2, <1>3, <2>5, <2>6 DEF ListReads
    <2>8. item.at = i + n /\ item.v = w
        BY <2>4
    <2>9. Reader(t)[<<type, i>>] = Then(item, r)
        <3>1. CharAt(t, item.at) = ","
            BY <2>5, <2>8
        <3>2. Reader(t)[<<type, i>>] = Then(item, Reader(t)[<<type, item.at + 1>>])
            BY <2>2, <2>3, <3>1, ItemsStep
        <3>3. QED
            BY <2>6, <2>8, <3>2
    <2>10. r.at = i + Len(text) /\ r.at # 0 /\ r.v = ws
        <3>1. ((i + n) + 1) + m = i + (n + (1 + m)) /\ i + (n + (1 + m)) # 0
            <4>1. n \in Nat
                BY <1>4
            <4>2. m \in Nat
                BY <1>7
            <4>3. i \in Nat \ {0}
                BY <2>2
            <4>4. QED
                BY <4>1, <4>2, <4>3
        <3>2. QED
            BY <1>10, <2>7, <3>1
    <2>11. Then(item, r) = [v |-> qq, at |-> i + Len(text)]
        BY <1>2, <2>8, <2>10 DEF Then
    <2>12. QED
        BY <1>4, <2>2, <2>9, <2>11
<1>12. QED
    BY <1>2, <1>11 DEF ListReads

LEMMA ListsRead ==
    ASSUME NEW V, TextSymbols(V), NEW type \in Lists, NEW W, NEW f, AllRead(V, type, W, f),
           NEW ws \in Seq(W), ws # <<>>
    PROVE  ListReads(V, type, f, ws)
<1> DEFINE T == {q \in Seq(W) : q # <<>> => ListReads(V, type, f, q)}
<1>1. <<>> \in T
    BY EmptySeq
<1>2. ASSUME NEW q \in Seq(W), NEW w \in W, q \in T PROVE <<w>> \o q \in T
    <2>1. <<w>> \in Seq(W)
        OBVIOUS
    <2>2. <<w>> \o q \in Seq(W)
        BY <2>1, ConcatProperties
    <2>3. CASE q = <<>>
        <3>1. <<w>> \o q = <<w>>
            BY <2>1, <2>3, ConcatEmptySeq
        <3>2. QED
            BY <2>2, <3>1, LastReads
    <2>4. CASE q # <<>>
        BY <1>2, <2>2, <2>4, MoreReads
    <2>5. QED
        BY <2>3, <2>4
<1> HIDE DEF T
<1>3. Seq(W) \subseteq T
    BY <1>1, <1>2, SeqSetFront
<1>4. QED
    BY <1>3 DEF T

-----------------------------------------------------------------------------
(* Values are read as they are written *)

LEMMA WordReads ==
    ASSUME NEW V, TextSymbols(V), NEW w \in Words
    PROVE  ReadsAs(V, "array", <<w>>, <<"word", w>>)
<1>1. PICK s : s = <<w>>
    OBVIOUS
<1>2. s \in Seq(V) /\ Len(s) = 1 /\ s[1] = w /\ s # <<>>
    <2>1. w \in V
        BY DEF TextSymbols, Words
    <2>2. QED
        BY <1>1, <2>1, OneCharacter
<1>3. w \notin {"]", "}"} /\ w # Quote /\ w # "[" /\ w # "{"
    BY DEF Words, Quote
<1>4. ASSUME NEW t \in Seq(V), NEW i, Sits(s, t, i)
      PROVE  ItemAt(t, "array", i) = [v |-> <<"word", w>>, at |-> i + 1]
    <2>1. CharAt(t, i) = w
        BY <1>2, <1>4, SitsFirst
    <2>2. ValueAt(Reader(t), t, i) = [v |-> <<"word", w>>, at |-> i + 1]
        BY <1>3, <2>1 DEF ValueAt
    <2>3. QED
        BY <2>2 DEF ItemAt
<1>5. QED
    BY <1>1, <1>2, <1>3, <1>4 DEF ReadsAs

LEMMA StringReads ==
    ASSUME NEW V, TextSymbols(V), NEW s \in Seq(V)
    PROVE  ReadsAs(V, "array", Escape(s), String(s))
<1>1. PICK e : e = Escape(s)
    OBVIOUS
<1>2. /\ e \in Seq(V) /\ e # <<>> /\ e[1] = Quote
      /\ \A t \in Seq(V) : \A i : Sits(e, t, i) =>
             /\ CharAt(t, i) = Quote /\ i \in 1 .. Len(t)
             /\ Reader(t)[<<"string", i + 1>>] = [v |-> s, at |-> i + Len(e)]
    BY <1>1, QuotedReads
<1>3. ASSUME NEW t \in Seq(V), NEW i, Sits(e, t, i)
      PROVE  ItemAt(t, "array", i) = [v |-> String(s), at |-> i + Len(e)]
    <2>1. PICK r : r = Reader(t)[<<"string", i + 1>>]
        OBVIOUS
    <2>2. CharAt(t, i) = Quote /\ i \in 1 .. Len(t) /\ r = [v |-> s, at |-> i + Len(e)]
        BY <1>2, <1>3, <2>1
    <2>3. i \in Nat \ {0} /\ Len(e) \in Nat
        BY <1>2, <2>2, LenProperties
    <2>4. r.at = i + Len(e) /\ r.v = s
        BY <2>2
    <2>5. r.at # 0
        BY <2>3, <2>4
    <2>6. Quote \notin Words /\ Quote # "[" /\ Quote # "{"
        BY DEF Words, Quote
    <2>7. ValueAt(Reader(t), t, i) = [v |-> <<"string", r.v>>, at |-> r.at]
        BY <2>1, <2>2, <2>5, <2>6 DEF ValueAt
    <2>8. QED
        BY <2>4, <2>7 DEF ItemAt, String
<1>4. Quote # "]" /\ Quote # "}"
    BY DEF Quote
<1>5. QED
    BY <1>1, <1>2, <1>3, <1>4 DEF ReadsAs

\* An array or an object: its items, or its end at once.
Contents(read, t, type, i) ==
    IF CharAt(t, i + 1) = End(type) THEN [v |-> <<>>, at |-> i + 2] ELSE read[<<type, i + 1>>]

LEMMA OpenReads ==
    ASSUME NEW t, NEW i, NEW read, NEW type \in Lists, CharAt(t, i) = Open(type),
           NEW r, r = Contents(read, t, type, i)
    PROVE  ValueAt(read, t, i) = IF r.at = 0 THEN Wrong ELSE [v |-> <<type, r.v>>, at |-> r.at]
<1>1. CASE type = "array"
    <2>1. CharAt(t, i) = "[" /\ "[" \notin Words /\ "[" # Quote /\ End(type) = "]"
        BY <1>1 DEF Open, End, Words, Quote
    <2>2. QED
        BY <1>1, <2>1 DEF ValueAt, Contents
<1>2. CASE type = "object"
    <2>1. CharAt(t, i) = "{" /\ "{" \notin Words /\ "{" # Quote /\ End(type) = "}"
        BY <1>2 DEF Open, End, Words, Quote
    <2>2. QED
        BY <1>2, <2>1 DEF ValueAt, Contents
<1>3. QED
    BY <1>1, <1>2 DEF Lists

LEMMA NoItems ==
    ASSUME NEW V, TextSymbols(V), NEW f
    PROVE  Listed(Each(f, <<>>)) = <<>>
<1>1. PICK s \in Seq(Seq(V)) : s = <<>>
    BY EmptySeq
<1>2. Each(f, <<>>) = s /\ Commas(s) = s
    BY <1>1 DEF Each, Commas
<1>3. Listed(s) = FlattenSeq(Commas(s))
    BY CommasType
<1>4. QED
    BY <1>1, <1>2, <1>3, FlattenType

LEMMA ListValueReads ==
    ASSUME NEW V, TextSymbols(V), NEW type \in Lists, NEW W, NEW f, AllRead(V, type, W, f),
           NEW ws \in Seq(W)
    PROVE  ReadsAs(V, "array", (<<Open(type)>> \o Listed(Each(f, ws))) \o <<End(type)>>, <<type, ws>>)
<1>1. Maps(f, W, Seq(V))
    BY DEF AllRead
<1>2. PICK o, l, e, b, s : /\ o = <<Open(type)>> /\ l = Listed(Each(f, ws)) /\ e = <<End(type)>>
                           /\ b = Ended(type, f, ws) /\ s = (o \o l) \o e
    OBVIOUS
<1>3. o \in Seq(V) /\ Len(o) = 1 /\ o[1] = Open(type) /\ o # <<>>
    <2>1. Open(type) \in V
        BY DEF Open, TextSymbols
    <2>2. QED
        BY <1>2, <2>1, OneCharacter
<1>4. l \in Seq(V) /\ e \in Seq(V) /\ b \in Seq(V) /\ Len(b) = Len(l) + 1 /\ b = l \o e
    BY <1>1, <1>2, EndedType DEF Ended
<1>5. PICK m : m = Len(b)
    OBVIOUS
<1>6. m \in Nat
    BY <1>4, <1>5, LenProperties
<1>7. s = o \o b
    BY <1>2, <1>3, <1>4, ConcatAssociative
<1>8. s \in Seq(V) /\ Len(s) = 1 + m /\ s[1] = o[1]
    <2>1. PICK u : u = 1
        OBVIOUS
    <2>2. o \in Seq(V) /\ b \in Seq(V) /\ u = Len(o) /\ m = Len(b) /\ s = o \o b
        BY <1>3, <1>4, <1>5, <1>7, <2>1
    <2>3. s \in Seq(V) /\ Len(s) = u + m /\ \A k \in 1 .. u : s[k] = o[k]
        BY <2>2, ConcatParts
    <2>4. QED
        BY <2>1, <2>3
<1>9. s # <<>>
    BY <1>6, <1>8, EmptySeq
<1>10. Open(type) \notin {"]", "}"}
    BY DEF Open
<1>11. ASSUME NEW t \in Seq(V), NEW i, Sits(s, t, i)
       PROVE  ItemAt(t, "array", i) = [v |-> <<type, ws>>, at |-> i + (1 + m)]
    <2>1. Sits(o, t, i) /\ Sits(b, t, i + 1)
        <3>1. Sits(o \o b, t, i)
            BY <1>7, <1>11
        <3>2. Sits(o, t, i) /\ Sits(b, t, i + Len(o))
            BY <1>3, <1>4, <3>1, SitsConcat
        <3>3. QED
            BY <1>3, <3>2
    <2>2. CharAt(t, i) = Open(type) /\ i \in 1 .. Len(t)
        BY <1>3, <2>1, SitsFirst
    <2>3. i \in Nat \ {0}
        BY <2>2
    <2>4. PICK r : r = IF CharAt(t, i + 1) = End(type) THEN [v |-> <<>>, at |-> i + 2]
                       ELSE Reader(t)[<<type, i + 1>>]
        OBVIOUS
    <2>5. r = [v |-> ws, at |-> i + (1 + m)]
        <3>1. CASE ws = <<>>
            <4>1. l = <<>>
                BY <1>2, <3>1, NoItems
            <4>2. b = e /\ m = 1
                BY <1>4, <1>5, <4>1, EmptySeq, ConcatEmptySeq
            <4>3. e # <<>> /\ e[1] = End(type)
                BY <1>2
            <4>4. CharAt(t, i + 1) = End(type)
                BY <1>4, <2>1, <4>2, <4>3, SitsFirst
            <4>5. i + (1 + m) = i + 2
                BY <4>2
            <4>6. QED
                BY <2>4, <3>1, <4>4, <4>5
        <3>2. CASE ws # <<>>
            <4>1. ListReads(V, type, f, ws)
                BY <3>2, ListsRead
            <4>2. /\ CharAt(t, i + 1) \notin {"]", "}"}
                  /\ Reader(t)[<<type, i + 1>>] = [v |-> ws, at |-> (i + 1) + m]
                BY <1>2, <1>5, <2>1, <4>1 DEF ListReads
            <4>3. CharAt(t, i + 1) # End(type)
                BY <4>2 DEF End
            <4>4. (i + 1) + m = i + (1 + m)
                BY <1>6, <2>3
            <4>5. QED
                BY <2>4, <4>2, <4>3, <4>4
        <3>3. QED
            BY <3>1, <3>2
    <2>6. r.at = i + (1 + m) /\ r.v = ws
        BY <2>5
    <2>7. r.at # 0
        BY <1>6, <2>3, <2>6
    <2>8. ValueAt(Reader(t), t, i) = IF r.at = 0 THEN Wrong ELSE [v |-> <<type, r.v>>, at |-> r.at]
        <3>1. PICK read : read = Reader(t)
            OBVIOUS
        <3>2. r = Contents(read, t, type, i)
            BY <2>4, <3>1 DEF Contents
        <3>3. ValueAt(read, t, i) = IF r.at = 0 THEN Wrong ELSE [v |-> <<type, r.v>>, at |-> r.at]
            BY <2>2, <3>2, OpenReads
        <3>4. QED
            BY <3>1, <3>3
    <2>9. QED
        BY <2>6, <2>7, <2>8 DEF ItemAt
<1>12. QED
    BY <1>2, <1>3, <1>8, <1>9, <1>10, <1>11 DEF ReadsAs

\* A member: its name, a colon, its value.
LEMMA MemberReads ==
    ASSUME NEW V, TextSymbols(V), NEW name \in Seq(V), NEW w, NEW text, ReadsAs(V, "array", text, w)
    PROVE  ReadsAs(V, "object", (Escape(name) \o <<":">>) \o text, <<name, w>>)
<1>1. PICK a, c, b, s : /\ a = Escape(name) /\ c = <<":">> /\ b = c \o text /\ s = (a \o c) \o text
    OBVIOUS
<1>2. PICK n, m : n = Len(a) /\ m = Len(text)
    OBVIOUS
<1>3. /\ a \in Seq(V) /\ a # <<>> /\ a[1] = Quote
      /\ \A t \in Seq(V) : \A i : Sits(a, t, i) =>
             /\ CharAt(t, i) = Quote /\ i \in 1 .. Len(t)
             /\ Reader(t)[<<"string", i + 1>>] = [v |-> name, at |-> i + n]
    BY <1>1, <1>2, QuotedReads
<1>4. c \in Seq(V) /\ Len(c) = 1 /\ c[1] = ":" /\ c # <<>>
    <2>1. ":" \in V
        BY DEF TextSymbols
    <2>2. QED
        BY <1>1, <2>1, OneCharacter
<1>5. text \in Seq(V) /\ text # <<>>
    BY DEF ReadsAs
<1>6. n \in Nat /\ m \in Nat
    BY <1>2, <1>3, <1>5, LenProperties
<1>7. b \in Seq(V) /\ Len(b) = 1 + m
    <2>1. c \o text \in Seq(V) /\ Len(c \o text) = Len(c) + Len(text)
        BY <1>4, <1>5, ConcatProperties
    <2>2. QED
        BY <1>1, <1>2, <1>4, <2>1
<1>8. s = a \o b
    <2>1. (a \o c) \o text = a \o (c \o text)
        BY <1>3, <1>4, <1>5, ConcatAssociative
    <2>2. QED
        BY <1>1, <2>1
<1>9. s \in Seq(V) /\ Len(s) = n + (1 + m) /\ s[1] = a[1]
    <2>1. PICK u : u = 1 + m
        OBVIOUS
    <2>2. a \in Seq(V) /\ b \in Seq(V) /\ n = Len(a) /\ u = Len(b) /\ s = a \o b
        BY <1>2, <1>3, <1>7, <1>8, <2>1
    <2>3. s \in Seq(V) /\ Len(s) = n + u /\ \A k \in 1 .. n : s[k] = a[k]
        BY <2>2, ConcatParts
    <2>4. n # 0
        BY <1>2, <1>3, EmptySeq
    <2>5. 1 \in 1 .. n
        BY <1>6, <2>4
    <2>6. QED
        BY <2>1, <2>3, <2>5
<1>10. s # <<>>
    <2>1. Len(s) # 0
        BY <1>6, <1>9
    <2>2. QED
        BY <2>1, EmptySeq
<1>11. ASSUME NEW t \in Seq(V), NEW i, Sits(s, t, i)
       PROVE  ItemAt(t, "object", i) = [v |-> <<name, w>>, at |-> i + (n + (1 + m))]
    <2>1. Sits(a, t, i) /\ Sits(b, t, i + n)
        <3>1. Sits(a \o b, t, i)
            BY <1>8, <1>11
        <3>2. QED
            BY <1>2, <1>3, <1>7, <3>1, SitsConcat
    <2>2. Sits(c, t, i + n) /\ Sits(text, t, (i + n) + 1)
        <3>1. Sits(c \o text, t, i + n)
            BY <1>1, <2>1
        <3>2. Sits(c, t, i + n) /\ Sits(text, t, (i + n) + Len(c))
            BY <1>4, <1>5, <3>1, SitsConcat
        <3>3. QED
            BY <1>4, <3>2
    <2>3. CharAt(t, i) = Quote /\ i \in 1 .. Len(t)
        BY <1>3, <2>1
    <2>4. PICK key : key = Reader(t)[<<"string", i + 1>>]
        OBVIOUS
    <2>5. key = [v |-> name, at |-> i + n]
        BY <1>3, <2>1, <2>4
    <2>6. CharAt(t, i + n) = ":"
        BY <1>4, <2>2, SitsFirst
    <2>7. PICK j : j = (i + n) + 1
        OBVIOUS
    <2>8. j \in 1 .. Len(t)
        BY <1>5, <2>2, <2>7, SitsFirst
    <2>9. PICK val : val = Reader(t)[<<"value", j>>]
        OBVIOUS
    <2>10. val = [v |-> w, at |-> j + m]
        <3>1. ItemAt(t, "array", j) = [v |-> w, at |-> j + m]
            BY <1>2, <2>2, <2>7 DEF ReadsAs
        <3>2. ItemAt(t, "array", j) = ValueAt(Reader(t), t, j)
            BY DEF ItemAt
        <3>3. ResultAt(Reader(t), t, <<"value", j>>) = ValueAt(Reader(t), t, j)
            BY DEF ResultAt
        <3>4. j \in 1 .. (Len(t) + 1) /\ "value" \in Types
            BY <2>8, LenProperties DEF Types
        <3>5. Reader(t)[<<"value", j>>] = ResultAt(Reader(t), t, <<"value", j>>)
            BY <3>4, ReaderResult
        <3>6. QED
            BY <2>9, <3>1, <3>2, <3>3, <3>5
    <2>11. key.at = i + n /\ key.v = name /\ val.v = w /\ val.at = j + m
        BY <2>5, <2>10
    <2>12. val.at # 0
        BY <1>6, <2>8, <2>11
    <2>13. j + m = i + (n + (1 + m))
        <3>1. i \in Int
            BY <2>3
        <3>2. QED
            BY <1>6, <2>7, <3>1
    <2>14. MemberAt(Reader(t), t, i) = [v |-> <<key.v, val.v>>, at |-> val.at]
        <3>1. val = IF CharAt(t, key.at) = ":" THEN Reader(t)[<<"value", key.at + 1>>] ELSE Wrong
            BY <2>6, <2>7, <2>9, <2>11
        <3>2. key = IF CharAt(t, i) = Quote THEN Reader(t)[<<"string", i + 1>>] ELSE Wrong
            BY <2>3, <2>4
        <3>3. QED
            BY <2>12, <3>1, <3>2 DEF MemberAt
    <2>15. QED
        BY <2>11, <2>13, <2>14 DEF ItemAt
<1>12. Quote # "]" /\ Quote # "}"
    BY DEF Quote
<1>13. QED
    BY <1>1, <1>3, <1>9, <1>10, <1>11, <1>12 DEF ReadsAs

-----------------------------------------------------------------------------
(* Values, by how deep they are *)

Scalars(V) == {<<"word", w>> : w \in Words} \cup {<<"string", s>> : s \in Seq(V)}
Over(V, W) == Scalars(V) \cup {<<"array", ws>> : ws \in Seq(W)}
                         \cup {<<"object", ms>> : ms \in Seq(Seq(V) \X W)}
Level1(V) == Over(V, Scalars(V))
Level2(V) == Over(V, Level1(V))
Level3(V) == Over(V, Level2(V))

\* What written() of a value makes of its items' texts f.
WrittenWith(f, v) == Written(v, LAMBDA w : f[w])

ValuesRead(V, W, f) == Maps(f, W, Seq(V)) /\ \A w \in W : ReadsAs(V, "array", f[w], w)

MemberFun(V, W, f) ==
    [m \in Seq(V) \X W |-> (Escape(m[1]) \o <<":">>) \o f[m[2]]]

LEMMA MembersRead ==
    ASSUME NEW V, TextSymbols(V), NEW W, NEW f, ValuesRead(V, W, f)
    PROVE  AllRead(V, "object", Seq(V) \X W, MemberFun(V, W, f))
<1>1. ASSUME NEW m \in Seq(V) \X W
      PROVE  ReadsAs(V, "object", MemberFun(V, W, f)[m], m)
    <2>1. PICK name, w : name = m[1] /\ w = m[2]
        OBVIOUS
    <2>2. m = <<name, w>> /\ name \in Seq(V) /\ w \in W
        BY <2>1
    <2>3. ReadsAs(V, "array", f[w], w)
        BY <2>2 DEF ValuesRead
    <2>4. ReadsAs(V, "object", (Escape(name) \o <<":">>) \o f[w], <<name, w>>)
        BY <2>2, <2>3, MemberReads
    <2>5. MemberFun(V, W, f)[m] = (Escape(name) \o <<":">>) \o f[w]
        BY <2>1 DEF MemberFun
    <2>6. QED
        BY <2>2, <2>4, <2>5
<1>2. ASSUME NEW m \in Seq(V) \X W PROVE MemberFun(V, W, f)[m] \in Seq(V)
    BY <1>1 DEF ReadsAs
<1>3. Maps(MemberFun(V, W, f), Seq(V) \X W, Seq(V))
    BY <1>2 DEF Maps, MemberFun
<1>4. QED
    BY <1>1, <1>3 DEF AllRead

LEMMA WrittenReads ==
    ASSUME NEW V, TextSymbols(V), NEW W, NEW f, ValuesRead(V, W, f), NEW v \in Over(V, W)
    PROVE  ReadsAs(V, "array", WrittenWith(f, v), v)
<1>1. CASE v \in {<<"word", w>> : w \in Words}
    <2>1. PICK w \in Words : v = <<"word", w>>
        BY <1>1
    <2>2. WrittenWith(f, v) = <<w>>
        BY <2>1 DEF WrittenWith, Written
    <2>3. QED
        BY <2>1, <2>2, WordReads
<1>2. CASE v \in {<<"string", s>> : s \in Seq(V)}
    <2>1. PICK s \in Seq(V) : v = <<"string", s>>
        BY <1>2
    <2>2. WrittenWith(f, v) = Escape(s)
        BY <2>1 DEF WrittenWith, Written
    <2>3. QED
        BY <2>1, <2>2, StringReads DEF String
<1>3. CASE v \in {<<"array", ws>> : ws \in Seq(W)}
    <2>1. PICK ws \in Seq(W) : v = <<"array", ws>>
        BY <1>3
    <2>2. PICK l : l = [k \in DOMAIN ws |-> f[ws[k]]]
        OBVIOUS
    <2>3. l = Each(f, ws)
        BY <2>2 DEF Each
    <2>4. WrittenWith(f, v) = (<<"[">> \o Listed(l)) \o <<"]">>
        BY <2>1, <2>2 DEF WrittenWith, Written
    <2>5. AllRead(V, "array", W, f) /\ "array" \in Lists
        BY DEF AllRead, ValuesRead, Lists
    <2>6. ReadsAs(V, "array", (<<Open("array")>> \o Listed(Each(f, ws))) \o <<End("array")>>, <<"array", ws>>)
        BY <2>5, ListValueReads
    <2>7. Open("array") = "[" /\ End("array") = "]"
        BY DEF Open, End
    <2>8. QED
        BY <2>1, <2>3, <2>4, <2>6, <2>7
<1>4. CASE v \in {<<"object", ms>> : ms \in Seq(Seq(V) \X W)}
    <2>1. PICK ms \in Seq(Seq(V) \X W) : v = <<"object", ms>>
        BY <1>4
    <2>2. PICK l : l = [k \in DOMAIN ms |-> (Escape(ms[k][1]) \o <<":">>) \o f[ms[k][2]]]
        OBVIOUS
    <2>3. PICK g : g = MemberFun(V, W, f)
        OBVIOUS
    <2>4. l = Each(g, ms)
        <3>1. \A k \in DOMAIN ms : ms[k] \in Seq(V) \X W
            BY LenProperties, ElementOfSeq
        <3>2. \A k \in DOMAIN ms : g[ms[k]] = (Escape(ms[k][1]) \o <<":">>) \o f[ms[k][2]]
            BY <2>3, <3>1 DEF MemberFun
        <3>3. QED
            BY <2>2, <3>2 DEF Each
    <2>5. WrittenWith(f, v) = (<<"{">> \o Listed(l)) \o <<"}">>
        BY <2>1, <2>2 DEF WrittenWith, Written
    <2>6. AllRead(V, "object", Seq(V) \X W, g) /\ "object" \in Lists
        BY <2>3, MembersRead DEF Lists
    <2>7. ReadsAs(V, "array", (<<Open("object")>> \o Listed(Each(g, ms))) \o <<End("object")>>, <<"object", ms>>)
        BY <2>6, ListValueReads
    <2>8. Open("object") = "{" /\ End("object") = "}"
        BY DEF Open, End
    <2>9. QED
        BY <2>1, <2>4, <2>5, <2>7, <2>8
<1>5. QED
    BY <1>1, <1>2, <1>3, <1>4 DEF Over, Scalars

Text0(V) == [w \in Scalars(V) |-> Write0(w)]
Text1(V) == [w \in Level1(V) |-> Write1(w)]
Text2(V) == [w \in Level2(V) |-> Write2(w)]

\* Of a value of either level, write() with its items' texts.
LEMMA WriteOver ==
    ASSUME NEW V, NEW W, NEW f, NEW v \in Over(V, W)
    PROVE  /\ f = [w \in W |-> Write0(w)] => Write1(v) = WrittenWith(f, v)
           /\ f = [w \in W |-> Write1(w)] => Write2(v) = WrittenWith(f, v)
           /\ f = [w \in W |-> Write2(w)] => Write(v) = WrittenWith(f, v)
<1>1. CASE v \in Scalars(V)
    <2>1. \/ \E w \in Words : v = <<"word", w>>
          \/ \E s \in Seq(V) : v = <<"string", s>>
        BY <1>1 DEF Scalars
    <2>2. QED
        BY <2>1 DEF Write1, Write2, Write, WrittenWith, Written
<1>2. CASE v \in {<<"array", ws>> : ws \in Seq(W)}
    <2>1. PICK ws \in Seq(W) : v = <<"array", ws>>
        BY <1>2
    <2>2. \A k \in DOMAIN ws : ws[k] \in W
        BY LenProperties, ElementOfSeq
    <2>3. ASSUME f = [w \in W |-> Write0(w)] PROVE Write1(v) = WrittenWith(f, v)
        <3>1. [k \in DOMAIN ws |-> Write0(ws[k])] = [k \in DOMAIN ws |-> f[ws[k]]]
            BY <2>2, <2>3
        <3>2. QED
            BY <2>1, <3>1 DEF Write1, WrittenWith, Written
    <2>4. ASSUME f = [w \in W |-> Write1(w)] PROVE Write2(v) = WrittenWith(f, v)
        <3>1. [k \in DOMAIN ws |-> Write1(ws[k])] = [k \in DOMAIN ws |-> f[ws[k]]]
            BY <2>2, <2>4
        <3>2. QED
            BY <2>1, <3>1 DEF Write2, WrittenWith, Written
    <2>5. ASSUME f = [w \in W |-> Write2(w)] PROVE Write(v) = WrittenWith(f, v)
        <3>1. [k \in DOMAIN ws |-> Write2(ws[k])] = [k \in DOMAIN ws |-> f[ws[k]]]
            BY <2>2, <2>5
        <3>2. QED
            BY <2>1, <3>1 DEF Write, WrittenWith, Written
    <2>6. QED
        BY <2>3, <2>4, <2>5
<1>3. CASE v \in {<<"object", ms>> : ms \in Seq(Seq(V) \X W)}
    <2>1. PICK ms \in Seq(Seq(V) \X W) : v = <<"object", ms>>
        BY <1>3
    <2>2. \A k \in DOMAIN ms : ms[k][2] \in W
        BY LenProperties, ElementOfSeq
    <2> DEFINE Texts(g) == [k \in DOMAIN ms |-> (Escape(ms[k][1]) \o <<":">>) \o g[k]]
    <2>3. ASSUME f = [w \in W |-> Write0(w)] PROVE Write1(v) = WrittenWith(f, v)
        <3>1. [k \in DOMAIN ms |-> (Escape(ms[k][1]) \o <<":">>) \o Write0(ms[k][2])] =
              [k \in DOMAIN ms |-> (Escape(ms[k][1]) \o <<":">>) \o f[ms[k][2]]]
            BY <2>2, <2>3
        <3>2. QED
            BY <2>1, <3>1 DEF Write1, WrittenWith, Written
    <2>4. ASSUME f = [w \in W |-> Write1(w)] PROVE Write2(v) = WrittenWith(f, v)
        <3>1. [k \in DOMAIN ms |-> (Escape(ms[k][1]) \o <<":">>) \o Write1(ms[k][2])] =
              [k \in DOMAIN ms |-> (Escape(ms[k][1]) \o <<":">>) \o f[ms[k][2]]]
            BY <2>2, <2>4
        <3>2. QED
            BY <2>1, <3>1 DEF Write2, WrittenWith, Written
    <2>5. ASSUME f = [w \in W |-> Write2(w)] PROVE Write(v) = WrittenWith(f, v)
        <3>1. [k \in DOMAIN ms |-> (Escape(ms[k][1]) \o <<":">>) \o Write2(ms[k][2])] =
              [k \in DOMAIN ms |-> (Escape(ms[k][1]) \o <<":">>) \o f[ms[k][2]]]
            BY <2>2, <2>5
        <3>2. QED
            BY <2>1, <3>1 DEF Write, WrittenWith, Written
    <2>6. QED
        BY <2>3, <2>4, <2>5
<1>4. QED
    BY <1>1, <1>2, <1>3 DEF Over

LEMMA LevelsRead ==
    ASSUME NEW V, TextSymbols(V)
    PROVE  \A v \in Level3(V) : ReadsAs(V, "array", Write(v), v)
<1>1. ValuesRead(V, Scalars(V), Text0(V))
    <2>1. ASSUME NEW v \in Scalars(V) PROVE ReadsAs(V, "array", Write0(v), v)
        <3>1. CASE v \in {<<"word", w>> : w \in Words}
            <4>1. PICK w \in Words : v = <<"word", w>>
                BY <3>1
            <4>2. Write0(v) = <<w>>
                BY <4>1 DEF Write0, Written
            <4>3. QED
                BY <4>1, <4>2, WordReads
        <3>2. CASE v \in {<<"string", s>> : s \in Seq(V)}
            <4>1. PICK s \in Seq(V) : v = <<"string", s>>
                BY <3>2
            <4>2. Write0(v) = Escape(s)
                BY <4>1 DEF Write0, Written
            <4>3. QED
                BY <4>1, <4>2, StringReads DEF String
        <3>3. QED
            BY <3>1, <3>2 DEF Scalars
    <2>2. QED
        BY <2>1 DEF ValuesRead, Maps, Text0, ReadsAs
<1>2. ValuesRead(V, Level1(V), Text1(V))
    <2>1. ASSUME NEW v \in Level1(V) PROVE ReadsAs(V, "array", Write1(v), v)
        <3>1. v \in Over(V, Scalars(V))
            BY DEF Level1
        <3>2. Write1(v) = WrittenWith(Text0(V), v)
            BY <3>1, WriteOver DEF Text0
        <3>3. QED
            BY <1>1, <3>1, <3>2, WrittenReads
    <2>2. QED
        BY <2>1 DEF ValuesRead, Maps, Text1, ReadsAs
<1>3. ValuesRead(V, Level2(V), Text2(V))
    <2>1. ASSUME NEW v \in Level2(V) PROVE ReadsAs(V, "array", Write2(v), v)
        <3>1. v \in Over(V, Level1(V))
            BY DEF Level2
        <3>2. Write2(v) = WrittenWith(Text1(V), v)
            BY <3>1, WriteOver DEF Text1
        <3>3. QED
            BY <1>2, <3>1, <3>2, WrittenReads
    <2>2. QED
        BY <2>1 DEF ValuesRead, Maps, Text2, ReadsAs
<1>4. ASSUME NEW v \in Level3(V) PROVE ReadsAs(V, "array", Write(v), v)
    <2>1. v \in Over(V, Level2(V))
        BY DEF Level3
    <2>2. Write(v) = WrittenWith(Text2(V), v)
        BY <2>1, WriteOver DEF Text2
    <2>3. QED
        BY <1>3, <2>1, <2>2, WrittenReads
<1>5. QED
    BY <1>4

\* What JsonValue::dump() writes is JSON, and a reader makes of it the value it
\* was written for, whatever characters its strings and names are made of.
THEOREM WrittenMeans ==
    ASSUME NEW V, TextSymbols(V), NEW v \in Level3(V)
    PROVE  Means(Write(v), v)
<1>1. PICK s : s = Write(v)
    OBVIOUS
<1>2. ReadsAs(V, "array", s, v)
    BY <1>1, LevelsRead
<1>3. s \in Seq(V) /\ s # <<>>
    BY <1>2 DEF ReadsAs
<1>4. Sits(s, s, 1)
    BY <1>3, SitsWhole
<1>5. PICK r : r = Reader(s)[<<"value", 1>>]
    OBVIOUS
<1>6. ItemAt(s, "array", 1) = [v |-> v, at |-> 1 + Len(s)]
    BY <1>2, <1>3, <1>4 DEF ReadsAs
<1>7. r = ItemAt(s, "array", 1)
    <2>1. 1 \in 1 .. (Len(s) + 1) /\ "value" \in Types
        BY <1>3, LenProperties DEF Types
    <2>2. r = ResultAt(Reader(s), s, <<"value", 1>>)
        BY <1>3, <1>5, <2>1, ReaderResult
    <2>3. ResultAt(Reader(s), s, <<"value", 1>>) = ValueAt(Reader(s), s, 1)
        BY DEF ResultAt
    <2>4. QED
        BY <2>2, <2>3 DEF ItemAt
<1>8. r.v = v /\ r.at = Len(s) + 1
    <2>1. r.at = 1 + Len(s) /\ r.v = v
        BY <1>6, <1>7
    <2>2. Len(s) \in Nat
        BY <1>3, LenProperties
    <2>3. QED
        BY <2>1, <2>2
<1>9. QED
    BY <1>1, <1>5, <1>8 DEF Means

-----------------------------------------------------------------------------
(* Building values *)

LEMMA SetType ==
    ASSUME NEW V, NEW W, NEW members \in Seq(Seq(V) \X W), NEW key \in Seq(V), NEW value \in W
    PROVE  Set(members, key, value) \in Seq(Seq(V) \X W)
<1> DEFINE At == {k \in DOMAIN members : members[k][1] = key}
<1>1. PICK m : m = <<key, value>>
    OBVIOUS
<1>2. m \in Seq(V) \X W
    BY <1>1
<1>3. Len(members) \in Nat /\ DOMAIN members = 1 .. Len(members)
    BY LenProperties
<1>4. CASE At = {}
    <2>1. Set(members, key, value) = Append(members, m)
        BY <1>1, <1>4 DEF Set
    <2>2. QED
        BY <1>2, <2>1, AppendProperties
<1>5. CASE At # {}
    <2>1. PICK k : k = CHOOSE n \in At : \A l \in At : n <= l
        OBVIOUS
    <2>2. Set(members, key, value) = [members EXCEPT ![k] = m]
        BY <1>1, <1>5, <2>1 DEF Set
    <2>3. QED
        <3>1. PICK s : s = [members EXCEPT ![k] = m]
            OBVIOUS
        <3>2. s \in [1 .. Len(members) -> Seq(V) \X W]
            <4>1. \A i \in 1 .. Len(members) : members[i] \in Seq(V) \X W
                BY ElementOfSeq
            <4>2. \A i \in 1 .. Len(members) : s[i] \in Seq(V) \X W
                BY <1>2, <1>3, <3>1, <4>1
            <4>3. s = [i \in 1 .. Len(members) |-> s[i]]
                BY <1>3, <3>1
            <4>4. QED
                BY <4>2, <4>3
        <3>3. QED
            BY <1>3, <2>2, <3>1, <3>2
<1>6. QED
    BY <1>4, <1>5

\* The members after each of the pairs.
BuildsTo(f, pairs, n) ==
    \A i \in 0 .. n : f[i] = IF i = 0 THEN <<>> ELSE Set(f[i - 1], pairs[i][1], pairs[i][2])
Built(pairs, n) == \E f : f = [i \in 0 .. n |-> f[i]] /\ BuildsTo(f, pairs, n)

LEMMA BuildsMore ==
    ASSUME NEW pairs, NEW n \in Nat, Built(pairs, n)
    PROVE  Built(pairs, n + 1)
<1>1. PICK f : f = [i \in 0 .. n |-> f[i]] /\ BuildsTo(f, pairs, n)
    BY DEF Built
<1> DEFINE g == [i \in 0 .. (n + 1) |-> IF i = n + 1 THEN Set(f[n], pairs[n + 1][1], pairs[n + 1][2])
                                        ELSE f[i]]
<1>2. g = [i \in 0 .. (n + 1) |-> g[i]]
    OBVIOUS
<1>3. g[n + 1] = Set(f[n], pairs[n + 1][1], pairs[n + 1][2])
    OBVIOUS
<1>4. \A i \in 0 .. n : g[i] = f[i]
    OBVIOUS
<1> HIDE DEF g
<1>5. ASSUME NEW i \in 0 .. (n + 1)
      PROVE  g[i] = IF i = 0 THEN <<>> ELSE Set(g[i - 1], pairs[i][1], pairs[i][2])
    <2>1. CASE i = n + 1
        <3>1. i # 0 /\ i - 1 = n /\ n \in 0 .. n
            BY <2>1
        <3>2. g[i - 1] = f[n]
            BY <1>4, <3>1
        <3>3. QED
            BY <1>3, <2>1, <3>1, <3>2
    <2>2. CASE i # n + 1
        <3>1. i \in 0 .. n /\ (i # 0 => i - 1 \in 0 .. n)
            BY <2>2
        <3>2. f[i] = IF i = 0 THEN <<>> ELSE Set(f[i - 1], pairs[i][1], pairs[i][2])
            BY <1>1, <3>1 DEF BuildsTo
        <3>3. QED
            BY <1>4, <3>1, <3>2
    <2>3. QED
        BY <2>1, <2>2
<1>6. QED
    BY <1>2, <1>5 DEF Built, BuildsTo

\* What an object is built from, and its members.
PairsOver(V, W) == Seq(Seq(V) \X W)

LEMMA ObjectType ==
    ASSUME NEW V, NEW W, NEW pairs \in PairsOver(V, W)
    PROVE  \E ms \in PairsOver(V, W) : Object(pairs) = <<"object", ms>>
<1>0. pairs \in Seq(Seq(V) \X W)
    BY DEF PairsOver
<1>1. PICK n : n = Len(pairs)
    OBVIOUS
<1>2. n \in Nat /\ \A i \in 1 .. n : pairs[i] \in Seq(V) \X W
    BY <1>0, <1>1, LenProperties, ElementOfSeq
<1>3. Built(pairs, n)
    <2> DEFINE T == {i \in Nat : Built(pairs, i)}
    <2>1. 0 \in T
        <3>1. PICK f : f = [i \in 0 .. 0 |-> <<>>]
            OBVIOUS
        <3>2. f = [i \in 0 .. 0 |-> f[i]] /\ \A i \in 0 .. 0 : f[i] = <<>> /\ i = 0
            BY <3>1
        <3>3. QED
            BY <3>2 DEF Built, BuildsTo
    <2>2. ASSUME NEW i \in Nat, i \in T PROVE i + 1 \in T
        BY <2>2, BuildsMore
    <2> HIDE DEF T
    <2>3. Nat \subseteq T
        BY <2>1, <2>2, NatSet
    <2>4. QED
        BY <1>2, <2>3 DEF T
<1> DEFINE D(g) == [i \in 0 .. n |-> IF i = 0 THEN <<>> ELSE Set(g[i - 1], pairs[i][1], pairs[i][2])]
<1>4. PICK f : f = D(f)
    <2>1. PICK f : f = [i \in 0 .. n |-> f[i]] /\ BuildsTo(f, pairs, n)
        BY <1>3 DEF Built
    <2>2. f = D(f)
        BY <2>1 DEF BuildsTo
    <2>3. QED
        BY <2>2
<1>5. PICK g : g = CHOOSE h : h = D(h)
    OBVIOUS
<1>6. g = D(g)
    BY <1>4, <1>5
<1>7. Object(pairs) = <<"object", g[n]>>
    BY <1>1, <1>5 DEF Object
<1>8. \A i \in 0 .. n : g[i] = IF i = 0 THEN <<>> ELSE Set(g[i - 1], pairs[i][1], pairs[i][2])
    BY <1>6
<1> HIDE DEF D
<1> DEFINE T == {i \in Nat : i <= n => g[i] \in Seq(Seq(V) \X W)}
<1>9. 0 \in T
    <2>1. 0 \in 0 .. n
        BY <1>2
    <2>2. g[0] = <<>>
        BY <1>8, <2>1
    <2>3. QED
        BY <2>2, EmptySeq
<1>10. ASSUME NEW i \in Nat, i \in T PROVE i + 1 \in T
    <2>1. SUFFICES ASSUME i + 1 <= n PROVE g[i + 1] \in Seq(Seq(V) \X W)
        OBVIOUS
    <2>2. PICK j : j = i + 1
        OBVIOUS
    <2>3. j \in 0 .. n /\ j # 0 /\ j - 1 = i /\ j \in 1 .. n /\ i <= n
        BY <1>2, <2>1, <2>2
    <2>4. g[i] \in Seq(Seq(V) \X W)
        BY <1>10, <2>3
    <2>5. g[j] = Set(g[i], pairs[j][1], pairs[j][2])
        BY <1>8, <2>3
    <2>6. pairs[j][1] \in Seq(V) /\ pairs[j][2] \in W
        BY <1>2, <2>3
    <2>7. QED
        <3>1. Set(g[i], pairs[j][1], pairs[j][2]) \in Seq(Seq(V) \X W)
            BY <2>4, <2>6, SetType
        <3>2. QED
            BY <2>2, <2>5, <3>1
<1> HIDE DEF T
<1>11. Nat \subseteq T
    BY <1>9, <1>10, NatSet
<1>12. g[n] \in Seq(Seq(V) \X W)
    BY <1>2, <1>11 DEF T
<1>13. QED
    BY <1>7, <1>12 DEF PairsOver

-----------------------------------------------------------------------------
(* Other texts *)

LEMMA FilteredType ==
    ASSUME NEW V, NEW ps \in Seq(V), NEW filter
    PROVE  Filtered(ps, filter) \in Seq(V)
<1> DEFINE s == [i \in DOMAIN ps |-> IF Matches(ps[i], filter) THEN <<ps[i]>> ELSE <<>>]
<1>1. Len(ps) \in Nat /\ DOMAIN ps = 1 .. Len(ps) /\ \A i \in 1 .. Len(ps) : ps[i] \in V
    BY LenProperties, ElementOfSeq
<1>2. \A i \in 1 .. Len(ps) : s[i] \in Seq(V)
    BY <1>1
<1>3. s \in Seq(Seq(V))
    BY <1>1, <1>2
<1>4. FlattenSeq(s) = Filtered(ps, filter)
    BY DEF Filtered
<1>5. QED
    BY <1>3, <1>4, FlattenType

LEMMA StrippedType ==
    ASSUME NEW V, NEW s \in Seq(V)
    PROVE  Stripped(s) \in Seq(V)
<1> DEFINE LineEnd(k) == s[k] \in {"\n", "\r"}
           T == {d \in Nat : d <= Len(s) /\ (Len(s) - d = 0 \/ ~LineEnd(Len(s) - d))}
<1>1. Len(s) \in Nat
    BY LenProperties
<1>2. Len(s) \in T
    BY <1>1
<1>3. PICK d \in T : \A e \in T : d <= e
    BY <1>2, SmallestIn, T \in SUBSET Nat
<1>4. PICK l : l = Len(s) - d
    OBVIOUS
<1>5. l \in 0 .. Len(s) /\ (l = 0 \/ ~LineEnd(l))
    BY <1>1, <1>3, <1>4
<1>6. ASSUME NEW m \in (l + 1) .. Len(s) PROVE LineEnd(m)
    <2>1. PICK e : e = Len(s) - m
        OBVIOUS
    <2>2. e \in Nat /\ e < d /\ Len(s) - e = m /\ e <= Len(s)
        BY <1>1, <1>3, <1>4, <1>5, <2>1
    <2>3. e \notin T
        BY <1>3, <2>2
    <2>4. QED
        BY <2>2, <2>3
<1>7. \E n \in 0 .. Len(s) : (n = 0 \/ ~LineEnd(n)) /\ \A k \in (n + 1) .. Len(s) : LineEnd(k)
    BY <1>5, <1>6
<1>8. PICK n : n = CHOOSE m \in 0 .. Len(s) : /\ m = 0 \/ ~LineEnd(m)
                                              /\ \A k \in (m + 1) .. Len(s) : LineEnd(k)
    OBVIOUS
<1>9. n \in 0 .. Len(s)
    BY <1>7, <1>8
<1>10. Stripped(s) = SubSeq(s, 1, n)
    BY <1>8 DEF Stripped
<1>11. QED
    BY <1>1, <1>9, <1>10, PartType
=============================================================================
