-------------------------- MODULE LogRotationProofs --------------------------
(***************************************************************************)
(* Proofs about LogRotation.                                               *)
(***************************************************************************)
EXTENDS LogRotation, SequenceTheorems, FiniteSetTheorems, WellFoundedInduction, TLAPS

-----------------------------------------------------------------------------
(***************************************************************************)
(* Induction over numbers, for what the scan of cleanup_logs computes.     *)
(***************************************************************************)
\* A set of numbers has a least element: `<` is well-founded.
LEMMA LeastElement ==
  ASSUME NEW T \in SUBSET Nat, T # {}
  PROVE  \E x \in T : \A y \in T : x <= y
<1> DEFINE R == OpToRel(<, Nat)
<1>1. IsWellFoundedOn(R, Nat)
  BY NatLessThanWellFounded
<1>2. \A x, y \in Nat : <<x, y>> \in R <=> x < y
  BY Zenon DEF OpToRel
<1> HIDE DEF R
<1>3. PICK x \in T : \A y \in T : ~ (<<y, x>> \in R)
  BY <1>1, WFMin
<1>4. \A y \in T : x <= y
  <2> TAKE y \in T
  <2>1. ~ (y < x)
    BY <1>2, <1>3
  <2> QED BY <2>1
<1> QED BY <1>4

\* Induction, with the property as the set of the numbers that have it.
LEMMA Induction ==
  ASSUME NEW T, 0 \in T, \A n \in Nat : n \in T => n + 1 \in T
  PROVE  Nat \subseteq T
<1> SUFFICES ASSUME Nat \ T # {} PROVE FALSE
  OBVIOUS
<1>1. PICK x \in Nat \ T : \A y \in Nat \ T : x <= y
  BY LeastElement
<1>2. x # 0 /\ x - 1 \in Nat /\ x - 1 \in T
  BY <1>1
<1> QED BY <1>1, <1>2

\* The scan of OverLimit goes through the files one by one.
Scan(order, hasCurrent, n) ==
  CHOOSE scan : scan = [k \in 0 .. n |->
    IF k = 0 THEN Counted(hasCurrent) ELSE Weigh(scan[k - 1], order[k])]

LEMMA ScanSteps ==
  ASSUME NEW order, NEW hasCurrent, NEW n \in Nat
  PROVE  LET scan == Scan(order, hasCurrent, n) IN
         /\ scan[0] = Counted(hasCurrent)
         /\ \A k \in 1 .. n : scan[k] = Weigh(scan[k - 1], order[k])
<1> DEFINE Is(g, m) == g = [k \in 0 .. m |->
             IF k = 0 THEN Counted(hasCurrent) ELSE Weigh(g[k - 1], order[k])]
           T == {m \in Nat : \E g : Is(g, m)}
<1>1. 0 \in T
  <2> DEFINE g == [k \in 0 .. 0 |-> Counted(hasCurrent)]
  <2>1. Is(g, 0)
    OBVIOUS
  <2> QED BY <2>1
<1>2. ASSUME NEW m \in Nat, m \in T PROVE m + 1 \in T
  <2>1. PICK g : Is(g, m)
    BY <1>2
  <2> DEFINE h == [k \in 0 .. m + 1 |-> IF k = m + 1 THEN Weigh(g[m], order[m + 1]) ELSE g[k]]
             e == [k \in 0 .. m + 1 |-> IF k = 0 THEN Counted(hasCurrent) ELSE Weigh(h[k - 1], order[k])]
  <2>2. ASSUME NEW k \in 0 .. m + 1 PROVE h[k] = e[k]
    <3>1. CASE k = 0
      BY <2>1, <3>1
    <3>2. CASE k = m + 1
      BY <3>2
    <3>3. CASE k \in 1 .. m
      BY <2>1, <3>3
    <3> QED BY <3>1, <3>2, <3>3
  <2>3. Is(h, m + 1)
    BY <2>2
  <2> HIDE DEF h
  <2> QED BY <2>3
<1>3. n \in T
  <2> HIDE DEF T
  <2> QED BY <1>1, <1>2, Induction
<1>4. Is(Scan(order, hasCurrent, n), n)
  BY <1>3 DEF Scan
<1> QED BY <1>4

LEMMA OverLimitScans ==
  ASSUME NEW order, NEW hasCurrent
  PROVE  OverLimit(order, hasCurrent) = Scan(order, hasCurrent, Len(order))[Len(order)].excess
BY DEF OverLimit, Scan

Scanned(S) == [files : Nat, bytes : Nat, excess : Seq(S)]

LEMMA WeighIsScanned ==
  ASSUME NEW S, NEW acc \in Scanned(S), NEW n \in S, Size(n) \in Nat
  PROVE  Weigh(acc, n) \in Scanned(S)
<1>1. Append(acc.excess, n) \in Seq(S)
  BY AppendProperties DEF Scanned
<1>2. acc.files + 1 \in Nat /\ acc.bytes + Size(n) \in Nat
  BY DEF Scanned
<1> QED BY <1>1, <1>2 DEF Weigh, Scanned

LEMMA ScanIsScanned ==
  ASSUME NEW S, NEW order \in Seq(S), NEW hasCurrent \in BOOLEAN,
         \A n \in S : Size(n) \in Nat, hasCurrent => Size(Current) \in Nat
  PROVE  \A k \in 0 .. Len(order) : Scan(order, hasCurrent, Len(order))[k] \in Scanned(S)
<1> DEFINE scan == Scan(order, hasCurrent, Len(order))
           T == {k \in Nat : k <= Len(order) => scan[k] \in Scanned(S)}
<1>1. /\ scan[0] = Counted(hasCurrent)
      /\ \A k \in 1 .. Len(order) : scan[k] = Weigh(scan[k - 1], order[k])
  BY ScanSteps
<1> HIDE DEF scan
<1>2. 0 \in T
  <2>1. Counted(hasCurrent) \in Scanned(S)
    BY DEF Counted, Scanned
  <2> QED BY <1>1, <2>1
<1>3. ASSUME NEW k \in Nat, k \in T PROVE k + 1 \in T
  <2> SUFFICES ASSUME k + 1 <= Len(order) PROVE scan[k + 1] \in Scanned(S)
    OBVIOUS
  <2>1. order[k + 1] \in S /\ scan[k] \in Scanned(S) /\ k + 1 \in 1 .. Len(order)
    BY <1>3, ElementOfSeq
  <2>2. scan[k + 1] = Weigh(scan[k], order[k + 1])
    BY <1>1, <2>1
  <2> QED BY <2>1, <2>2, WeighIsScanned
<1> HIDE DEF T
<1>4. Nat \subseteq T
  BY <1>2, <1>3, Induction
<1> QED BY <1>4 DEF T, scan

\* cleanup_logs removes only files it has listed.
LEMMA OverLimitIsOfOrder ==
  ASSUME NEW S, NEW order \in Seq(S), NEW hasCurrent \in BOOLEAN,
         \A n \in S : Size(n) \in Nat, hasCurrent => Size(Current) \in Nat
  PROVE  OverLimit(order, hasCurrent) \in Seq(S)
<1>1. Scan(order, hasCurrent, Len(order))[Len(order)] \in Scanned(S)
  BY ScanIsScanned
<1> QED BY <1>1, OverLimitScans DEF Scanned

\* Files that are listed one after the other, none twice, and are all archives
\* are fewer than max_files.
LEMMA ArchivesAreFew ==
  ASSUME NEW k \in Nat, NEW order, \A j \in 1 .. k : order[j] \in Archive,
         \A i, j \in 1 .. k : i # j => order[i] # order[j]
  PROVE  k <= MaxFiles - 1
<1>0. MaxFiles \in Nat \ {0}
  BY RetentionAssumption DEF ValidRetention
<1>1. IsFiniteSet(Archive) /\ Cardinality(Archive) = MaxFiles - 1
  BY <1>0, FS_Interval DEF Archive
<1>2. IsFiniteSet(1 .. k) /\ Cardinality(1 .. k) = k
  BY FS_Interval
<1> DEFINE f == [j \in 1 .. k |-> order[j]]
<1>3. f \in [1 .. k -> Archive] /\ \A j \in 1 .. k : f[j] = order[j]
  OBVIOUS
<1> HIDE DEF f
<1>4. ~ Cardinality(Archive) < Cardinality(1 .. k)
  <2> SUFFICES ASSUME Cardinality(Archive) < Cardinality(1 .. k) PROVE FALSE
    OBVIOUS
  <2>1. \E i, j \in 1 .. k : i # j /\ f[i] = f[j]
    BY <1>1, <1>2, <1>3, FS_PigeonHole
  <2> QED BY <1>3, <2>1
<1> QED BY <1>0, <1>1, <1>2, <1>4

LEMMA OneMoreTimes ==
  ASSUME NEW k \in Nat, NEW m \in Nat
  PROVE  (k + 2) * m = (k + 1) * m + m /\ (k + 1) * m \in Nat
OBVIOUS

\* Among at most max_files files of at most max_file_bytes, listed archives first,
\* max_total_bytes removes no archive.
LEMMA OverLimitSparesArchives ==
  ASSUME NEW S, NEW order \in Seq(S), NEW hasCurrent \in BOOLEAN,
         \A n \in S : Size(n) \in Nat /\ (n \in Archive => Size(n) <= MaxFileBytes),
         hasCurrent => Size(Current) \in Nat /\ Size(Current) <= MaxFileBytes,
         \A i, j \in 1 .. Len(order) : i # j => order[i] # order[j],
         \A i, j \in 1 .. Len(order) : i < j /\ order[j] \in Archive => order[i] \in Archive,
         MaxTotalBytes >= MaxFiles * MaxFileBytes
  PROVE  OverLimit(order, hasCurrent) \in Seq(S \ Archive)
<1> DEFINE scan == Scan(order, hasCurrent, Len(order))
           T == {k \in Nat : k <= Len(order) =>
                  /\ scan[k].excess \in Seq(S \ Archive)
                  /\ k = 0 \/ order[k] \in Archive =>
                       scan[k].files <= k + 1 /\ scan[k].bytes <= (k + 1) * MaxFileBytes}
<1>0. {MaxFileBytes, MaxTotalBytes} \subseteq Nat /\ MaxFiles \in Nat \ {0}
  BY RetentionAssumption DEF ValidRetention
<1>1. /\ scan[0] = Counted(hasCurrent)
      /\ \A k \in 1 .. Len(order) : scan[k] = Weigh(scan[k - 1], order[k])
  BY ScanSteps
<1>2. \A k \in 0 .. Len(order) : scan[k] \in Scanned(S)
  BY ScanIsScanned
<1> HIDE DEF scan
<1>3. 0 \in T
  <2>1. <<>> \in Seq(S \ Archive)
    OBVIOUS
  <2>2. /\ Counted(hasCurrent).excess = <<>>
        /\ Counted(hasCurrent).files <= 1 /\ Counted(hasCurrent).bytes <= MaxFileBytes
    BY <1>0 DEF Counted
  <2>3. (0 + 1) * MaxFileBytes = MaxFileBytes
    BY <1>0
  <2>4. /\ scan[0].excess \in Seq(S \ Archive)
        /\ scan[0].files <= 0 + 1 /\ scan[0].bytes <= (0 + 1) * MaxFileBytes
    BY <1>1, <2>1, <2>2, <2>3
  <2> QED BY <2>4
<1>4. ASSUME NEW k \in Nat, k \in T PROVE k + 1 \in T
  <2> SUFFICES ASSUME k + 1 <= Len(order) PROVE k + 1 \in T
    OBVIOUS
  <2> DEFINE n == order[k + 1]
             acc == scan[k]
  <2>1. n \in S /\ k + 1 \in 1 .. Len(order)
    BY ElementOfSeq
  <2>2. scan[k + 1] = Weigh(acc, n)
    BY <1>1, <2>1
  <2>3. acc \in Scanned(S) /\ acc.excess \in Seq(S \ Archive)
    BY <1>2, <1>4, <2>1
  <2>4. CASE n \in Archive
    <3>1. \A j \in 1 .. k + 1 : order[j] \in Archive
      BY <2>1, <2>4
    <3>2. k + 1 <= MaxFiles - 1
      <4>1. k + 1 \in Nat /\ \A i, j \in 1 .. k + 1 : i # j => order[i] # order[j]
        BY <2>1
      <4> QED BY <3>1, <4>1, ArchivesAreFew
    <3>3. acc.files <= k + 1 /\ acc.bytes <= (k + 1) * MaxFileBytes
      BY <1>4, <2>1, <3>1
    <3>4. Size(n) \in Nat /\ Size(n) <= MaxFileBytes
      BY <2>1, <2>4
    <3>5. acc.bytes + Size(n) <= (k + 2) * MaxFileBytes
      <4>1. (k + 2) * MaxFileBytes = (k + 1) * MaxFileBytes + MaxFileBytes /\ (k + 1) * MaxFileBytes \in Nat
        BY <1>0, OneMoreTimes
      <4> HIDE DEF acc, n
      <4> QED BY <1>0, <2>3, <3>3, <3>4, <4>1 DEF Scanned
    <3>6. (k + 2) * MaxFileBytes <= MaxFiles * MaxFileBytes
      <4>1. PICK d \in Nat : MaxFiles = (k + 2) + d
        <5>1. MaxFiles - (k + 2) \in Nat /\ MaxFiles = (k + 2) + (MaxFiles - (k + 2))
          BY <1>0, <3>2
        <5> QED BY <5>1
      <4>2. MaxFiles * MaxFileBytes = (k + 2) * MaxFileBytes + d * MaxFileBytes
        BY <1>0, <4>1
      <4>3. d * MaxFileBytes \in Nat /\ (k + 2) * MaxFileBytes \in Nat
        BY <1>0
      <4> QED BY <4>2, <4>3
    <3>7. ~ (acc.files >= MaxFiles \/ acc.bytes + Size(n) > MaxTotalBytes)
      <4>1. (k + 2) * MaxFileBytes \in Nat /\ MaxFiles * MaxFileBytes \in Nat
        BY <1>0
      <4> HIDE DEF acc, n
      <4>2. acc.files \in Nat /\ acc.bytes \in Nat
        BY <2>3 DEF Scanned
      <4>3. acc.files < MaxFiles
        BY <1>0, <3>2, <3>3, <4>2
      <4>4. acc.bytes + Size(n) <= MaxTotalBytes
        BY <1>0, <3>4, <3>5, <3>6, <4>1, <4>2
      <4> QED BY <1>0, <3>4, <4>2, <4>3, <4>4
    <3>8. Weigh(acc, n) = [acc EXCEPT !.files = @ + 1, !.bytes = @ + Size(n)]
      BY <3>7 DEF Weigh
    <3>9. /\ Weigh(acc, n).excess = acc.excess /\ Weigh(acc, n).files = acc.files + 1
          /\ Weigh(acc, n).bytes = acc.bytes + Size(n)
      <4> HIDE DEF acc, n
      <4> QED BY <2>3, <3>8 DEF Scanned
    <3>10. acc.files + 1 <= (k + 1) + 1
      BY <2>3, <3>3 DEF Scanned
    <3>11. (k + 1) + 1 = k + 2
      OBVIOUS
    <3> QED BY <2>2, <2>3, <3>5, <3>9, <3>10, <3>11
  <2>5. CASE n \notin Archive
    <3>1. Append(acc.excess, n) \in Seq(S \ Archive)
      BY <2>1, <2>3, <2>5, AppendProperties
    <3>2. Weigh(acc, n).excess \in {acc.excess, Append(acc.excess, n)}
      <4> HIDE DEF acc, n
      <4> QED BY <2>3 DEF Weigh, Scanned
    <3>3. ~ (k + 1 = 0 \/ order[k + 1] \in Archive)
      BY <2>5
    <3>4. scan[k + 1].excess \in Seq(S \ Archive)
      BY <2>2, <2>3, <3>1, <3>2
    <3> HIDE DEF acc, n
    <3> QED BY <3>3, <3>4
  <2> QED BY <2>4, <2>5
<1> HIDE DEF T
<1>5. Nat \subseteq T
  BY <1>3, <1>4, Induction
<1> QED BY <1>5, OverLimitScans DEF T, scan

-----------------------------------------------------------------------------
(***************************************************************************)
(* Sums of numbers over a finite set, for the bytes of the directory.      *)
(***************************************************************************)
\* SumFunctionOnSet adds f[x] for one element of the set after the other.
Chosen(s) == CHOOSE x \in s : TRUE
SumStep(g, f, s) == IF s = {} THEN 0 ELSE f[Chosen(s)] + g[s \ {Chosen(s)}]

PartialSums(f, S) == CHOOSE g : g = [s \in SUBSET S |-> SumStep(g, f, s)]

LEMMA SumIsIterated ==
  ASSUME NEW f, NEW S
  PROVE  SumFunctionOnSet(f, S) = PartialSums(f, S)[S]
BY DEF SumFunctionOnSet, FoldFunctionOnSet, MapThenFoldSet, SumStep, Chosen, PartialSums

LEMMA OneLess ==
  ASSUME NEW S, IsFiniteSet(S), NEW n \in Nat, Cardinality(S) = n + 1
  PROVE  Chosen(S) \in S /\ \A x \in S : IsFiniteSet(S \ {x}) /\ Cardinality(S \ {x}) = n
<1>1. S # {}
  <2> SUFFICES ASSUME S = {} PROVE FALSE
    OBVIOUS
  <2>1. n + 1 = 0
    BY FS_EmptySet
  <2> QED BY <2>1
<1>2. Chosen(S) \in S
  BY <1>1 DEF Chosen
<1>3. \A x \in S : IsFiniteSet(S \ {x}) /\ Cardinality(S \ {x}) = (n + 1) - 1
  BY FS_RemoveElement
<1> QED BY <1>2, <1>3

\* The iteration is defined: its values are given for ever larger subsets.
LEMMA SumStepsExist ==
  ASSUME NEW f, NEW S, IsFiniteSet(S)
  PROVE  \E g : g = [s \in SUBSET S |-> SumStep(g, f, s)]
<1> DEFINE T == {n \in Nat : \E g : \A s \in SUBSET S : Cardinality(s) <= n => g[s] = SumStep(g, f, s)}
<1>1. \A s \in SUBSET S : IsFiniteSet(s) /\ Cardinality(s) \in Nat
  BY FS_Subset, FS_CardinalityType
<1>2. \A s \in SUBSET S : s # {} => /\ Chosen(s) \in s /\ s \ {Chosen(s)} \in SUBSET S
                                   /\ Cardinality(s \ {Chosen(s)}) = Cardinality(s) - 1
  <2> TAKE s \in SUBSET S
  <2> HAVE s # {}
  <2>1. Chosen(s) \in s
    BY DEF Chosen
  <2> QED BY <1>1, <2>1, FS_RemoveElement
<1>3. 0 \in T
  <2> DEFINE g == [s \in SUBSET S |-> 0]
  <2>1. \A s \in SUBSET S : Cardinality(s) <= 0 => s = {}
    BY <1>1, FS_EmptySet
  <2>2. \A s \in SUBSET S : Cardinality(s) <= 0 => g[s] = SumStep(g, f, s)
    BY <2>1 DEF SumStep
  <2> QED BY <2>2
<1>4. ASSUME NEW n \in Nat, n \in T PROVE n + 1 \in T
  <2>1. PICK g : \A s \in SUBSET S : Cardinality(s) <= n => g[s] = SumStep(g, f, s)
    BY <1>4
  <2> DEFINE h == [s \in SUBSET S |-> IF Cardinality(s) <= n THEN g[s] ELSE SumStep(g, f, s)]
  <2>2. ASSUME NEW s \in SUBSET S, Cardinality(s) <= n + 1 PROVE h[s] = SumStep(h, f, s)
    <3>1. h[s] = SumStep(g, f, s)
      BY <2>1
    <3>2. s # {} => h[s \ {Chosen(s)}] = g[s \ {Chosen(s)}]
      BY <1>1, <1>2, <2>2
    <3> HIDE DEF h
    <3> QED BY <3>1, <3>2 DEF SumStep
  <2> HIDE DEF h
  <2>3. \A s \in SUBSET S : Cardinality(s) <= n + 1 => h[s] = SumStep(h, f, s)
    BY <2>2
  <2> QED BY <2>3
<1> HIDE DEF T
<1>5. Cardinality(S) \in T
  BY <1>1, <1>3, <1>4, Induction
<1>6. PICK g : \A s \in SUBSET S : Cardinality(s) <= Cardinality(S) => g[s] = SumStep(g, f, s)
  BY <1>5 DEF T
<1>7. \A s \in SUBSET S : g[s] = SumStep(g, f, s)
  BY <1>1, <1>6, FS_Subset
<1> DEFINE h == [s \in SUBSET S |-> g[s]]
<1>8. ASSUME NEW s \in SUBSET S PROVE SumStep(h, f, s) = SumStep(g, f, s)
  <2>1. s # {} => h[s \ {Chosen(s)}] = g[s \ {Chosen(s)}]
    OBVIOUS
  <2> HIDE DEF h
  <2> QED BY <2>1 DEF SumStep
<1>9. h = [s \in SUBSET S |-> SumStep(h, f, s)]
  <2>1. \A s \in SUBSET S : h[s] = SumStep(h, f, s)
    BY <1>7, <1>8
  <2>2. h = [s \in SUBSET S |-> h[s]]
    OBVIOUS
  <2> HIDE DEF h
  <2> QED BY <2>1, <2>2
<1> QED BY <1>9

\* u is such an iteration over the numbers f, on the subsets of S.
Iterates(u, f, S) == \A s \in SUBSET S : u[s] = SumStep(u, f, s)

\* Two iterations agree, if they add the same numbers.
LEMMA SumStepsAgree ==
  ASSUME NEW f, NEW g, NEW u, NEW v, NEW S, IsFiniteSet(S),
         \A x \in S : f[x] = g[x], Iterates(u, f, S), Iterates(v, g, S)
  PROVE  u[S] = v[S]
<1> DEFINE T == {n \in Nat : \A s \in SUBSET S : Cardinality(s) = n => u[s] = v[s]}
<1>1. \A s \in SUBSET S : IsFiniteSet(s) /\ Cardinality(s) \in Nat
  BY FS_Subset, FS_CardinalityType
<1>2. \A s \in SUBSET S : u[s] = SumStep(u, f, s) /\ v[s] = SumStep(v, g, s)
  BY DEF Iterates
<1>3. 0 \in T
  <2>1. \A s \in SUBSET S : Cardinality(s) = 0 => s = {}
    BY <1>1, FS_EmptySet
  <2> QED BY <1>2, <2>1 DEF SumStep
<1>4. ASSUME NEW n \in Nat, n \in T PROVE n + 1 \in T
  <2> SUFFICES ASSUME NEW s \in SUBSET S, Cardinality(s) = n + 1 PROVE u[s] = v[s]
    OBVIOUS
  <2>1. Chosen(s) \in s /\ s \ {Chosen(s)} \in SUBSET S /\ Cardinality(s \ {Chosen(s)}) = n
    BY <1>1, OneLess
  <2>2. u[s \ {Chosen(s)}] = v[s \ {Chosen(s)}] /\ f[Chosen(s)] = g[Chosen(s)]
    BY <1>4, <2>1
  <2> QED BY <1>2, <2>1, <2>2 DEF SumStep
<1> HIDE DEF T
<1>5. Cardinality(S) \in T
  BY <1>1, <1>3, <1>4, Induction
<1> QED BY <1>5 DEF T

LEMMA PartialSumsIterate ==
  ASSUME NEW f, NEW S, IsFiniteSet(S)
  PROVE  Iterates(PartialSums(f, S), f, S)
<1> DEFINE u == PartialSums(f, S)
<1>1. u = [s \in SUBSET S |-> SumStep(u, f, s)]
  BY SumStepsExist DEF PartialSums
<1> HIDE DEF u
<1>2. Iterates(u, f, S)
  BY <1>1 DEF Iterates
<1> QED BY <1>2 DEF u

LEMMA SumOfSame ==
  ASSUME NEW f, NEW g, NEW S, IsFiniteSet(S), \A x \in S : f[x] = g[x]
  PROVE  SumFunctionOnSet(f, S) = SumFunctionOnSet(g, S)
<1>1. Iterates(PartialSums(f, S), f, S) /\ Iterates(PartialSums(g, S), g, S)
  BY PartialSumsIterate
<1>2. PartialSums(f, S)[S] = PartialSums(g, S)[S]
  BY <1>1, SumStepsAgree
<1> QED BY <1>2, SumIsIterated

LEMMA SumOfChosen ==
  ASSUME NEW f, NEW S, IsFiniteSet(S)
  PROVE  /\ S = {} => SumFunctionOnSet(f, S) = 0
         /\ S # {} => SumFunctionOnSet(f, S) = f[Chosen(S)] + SumFunctionOnSet(f, S \ {Chosen(S)})
<1>1. PICK R : R = S \ {Chosen(S)}
  OBVIOUS
<1>2. IsFiniteSet(R) /\ R \in SUBSET S
  BY <1>1, FS_Subset
<1>3. PICK u, v : u = PartialSums(f, S) /\ v = PartialSums(f, R)
  OBVIOUS
<1>4. /\ Iterates(u, f, S) /\ Iterates(v, f, R)
      /\ SumFunctionOnSet(f, S) = u[S] /\ SumFunctionOnSet(f, R) = v[R]
  BY <1>2, <1>3, PartialSumsIterate, SumIsIterated
<1>5. u[S] = SumStep(u, f, S) /\ Iterates(u, f, R)
  BY <1>2, <1>4 DEF Iterates
<1>6. u[R] = v[R]
  BY <1>2, <1>4, <1>5, SumStepsAgree
<1> QED BY <1>1, <1>4, <1>5, <1>6 DEF SumStep

LEMMA SumIsNatural ==
  ASSUME NEW f, NEW S, IsFiniteSet(S), \A x \in S : f[x] \in Nat
  PROVE  SumFunctionOnSet(f, S) \in Nat
<1> DEFINE sum(s) == SumFunctionOnSet(f, s)
           T == {n \in Nat : \A s \in SUBSET S : Cardinality(s) = n => sum(s) \in Nat}
<1>1. \A s \in SUBSET S : IsFiniteSet(s) /\ Cardinality(s) \in Nat
  BY FS_Subset, FS_CardinalityType
<1>2. \A s \in SUBSET S : /\ s = {} => sum(s) = 0
                          /\ s # {} => sum(s) = f[Chosen(s)] + sum(s \ {Chosen(s)})
  BY <1>1, SumOfChosen
<1> HIDE DEF sum
<1>3. 0 \in T
  <2>1. \A s \in SUBSET S : Cardinality(s) = 0 => s = {}
    BY <1>1, FS_EmptySet
  <2> QED BY <1>2, <2>1
<1>4. ASSUME NEW n \in Nat, n \in T PROVE n + 1 \in T
  <2> SUFFICES ASSUME NEW s \in SUBSET S, Cardinality(s) = n + 1 PROVE sum(s) \in Nat
    OBVIOUS
  <2>1. Chosen(s) \in s /\ s \ {Chosen(s)} \in SUBSET S /\ Cardinality(s \ {Chosen(s)}) = n
    BY <1>1, OneLess
  <2>2. sum(s \ {Chosen(s)}) \in Nat /\ f[Chosen(s)] \in Nat /\ sum(s) = f[Chosen(s)] + sum(s \ {Chosen(s)})
    BY <1>2, <1>4, <2>1
  <2> QED BY <2>2
<1> HIDE DEF T
<1>5. Cardinality(S) \in T
  BY <1>1, <1>3, <1>4, Induction
<1> QED BY <1>5 DEF T, sum

\* Any element may be taken out of a sum.
LEMMA SumOfAny ==
  ASSUME NEW f, NEW S, IsFiniteSet(S), \A x \in S : f[x] \in Nat
  PROVE  \A x \in S : SumFunctionOnSet(f, S) = f[x] + SumFunctionOnSet(f, S \ {x})
<1> DEFINE sum(s) == SumFunctionOnSet(f, s)
           T == {n \in Nat : \A s \in SUBSET S : Cardinality(s) = n =>
                               \A x \in s : sum(s) = f[x] + sum(s \ {x})}
<1>1. \A s \in SUBSET S : IsFiniteSet(s) /\ Cardinality(s) \in Nat
  BY FS_Subset, FS_CardinalityType
<1>2. \A s \in SUBSET S : sum(s) \in Nat /\ (s # {} => sum(s) = f[Chosen(s)] + sum(s \ {Chosen(s)}))
  BY <1>1, SumOfChosen, SumIsNatural
<1> HIDE DEF sum
<1>3. 0 \in T
  <2>1. \A s \in SUBSET S : Cardinality(s) = 0 => s = {}
    BY <1>1, FS_EmptySet
  <2> QED BY <2>1
<1>4. ASSUME NEW n \in Nat, n \in T PROVE n + 1 \in T
  <2> SUFFICES ASSUME NEW s \in SUBSET S, Cardinality(s) = n + 1, NEW x \in s
               PROVE  sum(s) = f[x] + sum(s \ {x})
    OBVIOUS
  <2>1. Chosen(s) \in s /\ \A z \in s : s \ {z} \in SUBSET S /\ Cardinality(s \ {z}) = n
    BY <1>1, OneLess
  <2>2. PICK y \in s : y = Chosen(s)
    BY <2>1
  <2>3. sum(s) = f[y] + sum(s \ {y}) /\ f[y] \in Nat /\ f[x] \in Nat
    BY <1>2, <2>2
  <2>4. CASE x = y
    BY <2>3, <2>4
  <2>5. CASE x # y
    <3>1. x \in s \ {y} /\ y \in s \ {x} /\ (s \ {y}) \ {x} = (s \ {x}) \ {y} /\ (s \ {y}) \ {x} \in SUBSET S
      BY <2>5
    <3>2. sum(s \ {y}) = f[x] + sum((s \ {y}) \ {x}) /\ sum(s \ {x}) = f[y] + sum((s \ {x}) \ {y})
      BY <1>4, <2>1, <3>1
    <3>3. PICK rest \in Nat : rest = sum((s \ {y}) \ {x}) /\ rest = sum((s \ {x}) \ {y})
      BY <1>2, <3>1
    <3> QED BY <2>3, <3>2, <3>3
  <2> QED BY <2>4, <2>5
<1> HIDE DEF T
<1>5. Cardinality(S) \in T
  BY <1>1, <1>3, <1>4, Induction
<1> QED BY <1>5 DEF T, sum

LEMMA SumOfFewer ==
  ASSUME NEW f, NEW S, NEW R, R \subseteq S, IsFiniteSet(S), \A x \in S : f[x] \in Nat
  PROVE  SumFunctionOnSet(f, R) <= SumFunctionOnSet(f, S)
<1> DEFINE sum(s) == SumFunctionOnSet(f, s)
           T == {n \in Nat : \A s \in SUBSET S : Cardinality(s) = n /\ R \subseteq s => sum(R) <= sum(s)}
<1>1. \A s \in SUBSET S : IsFiniteSet(s) /\ Cardinality(s) \in Nat
  BY FS_Subset, FS_CardinalityType
<1>2. \A s \in SUBSET S : sum(s) \in Nat /\ \A x \in s : sum(s) = f[x] + sum(s \ {x})
  BY <1>1, SumOfAny, SumIsNatural
<1> HIDE DEF sum
<1>3. 0 \in T
  <2>1. \A s \in SUBSET S : Cardinality(s) = 0 => s = {}
    BY <1>1, FS_EmptySet
  <2>2. \A s \in SUBSET S : s = {} /\ R \subseteq s => sum(R) <= sum(s)
    <3> SUFFICES ASSUME R = {} PROVE sum(R) <= sum(R)
      OBVIOUS
    <3> QED BY <1>2
  <2> QED BY <2>1, <2>2
<1>4. ASSUME NEW n \in Nat, n \in T PROVE n + 1 \in T
  <2> SUFFICES ASSUME NEW s \in SUBSET S, Cardinality(s) = n + 1, R \subseteq s PROVE sum(R) <= sum(s)
    OBVIOUS
  <2>1. CASE s = R
    BY <1>2, <2>1
  <2>2. CASE s # R
    <3>1. PICK x \in s : x \notin R
      BY <2>2
    <3>2. s \ {x} \in SUBSET S /\ R \subseteq s \ {x} /\ Cardinality(s \ {x}) = n
      BY <1>1, <3>1, OneLess
    <3>3. sum(R) <= sum(s \ {x})
      BY <1>4, <3>2
    <3>4. sum(s) = f[x] + sum(s \ {x}) /\ f[x] \in Nat /\ sum(s \ {x}) \in Nat /\ sum(R) \in Nat
      BY <1>2, <3>1, <3>2
    <3> QED BY <3>3, <3>4
  <2> QED BY <2>1, <2>2
<1> HIDE DEF T
<1>5. Cardinality(S) \in T
  BY <1>1, <1>3, <1>4, Induction
<1> QED BY <1>5 DEF T, sum

-----------------------------------------------------------------------------
(***************************************************************************)
(* The inductive invariant.                                                *)
(***************************************************************************)
Op == [op : Operation, name : Name]

\* The types, in parts that change together.
FileType ==
  /\ dir \in [Name -> File \cup {NoFile}]
  /\ file \in Name \cup {Unlinked, NoHandle}
  /\ file \in Name => Exists(file)
  /\ orphan \in File \cup {NoFile} /\ (orphan # NoFile <=> file = Unlinked)
  /\ Running => OpenSize <= MaxFileBytes
CallType ==
  /\ caller \in Writer \cup {Startup, Maintenance, NoCaller}
  /\ todo \in Seq(Op) /\ (caller = NoCaller <=> todo = <<>>)
  /\ result \in {"none", "ok", "error", "started"}
LineType ==
  /\ clock \in 1 .. MaxClock /\ lines \in 0 .. MaxLines /\ failures \in 0 .. MaxFailures
  /\ line \in [Writer -> [id : 0 .. MaxLines, left : Nat, since : 0 .. MaxClock]]
  /\ history \in Seq(Oversized .. MaxLines)

\* The operations of one kind that may be ahead of those of another.
MayPrecede(a, b) ==
  \/ b = "sweep"
  \/ a \in {"remove", "move"} /\ b # "check"
  \/ a = "sweep" /\ b \in {"open", "append", "recheck"}
  \/ a \in {"open", "check"} /\ b \in {"append", "recheck"}
  \/ a = "append" /\ b = "recheck"

Oldest == On("remove", MaxFiles - 2)

\* What is left to do, in an order that makes sense: a file is renamed right after
\* the one above it was renamed or removed, and nothing comes between the check of
\* a size, or the file opened instead, and the write that relies on it.
WellOrdered(ops) ==
  \A k \in 1 .. Len(ops) :
    /\ \A j \in 1 .. k - 1 : MayPrecede(ops[j].op, ops[k].op)
    /\ ops[k].op = "append" /\ k > 1 => ops[k - 1].op \in {"check", "open"}
    /\ ops[k].op = "move" =>
         /\ ops[k].name \in Archive
         /\ k > 1 => \/ ops[k - 1] = On("move", ops[k].name + 1)
                     \/ ops[k - 1] = Oldest /\ ops[k].name = MaxFiles - 2

\* What takes the current log out of the way of a new one.
Clearing == {On("move", 0), On("remove", Current)}

\* A new log that is opened to be written to is empty.
OpensEmpty(ops, gone) ==
  \A k \in 1 .. Len(ops) - 1 : ops[k].op = "open" /\ ops[k + 1].op = "append" =>
    gone \/ \E j \in 1 .. k - 1 : ops[j] \in Clearing

\* Files rotation uses that an earlier Core left larger than allowed, and the names
\* that are free or free for them: until the new Core runs nothing else takes them.
Large == {n \in Used : Exists(n) /\ Size(n) > MaxFileBytes}
Spare == {n \in Used : ~ Running /\ (Exists(n) => Size(n) > MaxFileBytes)}

\* Of the files rotation uses only the oldest is removed, and those in S.
RemovesOldest(ops, S) ==
  \A k \in 1 .. Len(ops) : ops[k].op = "remove" => ops[k].name \notin Used \ S \/ ops[k] = Oldest

\* Only threads that log check and write.
CallHolds ==
  \A k \in 1 .. Len(todo) :
    /\ todo[k].op \in {"check", "append"} => caller \in Writer
    /\ todo[k].op \in {"check", "append", "recheck"} => Running

TodoHolds ==
  /\ WellOrdered(todo)
  /\ CallHolds
  /\ OpensEmpty(todo, ~ Exists(Current))
  /\ Doing("move") => ~ Exists(Target)

\* While Core runs the files rotation uses keep to the limit; they are younger than
\* those it no longer reaches, and hold nothing but what was written.
FilesHold ==
  /\ Running => \A n \in Used : Exists(n) => Size(n) <= MaxFileBytes
  /\ orphan # NoFile => Len(orphan.bytes) <= MaxFileBytes
  /\ \A n \in Name : Exists(n) => (n \in Used <=> dir[n].modified > 1 - MaxFiles)
  /\ \A n \in Name : Exists(n) => \A k \in 1 .. Size(n) : dir[n].bytes[k] <= Len(history)

\* Core runs from the moment new has opened the current log, and by then new has
\* removed the files that are larger than allowed.
StartHolds ==
  /\ caller = Startup => ~ Running
  /\ caller \notin {Startup, NoCaller} => Running
  /\ caller = Startup =>
       /\ \A k \in 1 .. Len(todo) :
            todo[k].op \in {"remove", "sweep"} \/ (todo[k].op = "open" /\ k = Len(todo))
       /\ \A n \in Large : \E k \in 1 .. Len(todo) : todo[k].op = "sweep" \/ todo[k] = On("remove", n)
  /\ \A n \in Large : \A k \in 1 .. Size(n) : history[dir[n].bytes[k]] = Oversized

\* No file is newer than the open one.
HandleHolds ==
  /\ file \in Used \cup {Unlinked, NoHandle}
  /\ file \in Archive => \A n \in Name : n < file => ~ Exists(n)

\* A log that was removed while open was the last one there was.
NothingLost ==
  /\ NoneMissing
  /\ RemovesOldest(todo, Spare)
  /\ file = Unlinked => \A p \in 1 .. Len(history) : ~ Kept(p)

IInv ==
  /\ FileType /\ CallType /\ LineType
  /\ TodoHolds /\ FilesHold /\ StartHolds /\ HandleHolds /\ LineFits /\ InOrder
  /\ NothingExpires => NothingLost

-----------------------------------------------------------------------------
(***************************************************************************)
(* Sequences of operations.                                                *)
(***************************************************************************)
LEMMA TailWellOrdered ==
  ASSUME NEW ops \in Seq(Op), ops # <<>>, WellOrdered(ops)
  PROVE  /\ Tail(ops) \in Seq(Op) /\ Len(Tail(ops)) = Len(ops) - 1
         /\ \A k \in 1 .. Len(ops) - 1 : Tail(ops)[k] = ops[k + 1]
         /\ WellOrdered(Tail(ops))
<1>1. /\ Tail(ops) \in Seq(Op) /\ Len(Tail(ops)) = Len(ops) - 1 /\ Len(ops) \in Nat \ {0}
      /\ \A k \in 1 .. Len(ops) - 1 : Tail(ops)[k] = ops[k + 1]
  BY HeadTailProperties, EmptySeq
<1> DEFINE t == Tail(ops)
<1> HIDE DEF t
<1>2. ASSUME NEW k \in 1 .. Len(t)
      PROVE  /\ \A j \in 1 .. k - 1 : MayPrecede(t[j].op, t[k].op)
             /\ t[k].op = "append" /\ k > 1 => t[k - 1].op \in {"check", "open"}
             /\ t[k].op = "move" =>
                  /\ t[k].name \in Archive
                  /\ k > 1 => \/ t[k - 1] = On("move", t[k].name + 1)
                              \/ t[k - 1] = Oldest /\ t[k].name = MaxFiles - 2
  <2>1. k + 1 \in 1 .. Len(ops) /\ t[k] = ops[k + 1]
    BY <1>1 DEF t
  <2>2. \A j \in 1 .. k - 1 : j + 1 \in 1 .. (k + 1) - 1 /\ t[j] = ops[j + 1]
    BY <1>1, <2>1 DEF t
  <2>3. k > 1 => t[k - 1] = ops[(k + 1) - 1]
    BY <1>1 DEF t
  <2>4. k + 1 > 1
    OBVIOUS
  <2>5. \A j \in 1 .. k - 1 : MayPrecede(t[j].op, t[k].op)
    BY <2>1, <2>2 DEF WellOrdered
  <2>6. t[k].op = "append" /\ k > 1 => t[k - 1].op \in {"check", "open"}
    BY <2>1, <2>3, <2>4 DEF WellOrdered
  <2>7. t[k].op = "move" =>
          /\ t[k].name \in Archive
          /\ k > 1 => \/ t[k - 1] = On("move", t[k].name + 1)
                      \/ t[k - 1] = Oldest /\ t[k].name = MaxFiles - 2
    BY <2>1, <2>3, <2>4 DEF WellOrdered
  <2> QED BY <2>5, <2>6, <2>7
<1> QED BY <1>1, <1>2 DEF WellOrdered, t

LEMMA ConcatWellOrdered ==
  ASSUME NEW a \in Seq(Op), NEW b \in Seq(Op), WellOrdered(a), WellOrdered(b),
         \A i \in 1 .. Len(a), j \in 1 .. Len(b) : MayPrecede(a[i].op, b[j].op),
         Len(a) > 0 /\ Len(b) > 0 =>
           b[1].op # "move" /\ (b[1].op = "append" => a[Len(a)].op \in {"check", "open"})
  PROVE  WellOrdered(a \o b)
<1> DEFINE c == a \o b
<1>1. /\ c \in Seq(Op) /\ Len(c) = Len(a) + Len(b) /\ Len(a) \in Nat /\ Len(b) \in Nat
      /\ \A k \in 1 .. Len(c) : c[k] = IF k <= Len(a) THEN a[k] ELSE b[k - Len(a)]
  BY ConcatProperties
<1> HIDE DEF c
<1>2. ASSUME NEW k \in 1 .. Len(c)
      PROVE  /\ \A j \in 1 .. k - 1 : MayPrecede(c[j].op, c[k].op)
             /\ c[k].op = "append" /\ k > 1 => c[k - 1].op \in {"check", "open"}
             /\ c[k].op = "move" =>
                  /\ c[k].name \in Archive
                  /\ k > 1 => \/ c[k - 1] = On("move", c[k].name + 1)
                              \/ c[k - 1] = Oldest /\ c[k].name = MaxFiles - 2
  <2>1. CASE k <= Len(a)
    <3>1. k \in 1 .. Len(a) /\ c[k] = a[k] /\ (k > 1 => c[k - 1] = a[k - 1])
      BY <1>1, <2>1
    <3>2. \A j \in 1 .. k - 1 : c[j] = a[j]
      BY <1>1, <2>1
    <3> QED BY <3>1, <3>2 DEF WellOrdered
  <2>2. CASE k > Len(a)
    <3> DEFINE i == k - Len(a)
    <3>1. i \in 1 .. Len(b) /\ c[k] = b[i] /\ k = Len(a) + i
      BY <1>1, <2>2
    <3>2. ASSUME NEW j \in 1 .. k - 1 PROVE MayPrecede(c[j].op, c[k].op)
      <4>1. CASE j <= Len(a)
        BY <1>1, <3>1, <4>1
      <4>2. CASE j > Len(a)
        <5>1. j - Len(a) \in 1 .. i - 1 /\ c[j] = b[j - Len(a)]
          BY <1>1, <4>2
        <5> QED BY <3>1, <5>1 DEF WellOrdered
      <4> QED BY <4>1, <4>2
    <3>3. CASE i = 1
      <4>1. k > 1 => Len(a) > 0 /\ Len(b) > 0 /\ c[k - 1] = a[Len(a)]
        <5>1. k - 1 = Len(a) /\ Len(b) > 0
          BY <1>1, <3>1, <3>3
        <5> QED BY <1>1, <5>1
      <4>2. c[k].op = "move" => c[k].name \in Archive
        BY <3>1 DEF WellOrdered
      <4> HIDE DEF i
      <4> QED BY <3>1, <3>2, <3>3, <4>1, <4>2
    <3>4. CASE i > 1
      <4>1. c[k - 1] = b[i - 1]
        BY <1>1, <3>1, <3>4
      <4> HIDE DEF i
      <4> QED BY <3>1, <3>2, <3>4, <4>1 DEF WellOrdered
    <3> QED BY <3>1, <3>3, <3>4
  <2> QED BY <1>1, <2>1, <2>2
<1> QED BY <1>2 DEF WellOrdered, c

LEMMA TailOpensEmpty ==
  ASSUME NEW ops \in Seq(Op), ops # <<>>, NEW gone \in BOOLEAN, NEW gone2 \in BOOLEAN,
         OpensEmpty(ops, gone), gone \/ ops[1] \in Clearing => gone2
  PROVE  OpensEmpty(Tail(ops), gone2)
<1> DEFINE t == Tail(ops)
<1>1. /\ Len(t) = Len(ops) - 1 /\ Len(ops) \in Nat \ {0}
      /\ \A k \in 1 .. Len(ops) - 1 : t[k] = ops[k + 1]
  BY HeadTailProperties, EmptySeq
<1> HIDE DEF t
<1>2. ASSUME NEW k \in 1 .. Len(t) - 1, t[k].op = "open", t[k + 1].op = "append", ~ gone2
      PROVE  \E j \in 1 .. k - 1 : t[j] \in Clearing
  <2>1. k + 1 \in 1 .. Len(ops) - 1 /\ t[k] = ops[k + 1] /\ t[k + 1] = ops[(k + 1) + 1]
    BY <1>1
  <2>2. PICK j \in 1 .. (k + 1) - 1 : ops[j] \in Clearing
    BY <1>2, <2>1 DEF OpensEmpty
  <2>3. j # 1
    BY <1>2, <2>2
  <2>4. j - 1 \in 1 .. k - 1 /\ t[j - 1] = ops[j]
    BY <1>1, <2>2, <2>3
  <2> QED BY <2>2, <2>4
<1> QED BY <1>2 DEF OpensEmpty, t

LEMMA ConcatOpensEmpty ==
  ASSUME NEW a \in Seq(Op), NEW b \in Seq(Op), NEW gone \in BOOLEAN, OpensEmpty(b, gone),
         \A k \in 1 .. Len(a) : a[k].op = "open" => \E j \in 1 .. k - 1 : a[j] \in Clearing
  PROVE  OpensEmpty(a \o b, gone)
<1> DEFINE c == a \o b
<1>1. /\ Len(c) = Len(a) + Len(b) /\ Len(a) \in Nat /\ Len(b) \in Nat
      /\ \A k \in 1 .. Len(c) : c[k] = IF k <= Len(a) THEN a[k] ELSE b[k - Len(a)]
  BY ConcatProperties
<1> HIDE DEF c
<1>2. ASSUME NEW k \in 1 .. Len(c) - 1, c[k].op = "open", c[k + 1].op = "append", ~ gone
      PROVE  \E j \in 1 .. k - 1 : c[j] \in Clearing
  <2>1. CASE k <= Len(a)
    <3>1. k \in 1 .. Len(a) /\ a[k].op = "open"
      BY <1>1, <1>2, <2>1
    <3>2. PICK j \in 1 .. k - 1 : a[j] \in Clearing
      BY <3>1
    <3>3. c[j] = a[j]
      BY <1>1, <2>1
    <3> QED BY <3>2, <3>3
  <2>2. CASE k > Len(a)
    <3> DEFINE i == k - Len(a)
    <3>1. i \in 1 .. Len(b) - 1 /\ b[i] = c[k] /\ b[i + 1] = c[k + 1] /\ k = Len(a) + i
      BY <1>1, <2>2
    <3>2. PICK j \in 1 .. i - 1 : b[j] \in Clearing
      BY <1>2, <3>1 DEF OpensEmpty
    <3>3. Len(a) + j \in 1 .. k - 1 /\ c[Len(a) + j] = b[j]
      <4> HIDE DEF i
      <4>1. Len(a) + j \in 1 .. k - 1 /\ Len(a) + j \in 1 .. Len(c) /\ ~ (Len(a) + j <= Len(a))
        BY <1>1, <3>1
      <4>2. (Len(a) + j) - Len(a) = j
        BY <1>1
      <4> QED BY <1>1, <4>1, <4>2
    <3> QED BY <3>2, <3>3
  <2> QED BY <1>1, <2>1, <2>2
<1> QED BY <1>2 DEF OpensEmpty, c

LEMMA ConcatRemovesOldest ==
  ASSUME NEW a \in Seq(Op), NEW b \in Seq(Op), NEW S, RemovesOldest(a, S), RemovesOldest(b, S)
  PROVE  RemovesOldest(a \o b, S)
<1> DEFINE c == a \o b
<1>1. /\ Len(c) = Len(a) + Len(b) /\ Len(a) \in Nat /\ Len(b) \in Nat
      /\ \A k \in 1 .. Len(c) : c[k] = IF k <= Len(a) THEN a[k] ELSE b[k - Len(a)]
  BY ConcatProperties
<1> HIDE DEF c
<1>2. ASSUME NEW k \in 1 .. Len(c), c[k].op = "remove"
      PROVE  c[k].name \notin Used \ S \/ c[k] = Oldest
  <2>1. CASE k <= Len(a)
    BY <1>1, <1>2, <2>1 DEF RemovesOldest
  <2>2. CASE k > Len(a)
    BY <1>1, <1>2, <2>2 DEF RemovesOldest
  <2> QED BY <1>1, <2>1, <2>2
<1> QED BY <1>2 DEF RemovesOldest, c

LEMMA RemovesOldestOfMore ==
  ASSUME NEW ops, NEW S, NEW R, S \subseteq R, RemovesOldest(ops, S)
  PROVE  RemovesOldest(ops, R)
BY DEF RemovesOldest

LEMMA ConstantsAreNumbers ==
  /\ {MaxFileBytes, MaxFiles, MaxClock} \subseteq Nat \ {0}
  /\ {MaxTotalBytes, MaxAge, MaxLines, MaxFailures, OldBytes} \subseteq Nat
  /\ LastIndex \in Int /\ LastIndex >= MaxFiles - 2
  /\ LineLength \subseteq Nat \ {0} /\ OldSize \subseteq Nat
BY RetentionAssumption, BoundAssumption DEF ValidRetention

LEMMA NamesOfRotation ==
  Current \in Used /\ Archive \subseteq Used /\ Used \subseteq Name /\ MaxFiles - 2 \in Used
BY ConstantsAreNumbers DEF Current, Archive, Used, Name

LEMMA RotationElements ==
  /\ Rotation \in Seq(Op)
  /\ Rotation[1] = Oldest
  /\ MaxFiles = 1 => Len(Rotation) = 2 /\ Rotation[2] = Do("open")
  /\ MaxFiles > 1 =>
       /\ Len(Rotation) = MaxFiles + 2
       /\ \A k \in 2 .. MaxFiles : Rotation[k] = On("move", MaxFiles - k)
       /\ Rotation[MaxFiles + 1] = Do("sweep") /\ Rotation[MaxFiles + 2] = Do("open")
<1>0. MaxFiles \in Nat \ {0} /\ {Do("open"), Do("sweep"), On("remove", Current), Oldest} \subseteq Op
  BY ConstantsAreNumbers, NamesOfRotation DEF Do, On, Oldest, Op, Operation
<1>1. CASE MaxFiles = 1
  <2> DEFINE a == <<On("remove", Current)>>
             b == <<Do("open")>>
  <2>1. Rotation = a \o b
    BY <1>1, Zenon DEF Rotation
  <2>2. On("remove", Current) = Oldest
    BY <1>1 DEF On, Oldest, Current
  <2>3. a \in Seq(Op) /\ b \in Seq(Op) /\ Len(a) = 1 /\ Len(b) = 1 /\ a[1] = Oldest /\ b[1] = Do("open")
    BY <1>0, <2>2
  <2> HIDE DEF a, b
  <2>4. a \o b \in Seq(Op) /\ Len(a \o b) = 2 /\ (a \o b)[1] = a[1] /\ (a \o b)[2] = b[1]
    BY <2>3, ConcatProperties
  <2> QED BY <1>1, <2>1, <2>3, <2>4
<1>2. CASE MaxFiles > 1
  <2> DEFINE moves == [k \in 1 .. MaxFiles - 1 |-> On("move", MaxFiles - 1 - k)]
             a == <<Oldest>> \o moves
             b == a \o <<Do("sweep")>>
             c == b \o <<Do("open")>>
  <2>1. moves \in Seq(Op) /\ Len(moves) = MaxFiles - 1
    <3>1. ASSUME NEW k \in 1 .. MaxFiles - 1 PROVE On("move", MaxFiles - 1 - k) \in Op
      BY <1>0, NamesOfRotation DEF On, Op, Operation, Archive
    <3> QED BY <1>0, <3>1
  <2>2. \A k \in 1 .. MaxFiles - 1 : moves[k] = On("move", MaxFiles - 1 - k)
    OBVIOUS
  <2> HIDE DEF moves
  <2>3. a \in Seq(Op) /\ Len(a) = MaxFiles /\ a[1] = Oldest /\ \A k \in 2 .. MaxFiles : a[k] = moves[k - 1]
    BY <1>0, <2>1, ConcatProperties
  <2> HIDE DEF a
  <2>4. b \in Seq(Op) /\ Len(b) = MaxFiles + 1 /\ (\A k \in 1 .. MaxFiles : b[k] = a[k]) /\ b[MaxFiles + 1] = Do("sweep")
    BY <1>0, <2>3, ConcatProperties
  <2> HIDE DEF b
  <2>5. c \in Seq(Op) /\ Len(c) = MaxFiles + 2 /\ (\A k \in 1 .. MaxFiles + 1 : c[k] = b[k]) /\ c[MaxFiles + 2] = Do("open")
    BY <1>0, <2>4, ConcatProperties
  <2>6. Rotation = c
    <3>1. MaxFiles # 1
      BY <1>2
    <3> QED BY <3>1, Zenon DEF Rotation, a, b, moves, Oldest
  <2> HIDE DEF c
  <2>7. \A k \in 2 .. MaxFiles : c[k] = On("move", MaxFiles - k)
    <3> TAKE k \in 2 .. MaxFiles
    <3>1. k - 1 \in 1 .. MaxFiles - 1 /\ MaxFiles - 1 - (k - 1) = MaxFiles - k
      BY <1>0
    <3>2. c[k] = moves[k - 1]
      BY <1>0, <2>3, <2>4, <2>5
    <3> QED BY <2>2, <3>1, <3>2
  <2> QED BY <1>0, <1>2, <2>3, <2>4, <2>5, <2>6, <2>7
<1> QED BY <1>0, <1>1, <1>2

LEMMA RotationIsWellOrdered ==
  /\ Len(Rotation) \in Nat \ {0} /\ Rotation[Len(Rotation)] = Do("open")
  /\ \A k \in 1 .. Len(Rotation) : Rotation[k].op \in {"remove", "move", "sweep", "open"}
  /\ WellOrdered(Rotation)
  /\ \A S : RemovesOldest(Rotation, S)
  /\ \A k \in 1 .. Len(Rotation) : Rotation[k].op = "open" => \E j \in 1 .. k - 1 : Rotation[j] \in Clearing
<1>1. CASE MaxFiles = 1
  <2>1. Len(Rotation) = 2 /\ Rotation[1] = Oldest /\ Rotation[2] = Do("open")
    BY <1>1, RotationElements
  <2>2. Oldest = On("remove", Current) /\ Oldest.op = "remove" /\ Do("open").op = "open"
    BY <1>1 DEF Oldest, On, Do, Current
  <2>3. MayPrecede("remove", "open")
    BY DEF MayPrecede
  <2>4. 1 .. Len(Rotation) = {1, 2}
    BY <2>1
  <2>5. WellOrdered(Rotation)
    BY <2>1, <2>2, <2>3, <2>4 DEF WellOrdered
  <2>6. \A S : RemovesOldest(Rotation, S)
    BY <2>1, <2>2, <2>4 DEF RemovesOldest
  <2>7. Rotation[1] \in Clearing /\ 1 \in 1 .. 2 - 1
    BY <2>1, <2>2 DEF Clearing
  <2>8. \A k \in {1, 2} : Rotation[k].op = "open" => k = 2
    BY <2>1, <2>2
  <2>9. \A k \in {1, 2} : Rotation[k].op \in {"remove", "move", "sweep", "open"}
    BY <2>1, <2>2
  <2> QED BY <2>1, <2>4, <2>5, <2>6, <2>7, <2>8, <2>9
<1>2. CASE MaxFiles > 1
  <2> DEFINE n == MaxFiles
  <2>0. /\ n \in Nat /\ n > 1 /\ Len(Rotation) = n + 2
        /\ Oldest.op = "remove" /\ Do("open").op = "open" /\ Do("sweep").op = "sweep"
        /\ Rotation[1] = Oldest /\ Rotation[n + 1] = Do("sweep") /\ Rotation[n + 2] = Do("open")
        /\ \A k \in 2 .. n : Rotation[k] = On("move", n - k) /\ Rotation[k].op = "move" /\ Rotation[k].name = n - k
    BY <1>2, RotationElements, ConstantsAreNumbers DEF Oldest, On, Do
  <2>1. \A k \in 1 .. Len(Rotation) : k = 1 \/ k \in 2 .. n \/ k = n + 1 \/ k = n + 2
    BY <2>0
  <2> HIDE DEF n
  <2>2. \A k \in 1 .. Len(Rotation) : Rotation[k].op \in {"remove", "move", "sweep", "open"}
    BY <2>0, <2>1
  <2>3. ASSUME NEW k \in 1 .. Len(Rotation)
        PROVE  /\ \A j \in 1 .. k - 1 : MayPrecede(Rotation[j].op, Rotation[k].op)
               /\ Rotation[k].op # "append"
               /\ Rotation[k].op = "move" =>
                    /\ Rotation[k].name \in Archive
                    /\ k > 1 => \/ Rotation[k - 1] = On("move", Rotation[k].name + 1)
                                \/ Rotation[k - 1] = Oldest /\ Rotation[k].name = MaxFiles - 2
    <3>1. CASE k = 1
      BY <2>0, <3>1
    <3>2. CASE k \in 2 .. n
      <4>1. ASSUME NEW j \in 1 .. k - 1 PROVE Rotation[j].op \in {"remove", "move"}
        <5>1. j = 1 \/ j \in 2 .. n
          BY <2>0, <3>2
        <5> QED BY <2>0, <5>1
      <4>2. Rotation[k].name \in Archive
        BY <2>0, <3>2 DEF n, Archive
      <4>3. CASE k = 2
        <5>1. k - 1 = 1 /\ n - k = MaxFiles - 2
          BY <4>3 DEF n
        <5> QED BY <2>0, <3>2, <4>1, <4>2, <5>1 DEF MayPrecede
      <4>4. CASE k > 2
        <5>1. k - 1 \in 2 .. n /\ n - (k - 1) = (n - k) + 1
          BY <2>0, <3>2, <4>4
        <5> QED BY <2>0, <3>2, <4>1, <4>2, <5>1 DEF MayPrecede
      <4> QED BY <3>2, <4>3, <4>4
    <3>3. CASE k = n + 1
      BY <2>0, <3>3 DEF MayPrecede
    <3>4. CASE k = n + 2
      <4>1. ASSUME NEW j \in 1 .. k - 1 PROVE Rotation[j].op \in {"remove", "move", "sweep"}
        BY <2>0, <2>1, <3>4
      <4> QED BY <2>0, <3>4, <4>1 DEF MayPrecede
    <3> QED BY <2>1, <3>1, <3>2, <3>3, <3>4
  <2>4. WellOrdered(Rotation)
    BY <2>3 DEF WellOrdered
  <2>5. \A S : RemovesOldest(Rotation, S)
    BY <2>0, <2>1 DEF RemovesOldest
  <2>6. Rotation[n] \in Clearing /\ n \in 1 .. (n + 2) - 1
    BY <2>0 DEF Clearing
  <2>7. ASSUME NEW k \in 1 .. Len(Rotation), Rotation[k].op = "open"
        PROVE  \E j \in 1 .. k - 1 : Rotation[j] \in Clearing
    <3>1. k = n + 2
      BY <2>0, <2>1, <2>7
    <3> QED BY <2>6, <3>1
  <2>8. Len(Rotation) \in Nat \ {0} /\ Rotation[Len(Rotation)] = Do("open")
    BY <2>0
  <2> QED BY <2>2, <2>4, <2>5, <2>7, <2>8
<1>3. MaxFiles = 1 \/ MaxFiles > 1
  BY ConstantsAreNumbers
<1> QED BY <1>1, <1>2, <1>3

\* The removals a clean-up decides on.
Removals(doomed) == [k \in 1 .. Len(doomed) |-> On("remove", doomed[k])]

LEMMA RemovalsAreWellOrdered ==
  ASSUME NEW doomed \in Seq(Name)
  PROVE  LET a == Removals(doomed) IN
         /\ a \in Seq(Op) /\ Len(a) = Len(doomed)
         /\ \A k \in 1 .. Len(a) : a[k].op = "remove" /\ a[k].name = doomed[k] /\ a[k] = On("remove", doomed[k])
         /\ WellOrdered(a)
<1> DEFINE a == Removals(doomed)
<1>1. \A k \in 1 .. Len(doomed) : On("remove", doomed[k]) \in Op
  BY ElementOfSeq DEF On, Op, Operation
<1>2. /\ a \in Seq(Op) /\ Len(a) = Len(doomed)
      /\ \A k \in 1 .. Len(a) : a[k].op = "remove" /\ a[k].name = doomed[k] /\ a[k] = On("remove", doomed[k])
  BY <1>1 DEF Removals, On
<1> HIDE DEF a
<1>3. WellOrdered(a)
  BY <1>2 DEF WellOrdered, MayPrecede
<1> QED BY <1>2, <1>3 DEF a

-----------------------------------------------------------------------------
(***************************************************************************)
(* A call goes on.                                                         *)
(***************************************************************************)
LEMMA TypeParts == TypeOK <=> FileType /\ CallType /\ LineType
BY DEF TypeOK, FileType, CallType, LineType, Op

LEMMA FileFacts ==
  ASSUME FileType
  PROVE  /\ \A n \in Name : Exists(n) => dir[n] \in File /\ Size(n) \in Nat
         /\ \A f \in File : f # NoFile /\ f.bytes \in Seq(Nat \ {0}) /\ f.modified \in -LastIndex .. MaxClock
BY NoFileAssumption DEF FileType, Exists, Size, File

LEMMA HeadOfTodo ==
  ASSUME CallType, todo # <<>>
  PROVE  /\ Head(todo) = todo[1] /\ 1 \in 1 .. Len(todo) /\ Target \in Name
         /\ caller # NoCaller
<1>1. Head(todo) = todo[1] /\ 1 \in 1 .. Len(todo)
  BY HeadTailProperties, EmptySeq, LenProperties DEF CallType
<1>2. Head(todo) \in Op
  BY <1>1, ElementOfSeq DEF CallType
<1> QED BY <1>1, <1>2 DEF CallType, Op, Target

\* What goes on is the call of the same thread.
LEMMA ProceedHolds ==
  ASSUME CallType, todo # <<>>, NEW rest \in Seq(Op), Proceed(rest),
         \A k \in 1 .. Len(rest) :
           /\ rest[k].op \in {"check", "append"} => caller \in Writer
           /\ rest[k].op \in {"check", "append", "recheck"} => file' # NoHandle
  PROVE  CallType' /\ CallHolds' /\ todo' = rest
<1>1. todo' = rest /\ caller' = IF rest = <<>> THEN NoCaller ELSE caller
  BY DEF Proceed
<1>2. result' \in {"none", "ok", "error", "started"}
  BY DEF Proceed, CallType
<1>3. caller # NoCaller
  BY HeadOfTodo
<1>4. CallType'
  BY <1>1, <1>2, <1>3 DEF CallType
<1>5. \A k \in 1 .. Len(rest) : rest # <<>>
  OBVIOUS
<1>6. CallHolds'
  BY <1>1, <1>5 DEF CallHolds, Running
<1> QED BY <1>1, <1>4, <1>6

LEMMA TailHolds ==
  ASSUME CallType, TodoHolds, todo # <<>>, Proceed(Tail(todo)), Running => file' # NoHandle
  PROVE  /\ CallType' /\ CallHolds' /\ todo' = Tail(todo) /\ Len(todo') = Len(todo) - 1
         /\ \A k \in 1 .. Len(todo) - 1 : todo'[k] = todo[k + 1]
         /\ WellOrdered(todo')
         /\ \A S : RemovesOldest(todo, S) => RemovesOldest(todo', S)
<1> DEFINE t == Tail(todo)
<1>1. /\ t \in Seq(Op) /\ Len(t) = Len(todo) - 1 /\ WellOrdered(t) /\ Len(todo) \in Nat
      /\ \A k \in 1 .. Len(todo) - 1 : t[k] = todo[k + 1]
  BY TailWellOrdered, LenProperties DEF CallType, TodoHolds
<1> HIDE DEF t
<1>2. \A k \in 1 .. Len(t) : k + 1 \in 1 .. Len(todo) /\ t[k] = todo[k + 1]
  BY <1>1
<1>3. \A k \in 1 .. Len(t) :
        /\ t[k].op \in {"check", "append"} => caller \in Writer
        /\ t[k].op \in {"check", "append", "recheck"} => file' # NoHandle
  BY <1>2 DEF TodoHolds, CallHolds
<1>4. CallType' /\ CallHolds' /\ todo' = t
  BY <1>1, <1>3, ProceedHolds DEF t
<1>5. \A S : RemovesOldest(todo, S) => RemovesOldest(t, S)
  BY <1>2 DEF RemovesOldest
<1> QED BY <1>1, <1>4, <1>5 DEF t

\* What comes right after the operation in hand.
LEMMA NextOperation ==
  ASSUME CallType, TodoHolds, todo # <<>>, todo' = Tail(todo), todo' # <<>>
  PROVE  /\ Head(todo') = todo[2] /\ 2 \in 1 .. Len(todo)
         /\ MayPrecede(Head(todo).op, Head(todo').op)
         /\ Head(todo').op = "append" => Head(todo).op \in {"check", "open"}
         /\ Head(todo').op = "move" =>
              \/ Head(todo) = On("move", Head(todo').name + 1)
              \/ Head(todo) = Oldest /\ Head(todo').name = MaxFiles - 2
<1>1. /\ todo' \in Seq(Op) /\ Len(todo') = Len(todo) - 1 /\ Len(todo) \in Nat
      /\ \A k \in 1 .. Len(todo) - 1 : todo'[k] = todo[k + 1]
  BY TailWellOrdered, LenProperties DEF CallType, TodoHolds
<1>2. Len(todo') # 0
  BY <1>1, EmptySeq
<1>3. /\ 2 \in 1 .. Len(todo) /\ 1 \in 1 .. 2 - 1 /\ 2 > 1 /\ 2 - 1 = 1
      /\ Head(todo') = todo[2] /\ Head(todo) = todo[1]
  BY <1>1, <1>2, HeadTailProperties DEF CallType
<1> QED BY <1>3 DEF TodoHolds, WellOrdered

\* A call is that of new, which has no file open yet, or of a running Core.
LEMMA StartingOrRunning ==
  ASSUME CallType, StartHolds, todo # <<>>
  PROVE  /\ Running <=> caller # Startup
         /\ caller = Startup => /\ Head(todo).op \in {"remove", "sweep", "open"}
                                /\ Head(todo).op = "open" => Len(todo) = 1
<1>1. Head(todo) = todo[1] /\ 1 \in 1 .. Len(todo) /\ caller # NoCaller
  BY HeadOfTodo
<1>2. Head(todo).op = "open" => ~ (Head(todo).op \in {"remove", "sweep"})
  OBVIOUS
<1>3. caller = Startup => todo[1].op \in {"remove", "sweep"} \/ (todo[1].op = "open" /\ 1 = Len(todo))
  BY <1>1 DEF StartHolds
<1>4. Running <=> caller # Startup
  BY <1>1 DEF StartHolds
<1> QED BY <1>1, <1>2, <1>3, <1>4

\* Once Core runs there are no files larger than allowed.
LEMMA RunningHolds ==
  ASSUME FileType', FilesHold', Running', caller' # Startup
  PROVE  StartHolds' /\ Spare' = {}
<1>1. \A n \in Name : Exists(n)' => Size(n)' \in Nat
  <2> TAKE n \in Name
  <2> HAVE Exists(n)'
  <2>1. dir'[n] \in File
    BY DEF FileType, Exists
  <2> QED BY <2>1, LenProperties DEF File, Size
<1>2. Large' = {}
  <2> SUFFICES ASSUME NEW n \in Used, Exists(n)' PROVE ~ (Size(n)' > MaxFileBytes)
    BY DEF Large
  <2>1. Size(n)' <= MaxFileBytes /\ Size(n)' \in Nat
    BY <1>1, NamesOfRotation DEF FilesHold
  <2> QED BY <2>1, ConstantsAreNumbers
<1> QED BY <1>2 DEF StartHolds, Spare

-----------------------------------------------------------------------------
(***************************************************************************)
(* Every action preserves the invariant.                                   *)
(***************************************************************************)
LEMMA RemoveFileKeeps ==
  ASSUME IInv, RemoveFile
  PROVE  IInv'
<1> DEFINE t == Target
<1>1. FileType /\ CallType /\ LineType /\ todo # <<>> /\ Head(todo).op = "remove" /\ t \in Name
  BY HeadOfTodo DEF IInv, RemoveFile, Doing
<1>2. TodoHolds /\ FilesHold /\ StartHolds /\ HandleHolds /\ InOrder /\ (NothingExpires => NothingLost)
  BY DEF IInv
<1>3. /\ dir' = [dir EXCEPT ![t] = NoFile]
      /\ IF file = t THEN file' = Unlinked /\ orphan' = dir[t] ELSE file' = file /\ orphan' = orphan
      /\ Proceed(Tail(todo))
      /\ UNCHANGED <<clock, line, lines, failures, history>>
  BY DEF RemoveFile
<1> HIDE DEF t
<1>4. /\ dir' \in [Name -> File \cup {NoFile}]
      /\ \A n \in Name : Exists(n)' <=> Exists(n) /\ n # t
      /\ \A n \in Name : n # t => dir'[n] = dir[n] /\ Size(n)' = Size(n)
  BY <1>1, <1>3 DEF FileType, Exists, Size
<1>5. FileType'
  <2>1. CASE file = t
    <3>1. Exists(t) /\ dir[t] \in File /\ dir[t] # NoFile
      BY <1>1, <2>1, FileFacts DEF FileType, Exists
    <3>2. file' = Unlinked /\ orphan' = dir[t] /\ Unlinked \notin Name /\ Unlinked # NoHandle
      BY <1>3, <2>1 DEF Unlinked, NoHandle, Name, Current
    <3>3. OpenSize' = OpenSize /\ Running
      BY <1>1, <2>1, <3>2 DEF OpenSize, OpenFile, Running, Name, Current, NoHandle
    <3> QED BY <1>1, <1>4, <3>1, <3>2, <3>3 DEF FileType
  <2>2. CASE file # t
    <3>1. file' = file /\ orphan' = orphan /\ (file \in Name => dir'[file] = dir[file] /\ Exists(file)')
      BY <1>1, <1>3, <1>4, <2>2 DEF FileType
    <3>2. Running' <=> Running
      BY <3>1 DEF Running
    <3>3. Running => OpenSize' = OpenSize
      BY <1>1, <3>1 DEF OpenSize, OpenFile, Running, FileType
    <3> QED BY <1>1, <1>4, <3>1, <3>2, <3>3 DEF FileType
  <2> QED BY <2>1, <2>2
<1>6. LineType'
  BY <1>1, <1>3 DEF LineType
<1>7. /\ CallType' /\ CallHolds' /\ todo' = Tail(todo) /\ WellOrdered(todo')
      /\ Len(todo') = Len(todo) - 1 /\ \A k \in 1 .. Len(todo) - 1 : todo'[k] = todo[k + 1]
      /\ \A S : RemovesOldest(todo, S) => RemovesOldest(todo', S)
  <2>1. Running => file' # NoHandle
    BY <1>3 DEF Running, Unlinked, NoHandle
  <2> QED BY <1>1, <1>2, <1>3, <2>1, TailHolds
<1>run. /\ Running' <=> Running
        /\ file = t => Running
  BY <1>1, <1>3 DEF Running, Unlinked, NoHandle, Name, Current
<1>8. TodoHolds' /\ LineFits'
  <2>1. OpensEmpty(todo', ~ Exists(Current)')
    <3>1. Head(todo) \in Clearing => t = Current
      BY <1>1 DEF Clearing, On, t, Target
    <3>2. todo \in Seq(Op) /\ OpensEmpty(todo, ~ Exists(Current)) /\ todo[1] = Head(todo)
      BY <1>1, <1>2, HeadOfTodo DEF CallType, TodoHolds
    <3>3. ~ Exists(Current) \/ todo[1] \in Clearing => ~ Exists(Current)'
      BY <1>4, <3>1, <3>2, NamesOfRotation
    <3> QED BY <1>1, <1>7, <3>2, <3>3, TailOpensEmpty
  <2>2. ASSUME todo' # <<>> PROVE /\ Head(todo').op # "append"
                                  /\ Head(todo').op = "move" => Head(todo').name = t
    <3>1. /\ Head(todo').op = "append" => Head(todo).op \in {"check", "open"}
          /\ Head(todo').op = "move" =>
              \/ Head(todo) = On("move", Head(todo').name + 1)
              \/ Head(todo) = Oldest /\ Head(todo').name = MaxFiles - 2
      BY <1>1, <1>2, <1>7, <2>2, NextOperation
    <3>2. Oldest.name = MaxFiles - 2 /\ \A n : On("move", n).op = "move"
      BY DEF Oldest, On
    <3> QED BY <1>1, <3>1, <3>2 DEF t, Target
  <2>3. Doing("move")' => ~ Exists(Target)'
    BY <1>1, <1>4, <2>2 DEF Doing, Target
  <2> QED BY <1>7, <2>1, <2>2, <2>3 DEF TodoHolds, LineFits, Doing
<1>9. FilesHold'
  <2>1. \A n \in Used : n \in Name
    BY NamesOfRotation
  <2>2. orphan' # NoFile => Len(orphan'.bytes) <= MaxFileBytes
    <3>1. CASE file = t
      <4>1. t \in Used /\ Exists(t) /\ orphan' = dir[t] /\ Running
        BY <1>1, <1>2, <1>3, <1>run, <3>1 DEF HandleHolds, FileType, Name, Current, Unlinked, NoHandle
      <4> QED BY <1>2, <4>1 DEF FilesHold, Size
    <3>2. CASE file # t
      BY <1>2, <1>3, <3>2 DEF FilesHold
    <3> QED BY <3>1, <3>2
  <2> QED BY <1>2, <1>3, <1>4, <1>run, <2>1, <2>2 DEF FilesHold
\* Of the files that are larger than allowed the one removed is done with.
<1>start. StartHolds'
  <2>1. caller' \in {caller, NoCaller}
    BY <1>3 DEF Proceed
  <2>2. CASE caller # Startup
    <3>1. Running /\ caller' # Startup
      BY <1>1, <1>2, <2>1, <2>2, StartingOrRunning, CallerAssumption
    <3> QED BY <1>5, <1>9, <1>run, <3>1, RunningHolds
  <2>3. CASE caller = Startup
    <3>1. ~ Running /\ ~ Running'
      BY <1>1, <1>2, <1>run, <2>3, StartingOrRunning
    <3>2. todo[1] = Head(todo) /\ todo[1].name = t /\ 1 \in 1 .. Len(todo) /\ Len(todo) \in Nat
      BY <1>1, HeadOfTodo, LenProperties DEF t, Target, CallType
    <3>3. ASSUME NEW n \in Large' PROVE n \in Large /\ n # t /\ dir'[n] = dir[n] /\ Size(n)' = Size(n)
      BY <1>4, <3>3, NamesOfRotation DEF Large
    <3>4. ASSUME NEW k \in 1 .. Len(todo')
          PROVE  todo'[k].op \in {"remove", "sweep"} \/ (todo'[k].op = "open" /\ k = Len(todo'))
      <4>1. k + 1 \in 1 .. Len(todo) /\ todo'[k] = todo[k + 1] /\ (k + 1 = Len(todo) => k = Len(todo'))
        BY <1>7, <3>2
      <4> QED BY <1>2, <2>3, <4>1 DEF StartHolds
    <3>5. ASSUME NEW n \in Large'
          PROVE  \E k \in 1 .. Len(todo') : todo'[k].op = "sweep" \/ todo'[k] = On("remove", n)
      <4>1. PICK k \in 1 .. Len(todo) : todo[k].op = "sweep" \/ todo[k] = On("remove", n)
        BY <1>2, <2>3, <3>3, <3>5 DEF StartHolds
      <4>2. k # 1
        BY <1>1, <3>2, <3>3, <3>5, <4>1 DEF On
      <4>3. k - 1 \in 1 .. Len(todo') /\ k - 1 \in 1 .. Len(todo) - 1 /\ (k - 1) + 1 = k
        BY <1>7, <3>2, <4>2
      <4>4. todo'[k - 1] = todo[k]
        BY <1>7, <4>3
      <4> QED BY <4>1, <4>3, <4>4
    <3>6. \A n \in Large' : \A k \in 1 .. Size(n)' : history'[dir'[n].bytes[k]] = Oversized
      BY <1>2, <1>3, <3>3 DEF StartHolds
    <3> QED BY <2>1, <2>3, <3>1, <3>4, <3>5, <3>6 DEF StartHolds
  <2> QED BY <2>2, <2>3
<1>10. HandleHolds'
  <2>1. file' \in Used \cup {Unlinked, NoHandle} /\ (file' \in Archive => file' = file)
    BY <1>2, <1>3 DEF HandleHolds, Unlinked, Archive
  <2> QED BY <1>2, <1>4, <2>1 DEF HandleHolds
<1>11. InOrder'
  BY <1>2, <1>4 DEF InOrder
<1>12. NothingExpires' => NothingLost'
  <2> SUFFICES ASSUME NothingExpires PROVE NothingLost'
    BY <1>3 DEF NothingExpires
  <2>1. NoneMissing /\ RemovesOldest(todo, Spare) /\ (file = Unlinked => \A p \in 1 .. Len(history) : ~ Kept(p))
    BY <1>2 DEF NothingLost
  <2>2. t \notin Used \ Spare \/ t = MaxFiles - 2
    <3>1. 1 \in 1 .. Len(todo) /\ todo[1] = Head(todo) /\ Oldest.name = MaxFiles - 2
      BY <1>1, HeadOfTodo DEF Oldest, On
    <3> QED BY <1>1, <2>1, <3>1 DEF RemovesOldest, t, Target
  <2>3. ASSUME NEW p, Kept(p)' PROVE Kept(p)
    BY <1>4, <2>3, NamesOfRotation DEF Kept
  <2>4. ASSUME NEW p \in 1 .. Len(history), NEW q \in 1 .. Len(history),
               p < q, Kept(p)', history[q] # Oversized
        PROVE  Kept(q)'
    <3>1. PICK n \in Used : Exists(n)' /\ \E k \in 1 .. Size(n)' : dir'[n].bytes[k] = p
      BY <2>4 DEF Kept
    <3>2. n # t /\ Exists(n) /\ \E k \in 1 .. Size(n) : dir[n].bytes[k] = p
      BY <1>4, <3>1, NamesOfRotation
    <3>3. PICK m \in Used : Exists(m) /\ \E l \in 1 .. Size(m) : dir[m].bytes[l] = q
      BY <2>1, <2>3, <2>4 DEF NoneMissing, Kept
    <3>4. m # t
      <4> SUFFICES ASSUME m = t PROVE FALSE
        OBVIOUS
      <4>1. t \notin Spare
        <5> SUFFICES ASSUME t \in Spare PROVE FALSE
          OBVIOUS
        <5>1. t \in Large
          BY <3>3 DEF Spare, Large
        <5> QED BY <1>2, <2>4, <3>3, <5>1 DEF StartHolds
      <4>2. m > n
        BY <2>2, <3>2, <4>1, ConstantsAreNumbers DEF Used, Archive, Current
      <4>3. q < p
        BY <1>2, <3>2, <3>3, <4>2, NamesOfRotation DEF InOrder
      <4> QED BY <2>4, <4>3
    <3> QED BY <1>4, <3>3, <3>4, NamesOfRotation DEF Kept
  <2>5. ASSUME file' = Unlinked, NEW p \in 1 .. Len(history), Kept(p)' PROVE FALSE
    <3>1. CASE file = t
      <4>0. Spare = {}
        BY <1>run, <3>1 DEF Spare
      <4>1. t = MaxFiles - 2 /\ t \in Used /\ (t \in Archive => \A n \in Name : n < t => ~ Exists(n))
        BY <1>1, <1>2, <2>2, <3>1, <4>0 DEF HandleHolds, Name, Current, Unlinked, NoHandle
      <4>2. PICK n \in Used : Exists(n)'
        BY <2>5 DEF Kept
      <4>3. n < t /\ Exists(n) /\ n \in Name
        BY <1>4, <4>1, <4>2, NamesOfRotation, ConstantsAreNumbers DEF Used, Archive, Current
      <4> QED BY <4>1, <4>3, ConstantsAreNumbers, NamesOfRotation DEF Used, Archive, Current, Name
    <3>2. CASE file # t
      BY <1>3, <2>1, <2>3, <2>5, <3>2
    <3> QED BY <3>1, <3>2
  <2>6. Spare \subseteq Spare'
    BY <1>4, <1>run, NamesOfRotation DEF Spare
  <2>7. RemovesOldest(todo', Spare')
    BY <1>7, <2>1, <2>6, RemovesOldestOfMore
  <2> QED BY <1>3, <2>4, <2>5, <2>7 DEF NothingLost, NoneMissing
<1> QED BY <1>5, <1>6, <1>7, <1>8, <1>9, <1>start, <1>10, <1>11, <1>12 DEF IInv

LEMMA MoveKeeps ==
  ASSUME IInv, Move
  PROVE  IInv'
<1>0. PICK t : t = Target
  OBVIOUS
<1> DEFINE source == t - 1
<1>1. FileType /\ CallType /\ LineType /\ todo # <<>> /\ Head(todo).op = "move"
  BY DEF IInv, Move, Doing
<1>2. TodoHolds /\ FilesHold /\ StartHolds /\ HandleHolds /\ InOrder /\ (NothingExpires => NothingLost)
  BY DEF IInv
<1>3. /\ IF Exists(source)
         THEN /\ dir' = [dir EXCEPT ![source] = NoFile, ![t] = dir[source]]
              /\ file' = IF file = source THEN t ELSE IF file = t THEN Unlinked ELSE file
              /\ orphan' = IF file = t THEN dir[t] ELSE orphan
         ELSE UNCHANGED <<dir, file, orphan>>
      /\ Proceed(Tail(todo))
      /\ UNCHANGED <<clock, line, lines, failures, history>>
  BY <1>0 DEF Move
<1>4. t \in Archive /\ ~ Exists(t) /\ todo[1] = Head(todo) /\ 1 \in 1 .. Len(todo)
  BY <1>0, <1>1, <1>2, HeadOfTodo DEF TodoHolds, WellOrdered, Doing, Target
<1>5. t \in Name /\ t \in Used /\ source \in Name /\ source \in Used /\ source # t /\ source = t - 1 /\ t \in Int
  BY <1>4, NamesOfRotation, ConstantsAreNumbers DEF Archive, Used, Current, Name
<1>6. file # t
  BY <1>1, <1>4, <1>5 DEF FileType
<1> HIDE DEF source
\* The file `source` is now `t`; nothing else has changed.
<1>run. Running /\ Running' /\ caller # Startup /\ caller' # Startup
  <2>1. caller # Startup /\ Running
    <3>1. ~ (Head(todo).op \in {"remove", "sweep", "open"})
      BY <1>1
    <3>2. Running <=> caller # Startup
      BY <1>1, <1>2, StartingOrRunning
    <3>3. caller = Startup => Head(todo).op \in {"remove", "sweep", "open"}
      BY <1>1, <1>2, StartingOrRunning
    <3> QED BY <3>1, <3>2, <3>3
  <2>2. caller' \in {caller, NoCaller}
    BY <1>3 DEF Proceed
  <2>3. Running'
    BY <1>3, <1>5, <2>1 DEF Running, Unlinked, NoHandle, Name, Current
  <2> QED BY <2>1, <2>2, <2>3, CallerAssumption
<1>7. /\ dir' \in [Name -> File \cup {NoFile}]
      /\ Exists(t)' <=> Exists(source)
      /\ Exists(source) => dir'[t] = dir[source] /\ Size(t)' = Size(source)
      /\ ~ Exists(source)'
      /\ \A n \in Name : n \notin {t, source} => dir'[n] = dir[n] /\ Size(n)' = Size(n) /\ (Exists(n)' <=> Exists(n))
  <2>1. CASE Exists(source)
    <3>1. dir[source] \in File
      BY <1>1, <1>5, <2>1, FileFacts
    <3> QED BY <1>1, <1>3, <1>5, <2>1, <3>1 DEF FileType, Exists, Size
  <2>2. CASE ~ Exists(source)
    <3>1. dir' = dir
      BY <1>3, <2>2
    <3> QED BY <1>1, <1>4, <2>2, <3>1 DEF FileType, Exists, Size
  <2> QED BY <2>1, <2>2
<1>8. file' = (IF file = source THEN t ELSE file) /\ orphan' = orphan /\ (file = source => Exists(source))
  BY <1>1, <1>3, <1>5, <1>6 DEF FileType
<1>9. FileType'
  <2>1. CASE file = source
    <3>1. file' = t /\ Exists(t)' /\ t \notin {Unlinked, NoHandle} /\ source \notin {Unlinked, NoHandle}
      BY <1>5, <1>7, <1>8, <2>1 DEF Unlinked, NoHandle, Name, Current
    <3>2. OpenSize' = OpenSize /\ Running
      BY <1>7, <1>8, <2>1, <3>1 DEF OpenSize, OpenFile, Running
    <3> QED BY <1>1, <1>5, <1>7, <1>8, <2>1, <3>1, <3>2 DEF FileType
  <2>2. CASE file # source
    <3>1. file' = file /\ (file \in Name => dir'[file] = dir[file] /\ Exists(file)')
      BY <1>1, <1>6, <1>7, <1>8, <2>2 DEF FileType
    <3>2. (Running' <=> Running) /\ (Running => OpenSize' = OpenSize)
      BY <1>1, <1>8, <3>1 DEF OpenSize, OpenFile, Running, FileType
    <3> QED BY <1>1, <1>7, <1>8, <3>1, <3>2 DEF FileType
  <2> QED BY <2>1, <2>2
<1>10. LineType'
  BY <1>1, <1>3 DEF LineType
<1>11. /\ CallType' /\ CallHolds' /\ todo' = Tail(todo) /\ WellOrdered(todo')
       /\ \A S : RemovesOldest(todo, S) => RemovesOldest(todo', S)
  <2>1. Running => file' # NoHandle
    BY <1>5, <1>8 DEF Running, NoHandle, Name, Current
  <2> QED BY <1>1, <1>2, <1>3, <2>1, TailHolds
<1>12. TodoHolds' /\ LineFits'
  <2>1. OpensEmpty(todo', ~ Exists(Current)')
    <3>1. todo \in Seq(Op) /\ OpensEmpty(todo, ~ Exists(Current))
      BY <1>1, <1>2 DEF CallType, TodoHolds
    <3>2. todo[1] \in Clearing => source = Current
      BY <1>0, <1>1, <1>4, <1>5 DEF Clearing, On, Target, Current
    <3>3. Current \in Name /\ Current # t
      BY <1>4, NamesOfRotation DEF Archive, Current
    <3>4. ~ Exists(Current) \/ todo[1] \in Clearing => ~ Exists(Current)'
      BY <1>7, <3>2, <3>3
    <3> QED BY <1>1, <1>11, <3>1, <3>4, TailOpensEmpty
  <2>2. ASSUME todo' # <<>> PROVE /\ Head(todo').op # "append"
                                  /\ Head(todo').op = "move" => Head(todo').name = source
    <3>1. /\ Head(todo').op = "append" => Head(todo).op \in {"check", "open"}
          /\ Head(todo').op = "move" =>
              \/ Head(todo) = On("move", Head(todo').name + 1)
              \/ Head(todo) = Oldest /\ Head(todo').name = MaxFiles - 2
          /\ Head(todo') \in Op
      <4>1. todo' \in Seq(Op)
        BY <1>11 DEF CallType
      <4> QED BY <1>1, <1>2, <1>11, <2>2, <4>1, NextOperation, HeadTailProperties
    <3>2. Oldest.op = "remove" /\ \A n : On("move", n).name = n
      BY DEF Oldest, On
    <3>3. Head(todo').name \in Int
      BY <3>1, ConstantsAreNumbers DEF Op, Name, Current
    <3> QED BY <1>0, <1>1, <1>5, <3>1, <3>2, <3>3 DEF Target
  <2>3. Doing("move")' => ~ Exists(Target)'
    BY <1>7, <2>2 DEF Doing, Target
  <2> QED BY <1>11, <2>1, <2>2, <2>3 DEF TodoHolds, LineFits, Doing
<1>13. FilesHold'
  <2>1. \A n \in Used : n \in Name
    BY NamesOfRotation
  <2>2. /\ \A n \in Used : Exists(n)' => Size(n)' <= MaxFileBytes
        /\ orphan' # NoFile => Len(orphan'.bytes) <= MaxFileBytes
    BY <1>2, <1>5, <1>7, <1>8, <1>run, <2>1 DEF FilesHold
  <2>3. \A n \in Name : Exists(n)' => (n \in Used <=> dir'[n].modified > 1 - MaxFiles)
    BY <1>2, <1>5, <1>7 DEF FilesHold
  <2>4. \A n \in Name : Exists(n)' => \A k \in 1 .. Size(n)' : dir'[n].bytes[k] <= Len(history')
    BY <1>2, <1>3, <1>5, <1>7 DEF FilesHold
  <2> QED BY <2>2, <2>3, <2>4 DEF FilesHold
<1>start. StartHolds' /\ Spare' = {} /\ Spare = {}
  BY <1>9, <1>13, <1>run, RunningHolds DEF Spare
<1>14. HandleHolds'
  <2>1. CASE file = source
    <3>1. \A n \in Name : n < t => n < source \/ n = source
      BY <1>5 DEF Name
    <3>2. file' = t /\ (source \in Archive => \A n \in Name : n < source => ~ Exists(n))
      BY <1>2, <1>8, <2>1 DEF HandleHolds
    <3>3. source \notin Archive => \A n \in Name : ~ (n < source)
      BY <1>5 DEF Used, Current, Name
    <3> QED BY <1>5, <1>7, <3>1, <3>2, <3>3 DEF HandleHolds
  <2>2. CASE file # source
    <3>1. file' = file
      BY <1>8, <2>2
    <3>2. ASSUME file \in Archive, NEW n \in Name, n < file PROVE ~ Exists(n)'
      <4>1. ~ Exists(n)
        BY <1>2, <3>2 DEF HandleHolds
      <4>2. n = t => ~ Exists(source)
        BY <1>2, <1>5, <3>2 DEF HandleHolds, Archive
      <4> QED BY <1>7, <4>1, <4>2
    <3> QED BY <1>2, <3>1, <3>2 DEF HandleHolds
  <2> QED BY <2>1, <2>2
<1>15. InOrder'
  <2> SUFFICES ASSUME NEW n \in Name, NEW m \in Name, Exists(n)', Exists(m)',
                      NEW j \in 1 .. Size(n)', NEW k \in 1 .. Size(m)', n > m \/ (n = m /\ j < k)
               PROVE  dir'[n].bytes[j] < dir'[m].bytes[k]
    BY DEF InOrder
  <2> DEFINE Was(x) == IF x = t THEN source ELSE x
  <2>1. ASSUME NEW x \in Name, Exists(x)'
        PROVE  /\ Was(x) \in Name /\ Exists(Was(x)) /\ dir'[x] = dir[Was(x)] /\ Size(x)' = Size(Was(x))
               /\ x # source
    BY <1>5, <1>7, <2>1
  <2>2. n > m => Was(n) > Was(m)
    BY <1>5, <2>1 DEF Name
  <2>3. n = m => Was(n) = Was(m)
    OBVIOUS
  <2> HIDE DEF Was
  <2> QED BY <1>2, <2>1, <2>2, <2>3 DEF InOrder
<1>16. NothingExpires' => NothingLost'
  <2> SUFFICES ASSUME NothingExpires PROVE NothingLost'
    BY <1>3 DEF NothingExpires
  <2>1. NoneMissing /\ RemovesOldest(todo, Spare) /\ (file = Unlinked => \A p \in 1 .. Len(history) : ~ Kept(p))
    BY <1>2 DEF NothingLost
  <2>2. ASSUME NEW p, Kept(p)' PROVE Kept(p)
    <3>1. PICK n \in Used : Exists(n)' /\ \E k \in 1 .. Size(n)' : dir'[n].bytes[k] = p
      BY <2>2 DEF Kept
    <3>2. CASE n = t
      BY <1>5, <1>7, <3>1, <3>2 DEF Kept
    <3>3. CASE n # t
      BY <1>7, <3>1, <3>3, NamesOfRotation DEF Kept
    <3> QED BY <3>2, <3>3
  <2>3. ASSUME NEW p, Kept(p) PROVE Kept(p)'
    <3>1. PICK n \in Used : Exists(n) /\ \E k \in 1 .. Size(n) : dir[n].bytes[k] = p
      BY <2>3 DEF Kept
    <3>2. CASE n = source
      BY <1>5, <1>7, <3>1, <3>2 DEF Kept
    <3>3. CASE n # source
      BY <1>4, <1>7, <3>1, <3>3, NamesOfRotation DEF Kept
    <3> QED BY <3>2, <3>3
  <2>4. file' = Unlinked => file = Unlinked
    BY <1>5, <1>8 DEF Unlinked, Name, Current
  <2>5. RemovesOldest(todo', Spare')
    BY <1>11, <1>start, <2>1
  <2> QED BY <1>3, <2>1, <2>2, <2>3, <2>4, <2>5 DEF NothingLost, NoneMissing
<1> QED BY <1>9, <1>start, <1>10, <1>11, <1>12, <1>13, <1>14, <1>15, <1>16 DEF IInv

LEMMA OpenKeeps ==
  ASSUME IInv, Open
  PROVE  IInv'
<1>1. FileType /\ CallType /\ LineType /\ todo # <<>> /\ Head(todo).op = "open"
  BY DEF IInv, Open, Doing
<1>2. TodoHolds /\ FilesHold /\ StartHolds /\ HandleHolds /\ InOrder /\ (NothingExpires => NothingLost)
  BY DEF IInv
<1> DEFINE new == [bytes |-> <<>>, modified |-> clock]
<1>3. /\ dir' = [dir EXCEPT ![Current] = IF dir[Current] = NoFile THEN new ELSE dir[Current]]
      /\ file' = Current /\ orphan' = NoFile
      /\ Proceed(Tail(todo))
      /\ UNCHANGED <<clock, line, lines, failures, history>>
  BY DEF Open
<1>4. Current \in Name /\ Current \in Used /\ todo[1] = Head(todo) /\ 1 \in 1 .. Len(todo) /\ todo \in Seq(Op)
  BY <1>1, NamesOfRotation, HeadOfTodo DEF CallType
<1>5. new \in File /\ new # NoFile /\ Len(new.bytes) = 0 /\ new.modified = clock /\ clock > 1 - MaxFiles
  <2>1. clock \in -LastIndex .. MaxClock /\ clock > 1 - MaxFiles
    BY <1>1, ConstantsAreNumbers DEF LineType
  <2>2. new \in File
    BY <2>1 DEF File
  <2> QED BY <2>1, <2>2, NoFileAssumption
<1> HIDE DEF new
<1>6. /\ dir' \in [Name -> File \cup {NoFile}] /\ Exists(Current)'
      /\ \A n \in Name : n # Current => dir'[n] = dir[n] /\ Size(n)' = Size(n) /\ (Exists(n)' <=> Exists(n))
      /\ Exists(Current) => dir'[Current] = dir[Current] /\ Size(Current)' = Size(Current)
      /\ ~ Exists(Current) => dir'[Current] = new /\ Size(Current)' = 0
  <2>1. dir'[Current] = IF Exists(Current) THEN dir[Current] ELSE new
    BY <1>1, <1>3, <1>4 DEF FileType, Exists
  <2>2. \A n \in Name : n # Current => dir'[n] = dir[n]
    BY <1>1, <1>3 DEF FileType
  <2>3. dir' \in [Name -> File \cup {NoFile}]
    BY <1>1, <1>3, <1>4, <1>5 DEF FileType
  <2> QED BY <1>5, <2>1, <2>2, <2>3 DEF Exists, Size
\* new has removed what is larger than allowed.
<1>fit. /\ \A n \in Used : Exists(n) => Size(n) <= MaxFileBytes
        /\ Running' /\ caller' # Startup
  <2>1. caller' = IF Tail(todo) = <<>> THEN NoCaller ELSE caller
    BY <1>3 DEF Proceed
  <2>2. Running'
    BY <1>3 DEF Running, Current, NoHandle
  <2>3. CASE caller # Startup
    <3>1. Running
      BY <1>1, <1>2, <2>3, StartingOrRunning
    <3> QED BY <1>2, <2>1, <2>2, <2>3, <3>1, CallerAssumption DEF FilesHold
  <2>4. CASE caller = Startup
    <3>1. Len(todo) = 1
      BY <1>1, <1>2, <2>4, StartingOrRunning
    <3>2. Tail(todo) = <<>>
      <4>1. Tail(todo) \in Seq(Op) /\ Len(Tail(todo)) = 0
        BY <1>1, <1>2, <1>4, <3>1, TailWellOrdered DEF TodoHolds
      <4> QED BY <4>1, EmptySeq
    <3>3. \A k \in 1 .. Len(todo) : k = 1 /\ todo[k].op = "open"
      BY <1>1, <1>4, <3>1
    <3>4. Large = {}
      <4>1. \A n : On("remove", n).op = "remove"
        BY DEF On
      <4>2. \A n \in Large : \E k \in 1 .. Len(todo) : todo[k].op = "sweep" \/ todo[k] = On("remove", n)
        BY <1>2, <2>4 DEF StartHolds
      <4> QED BY <3>3, <4>1, <4>2
    <3>5. ASSUME NEW n \in Used, Exists(n) PROVE Size(n) <= MaxFileBytes
      <4>1. Size(n) \in Nat
        BY <1>1, <3>5, FileFacts, NamesOfRotation
      <4>2. ~ (Size(n) > MaxFileBytes)
        BY <3>4, <3>5 DEF Large
      <4> QED BY <4>1, <4>2, ConstantsAreNumbers
    <3> QED BY <2>1, <2>2, <3>2, <3>5, CallerAssumption
  <2> QED BY <2>3, <2>4
<1>7. FilesHold'
  <2>1. \A n \in Used : n \in Name
    BY NamesOfRotation
  <2>2. \A n \in Used : Exists(n)' => Size(n)' <= MaxFileBytes
    <3> SUFFICES ASSUME NEW n \in Used, Exists(n)' PROVE Size(n)' <= MaxFileBytes
      OBVIOUS
    <3>1. 0 <= MaxFileBytes
      BY ConstantsAreNumbers
    <3> QED BY <1>6, <1>fit, <2>1, <3>1
  <2>3. \A n \in Name : Exists(n)' => (n \in Used <=> dir'[n].modified > 1 - MaxFiles)
    BY <1>2, <1>4, <1>5, <1>6 DEF FilesHold
  <2>4. \A n \in Name : Exists(n)' => \A k \in 1 .. Size(n)' : dir'[n].bytes[k] <= Len(history')
    <3> SUFFICES ASSUME NEW n \in Name, Exists(n)', NEW k \in 1 .. Size(n)'
                 PROVE  dir'[n].bytes[k] <= Len(history)
      BY <1>3
    <3> QED BY <1>2, <1>6 DEF FilesHold
  <2> QED BY <1>3, <2>2, <2>3, <2>4 DEF FilesHold
<1>8. FileType'
  <2>1. Current \notin {Unlinked, NoHandle} /\ Running'
    BY <1>3 DEF Current, Unlinked, NoHandle, Running
  <2>2. OpenSize' = Size(Current)'
    BY <1>3, <2>1 DEF OpenSize, OpenFile, Size
  <2>3. Size(Current)' <= MaxFileBytes
    BY <1>4, <1>6, <1>7, <1>fit DEF FilesHold
  <2> QED BY <1>3, <1>4, <1>6, <2>1, <2>2, <2>3 DEF FileType
<1>9. LineType'
  BY <1>1, <1>3 DEF LineType
<1>10. /\ CallType' /\ CallHolds' /\ todo' = Tail(todo) /\ WellOrdered(todo')
       /\ \A k \in 1 .. Len(todo) - 1 : todo'[k] = todo[k + 1]
       /\ Len(todo') = Len(todo) - 1
       /\ \A S : RemovesOldest(todo, S) => RemovesOldest(todo', S)
  <2>1. file' # NoHandle
    BY <1>3 DEF Current, NoHandle
  <2> QED BY <1>1, <1>2, <1>3, <2>1, TailHolds
<1>start. StartHolds' /\ Spare' = {}
  BY <1>7, <1>8, <1>fit, RunningHolds
<1>11. LineFits'
  <2> SUFFICES ASSUME Doing("append")' PROVE LineFits'
    BY DEF LineFits
  <2>1. Head(todo') = todo[2] /\ 2 \in 1 .. Len(todo) /\ todo[2].op = "append"
    BY <1>1, <1>2, <1>10, NextOperation DEF Doing
  <2>2. ~ Exists(Current)
    <3>1. 1 \in 1 .. Len(todo) - 1 /\ todo[1].op = "open" /\ todo[1 + 1].op = "append"
      BY <1>1, <1>4, <2>1
    <3>2. ~ \E j \in 1 .. 1 - 1 : todo[j] \in Clearing
      OBVIOUS
    <3>3. OpensEmpty(todo, ~ Exists(Current))
      BY <1>2 DEF TodoHolds
    <3> QED BY <3>1, <3>2, <3>3 DEF OpensEmpty
  <2>3. OpenSize' = 0
    BY <1>3, <1>6, <2>2 DEF OpenSize, OpenFile, Size, Current, Unlinked
  <2>4. todo' # <<>> /\ 1 \in 1 .. Len(todo') /\ todo'[1].op = "append"
    BY <1>10, <2>1 DEF Doing
  <2>5. caller' \in Writer
    BY <1>10, <2>4 DEF CallHolds
  <2> QED BY <1>9, <2>3, <2>5, ConstantsAreNumbers DEF LineFits, LineType
<1>12. TodoHolds'
  <2>1. ASSUME NEW k \in 1 .. Len(todo') PROVE todo'[k].op # "open"
    <3>1. k + 1 \in 1 .. Len(todo) /\ 1 \in 1 .. (k + 1) - 1 /\ todo'[k] = todo[k + 1]
      BY <1>4, <1>10
    <3>2. MayPrecede("open", todo[k + 1].op)
      BY <1>1, <1>2, <1>4, <3>1 DEF TodoHolds, WellOrdered
    <3> QED BY <3>1, <3>2 DEF MayPrecede
  <2>2. OpensEmpty(todo', ~ Exists(Current)')
    <3>1. Len(todo') \in Int
      BY <1>10, LenProperties DEF CallType
    <3> QED BY <2>1, <3>1 DEF OpensEmpty
  <2>3. ~ Doing("move")'
    <3> SUFFICES ASSUME todo' # <<>> PROVE Head(todo').op # "move"
      BY DEF Doing
    <3>1. MayPrecede("open", Head(todo').op)
      BY <1>1, <1>2, <1>10, NextOperation
    <3> QED BY <3>1 DEF MayPrecede
  <2> QED BY <1>10, <2>2, <2>3 DEF TodoHolds
<1>13. HandleHolds'
  BY <1>3, <1>4 DEF HandleHolds, Archive, Current
<1>14. InOrder'
  <2> SUFFICES ASSUME NEW n \in Name, NEW m \in Name, Exists(n)', Exists(m)',
                      NEW j \in 1 .. Size(n)', NEW k \in 1 .. Size(m)', n > m \/ (n = m /\ j < k)
               PROVE  dir'[n].bytes[j] < dir'[m].bytes[k]
    BY DEF InOrder
  <2>1. \A x \in {n, m} : Exists(x) /\ dir'[x] = dir[x] /\ Size(x)' = Size(x)
    BY <1>6
  <2> QED BY <1>2, <2>1 DEF InOrder
<1>15. NothingExpires' => NothingLost'
  <2> SUFFICES ASSUME NothingExpires PROVE NothingLost'
    BY <1>3 DEF NothingExpires
  <2>1. NoneMissing /\ RemovesOldest(todo, Spare)
    BY <1>2 DEF NothingLost
  <2>2. ASSUME NEW p PROVE Kept(p)' <=> Kept(p)
    <3>1. ASSUME NEW n \in Used
          PROVE  (Exists(n)' /\ \E k \in 1 .. Size(n)' : dir'[n].bytes[k] = p)
                   <=> (Exists(n) /\ \E k \in 1 .. Size(n) : dir[n].bytes[k] = p)
      BY <1>6, NamesOfRotation
    <3> QED BY <3>1 DEF Kept
  <2>3. file' # Unlinked
    BY <1>3 DEF Current, Unlinked
  <2>4. RemovesOldest(todo', Spare')
    <3>1. CASE caller = Startup
      <4>1. Len(todo') = 0
        BY <1>1, <1>2, <1>10, <3>1, StartingOrRunning
      <4> QED BY <4>1 DEF RemovesOldest
    <3>2. CASE caller # Startup
      <4>1. Spare = {}
        BY <1>1, <1>2, <3>2, StartingOrRunning DEF Spare
      <4> QED BY <1>10, <1>start, <2>1, <4>1
    <3> QED BY <3>1, <3>2
  <2> QED BY <1>3, <2>1, <2>2, <2>3, <2>4 DEF NothingLost, NoneMissing
<1> QED BY <1>start, <1>7, <1>8, <1>9, <1>10, <1>11, <1>12, <1>13, <1>14, <1>15 DEF IInv

\* A step that leaves the files alone leaves what is known of them.
LEMMA FilesUnchanged ==
  ASSUME IInv, UNCHANGED <<dir, file, orphan, clock, history>>
  PROVE  /\ FileType' /\ FilesHold' /\ HandleHolds' /\ InOrder'
         /\ (Running' <=> Running) /\ (Exists(Current)' <=> Exists(Current))
         /\ Running => OpenSize' = OpenSize
         /\ NothingExpires' <=> NothingExpires
         /\ Large' = Large /\ Spare' = Spare
         /\ Running /\ caller' # Startup => StartHolds'
         /\ NothingExpires /\ RemovesOldest(todo', Spare) => NothingLost'
<1>1. FileType /\ FilesHold /\ HandleHolds /\ InOrder /\ (NothingExpires => NothingLost)
  BY DEF IInv
<1>2. \A n : /\ Exists(n)' <=> Exists(n)
             /\ Size(n)' = Size(n)
  BY DEF Exists, Size
<1>3. (Running' <=> Running) /\ OpenSize' = OpenSize
  BY DEF Running, OpenSize, OpenFile
<1>4. FileType'
  BY <1>1, <1>2, <1>3 DEF FileType
<1>5. FilesHold' /\ HandleHolds' /\ InOrder'
  BY <1>1, <1>2, <1>3 DEF FilesHold, HandleHolds, InOrder
<1>6. NothingExpires' <=> NothingExpires
  BY DEF NothingExpires
<1>7. \A p : Kept(p)' <=> Kept(p)
  BY <1>2 DEF Kept
<1>large. Large' = Large /\ Spare' = Spare
  BY <1>2, <1>3 DEF Large, Spare
<1>start. Running /\ caller' # Startup => StartHolds'
  BY <1>3, <1>4, <1>5, RunningHolds
<1>8. NothingExpires /\ RemovesOldest(todo', Spare) => NothingLost'
  BY <1>1, <1>7, <1>large DEF NothingLost, NoneMissing
<1> QED BY <1>2, <1>3, <1>4, <1>5, <1>6, <1>large, <1>start, <1>8

\* After a check the call goes on with a rotation or without one.
LEMMA CheckedKeeps ==
  ASSUME IInv, todo # <<>>, Head(todo).op \in {"check", "recheck"},
         UNCHANGED <<dir, file, orphan, clock, line, lines, failures, history>>,
         \/ Proceed(Rotation \o Tail(todo))
         \/ Proceed(Tail(todo)) /\ LineFits'
  PROVE  IInv'
<1>1. FileType /\ CallType /\ LineType /\ TodoHolds /\ StartHolds /\ (NothingExpires => NothingLost)
  BY DEF IInv
<1>2. LineType'
  BY <1>1 DEF LineType
<1>start. StartHolds'
  <2>1. caller # Startup /\ Running
    <3>1. ~ (Head(todo).op \in {"remove", "sweep", "open"})
      BY <1>1
    <3>2. Running <=> caller # Startup
      BY <1>1, StartingOrRunning
    <3>3. caller = Startup => Head(todo).op \in {"remove", "sweep", "open"}
      BY <1>1, StartingOrRunning
    <3> QED BY <3>1, <3>2, <3>3
  <2>2. caller' # Startup
    BY <2>1, CallerAssumption DEF Proceed
  <2> QED BY <2>1, <2>2, FilesUnchanged
<1> DEFINE t == Tail(todo)
<1>3. /\ t \in Seq(Op) /\ Len(t) = Len(todo) - 1 /\ Len(todo) \in Nat /\ WellOrdered(t)
      /\ \A k \in 1 .. Len(todo) - 1 : t[k] = todo[k + 1]
  BY <1>1, TailWellOrdered, LenProperties DEF CallType, TodoHolds
<1> HIDE DEF t
<1>4. \A k \in 1 .. Len(t) : k + 1 \in 1 .. Len(todo) /\ 1 \in 1 .. (k + 1) - 1 /\ t[k] = todo[k + 1]
  BY <1>3
<1>5. \A k \in 1 .. Len(t) : t[k].op \in {"append", "recheck", "sweep"}
  <2> TAKE k \in 1 .. Len(t)
  <2>1. MayPrecede(todo[1].op, todo[k + 1].op) /\ todo[1].op \in {"check", "recheck"}
    BY <1>1, <1>4, HeadOfTodo DEF TodoHolds, WellOrdered
  <2> QED BY <1>4, <2>1 DEF MayPrecede
<1>6. \A k \in 1 .. Len(t) :
        /\ t[k].op \in {"check", "append"} => caller \in Writer
        /\ t[k].op \in {"check", "append", "recheck"} => file' # NoHandle
  BY <1>1, <1>4 DEF TodoHolds, CallHolds, Running
<1>7. OpensEmpty(t, ~ Exists(Current)')
  <2>1. Len(t) \in Int
    BY <1>3
  <2> QED BY <1>5, <2>1 DEF OpensEmpty
<1>8. RemovesOldest(t, Spare)
  BY <1>1, <1>5 DEF RemovesOldest
<1>9. CASE Proceed(t) /\ LineFits'
  <2>1. CallType' /\ CallHolds' /\ todo' = t
    BY <1>1, <1>3, <1>6, <1>9, ProceedHolds
  <2>2. ~ Doing("move")'
    <3>1. t # <<>> => Head(t) = t[1] /\ 1 \in 1 .. Len(t)
      BY <1>3, HeadTailProperties, EmptySeq
    <3> QED BY <1>5, <2>1, <3>1 DEF Doing
  <2>3. TodoHolds'
    BY <1>3, <1>7, <2>1, <2>2 DEF TodoHolds
  <2> QED BY <1>2, <1>start, <1>8, <1>9, <2>1, <2>3, FilesUnchanged DEF IInv
<1>10. CASE Proceed(Rotation \o t)
  <2> DEFINE c == Rotation \o t
  <2>1. /\ c \in Seq(Op) /\ Len(c) = Len(Rotation) + Len(t) /\ Len(Rotation) \in Nat \ {0} /\ Len(t) \in Nat
        /\ \A k \in 1 .. Len(c) : c[k] = IF k <= Len(Rotation) THEN Rotation[k] ELSE t[k - Len(Rotation)]
    BY <1>3, RotationElements, RotationIsWellOrdered, ConcatProperties
  <2>2. WellOrdered(c)
    <3>1. \A i \in 1 .. Len(Rotation), j \in 1 .. Len(t) : MayPrecede(Rotation[i].op, t[j].op)
      BY <1>5, RotationIsWellOrdered DEF MayPrecede
    <3>2. Len(t) > 0 => t[1].op # "move" /\ Rotation[Len(Rotation)].op \in {"check", "open"}
      BY <1>3, <1>5, RotationIsWellOrdered DEF Do
    <3> QED BY <1>3, <3>1, <3>2, RotationElements, RotationIsWellOrdered, ConcatWellOrdered
  <2>3. OpensEmpty(c, ~ Exists(Current)')
    BY <1>3, <1>7, RotationElements, RotationIsWellOrdered, ConcatOpensEmpty
  <2>4. RemovesOldest(c, Spare)
    BY <1>3, <1>8, RotationElements, RotationIsWellOrdered, ConcatRemovesOldest
  <2> HIDE DEF c
  <2>5. \A k \in 1 .. Len(c) :
          /\ c[k].op \in {"check", "append"} => caller \in Writer
          /\ c[k].op \in {"check", "append", "recheck"} => file' # NoHandle
    <3> TAKE k \in 1 .. Len(c)
    <3>1. CASE k <= Len(Rotation)
      BY <2>1, <3>1, RotationIsWellOrdered
    <3>2. CASE k > Len(Rotation)
      <4>1. k - Len(Rotation) \in 1 .. Len(t) /\ c[k] = t[k - Len(Rotation)]
        BY <2>1, <3>2
      <4> QED BY <1>6, <4>1
    <3> QED BY <2>1, <3>1, <3>2
  <2>6. CallType' /\ CallHolds' /\ todo' = c
    <3>1. Proceed(c)
      BY <1>10 DEF c
    <3> QED BY <1>1, <2>1, <2>5, <3>1, ProceedHolds
  <2>7. Head(todo').op = "remove"
    <3>1. Head(c) = c[1] /\ c[1] = Rotation[1]
      BY <2>1, HeadTailProperties, EmptySeq
    <3> QED BY <2>6, <3>1, RotationElements DEF Oldest, On
  <2>8. TodoHolds' /\ LineFits'
    BY <2>2, <2>3, <2>6, <2>7 DEF TodoHolds, LineFits, Doing
  <2> QED BY <1>2, <1>start, <2>4, <2>6, <2>8, FilesUnchanged DEF IInv
<1> QED BY <1>9, <1>10 DEF t

LEMMA CheckKeeps ==
  ASSUME IInv, Check
  PROVE  IInv'
<1> DEFINE full == \/ OpenSize >= MaxFileBytes
                   \/ OpenSize > 0 /\ OpenSize + line[caller].left > MaxFileBytes
<1>1. /\ todo # <<>> /\ Head(todo).op = "check"
      /\ Proceed((IF full THEN Rotation ELSE <<>>) \o Tail(todo))
      /\ UNCHANGED <<dir, file, orphan, clock, line, lines, failures, history>>
  BY DEF Check, Doing
<1>2. FileType /\ CallType /\ LineType /\ TodoHolds
  BY DEF IInv
<1>3. Tail(todo) \in Seq(Op)
  BY <1>1, <1>2, TailWellOrdered DEF CallType, TodoHolds
<1>4. CASE full
  BY <1>1, <1>4, CheckedKeeps
<1>5. CASE ~ full
  <2>1. Proceed(Tail(todo))
    BY <1>1, <1>3, <1>5, EmptySeq, ConcatEmptySeq
  <2>2. todo[1].op = "check" /\ 1 \in 1 .. Len(todo) /\ caller # NoCaller
    BY <1>1, <1>2, HeadOfTodo
  <2>3. caller \in Writer /\ Running
    BY <2>2, <1>2 DEF TodoHolds, CallHolds
  <2>4. OpenSize \in Nat /\ line[caller].left \in Nat
    <3>1. OpenFile \in File
      BY <1>2, <2>3, FileFacts DEF OpenFile, FileType, Running, Exists
    <3> QED BY <1>2, <2>3, <3>1, LenProperties DEF OpenSize, LineType, File
  <2>5. todo' # <<>> => caller' = caller
    BY <2>1 DEF Proceed
  <2>6. OpenSize' = OpenSize /\ line' = line
    BY <1>1, <2>3, FilesUnchanged
  <2>7. LineFits'
    <3> SUFFICES ASSUME todo' # <<>> PROVE LET room == MaxFileBytes - OpenSize IN
                        room > 0 /\ (line[caller].left <= MaxFileBytes => line[caller].left <= room)
      BY <2>5, <2>6 DEF LineFits, Doing
    <3>1. MaxFileBytes \in Nat
      BY ConstantsAreNumbers
    <3>2. ~ (OpenSize >= MaxFileBytes) /\ ~ (OpenSize > 0 /\ OpenSize + line[caller].left > MaxFileBytes)
      BY <1>5
    <3> QED BY <2>4, <3>1, <3>2
  <2> QED BY <1>1, <2>1, <2>7, CheckedKeeps
<1> QED BY <1>4, <1>5

LEMMA RecheckKeeps ==
  ASSUME IInv, Recheck
  PROVE  IInv'
<1> DEFINE stale == OpenSize >= MaxFileBytes \/ Expired(OpenFile)
<1>1. /\ todo # <<>> /\ Head(todo).op = "recheck"
      /\ Proceed((IF stale THEN Rotation ELSE <<>>) \o Tail(todo))
      /\ UNCHANGED <<dir, file, orphan, clock, line, lines, failures, history>>
  BY DEF Recheck, Doing
<1>2. CallType /\ TodoHolds
  BY DEF IInv
<1>3. Tail(todo) \in Seq(Op)
  BY <1>1, <1>2, TailWellOrdered DEF CallType, TodoHolds
<1>4. CASE stale
  BY <1>1, <1>4, CheckedKeeps
<1>5. CASE ~ stale
  <2>1. Proceed(Tail(todo))
    BY <1>1, <1>3, <1>5, EmptySeq, ConcatEmptySeq
  <2>2. LineFits'
    <3> SUFFICES ASSUME todo' # <<>>, Head(todo').op = "append" PROVE FALSE
      BY DEF LineFits, Doing
    <3>1. todo' = Tail(todo)
      BY <2>1 DEF Proceed
    <3> QED BY <1>1, <1>2, <3>1, NextOperation
  <2> QED BY <1>1, <2>1, <2>2, CheckedKeeps
<1> QED BY <1>4, <1>5

LEMMA NameIsFinite ==
  IsFiniteSet(Name)
BY ConstantsAreNumbers, FS_Interval DEF Name, Current

\* A set in some order is a sequence of its elements, none twice.
LEMMA ListedOnce ==
  ASSUME NEW S \in SUBSET Name, NEW s \in SetToSeqs(S)
  PROVE  /\ s \in Seq(S)
         /\ \A i, j \in 1 .. Len(s) : i # j => s[i] # s[j]
<1>1. IsFiniteSet(S)
  BY NameIsFinite, FS_Subset
<1>2. Cardinality(S) \in Nat
  BY <1>1, FS_CardinalityType
<1>3. s \in [1 .. Cardinality(S) -> S] /\ \A i, j \in 1 .. Cardinality(S) : i # j => s[i] # s[j]
  BY DEF SetToSeqs
<1>4. s \in Seq(S) /\ Len(s) = Cardinality(S)
  BY <1>2, <1>3
<1> QED BY <1>3, <1>4

\* A listing goes through all files.
LEMMA ListedWhole ==
  ASSUME NEW S \in SUBSET Name, NEW s \in SetToSeqs(S)
  PROVE  Range(s) = S
<1>1. IsFiniteSet(S)
  BY NameIsFinite, FS_Subset
<1>2. PICK n \in Nat : n = Cardinality(S)
  BY <1>1, FS_CardinalityType
<1>3. s \in [1 .. n -> S] /\ \A i, j \in 1 .. n : i # j => s[i] # s[j]
  BY <1>2 DEF SetToSeqs
<1>4. IsFiniteSet(1 .. n) /\ Cardinality(1 .. n) = n
  BY FS_Interval
<1>5. ASSUME NEW x \in S, x \notin Range(s) PROVE FALSE
  <2>1. s \in [1 .. n -> S \ {x}]
    BY <1>3, <1>5 DEF Range
  <2>2. IsFiniteSet(S \ {x}) /\ Cardinality(S \ {x}) = n - 1
    BY <1>1, <1>2, FS_RemoveElement
  <2>3. Cardinality(S \ {x}) < Cardinality(1 .. n)
    BY <1>2, <1>4, <2>2
  <2>4. \E i, j \in 1 .. n : i # j /\ s[i] = s[j]
    BY <1>4, <2>1, <2>2, <2>3, FS_PigeonHole
  <2> QED BY <1>3, <2>4
<1>6. Range(s) \subseteq S
  BY <1>3 DEF Range
<1> QED BY <1>5, <1>6

LEMMA CurrentOrNot ==
  ASSUME NEW S
  PROVE  \E b \in BOOLEAN : b = (Current \in S)
<1>1. CASE Current \in S
  <2>1. TRUE \in BOOLEAN /\ TRUE = (Current \in S)
    BY <1>1, Zenon
  <2> QED BY <2>1, Zenon
<1>2. CASE Current \notin S
  <2>1. FALSE \in BOOLEAN /\ FALSE = (Current \in S)
    BY <1>2
  <2> QED BY <2>1, Zenon
<1> QED BY <1>1, <1>2

LEMMA SweepKeeps ==
  ASSUME IInv, Sweep
  PROVE  IInv'
<1>0. PICK outdated, retained :
        /\ outdated = {n \in Name : Exists(n) /\ Outdated(n)}
        /\ retained = {n \in Name : Exists(n)} \ outdated
  OBVIOUS
<1>1a. PICK hasCurrent \in BOOLEAN : hasCurrent = (Current \in retained)
  BY CurrentOrNot
<1>1. FileType /\ CallType /\ LineType /\ TodoHolds /\ FilesHold /\ StartHolds /\ (NothingExpires => NothingLost)
  BY DEF IInv
<1>2. todo # <<>> /\ Head(todo).op = "sweep" /\ UNCHANGED <<dir, file, orphan, clock, line, lines, failures, history>>
  BY DEF Sweep, Doing
<1>3. PICK first \in SetToSeqs(outdated), order \in NewestFirst(retained \ {Current}) :
        Proceed(Removals(first \o OverLimit(order, hasCurrent)) \o Tail(todo))
  BY <1>0, <1>1a DEF Sweep, Removals
<1> DEFINE over == OverLimit(order, hasCurrent)
           doomed == first \o over
           t == Tail(todo)
           a == Removals(doomed)
           c == a \o t
<1>4. LineType'
  BY <1>1, <1>2 DEF LineType
<1>5. first \in Seq(outdated) /\ outdated \in SUBSET Name
  BY <1>0, <1>3, ListedOnce
<1>6. /\ order \in Seq(retained \ {Current}) /\ retained \in SUBSET Name
      /\ \A i, j \in 1 .. Len(order) : i # j => order[i] # order[j]
      /\ \A i, j \in 1 .. Len(order) : i < j => dir[order[i]].modified >= dir[order[j]].modified
  BY <1>0, <1>3, ListedOnce DEF NewestFirst
<1>7. /\ \A n \in retained \ {Current} : Size(n) \in Nat
      /\ hasCurrent => Size(Current) \in Nat
  BY <1>0, <1>1a, <1>1, FileFacts
<1>8. over \in Seq(retained \ {Current})
  <2> DEFINE S == retained \ {Current}
  <2>1. order \in Seq(S) /\ \A n \in S : Size(n) \in Nat
    BY <1>6, <1>7
  <2> HIDE DEF S
  <2>2. OverLimit(order, hasCurrent) \in Seq(S)
    BY <1>7, <2>1, OverLimitIsOfOrder
  <2> QED BY <2>2 DEF S
<1>fit. \A n \in retained : Size(n) \in Nat /\ Size(n) <= MaxFileBytes
  <2> TAKE n \in retained
  <2>1. Exists(n) /\ n \in Name /\ ~ (Size(n) > MaxFileBytes)
    BY <1>0 DEF Outdated
  <2>2. Size(n) \in Nat
    BY <1>1, <2>1, FileFacts
  <2> QED BY <2>1, <2>2, ConstantsAreNumbers
\* While nothing expires, every file rotation uses is spared that is not too large.
<1>9. ASSUME NothingExpires, NEW n \in outdated PROVE n \notin Used \ Spare
  <2> SUFFICES ASSUME n \in Used, n \notin Spare PROVE FALSE
    OBVIOUS
  <2>1. Exists(n) /\ n \in Name /\ Outdated(n)
    BY <1>0
  <2>2. ~ (Size(n) > MaxFileBytes) /\ dir[n].modified \in -LastIndex .. MaxClock
    <3>1. Size(n) \in Nat /\ dir[n].modified \in -LastIndex .. MaxClock
      BY <1>1, <2>1, FileFacts
    <3>2. Running => Size(n) <= MaxFileBytes
      BY <1>1, <2>1 DEF FilesHold
    <3> QED BY <2>1, <3>1, <3>2, ConstantsAreNumbers DEF Spare
  <2>3. ~ Expired(dir[n])
    <3>1. dir[n].modified \in Int /\ dir[n].modified >= - LastIndex /\ clock \in Int /\ clock <= MaxAge - LastIndex
      <4>1. clock \in Int /\ clock <= MaxAge - LastIndex
        BY <1>1, <1>9, ConstantsAreNumbers DEF NothingExpires, LineType
      <4>2. \A x \in -LastIndex .. MaxClock : x \in Int /\ x >= - LastIndex
        BY ConstantsAreNumbers
      <4> QED BY <2>2, <4>1, <4>2
    <3>2. ~ (dir[n].modified + MaxAge < clock)
      BY <3>1, ConstantsAreNumbers
    <3> QED BY <3>2 DEF Expired
  <2> QED BY <2>1, <2>2, <2>3, ConstantsAreNumbers DEF Outdated
<1>10. ASSUME NothingExpires PROVE over \in Seq((retained \ {Current}) \ Archive)
  <2>1. \A n \in retained \ {Current} : Size(n) \in Nat /\ (n \in Archive => Size(n) <= MaxFileBytes)
    BY <1>fit
  <2>2. hasCurrent => Size(Current) \in Nat /\ Size(Current) <= MaxFileBytes
    BY <1>1a, <1>fit
  <2>3. ASSUME NEW i \in 1 .. Len(order), NEW j \in 1 .. Len(order), i < j, order[j] \in Archive
        PROVE  order[i] \in Archive
    <3>1. order[i] \in retained \ {Current} /\ order[j] \in retained
      BY <1>6, ElementOfSeq
    <3>2. \A n \in retained : n \in Name /\ Exists(n)
      BY <1>0
    <3>3. dir[order[j]].modified > 1 - MaxFiles
      BY <1>1, <2>3, <3>1, <3>2, NamesOfRotation DEF FilesHold
    <3>4. \A n \in retained : dir[n].modified \in Int
      <4>1. \A n \in retained : dir[n].modified \in -LastIndex .. MaxClock
        BY <1>1, <3>2, FileFacts
      <4> QED BY <4>1, ConstantsAreNumbers
    <3>5. dir[order[i]].modified > 1 - MaxFiles
      <4>1. dir[order[i]].modified >= dir[order[j]].modified
        BY <1>6, <2>3
      <4>2. dir[order[i]].modified \in Int /\ dir[order[j]].modified \in Int /\ MaxFiles \in Int
        BY <3>1, <3>4, ConstantsAreNumbers
      <4> QED BY <3>3, <4>1, <4>2
    <3> QED BY <1>1, <3>1, <3>2, <3>5 DEF FilesHold, Used
  <2>4. MaxTotalBytes >= MaxFiles * MaxFileBytes
    BY <1>10 DEF NothingExpires
  <2> DEFINE S == retained \ {Current}
  <2>5. order \in Seq(S) /\ \A n \in S : Size(n) \in Nat /\ (n \in Archive => Size(n) <= MaxFileBytes)
    BY <1>6, <2>1
  <2>6. \A i, j \in 1 .. Len(order) : i < j /\ order[j] \in Archive => order[i] \in Archive
    BY <2>3
  <2> HIDE DEF S
  <2>7. OverLimit(order, hasCurrent) \in Seq(S \ Archive)
    BY <1>6, <2>2, <2>4, <2>5, <2>6, OverLimitSparesArchives
  <2> QED BY <2>7 DEF S
<1>11. doomed \in Seq(Name)
  <2>1. first \in Seq(Name) /\ over \in Seq(Name)
    <3>1. \A S \in SUBSET Name : \A s \in Seq(S) : s \in Seq(Name)
      BY SeqMonotonic
    <3>2. retained \ {Current} \in SUBSET Name
      BY <1>6
    <3> HIDE DEF over
    <3> QED BY <1>5, <1>8, <3>1, <3>2
  <2> HIDE DEF over
  <2> QED BY <2>1, ConcatProperties
<1>12. ASSUME NothingExpires, NEW k \in 1 .. Len(doomed) PROVE doomed[k] \notin Used \ Spare
  <2> HIDE DEF over
  <2>1. /\ \A i \in 1 .. Len(first) : first[i] \in outdated
        /\ \A i \in 1 .. Len(over) : over[i] \in (retained \ {Current}) \ Archive
    BY <1>5, <1>10, <1>12, ElementOfSeq
  <2>2. /\ Len(doomed) = Len(first) + Len(over) /\ Len(first) \in Nat /\ Len(over) \in Nat
        /\ \A i \in 1 .. Len(doomed) : doomed[i] = IF i <= Len(first) THEN first[i] ELSE over[i - Len(first)]
    BY <1>5, <1>8, ConcatProperties
  <2> HIDE DEF doomed
  <2>3. CASE k <= Len(first)
    BY <1>9, <1>12, <2>1, <2>2, <2>3
  <2>4. CASE k > Len(first)
    <3>1. k - Len(first) \in 1 .. Len(over) /\ doomed[k] = over[k - Len(first)]
      BY <2>2, <2>4
    <3> QED BY <2>1, <3>1 DEF Used
  <2> QED BY <2>2, <2>3, <2>4
\* Every file that is too large is to be removed.
<1>large. \A n \in Large : \E k \in 1 .. Len(doomed) : doomed[k] = n
  <2> TAKE n \in Large
  <2> HIDE DEF over
  <2>1. n \in outdated
    BY <1>0, NamesOfRotation DEF Large, Outdated
  <2>2. PICK k \in DOMAIN first : first[k] = n
    BY <1>3, <1>5, <2>1, ListedWhole DEF Range
  <2>3. k \in 1 .. Len(first) /\ Len(first) \in Nat /\ Len(over) \in Nat
    BY <1>5, <1>8, <2>2, LenProperties
  <2>4. /\ Len(doomed) = Len(first) + Len(over)
        /\ \A i \in 1 .. Len(doomed) : doomed[i] = IF i <= Len(first) THEN first[i] ELSE over[i - Len(first)]
    BY <1>5, <1>8, ConcatProperties
  <2> HIDE DEF doomed
  <2>5. k \in 1 .. Len(doomed) /\ k <= Len(first)
    BY <2>3, <2>4
  <2> QED BY <2>2, <2>4, <2>5
<1> HIDE DEF doomed
<1>13. /\ a \in Seq(Op) /\ WellOrdered(a)
       /\ \A k \in 1 .. Len(a) : a[k].op = "remove" /\ (NothingExpires => a[k].name \notin Used \ Spare)
       /\ \A n \in Large : \E k \in 1 .. Len(a) : a[k] = On("remove", n)
  <2>1. /\ a \in Seq(Op) /\ WellOrdered(a) /\ Len(a) = Len(doomed)
        /\ \A k \in 1 .. Len(a) : a[k].op = "remove" /\ a[k].name = doomed[k] /\ a[k] = On("remove", doomed[k])
    BY <1>11, RemovalsAreWellOrdered
  <2> HIDE DEF a
  <2> QED BY <1>12, <1>large, <2>1
<1> HIDE DEF a
<1>14. /\ t \in Seq(Op) /\ Len(t) = Len(todo) - 1 /\ Len(todo) \in Nat /\ WellOrdered(t)
       /\ \A k \in 1 .. Len(todo) - 1 : t[k] = todo[k + 1]
  BY <1>1, <1>2, TailWellOrdered, LenProperties DEF CallType, TodoHolds
<1> HIDE DEF t
<1>15. \A k \in 1 .. Len(t) : k + 1 \in 1 .. Len(todo) /\ 1 \in 1 .. (k + 1) - 1 /\ t[k] = todo[k + 1]
  BY <1>14
<1>16. \A k \in 1 .. Len(t) : t[k].op \in {"open", "append", "recheck", "sweep"}
  <2> TAKE k \in 1 .. Len(t)
  <2>1. MayPrecede(todo[1].op, todo[k + 1].op) /\ todo[1].op = "sweep"
    BY <1>1, <1>2, <1>15, HeadOfTodo DEF TodoHolds, WellOrdered
  <2> QED BY <1>15, <2>1 DEF MayPrecede
<1>17. Len(t) > 0 => t[1].op # "append"
  <2> SUFFICES ASSUME Len(t) > 0, t[1].op = "append" PROVE FALSE
    OBVIOUS
  <2>1. 1 \in 1 .. Len(t) /\ t[1] = todo[1 + 1] /\ 1 + 1 \in 1 .. Len(todo) /\ 1 + 1 > 1 /\ (1 + 1) - 1 = 1
    BY <1>14, <1>15
  <2>2. todo[1].op = "sweep"
    BY <1>1, <1>2, HeadOfTodo
  <2> QED BY <1>1, <2>1, <2>2 DEF TodoHolds, WellOrdered
<1>18. /\ c \in Seq(Op) /\ Len(c) = Len(a) + Len(t) /\ Len(a) \in Nat /\ Len(t) \in Nat
       /\ \A k \in 1 .. Len(c) : c[k] = IF k <= Len(a) THEN a[k] ELSE t[k - Len(a)]
  <2>1. a \in Seq(Op) /\ t \in Seq(Op)
    BY <1>13, <1>14
  <2> QED BY <2>1, ConcatProperties
<1>19. WellOrdered(c)
  <2>1. \A i \in 1 .. Len(a), j \in 1 .. Len(t) : MayPrecede(a[i].op, t[j].op)
    BY <1>13, <1>16 DEF MayPrecede
  <2>2. Len(t) > 0 => t[1].op # "move" /\ t[1].op # "append"
    BY <1>14, <1>16, <1>17
  <2> QED BY <1>13, <1>14, <2>1, <2>2, ConcatWellOrdered
<1>20. OpensEmpty(c, ~ Exists(Current)')
  <2>1. OpensEmpty(t, ~ Exists(Current)')
    <3>1. todo \in Seq(Op) /\ OpensEmpty(todo, ~ Exists(Current)) /\ todo[1].op = "sweep"
      BY <1>1, <1>2, HeadOfTodo DEF CallType, TodoHolds
    <3>2. todo[1] \notin Clearing
      BY <3>1 DEF Clearing, On
    <3>3. Exists(Current)' <=> Exists(Current)
      BY <1>2, FilesUnchanged
    <3> QED BY <1>2, <3>1, <3>2, <3>3, TailOpensEmpty DEF t
  <2> QED BY <1>13, <1>14, <2>1, ConcatOpensEmpty
<1>21. NothingExpires => RemovesOldest(c, Spare)
  <2> SUFFICES ASSUME NothingExpires PROVE RemovesOldest(c, Spare)
    OBVIOUS
  <2>1. RemovesOldest(a, Spare)
    BY <1>13 DEF RemovesOldest
  <2>2. RemovesOldest(t, Spare)
    BY <1>16 DEF RemovesOldest
  <2> QED BY <1>13, <1>14, <2>1, <2>2, ConcatRemovesOldest
<1>22. Proceed(c)
  BY <1>3 DEF c, a, t, doomed
<1> HIDE DEF c
<1>23. \A k \in 1 .. Len(c) :
         /\ c[k].op \in {"check", "append"} => caller \in Writer
         /\ c[k].op \in {"check", "append", "recheck"} => file' # NoHandle
  <2> TAKE k \in 1 .. Len(c)
  <2>1. CASE k <= Len(a)
    BY <1>13, <1>18, <2>1
  <2>2. CASE k > Len(a)
    <3>1. k - Len(a) \in 1 .. Len(t) /\ c[k] = t[k - Len(a)]
      BY <1>18, <2>2
    <3>2. (k - Len(a)) + 1 \in 1 .. Len(todo) /\ c[k] = todo[(k - Len(a)) + 1]
      BY <1>15, <3>1
    <3> QED BY <1>1, <1>2, <3>2 DEF TodoHolds, CallHolds, Running
  <2> QED BY <1>18, <2>1, <2>2
<1>24. CallType' /\ CallHolds' /\ todo' = c
  BY <1>1, <1>2, <1>18, <1>22, <1>23, ProceedHolds
<1>25. todo' # <<>> => Head(todo').op \notin {"move", "append"}
  <2> SUFFICES ASSUME c # <<>> PROVE c[1].op \notin {"move", "append"}
    BY <1>18, <1>24, HeadTailProperties
  <2>1. 1 \in 1 .. Len(c)
    BY <1>18, EmptySeq
  <2>2. CASE 1 <= Len(a)
    BY <1>13, <1>18, <2>1, <2>2
  <2>3. CASE ~ (1 <= Len(a))
    <3>1. Len(t) > 0 /\ 1 \in 1 .. Len(t) /\ c[1] = t[1]
      BY <1>18, <2>1, <2>3
    <3> QED BY <1>16, <1>17, <3>1
  <2> QED BY <2>2, <2>3
<1>26. TodoHolds' /\ LineFits'
  BY <1>19, <1>20, <1>24, <1>25 DEF TodoHolds, LineFits, Doing
<1>27. StartHolds'
  <2>1. caller' \in {caller, NoCaller}
    BY <1>22 DEF Proceed
  <2>2. CASE caller # Startup
    <3>1. Running /\ caller' # Startup
      BY <1>1, <1>2, <2>1, <2>2, StartingOrRunning, CallerAssumption
    <3> QED BY <1>2, <3>1, FilesUnchanged
  <2>3. CASE caller = Startup
    <3>1. /\ ~ Running' /\ Large' = Large
          /\ \A n \in Large : dir'[n] = dir[n] /\ Size(n)' = Size(n) /\ history' = history
      BY <1>1, <1>2, <2>3, FilesUnchanged, StartingOrRunning DEF Size
    <3>2. ASSUME NEW k \in 1 .. Len(c) PROVE c[k].op = "remove" \/ (c[k].op = "open" /\ k = Len(c)) \/ c[k].op = "sweep"
      <4>1. CASE k <= Len(a)
        BY <1>13, <1>18, <4>1
      <4>2. CASE ~ (k <= Len(a))
        <5>1. PICK i \in 1 .. Len(t) : i = k - Len(a) /\ c[k] = t[i] /\ (i = Len(t) => k = Len(c))
          <6>1. k - Len(a) \in 1 .. Len(t) /\ c[k] = t[k - Len(a)]
            BY <1>18, <4>2
          <6> QED BY <1>18, <6>1
        <5>2. i + 1 \in 1 .. Len(todo) /\ t[i] = todo[i + 1] /\ (i + 1 = Len(todo) => i = Len(t))
          BY <1>14, <1>15
        <5> QED BY <1>1, <2>3, <5>1, <5>2 DEF StartHolds
      <4> QED BY <4>1, <4>2
    <3>3. ASSUME NEW n \in Large PROVE \E k \in 1 .. Len(c) : c[k] = On("remove", n)
      <4>1. PICK k \in 1 .. Len(a) : a[k] = On("remove", n)
        BY <1>13
      <4>2. k \in 1 .. Len(c) /\ k <= Len(a)
        BY <1>18
      <4> QED BY <1>18, <4>1, <4>2
    <3> QED BY <1>1, <1>24, <2>1, <2>3, <3>1, <3>2, <3>3 DEF StartHolds
  <2> QED BY <2>2, <2>3
<1> QED BY <1>2, <1>4, <1>21, <1>24, <1>26, <1>27, FilesUnchanged DEF IInv
LEMMA SmallerOfTwo ==
  ASSUME NEW a \in Nat, NEW b \in Nat
  PROVE  Min({a, b}) \in Nat /\ Min({a, b}) <= a /\ Min({a, b}) <= b
<1>1. \E x \in {a, b} : \A y \in {a, b} : x =< y
  <2>1. a <= b \/ b <= a
    OBVIOUS
  <2> QED BY <2>1
<1>2. Min({a, b}) \in {a, b} /\ \A y \in {a, b} : Min({a, b}) =< y
  BY <1>1, Zenon DEF Min
<1> QED BY <1>2

\* The bytes of a file after n more.
LEMMA BytesAppended ==
  ASSUME NEW S, NEW bytes \in Seq(S), NEW total \in Nat, NEW n \in Nat, \A k \in 1 .. n : total + k \in S
  PROVE  LET after == bytes \o [k \in 1 .. n |-> total + k] IN
         /\ after \in Seq(S) /\ Len(after) = Len(bytes) + n
         /\ \A k \in 1 .. Len(after) :
              after[k] = IF k <= Len(bytes) THEN bytes[k] ELSE total + (k - Len(bytes))
<1> DEFINE new == [k \in 1 .. n |-> total + k]
<1>1. new \in Seq(S) /\ Len(new) = n /\ \A k \in 1 .. n : new[k] = total + k
  OBVIOUS
<1> HIDE DEF new
<1>2. Len(bytes) \in Nat
  BY LenProperties
<1>3. /\ bytes \o new \in Seq(S) /\ Len(bytes \o new) = Len(bytes) + Len(new)
      /\ \A k \in 1 .. Len(bytes) + Len(new) :
           (bytes \o new)[k] = IF k <= Len(bytes) THEN bytes[k] ELSE new[k - Len(bytes)]
  BY <1>1, ConcatProperties
<1>4. ASSUME NEW k \in 1 .. Len(bytes) + n
      PROVE  (bytes \o new)[k] = IF k <= Len(bytes) THEN bytes[k] ELSE total + (k - Len(bytes))
  <2>1. CASE k <= Len(bytes)
    BY <1>1, <1>3, <2>1
  <2>2. CASE ~ (k <= Len(bytes))
    <3>1. k - Len(bytes) \in 1 .. n
      BY <1>2, <2>2
    <3> QED BY <1>1, <1>3, <2>2, <3>1
  <2> QED BY <2>1, <2>2
<1> QED BY <1>1, <1>3, <1>4 DEF new

LEMMA WriteAvailableKeeps ==
  ASSUME IInv, WriteAvailable
  PROVE  IInv'
<1>1. FileType /\ CallType /\ LineType /\ todo # <<>> /\ Head(todo).op = "append"
  BY DEF IInv, WriteAvailable, Doing
<1>2. TodoHolds /\ FilesHold /\ StartHolds /\ HandleHolds /\ InOrder /\ LineFits /\ (NothingExpires => NothingLost)
  BY DEF IInv
<1>3. caller \in Writer /\ Running /\ todo[1].op = "append" /\ todo \in Seq(Op)
  BY <1>1, <1>2, HeadOfTodo DEF TodoHolds, CallHolds, CallType
<1>4. PICK old, before, total, f :
        old = OpenFile /\ before = Len(old.bytes) /\ total = Len(history) /\ f = file
  OBVIOUS
<1>5. /\ old \in File /\ old # NoFile /\ old.bytes \in Seq(Nat \ {0}) /\ old.modified \in -LastIndex .. MaxClock
      /\ before \in Nat /\ before = Len(old.bytes) /\ total \in Nat /\ line[caller].left \in Nat /\ clock \in 1 .. MaxClock
  <2>1. old \in File
    BY <1>1, <1>3, <1>4, FileFacts DEF OpenFile, FileType, Running, Exists
  <2> QED BY <1>1, <1>3, <1>4, <2>1, FileFacts, LenProperties, NoFileAssumption DEF LineType
<1>6. PICK n \in Nat : /\ n <= MaxFileBytes - before /\ n <= line[caller].left
                       /\ Put(n) /\ Proceed(Tail(todo)) /\ UNCHANGED <<file, clock, lines, failures>>
  <2>1. MaxFileBytes - OpenSize \in Nat /\ OpenSize = before
    <3>1. OpenSize = before
      BY <1>4 DEF OpenSize
    <3>2. MaxFileBytes - OpenSize > 0
      BY <1>1, <1>2 DEF LineFits, Doing
    <3>3. MaxFileBytes \in Nat /\ before \in Nat
      BY <1>5, ConstantsAreNumbers
    <3> QED BY <3>1, <3>2, <3>3
  <2> QED BY <1>5, <2>1, SmallerOfTwo DEF WriteAvailable
<1>7. PICK written : written = [bytes |-> old.bytes \o [k \in 1 .. n |-> total + k],
                                modified |-> IF n = 0 THEN old.modified ELSE clock]
  OBVIOUS
<1>8. /\ IF f = Unlinked THEN orphan' = written /\ dir' = dir
         ELSE dir' = [dir EXCEPT ![f] = written] /\ orphan' = orphan
      /\ line' = [line EXCEPT ![caller].left = IF n = 0 THEN 0 ELSE @ - n]
      /\ history' = history \o [k \in 1 .. n |-> line[caller].id]
      /\ file' = f /\ f = file /\ clock' = clock /\ lines' = lines /\ failures' = failures
  BY <1>4, <1>6, <1>7 DEF Put
<1>9. /\ written.bytes \in Seq(Nat \ {0}) /\ Len(written.bytes) = before + n
      /\ \A k \in 1 .. Len(written.bytes) :
           written.bytes[k] = IF k <= before THEN old.bytes[k] ELSE total + (k - before)
  <2>1. LET after == old.bytes \o [k \in 1 .. n |-> total + k] IN
          /\ after \in Seq(Nat \ {0}) /\ Len(after) = Len(old.bytes) + n
          /\ \A k \in 1 .. Len(after) :
               after[k] = IF k <= Len(old.bytes) THEN old.bytes[k] ELSE total + (k - Len(old.bytes))
    <3>1. PICK S, b : S = Nat \ {0} /\ b = old.bytes
      OBVIOUS
    <3>2. total \in Nat /\ b \in Seq(S) /\ \A k \in 1 .. n : total + k \in S
      BY <1>5, <3>1
    <3>3. LET after == b \o [k \in 1 .. n |-> total + k] IN
          /\ after \in Seq(S) /\ Len(after) = Len(b) + n
          /\ \A k \in 1 .. Len(after) :
               after[k] = IF k <= Len(b) THEN b[k] ELSE total + (k - Len(b))
      BY <3>2, BytesAppended
    <3> QED BY <3>1, <3>3
  <2>2. written.bytes = old.bytes \o [k \in 1 .. n |-> total + k]
    BY <1>7
  <2> QED BY <1>5, <2>1, <2>2
<1>numbers. before \in Nat /\ total \in Nat /\ Len(written.bytes) = before + n
  BY <1>5, <1>9
<1>10. /\ written \in File /\ written # NoFile /\ Len(written.bytes) <= MaxFileBytes
       /\ old.modified > 1 - MaxFiles => written.modified > 1 - MaxFiles
  <2>1. clock \in -LastIndex .. MaxClock /\ clock > 1 - MaxFiles
    BY <1>5, ConstantsAreNumbers
  <2>2. written.modified \in {old.modified, clock} /\ written = [bytes |-> written.bytes, modified |-> written.modified]
    BY <1>7
  <2>3. written \in File
    BY <1>5, <1>9, <2>1, <2>2 DEF File
  <2>4. Len(written.bytes) <= MaxFileBytes
    BY <1>5, <1>6, <1>9, ConstantsAreNumbers
  <2> QED BY <2>1, <2>2, <2>3, <2>4, NoFileAssumption
<1>11. /\ history' \in Seq(Oversized .. MaxLines) /\ Len(history') = total + n
       /\ \A q \in 1 .. total : history'[q] = history[q]
  <2> DEFINE new == [k \in 1 .. n |-> line[caller].id]
  <2>1. new \in Seq(Oversized .. MaxLines) /\ Len(new) = n
    <3>1. line[caller].id \in Oversized .. MaxLines
      BY <1>1, <1>3, ConstantsAreNumbers DEF LineType, Oversized
    <3> QED BY <3>1
  <2>2. history \in Seq(Oversized .. MaxLines)
    BY <1>1 DEF LineType
  <2> HIDE DEF new
  <2>3. /\ history \o new \in Seq(Oversized .. MaxLines) /\ Len(history \o new) = Len(history) + n
        /\ \A q \in 1 .. Len(history) : (history \o new)[q] = history[q]
    BY <2>1, <2>2, ConcatProperties, LenProperties
  <2> QED BY <1>4, <1>8, <2>3 DEF new
<1>12. LineType'
  <2>1. (IF n = 0 THEN 0 ELSE line[caller].left - n) \in Nat
    BY <1>5, <1>6
  <2>2. line' \in [Writer -> [id : 0 .. MaxLines, left : Nat, since : 0 .. MaxClock]]
    BY <1>1, <1>3, <1>8, <2>1 DEF LineType
  <2> QED BY <1>1, <1>8, <1>11, <2>2 DEF LineType
<1>13. /\ dir' \in [Name -> File \cup {NoFile}]
       /\ \A x \in Name : Exists(x)' <=> Exists(x)
       /\ \A x \in Name : x # f => dir'[x] = dir[x] /\ Size(x)' = Size(x)
       /\ f \in Name => /\ dir[f] = old /\ dir'[f] = written /\ Exists(f)
                        /\ Size(f) = before /\ Size(f)' = Len(written.bytes)
  <2>1. CASE f = Unlinked
    <3>1. f \notin Name
      BY <2>1 DEF Unlinked, Name, Current
    <3> QED BY <1>1, <1>8, <2>1, <3>1 DEF FileType, Exists, Size
  <2>2. CASE f # Unlinked
    <3>1. f \in Name /\ Exists(f) /\ dir[f] = old
      BY <1>1, <1>3, <1>4, <2>2 DEF FileType, Running, OpenFile
    <3>2. dir' = [dir EXCEPT ![f] = written]
      BY <1>8, <2>2
    <3> QED BY <1>1, <1>5, <1>10, <3>1, <3>2 DEF FileType, Exists, Size
  <2> QED BY <2>1, <2>2
<1>14. FileType'
  <2>1. orphan' \in File \cup {NoFile} /\ (orphan' # NoFile <=> file' = Unlinked)
    BY <1>1, <1>8, <1>10 DEF FileType
  <2>2. OpenSize' = Len(written.bytes)
    <3>1. CASE f = Unlinked
      BY <1>8, <3>1 DEF OpenSize, OpenFile
    <3>2. CASE f # Unlinked
      BY <1>1, <1>3, <1>8, <1>13, <3>2 DEF OpenSize, OpenFile, FileType, Running
    <3> QED BY <3>1, <3>2
  <2> QED BY <1>1, <1>8, <1>10, <1>13, <2>1, <2>2 DEF FileType
<1>15. /\ CallType' /\ CallHolds' /\ todo' = Tail(todo) /\ WellOrdered(todo')
       /\ Len(todo') = Len(todo) - 1 /\ Len(todo') \in Nat
       /\ \A k \in 1 .. Len(todo) - 1 : todo'[k] = todo[k + 1]
       /\ \A S : RemovesOldest(todo, S) => RemovesOldest(todo', S)
  <2>1. Running => file' # NoHandle
    BY <1>8 DEF Running
  <2>2. CallType' /\ CallHolds' /\ todo' = Tail(todo) /\ WellOrdered(todo')
       /\ Len(todo') = Len(todo) - 1
       /\ (\A k \in 1 .. Len(todo) - 1 : todo'[k] = todo[k + 1])
       /\ \A S : RemovesOldest(todo, S) => RemovesOldest(todo', S)
    BY <1>1, <1>2, <1>6, <2>1, TailHolds
  <2> QED BY <2>2, LenProperties DEF CallType
<1>16. \A k \in 1 .. Len(todo') : todo'[k].op \in {"recheck", "sweep"}
  <2> TAKE k \in 1 .. Len(todo')
  <2>1. k + 1 \in 1 .. Len(todo) /\ 1 \in 1 .. (k + 1) - 1 /\ todo'[k] = todo[k + 1]
    BY <1>15
  <2>2. MayPrecede("append", todo[k + 1].op)
    BY <1>2, <1>3, <2>1 DEF TodoHolds, WellOrdered
  <2> QED BY <2>1, <2>2 DEF MayPrecede
<1>17. TodoHolds' /\ LineFits'
  <2>1. todo' # <<>> => Head(todo').op \in {"recheck", "sweep"}
    <3>1. todo' # <<>> => Head(todo') = todo'[1] /\ 1 \in 1 .. Len(todo')
      BY <1>15, HeadTailProperties, EmptySeq DEF CallType
    <3> QED BY <1>16, <3>1
  <2>2. OpensEmpty(todo', ~ Exists(Current)')
    BY <1>15, <1>16 DEF OpensEmpty
  <2> QED BY <1>15, <2>1, <2>2 DEF TodoHolds, LineFits, Doing
\* A byte that was there is not among the new ones.
<1>18. \A x \in Name : Exists(x) => \A k \in 1 .. Size(x) : dir[x].bytes[k] \in 1 .. total
  <2> TAKE x \in Name
  <2> SUFFICES ASSUME Exists(x), NEW k \in 1 .. Size(x) PROVE dir[x].bytes[k] \in 1 .. total
    OBVIOUS
  <2>1. dir[x].bytes[k] \in Nat \ {0}
    <3>1. dir[x].bytes \in Seq(Nat \ {0}) /\ k \in 1 .. Len(dir[x].bytes)
      BY <1>1, FileFacts DEF Exists, Size
    <3> QED BY <3>1, ElementOfSeq
  <2>2. dir[x].bytes[k] <= total
    BY <1>2, <1>4 DEF FilesHold
  <2> QED BY <1>5, <2>1, <2>2
\* The bytes of the files after the write.
<1>19. ASSUME NEW x \in Name, Exists(x)', NEW k \in 1 .. Size(x)'
       PROVE  \/ Exists(x) /\ k \in 1 .. Size(x) /\ dir'[x].bytes[k] = dir[x].bytes[k]
              \/ /\ x = f /\ k - before \in 1 .. n
                 /\ dir'[x].bytes[k] = total + (k - before)
  <2>1. CASE x # f
    BY <1>13, <1>19, <2>1
  <2>2. CASE x = f
    <3>1. k \in 1 .. before + n /\ dir'[x].bytes[k] = written.bytes[k]
      BY <1>9, <1>13, <2>2
    <3>2. k <= before => k \in 1 .. Size(x) /\ Exists(x) /\ dir[x].bytes[k] = old.bytes[k]
      BY <1>5, <1>13, <2>2, <3>1
    <3>3. CASE k <= before
      <4>1. k \in 1 .. Len(written.bytes)
        BY <1>numbers, <3>1, <3>3
      <4>2. written.bytes[k] = old.bytes[k]
        BY <1>9, <3>3, <4>1
      <4> QED BY <3>1, <3>2, <3>3, <4>2
    <3>4. CASE ~ (k <= before)
      <4>1. k \in 1 .. Len(written.bytes) /\ k - before \in 1 .. n
        BY <1>numbers, <3>1, <3>4
      <4>2. written.bytes[k] = total + (k - before)
        BY <1>9, <3>4, <4>1
      <4> QED BY <2>2, <3>1, <4>1, <4>2
    <3> QED BY <3>3, <3>4
  <2> QED BY <2>1, <2>2
<1>20. FilesHold'
  <2>1. \A x \in Used : Exists(x)' => Size(x)' <= MaxFileBytes
    BY <1>2, <1>3, <1>10, <1>13, NamesOfRotation DEF FilesHold
  <2>2. orphan' # NoFile => Len(orphan'.bytes) <= MaxFileBytes
    BY <1>2, <1>8, <1>10 DEF FilesHold
  <2>3. \A x \in Name : Exists(x)' => (x \in Used <=> dir'[x].modified > 1 - MaxFiles)
    <3>1. f \in Name => f \in Used
      BY <1>2, <1>4 DEF HandleHolds, Unlinked, NoHandle, Name, Current
    <3>2. f \in Name => dir'[f].modified > 1 - MaxFiles
      BY <1>2, <1>10, <1>13, <3>1 DEF FilesHold
    <3> QED BY <1>2, <1>13, <3>1, <3>2 DEF FilesHold
  <2>4. \A x \in Name : Exists(x)' => \A k \in 1 .. Size(x)' : dir'[x].bytes[k] <= Len(history')
    <3> SUFFICES ASSUME NEW x \in Name, Exists(x)', NEW k \in 1 .. Size(x)'
                 PROVE  dir'[x].bytes[k] <= total + n
      BY <1>11
    <3>1. CASE Exists(x) /\ k \in 1 .. Size(x) /\ dir'[x].bytes[k] = dir[x].bytes[k]
      <4>1. dir[x].bytes[k] \in 1 .. total
        BY <1>18, <3>1
      <4> QED BY <1>numbers, <3>1, <4>1
    <3>2. CASE k - before \in 1 .. n /\ dir'[x].bytes[k] = total + (k - before)
      <4>1. PICK i \in 1 .. n : i = k - before
        BY <3>2
      <4>2. total + i <= total + n
        BY <1>numbers
      <4> QED BY <3>2, <4>1, <4>2
    <3> QED BY <1>19, <3>1, <3>2
  <2> QED BY <2>1, <2>2, <2>3, <2>4 DEF FilesHold
<1>start. StartHolds' /\ Spare' = {} /\ Spare = {}
  <2>1. Running' /\ caller' # Startup
    BY <1>3, <1>6, <1>8, CallerAssumption DEF Running, Proceed
  <2> QED BY <1>3, <1>14, <1>20, <2>1, RunningHolds DEF Spare
<1>21. HandleHolds'
  BY <1>2, <1>8, <1>13 DEF HandleHolds
\* No f is newer than the one that is written to.
<1>22. f \in Name => \A x \in Name : x < f => ~ Exists(x)
  <2>1. f \in Name => f = Current \/ f \in Archive
    BY <1>2, <1>4 DEF HandleHolds, Used, Unlinked, NoHandle, Name, Current
  <2>2. \A x \in Name : ~ (x < Current)
    BY ConstantsAreNumbers DEF Name, Current
  <2> QED BY <1>2, <1>4, <2>1, <2>2 DEF HandleHolds
<1>23. InOrder'
  <2> SUFFICES ASSUME NEW x \in Name, NEW y \in Name, Exists(x)', Exists(y)',
                      NEW j \in 1 .. Size(x)', NEW k \in 1 .. Size(y)', x > y \/ (x = y /\ j < k)
               PROVE  dir'[x].bytes[j] < dir'[y].bytes[k]
    BY DEF InOrder
  <2>1. Exists(x) /\ Exists(y)
    BY <1>13
  <2>2. CASE k \in 1 .. Size(y) /\ dir'[y].bytes[k] = dir[y].bytes[k]
    <3>1. j \in 1 .. Size(x) /\ dir'[x].bytes[j] = dir[x].bytes[j]
      <4> SUFFICES ASSUME x = f, j - before \in 1 .. n PROVE FALSE
        BY <1>19
      <4>1. x = y
        BY <1>22, <2>1
      <4>2. k <= before /\ k \in Int /\ j \in Int
        BY <1>13, <2>2, <4>1
      <4>3. j - before \in 1 .. n /\ j < k
        <5>1. ~ (x > x)
          BY DEF Name
        <5> QED BY <4>1, <5>1
      <4> QED BY <1>numbers, <4>2, <4>3
    <3> QED BY <1>2, <2>1, <2>2, <3>1 DEF InOrder
  <2>3. CASE /\ y = f /\ k - before \in 1 .. n
             /\ dir'[y].bytes[k] = total + (k - before)
    <3>1. CASE j \in 1 .. Size(x) /\ dir'[x].bytes[j] = dir[x].bytes[j]
      <4>1. dir'[x].bytes[j] \in 1 .. total
        BY <1>18, <2>1, <3>1
      <4>2. PICK i \in 1 .. n : i = k - before
        BY <2>3
      <4>3. dir'[x].bytes[j] < total + i
        BY <1>numbers, <4>1
      <4> QED BY <2>3, <4>2, <4>3
    <3>2. CASE /\ x = f /\ j - before \in 1 .. n
               /\ dir'[x].bytes[j] = total + (j - before)
      <4>1. PICK i1 \in 1 .. n, i2 \in 1 .. n : i1 = j - before /\ i2 = k - before
        BY <2>3, <3>2
      <4>2. j < k /\ j \in Int /\ k \in Int
        <5>1. x = y /\ ~ (x > x)
          BY <2>3, <3>2 DEF Name
        <5> QED BY <5>1
      <4>3. total + i1 < total + i2
        BY <1>numbers, <4>1, <4>2
      <4> QED BY <2>3, <3>2, <4>1, <4>3
    <3> QED BY <1>19, <3>1, <3>2
  <2> QED BY <1>19, <2>2, <2>3
<1>24. NothingExpires' => NothingLost'
  <2> SUFFICES ASSUME NothingExpires PROVE NothingLost'
    BY <1>8 DEF NothingExpires
  <2>1. NoneMissing /\ RemovesOldest(todo, Spare) /\ (f = Unlinked => \A p \in 1 .. Len(history) : ~ Kept(p))
    BY <1>2, <1>4 DEF NothingLost
  <2>2. ASSUME NEW p, Kept(p) PROVE p \in 1 .. total /\ Kept(p)'
    <3>1. PICK x \in Used : Exists(x) /\ \E k \in 1 .. Size(x) : dir[x].bytes[k] = p
      BY <2>2 DEF Kept
    <3>2. PICK k \in 1 .. Size(x) : dir[x].bytes[k] = p
      BY <3>1
    <3>3. x \in Name
      BY NamesOfRotation
    <3>4. k \in 1 .. Size(x)' /\ dir'[x].bytes[k] = dir[x].bytes[k]
      <4>1. CASE x = f
        <5>1. k \in 1 .. before /\ k \in 1 .. Len(written.bytes) /\ k <= before
          <6>1. Size(x) = before
            BY <1>13, <3>3, <4>1
          <6> QED BY <1>numbers, <3>2, <6>1
        <5>2. written.bytes[k] = old.bytes[k]
          BY <1>9, <5>1
        <5> QED BY <1>13, <3>2, <3>3, <4>1, <5>1, <5>2
      <4>2. CASE x # f
        BY <1>13, <3>2, <3>3, <4>2
      <4> QED BY <4>1, <4>2
    <3> QED BY <1>13, <1>18, <3>1, <3>2, <3>3, <3>4 DEF Kept
  <2>3. ASSUME NEW p, Kept(p)' PROVE Kept(p) \/ (f \in Name /\ p \in total + 1 .. total + n)
    <3>1. PICK x \in Used : Exists(x)' /\ \E k \in 1 .. Size(x)' : dir'[x].bytes[k] = p
      BY <2>3 DEF Kept
    <3>2. PICK k \in 1 .. Size(x)' : dir'[x].bytes[k] = p
      BY <3>1
    <3>3. x \in Name
      BY NamesOfRotation
    <3>4. CASE Exists(x) /\ k \in 1 .. Size(x) /\ dir'[x].bytes[k] = dir[x].bytes[k]
      BY <3>2, <3>4 DEF Kept
    <3>5. CASE /\ x = f /\ k - before \in 1 .. n
               /\ dir'[x].bytes[k] = total + (k - before)
      <4>1. PICK i \in 1 .. n : i = k - before
        BY <3>5
      <4>2. total + i \in total + 1 .. total + n
        BY <1>numbers
      <4> QED BY <3>2, <3>3, <3>5, <4>1, <4>2
    <3> QED BY <1>19, <3>1, <3>3, <3>4, <3>5
  <2>4. ASSUME f \in Name, NEW p \in total + 1 .. total + n PROVE Kept(p)'
    <3>1. f \in Used
      BY <1>2, <1>4, <2>4 DEF HandleHolds, Unlinked, NoHandle, Name, Current
    <3>2. PICK k \in Nat : k = before + (p - total)
      <4>1. before + (p - total) \in Nat
        BY <1>numbers, <2>4
      <4> QED BY <4>1
    <3>3. k \in 1 .. Size(f)' /\ ~ (k <= before) /\ total + (k - before) = p
      BY <1>5, <1>9, <1>13, <2>4, <3>2
    <3>4. dir'[f].bytes[k] = p
      BY <1>9, <1>13, <2>4, <3>3
    <3> QED BY <1>13, <2>4, <3>1, <3>3, <3>4 DEF Kept
  <2>5. NoneMissing'
    <3> SUFFICES ASSUME NEW p \in 1 .. total + n, NEW q \in 1 .. total + n,
                        p < q, Kept(p)', history'[q] # Oversized
                 PROVE  Kept(q)'
      BY <1>11 DEF NoneMissing
    <3>1. CASE q <= total
      <4>1. p \in 1 .. total /\ q \in 1 .. total /\ p \notin total + 1 .. total + n
        BY <1>numbers, <3>1
      <4>2. Kept(p) /\ history[q] # Oversized
        BY <1>11, <2>3, <4>1
      <4>3. Kept(q)
        BY <1>4, <2>1, <4>1, <4>2 DEF NoneMissing
      <4> QED BY <2>2, <4>3
    <3>2. CASE ~ (q <= total)
      <4>1. q \in total + 1 .. total + n
        BY <1>numbers, <3>2
      <4>2. f \in Name
        <5> SUFFICES ASSUME f = Unlinked PROVE FALSE
          BY <1>1, <1>3, <1>4 DEF FileType, Running
        <5>1. Kept(p)
          BY <2>3 DEF Unlinked, Name, Current
        <5> QED BY <1>4, <2>1, <2>2, <5>1
      <4> QED BY <2>4, <4>1, <4>2
    <3> QED BY <3>1, <3>2
  <2>6. file' = Unlinked => \A p \in 1 .. Len(history') : ~ Kept(p)'
    <3> SUFFICES ASSUME f = Unlinked, NEW p, Kept(p)' PROVE FALSE
      BY <1>8
    <3>1. Kept(p)
      BY <2>3 DEF Unlinked, Name, Current
    <3> QED BY <1>4, <2>1, <2>2, <3>1
  <2>7. RemovesOldest(todo', Spare')
    BY <1>15, <1>start, <2>1
  <2> QED BY <2>5, <2>6, <2>7 DEF NothingLost
<1> QED BY <1>start, <1>12, <1>14, <1>15, <1>17, <1>20, <1>21, <1>23, <1>24 DEF IInv
\* A thread that takes the mutex begins with a call in order.
LEMMA EnteredKeeps ==
  ASSUME IInv, LineType', UNCHANGED <<dir, file, orphan, clock, history>>,
         NEW ops \in Seq(Op), ops # <<>>, todo' = ops, result' = "none",
         caller' \in Writer \cup {Startup, Maintenance},
         WellOrdered(ops),
         ops[1].op # "append",
         \A k \in 1 .. Len(ops) :
           /\ ops[k].op \notin {"remove", "move"}
           /\ ops[k].op = "open" => k = Len(ops)
           /\ ops[k].op \in {"check", "append"} => caller' \in Writer
           /\ ops[k].op \in {"check", "append", "recheck"} => Running,
         \/ caller' # Startup /\ Running
         \/ /\ caller' = Startup /\ ~ Running
            /\ \A k \in 1 .. Len(ops) : ops[k].op \in {"sweep", "open"}
            /\ \E k \in 1 .. Len(ops) : ops[k].op = "sweep"
  PROVE  IInv'
<1>1. Running' <=> Running
  BY FilesUnchanged
<1>2. Head(ops) = ops[1] /\ 1 \in 1 .. Len(ops) /\ Len(ops) \in Nat
  BY HeadTailProperties, EmptySeq, LenProperties
<1>3. CallType'
  BY CallerAssumption DEF CallType
<1>4. CallHolds'
  BY <1>1 DEF CallHolds
<1>5. OpensEmpty(todo', ~ Exists(Current)')
  BY <1>2 DEF OpensEmpty
<1>6. TodoHolds' /\ LineFits'
  BY <1>2, <1>4, <1>5 DEF TodoHolds, LineFits, Doing
<1>7. RemovesOldest(todo', Spare)
  BY DEF RemovesOldest
<1>8. StartHolds'
  <2>1. CASE caller' # Startup /\ Running
    BY <2>1, FilesUnchanged
  <2>2. CASE ~ (caller' # Startup /\ Running)
    <3>1. \A n \in Large' : \A k \in 1 .. Size(n)' : history'[dir'[n].bytes[k]] = Oversized
      BY FilesUnchanged DEF IInv, StartHolds, Size
    <3> QED BY <1>1, <2>2, <3>1 DEF StartHolds
  <2> QED BY <2>1, <2>2
<1> QED BY <1>3, <1>6, <1>7, <1>8, FilesUnchanged DEF IInv

LEMMA WriteCallIsWellOrdered ==
  /\ WriteCall \in Seq(Op) /\ WriteCall # <<>> /\ WellOrdered(WriteCall)
  /\ WriteCall[1].op = "check"
  /\ \A k \in 1 .. Len(WriteCall) : WriteCall[k].op \in {"check", "append", "recheck", "sweep"}
<1>1. /\ {Do("check"), Do("append"), Do("recheck"), Do("sweep")} \subseteq Op
      /\ Do("check").op = "check" /\ Do("append").op = "append"
      /\ Do("recheck").op = "recheck" /\ Do("sweep").op = "sweep"
  BY NamesOfRotation DEF Do, Op, Operation
<1>2. /\ WriteCall \in Seq(Op) /\ WriteCall # <<>> /\ Len(WriteCall) = 4
      /\ WriteCall[1] = Do("check") /\ WriteCall[2] = Do("append")
      /\ WriteCall[3] = Do("recheck") /\ WriteCall[4] = Do("sweep")
  BY <1>1 DEF WriteCall
<1>3. \A k \in 1 .. Len(WriteCall) : k = 1 \/ k = 2 \/ k = 3 \/ k = 4
  BY <1>2
<1>4. WriteCall[1].op = "check" /\ WriteCall[2].op = "append" /\ WriteCall[3].op = "recheck" /\ WriteCall[4].op = "sweep"
  BY <1>1, <1>2
<1>5. ASSUME NEW k \in 1 .. Len(WriteCall), NEW j \in 1 .. k - 1
      PROVE  MayPrecede(WriteCall[j].op, WriteCall[k].op)
  <2>1. j \in 1 .. Len(WriteCall) /\ j < k
    BY <1>2
  <2> QED BY <1>3, <1>4, <2>1 DEF MayPrecede
<1>6. WellOrdered(WriteCall)
  <2> SUFFICES ASSUME NEW k \in 1 .. Len(WriteCall)
               PROVE  /\ WriteCall[k].op = "append" /\ k > 1 => WriteCall[k - 1].op \in {"check", "open"}
                      /\ WriteCall[k].op # "move"
    BY <1>5 DEF WellOrdered
  <2>1. WriteCall[k].op = "append" => k = 2
    BY <1>3, <1>4
  <2> QED BY <1>3, <1>4, <2>1
<1> QED BY <1>2, <1>3, <1>4, <1>6

LEMMA LogKeeps ==
  ASSUME IInv, NEW w \in Writer, NEW n \in LineLength, Log(w, n)
  PROVE  IInv'
<1>1. LineType /\ lines < MaxLines /\ lines' = lines + 1 /\ n \in Nat
      /\ line' = [line EXCEPT ![w] = [id |-> lines + 1, left |-> n, since |-> clock]]
  BY ConstantsAreNumbers DEF IInv, Log
<1>2. /\ Running /\ caller' = w /\ todo' = WriteCall /\ result' = "none"
      /\ UNCHANGED <<dir, file, orphan, clock, failures, history>>
  BY DEF Log, Enter
<1>3. LineType'
  <2>1. lines + 1 \in 0 .. MaxLines /\ clock \in 0 .. MaxClock
    BY <1>1, ConstantsAreNumbers DEF LineType
  <2>2. line' \in [Writer -> [id : 0 .. MaxLines, left : Nat, since : 0 .. MaxClock]]
    BY <1>1, <2>1 DEF LineType
  <2> QED BY <1>1, <1>2, <2>1, <2>2 DEF LineType
<1> QED BY <1>2, <1>3, WriteCallIsWellOrdered, EnteredKeeps, CallerAssumption

LEMMA LogRestKeeps ==
  ASSUME IInv, NEW w \in Writer, LogRest(w)
  PROVE  IInv'
<1>1. /\ Running /\ caller' = w /\ todo' = WriteCall /\ result' = "none"
      /\ UNCHANGED <<dir, file, orphan, clock, failures, history, lines, line>>
  BY DEF LogRest, Enter
<1>2. LineType'
  BY <1>1 DEF IInv, LineType
<1> QED BY <1>1, <1>2, WriteCallIsWellOrdered, EnteredKeeps, CallerAssumption

LEMMA TwoOperations ==
  ASSUME NEW a \in Operation \ {"append", "remove", "move"}, NEW b \in Operation \ {"append", "remove", "move"},
         MayPrecede(a, b)
  PROVE  LET ops == <<Do(a), Do(b)>> IN
         /\ ops \in Seq(Op) /\ ops # <<>> /\ WellOrdered(ops)
         /\ Len(ops) = 2 /\ ops[1].op = a /\ ops[2].op = b
         /\ \A k \in 1 .. Len(ops) : k = 1 \/ k = 2
<1> DEFINE ops == <<Do(a), Do(b)>>
<1>1. Do(a) \in Op /\ Do(b) \in Op /\ Do(a).op = a /\ Do(b).op = b
  BY NamesOfRotation DEF Do, Op
<1>2. ops \in Seq(Op) /\ ops # <<>> /\ Len(ops) = 2 /\ ops[1] = Do(a) /\ ops[2] = Do(b)
  BY <1>1
<1> HIDE DEF ops
<1>3. \A k \in 1 .. Len(ops) : k = 1 \/ k = 2
  BY <1>2
<1>4. ops[1].op = a /\ ops[2].op = b
  BY <1>1, <1>2
<1>5. WellOrdered(ops)
  <2> SUFFICES ASSUME NEW k \in 1 .. Len(ops)
               PROVE  /\ \A j \in 1 .. k - 1 : MayPrecede(ops[j].op, ops[k].op)
                      /\ ops[k].op # "append" /\ ops[k].op # "move"
    BY DEF WellOrdered
  <2>1. \A j \in 1 .. k - 1 : j = 1 /\ k = 2
    BY <1>2, <1>3
  <2> QED BY <1>3, <1>4, <2>1
<1> QED BY <1>2, <1>3, <1>4, <1>5 DEF ops

LEMMA MaintainKeeps ==
  ASSUME IInv, Maintain
  PROVE  IInv'
<1> DEFINE ops == <<Do("recheck"), Do("sweep")>>
<1>1. /\ Running /\ caller' = Maintenance /\ todo' = ops /\ result' = "none"
      /\ UNCHANGED <<dir, file, orphan, clock, failures, history, lines, line>>
  BY DEF Maintain, Enter
<1>2. LineType'
  BY <1>1 DEF IInv, LineType
<1>3. /\ ops \in Seq(Op) /\ ops # <<>> /\ WellOrdered(ops)
      /\ Len(ops) = 2 /\ ops[1].op = "recheck" /\ ops[2].op = "sweep"
      /\ \A k \in 1 .. Len(ops) : k = 1 \/ k = 2
  BY TwoOperations DEF Operation, MayPrecede
<1> HIDE DEF ops
<1> QED BY <1>1, <1>2, <1>3, EnteredKeeps, CallerAssumption

LEMMA StartKeeps ==
  ASSUME IInv, Start
  PROVE  IInv'
<1> DEFINE ops == <<Do("sweep"), Do("open")>>
<1>1. /\ ~ Running /\ caller' = Startup /\ todo' = ops /\ result' = "none"
      /\ UNCHANGED <<dir, file, orphan, clock, line, lines, failures, history>>
  BY DEF Start
<1>2. LineType'
  BY <1>1 DEF IInv, LineType
<1>3. /\ ops \in Seq(Op) /\ ops # <<>> /\ WellOrdered(ops)
      /\ Len(ops) = 2 /\ ops[1].op = "sweep" /\ ops[2].op = "open"
      /\ \A k \in 1 .. Len(ops) : k = 1 \/ k = 2
  BY TwoOperations DEF Operation, MayPrecede
<1> HIDE DEF ops
<1>4. /\ 1 \in 1 .. Len(ops)
      /\ \A k \in 1 .. Len(ops) : ops[k].op \in {"sweep", "open"} /\ (ops[k].op = "open" => k = Len(ops))
  BY <1>3
<1> QED BY <1>1, <1>2, <1>3, <1>4, EnteredKeeps

\* Nothing is left to do of a call that is over.
LEMMA NoCallHolds ==
  ASSUME todo' = <<>>, caller' = NoCaller, result' \in {"none", "error"}
  PROVE  CallType' /\ TodoHolds' /\ LineFits' /\ \A S : RemovesOldest(todo', S)
<1>1. todo' \in Seq(Op) /\ Len(todo') = 0 /\ 1 .. Len(todo') = {} /\ 1 .. Len(todo') - 1 = {}
  BY EmptySeq
<1>2. CallType'
  BY <1>1 DEF CallType
<1>3. TodoHolds' /\ LineFits'
  BY <1>1 DEF TodoHolds, WellOrdered, CallHolds, OpensEmpty, LineFits, Doing
<1> QED BY <1>1, <1>2, <1>3 DEF RemovesOldest

LEMMA FailKeeps ==
  ASSUME IInv, Fail
  PROVE  IInv'
<1>1. LineType /\ failures < MaxFailures /\ failures' = failures + 1
      /\ line' = [w \in Writer |-> IF w = caller THEN [line[w] EXCEPT !.left = 0] ELSE line[w]]
  BY DEF IInv, Fail
<1>2. /\ todo' = <<>> /\ caller' = NoCaller /\ result' = "error"
      /\ UNCHANGED <<dir, file, orphan, clock, lines, history>>
  BY DEF Fail
<1>3. LineType'
  <2>1. failures' \in 0 .. MaxFailures
    BY <1>1, ConstantsAreNumbers DEF LineType
  <2>2. line' \in [Writer -> [id : 0 .. MaxLines, left : Nat, since : 0 .. MaxClock]]
    BY <1>1 DEF LineType
  <2> QED BY <1>1, <1>2, <2>1, <2>2 DEF LineType
<1>4. StartHolds'
  <2>1. \A n \in Large' : \A k \in 1 .. Size(n)' : history'[dir'[n].bytes[k]] = Oversized
    BY <1>2, FilesUnchanged DEF IInv, StartHolds, Size
  <2> QED BY <1>2, <2>1, CallerAssumption DEF StartHolds
<1> QED BY <1>2, <1>3, <1>4, NoCallHolds, FilesUnchanged DEF IInv

LEMMA CrashKeeps ==
  ASSUME IInv, Crash
  PROVE  IInv'
<1>1. LineType /\ FileType /\ FilesHold /\ StartHolds /\ InOrder /\ (NothingExpires => NothingLost)
      /\ line' = [w \in Writer |-> [line[w] EXCEPT !.left = 0]]
  BY DEF IInv, Crash
<1>2. /\ file' = NoHandle /\ orphan' = NoFile
      /\ todo' = <<>> /\ caller' = NoCaller /\ result' = "none"
      /\ UNCHANGED <<dir, clock, lines, failures, history>>
  BY DEF Crash
<1>3. LineType'
  <2>1. line' \in [Writer -> [id : 0 .. MaxLines, left : Nat, since : 0 .. MaxClock]]
    BY <1>1 DEF LineType
  <2> QED BY <1>1, <1>2, <2>1 DEF LineType
<1>4. \A n : (Exists(n)' <=> Exists(n)) /\ Size(n)' = Size(n)
  BY <1>2 DEF Exists, Size
<1>5. NoHandle \notin Name /\ NoHandle # Unlinked /\ NoHandle \notin Archive
  BY DEF NoHandle, Unlinked, Name, Current, Archive
<1>6. FileType'
  BY <1>1, <1>2, <1>5 DEF FileType, Running
<1>7. FilesHold' /\ HandleHolds' /\ InOrder'
  BY <1>1, <1>2, <1>4, <1>5 DEF FilesHold, HandleHolds, InOrder, Running
<1>start. StartHolds'
  <2>1. Large' = Large
    BY <1>4 DEF Large
  <2> QED BY <1>1, <1>2, <1>4, <2>1, CallerAssumption DEF StartHolds
<1>8. NothingExpires' <=> NothingExpires
  BY <1>2 DEF NothingExpires
<1>9. NoneMissing => NoneMissing'
  <2>1. \A p : Kept(p)' <=> Kept(p)
    BY <1>2, <1>4 DEF Kept
  <2> QED BY <1>2, <2>1 DEF NoneMissing
<1> QED BY <1>1, <1>2, <1>3, <1>5, <1>6, <1>7, <1>start, <1>8, <1>9, NoCallHolds DEF IInv, NothingLost

\* Time passes, or nothing happens.
LEMMA TimeKeeps ==
  ASSUME IInv, clock' \in clock .. MaxClock,
         UNCHANGED <<dir, file, orphan, caller, todo, result, line, lines, failures, history>>
  PROVE  IInv'
<1>1. /\ FileType /\ CallType /\ LineType
      /\ TodoHolds /\ FilesHold /\ StartHolds /\ HandleHolds /\ LineFits /\ InOrder
      /\ NothingExpires => NothingLost
  BY DEF IInv
<1>2. \A n : (Exists(n)' <=> Exists(n)) /\ Size(n)' = Size(n)
  BY DEF Exists, Size
<1>3. OpenSize' = OpenSize /\ (Running' <=> Running) /\ \A op \in Operation : Doing(op)' <=> Doing(op)
  BY DEF OpenSize, OpenFile, Running, Doing
<1>4. FileType' /\ CallType'
  BY <1>1, <1>2, <1>3 DEF FileType, CallType
<1>5. LineType'
  BY <1>1 DEF LineType
<1>6. TodoHolds'
  BY <1>1, <1>2, <1>3 DEF TodoHolds, CallHolds, Doing, Target
<1>7. FilesHold' /\ HandleHolds' /\ InOrder'
  BY <1>1, <1>2, <1>3 DEF FilesHold, HandleHolds, InOrder
<1>start. StartHolds' /\ Spare' = Spare
  <2>1. Large' = Large /\ Spare' = Spare
    BY <1>2, <1>3 DEF Large, Spare
  <2> QED BY <1>1, <1>2, <1>3, <2>1 DEF StartHolds
<1>8. LineFits'
  BY <1>1, <1>3 DEF LineFits, Doing
<1>9. NothingExpires' => NothingExpires
  BY <1>1, ConstantsAreNumbers DEF NothingExpires, LineType
<1>10. NothingLost => NothingLost'
  <2>1. \A p : Kept(p)' <=> Kept(p)
    BY <1>2 DEF Kept
  <2> QED BY <1>start, <2>1 DEF NothingLost, NoneMissing
<1> QED BY <1>1, <1>start, <1>4, <1>5, <1>6, <1>7, <1>8, <1>9, <1>10 DEF IInv
-----------------------------------------------------------------------------
(***************************************************************************)
(* What an earlier Core left satisfies the invariant.                      *)
(***************************************************************************)
\* The older the archive, the earlier its bytes.
LEMMA CutsDescend ==
  ASSUME NEW last \in Int, NEW cut \in [Current .. last + 1 -> Nat],
         \A n \in Current .. last : cut[n + 1] <= cut[n]
  PROVE  \A n, m \in Current .. last + 1 : n <= m => cut[m] <= cut[n]
<1> DEFINE T == {d \in Nat : \A n \in Current .. last + 1 : n + d <= last + 1 => cut[n + d] <= cut[n]}
<1>0. Current \in Int
  BY DEF Current
<1>1. 0 \in T
  BY <1>0
<1>2. ASSUME NEW d \in Nat, d \in T PROVE d + 1 \in T
  <2> SUFFICES ASSUME NEW n \in Current .. last + 1, n + (d + 1) <= last + 1 PROVE cut[n + (d + 1)] <= cut[n]
    OBVIOUS
  <2>1. n + d \in Current .. last /\ n + (d + 1) = (n + d) + 1 /\ n + d <= last + 1
    BY <1>0
  <2>2. cut[n + d] <= cut[n] /\ cut[(n + d) + 1] <= cut[n + d]
    BY <1>2, <2>1
  <2>3. cut[n] \in Nat /\ cut[n + d] \in Nat /\ cut[(n + d) + 1] \in Nat
    BY <1>0, <2>1
  <2> QED BY <2>1, <2>2, <2>3
<1> HIDE DEF T
<1>3. Nat \subseteq T
  BY <1>1, <1>2, Induction
<1> SUFFICES ASSUME NEW n \in Current .. last + 1, NEW m \in Current .. last + 1, n <= m PROVE cut[m] <= cut[n]
  OBVIOUS
<1>4. m - n \in T /\ n + (m - n) = m
  BY <1>0, <1>3
<1> QED BY <1>4 DEF T

LEMMA InitHolds ==
  Init => IInv
<1> SUFFICES ASSUME Init PROVE IInv
  OBVIOUS
<1> DEFINE Size0(c, n) == c[n] - c[n + 1]
           InLarge(c, k) == \E n \in Name : c[n + 1] < k /\ k <= c[n] /\ Size0(c, n) > MaxFileBytes
<1>1. PICK cut \in [Current .. LastIndex + 1 -> 0 .. OldBytes], left \in SUBSET Name :
        /\ \A n \in Name : IF n \in left THEN Size0(cut, n) \in OldSize ELSE Size0(cut, n) = 0
        /\ dir = [n \in Name |-> IF n \in left
                                 THEN [bytes |-> [k \in 1 .. Size0(cut, n) |-> cut[n + 1] + k], modified |-> -n]
                                 ELSE NoFile]
        /\ history = [k \in 1 .. cut[Current] |-> IF InLarge(cut, k) THEN Oversized ELSE 0]
  BY DEF Init
<1>2. /\ file = NoHandle /\ orphan = NoFile /\ clock = 1
      /\ caller = NoCaller /\ todo = <<>> /\ result = "none"
      /\ line = [w \in Writer |-> [id |-> 0, left |-> 0, since |-> 0]] /\ lines = 0 /\ failures = 0
  BY DEF Init
<1>3. /\ LastIndex \in Int /\ Current \in Current .. LastIndex + 1
      /\ \A n \in Current .. LastIndex + 1 : cut[n] \in Nat
      /\ \A n \in Name : n \in Int /\ n \in Current .. LastIndex + 1 /\ n + 1 \in Current .. LastIndex + 1
                         /\ -n \in -LastIndex .. MaxClock
  <2>1. LastIndex \in Int /\ LastIndex >= -1 /\ MaxClock \in Nat /\ MaxClock >= 1 /\ OldBytes \in Nat
    BY ConstantsAreNumbers
  <2>2. \A n \in Current .. LastIndex + 1 : cut[n] \in Nat
    <3>1. 0 .. OldBytes \subseteq Nat
      BY <2>1
    <3> QED BY <1>1, <3>1
  <2> QED BY <2>1, <2>2 DEF Name, Current
<1>4. \A n \in Name : Size0(cut, n) \in Nat /\ cut[n] = cut[n + 1] + Size0(cut, n) /\ cut[n + 1] <= cut[n]
  <2> TAKE n \in Name
  <2>1. cut[n] \in Nat /\ cut[n + 1] \in Nat
    BY <1>3
  <2> HIDE DEF Size0
  <2>2. Size0(cut, n) \in Nat
    <3>1. CASE n \in left
      BY <1>1, <3>1, ConstantsAreNumbers
    <3>2. CASE n \notin left
      BY <1>1, <3>2
    <3> QED BY <3>1, <3>2
  <2> QED BY <2>1, <2>2 DEF Size0
<1>5. \A n, m \in Current .. LastIndex + 1 : n <= m => cut[m] <= cut[n]
  <2>1. cut \in [Current .. LastIndex + 1 -> Nat] /\ \A n \in Current .. LastIndex : cut[n + 1] <= cut[n]
    BY <1>1, <1>3, <1>4 DEF Name
  <2> QED BY <1>3, <2>1, CutsDescend
<1> HIDE DEF Size0, InLarge
<1>7. ASSUME NEW n \in left
      PROVE  /\ n \in Name /\ dir[n] \in File /\ Size(n) = Size0(cut, n) /\ dir[n].modified = -n
             /\ \A k \in 1 .. Size(n) : dir[n].bytes[k] = cut[n + 1] + k
  <2>1. n \in Name
    OBVIOUS
  <2>2. dir[n] = [bytes |-> [k \in 1 .. Size0(cut, n) |-> cut[n + 1] + k], modified |-> -n]
    BY <1>1, <2>1
  <2>3. [k \in 1 .. Size0(cut, n) |-> cut[n + 1] + k] \in Seq(Nat \ {0})
    <3>1. \A k \in 1 .. Size0(cut, n) : cut[n + 1] + k \in Nat \ {0}
      BY <1>3, <1>4, <2>1
    <3> QED BY <1>4, <2>1, <3>1
  <2>4. -n \in -LastIndex .. MaxClock
    BY <1>3, <2>1
  <2>5. Size(n) = Size0(cut, n)
    BY <1>4, <2>1, <2>2 DEF Size
  <2>6. dir[n] \in File
    BY <2>2, <2>3, <2>4 DEF File
  <2> QED BY <2>1, <2>2, <2>5, <2>6
<1>6. \A n \in Name : Exists(n) <=> n \in left
  <2> TAKE n \in Name
  <2>1. CASE n \in left
    BY <1>7, <2>1, NoFileAssumption DEF Exists
  <2>2. CASE n \notin left
    BY <1>1, <2>2 DEF Exists
  <2> QED BY <2>1, <2>2
<1>8. Len(history) = cut[Current] /\ cut[Current] \in Nat
  BY <1>1, <1>3
<1>9. NoHandle \notin Name /\ NoHandle # Unlinked /\ NoHandle \notin Archive
  BY DEF NoHandle, Unlinked, Name, Current, Archive
<1>10. FileType
  <2>1. dir \in [Name -> File \cup {NoFile}]
    <3>1. \A n \in Name : dir[n] \in File \cup {NoFile}
      BY <1>6, <1>7 DEF Exists
    <3> QED BY <1>1, <3>1
  <2> QED BY <1>2, <1>9, <2>1 DEF FileType, Running
<1>11. CallType
  BY <1>2, EmptySeq DEF CallType
<1>12. LineType
  <2>1. {Oversized, 0} \subseteq Oversized .. MaxLines
    BY ConstantsAreNumbers DEF Oversized
  <2>2. history \in Seq(Oversized .. MaxLines)
    <3>1. \A k \in 1 .. cut[Current] : (IF InLarge(cut, k) THEN Oversized ELSE 0) \in Oversized .. MaxLines
      BY <2>1
    <3> DEFINE S == Oversized .. MaxLines
    <3>2. history \in [1 .. cut[Current] -> S]
      BY <1>1, <3>1
    <3> HIDE DEF S
    <3>3. history \in Seq(S)
      BY <1>8, <3>2
    <3> QED BY <3>3 DEF S
  <2> QED BY <1>2, <2>2, ConstantsAreNumbers DEF LineType
<1>13. TodoHolds /\ LineFits
  BY <1>2 DEF TodoHolds, WellOrdered, CallHolds, OpensEmpty, LineFits, Doing
<1>bytes. ASSUME NEW n \in Name, Exists(n), NEW k \in 1 .. Size(n)
          PROVE  /\ dir[n].bytes[k] \in 1 .. Len(history)
                 /\ cut[n + 1] < dir[n].bytes[k] /\ dir[n].bytes[k] <= cut[n]
  <2>1. n \in left
    BY <1>6, <1>bytes
  <2>2. /\ cut[n] <= cut[Current] /\ dir[n].bytes[k] = cut[n + 1] + k
        /\ cut[n] = cut[n + 1] + Size(n) /\ Size(n) \in Nat
    <3>1. Current <= n
      BY DEF Name, Current
    <3> QED BY <1>3, <1>4, <1>5, <1>7, <2>1, <3>1
  <2>3. cut[n] \in Nat /\ cut[n + 1] \in Nat
    BY <1>3
  <2> QED BY <1>8, <2>2, <2>3
<1>14. FilesHold
  <2>1. \A n \in Name : Exists(n) => (n \in Used <=> dir[n].modified > 1 - MaxFiles)
    <3> SUFFICES ASSUME NEW n \in left PROVE n \in Used <=> -n > 1 - MaxFiles
      BY <1>6, <1>7
    <3>1. n \in Int /\ n >= -1 /\ MaxFiles \in Nat \ {0}
      <4>1. n \in Name
        OBVIOUS
      <4> QED BY <1>3, <4>1, ConstantsAreNumbers DEF Name, Current
    <3>2. n \in Used <=> n <= MaxFiles - 2
      BY <3>1 DEF Used, Archive, Current
    <3> QED BY <3>1, <3>2
  <2>2. \A n \in Name : Exists(n) => \A k \in 1 .. Size(n) : dir[n].bytes[k] <= Len(history)
    BY <1>8, <1>bytes
  <2> QED BY <1>2, <2>1, <2>2 DEF FilesHold, Running
<1>start. StartHolds
  <2>1. ASSUME NEW n \in Large, NEW k \in 1 .. Size(n) PROVE history[dir[n].bytes[k]] = Oversized
    <3>1. n \in Name /\ Exists(n) /\ n \in left /\ Size0(cut, n) > MaxFileBytes
      BY <1>6, <1>7, NamesOfRotation DEF Large
    <3>2. InLarge(cut, dir[n].bytes[k]) /\ dir[n].bytes[k] \in 1 .. cut[Current]
      BY <1>8, <1>bytes, <3>1 DEF InLarge
    <3> QED BY <1>1, <3>2
  <2> QED BY <1>2, <2>1, CallerAssumption DEF StartHolds
<1>15. HandleHolds
  BY <1>2, <1>9 DEF HandleHolds
<1>16. InOrder
  <2> SUFFICES ASSUME NEW n \in Name, NEW m \in Name, Exists(n), Exists(m),
                      NEW j \in 1 .. Size(n), NEW k \in 1 .. Size(m), n > m \/ (n = m /\ j < k)
               PROVE  dir[n].bytes[j] < dir[m].bytes[k]
    BY DEF InOrder
  <2>1. n \in left /\ m \in left
    BY <1>6
  <2>2. /\ dir[n].bytes[j] = cut[n + 1] + j /\ dir[m].bytes[k] = cut[m + 1] + k
        /\ cut[n] = cut[n + 1] + Size(n) /\ Size(n) \in Nat
        /\ cut[n] \in Nat /\ cut[n + 1] \in Nat /\ cut[m + 1] \in Nat
    BY <1>3, <1>4, <1>7, <2>1
  <2>3. CASE n > m
    <3>1. cut[n] <= cut[m + 1]
      BY <1>3, <1>5, <2>3
    <3>2. cut[n + 1] + j <= cut[n] /\ cut[m + 1] < cut[m + 1] + k
      BY <2>2
    <3> QED BY <2>2, <3>1, <3>2
  <2>4. CASE n = m /\ j < k
    BY <2>2, <2>4
  <2> QED BY <2>3, <2>4
\* A byte after one that is kept is in the oldest of the files whose last byte it
\* does not exceed.
<1>17. NoneMissing
  <2> SUFFICES ASSUME NEW p \in 1 .. cut[Current], NEW q \in 1 .. cut[Current], p < q, Kept(p) PROVE Kept(q)
    BY <1>8 DEF NoneMissing
  <2>1. PICK n \in Used : Exists(n) /\ \E k \in 1 .. Size(n) : dir[n].bytes[k] = p
    BY DEF Kept
  <2>2. n \in Name /\ n \in Int
    BY <1>3, NamesOfRotation
  <2>3. cut[n + 1] < q /\ cut[n + 1] \in Nat
    BY <1>3, <1>bytes, <2>1, <2>2
  <2> DEFINE T == {x \in Nat : x <= LastIndex + 2 /\ cut[x - 1] < q}
  <2>4. n + 2 \in T /\ T \in SUBSET Nat /\ 0 \notin T
    <3>1. (n + 2) - 1 = n + 1 /\ n + 2 \in Nat /\ n + 2 <= LastIndex + 2
      BY <1>3, <2>2 DEF Name, Current
    <3>2. 0 - 1 = Current
      BY DEF Current
    <3> QED BY <1>8, <2>3, <3>1, <3>2
  <2>5. PICK x \in T : \A y \in T : x <= y
    BY <2>4, LeastElement
  <2>6. x \in Nat \ {0} /\ x <= n + 2 /\ cut[x - 1] < q /\ x - 1 \notin T
    <3>1. x \in Nat \ {0} /\ x <= n + 2 /\ cut[x - 1] < q
      BY <2>4, <2>5
    <3> QED BY <2>5, <3>1
  <2>7. PICK m \in Int : m = x - 2
    BY <2>6
  <2>8. m \in Used /\ m \in Name /\ m <= n /\ x - 1 = m + 1 /\ x - 1 \in Nat /\ (x - 1) - 1 = m /\ x - 1 <= LastIndex + 2
    <3>1. m <= n /\ m >= -1 /\ x - 1 = m + 1 /\ x - 1 \in Nat /\ (x - 1) - 1 = m
      BY <2>2, <2>6, <2>7
    <3>2. m \in Used
      <4>1. MaxFiles \in Nat \ {0}
        BY ConstantsAreNumbers
      <4>2. n <= MaxFiles - 2
        BY <4>1 DEF Used, Archive, Current
      <4> HIDE DEF T
      <4>3. m \in Int /\ m >= -1 /\ m <= MaxFiles - 2
        BY <2>2, <2>7, <3>1, <4>1, <4>2
      <4> QED BY <4>1, <4>3 DEF Used, Archive, Current
    <3>3. m <= LastIndex
      BY <1>3, <2>2, <3>1 DEF Name, Current
    <3> QED BY <1>3, <3>1, <3>2, <3>3, NamesOfRotation
  <2>9. cut[m + 1] < q /\ q <= cut[m] /\ cut[m] \in Nat /\ cut[m + 1] \in Nat
    <3>1. cut[m] \in Nat /\ cut[m + 1] \in Nat
      BY <1>3, <2>8
    <3>2. ~ (cut[m] < q)
      BY <2>6, <2>8
    <3> QED BY <2>6, <2>8, <3>1, <3>2
  <2>10. m \in left /\ Exists(m) /\ Size(m) = cut[m] - cut[m + 1]
    <3>1. Size0(cut, m) \in Nat /\ cut[m] = cut[m + 1] + Size0(cut, m)
      BY <1>4, <2>8
    <3>2. m \in left
      BY <1>1, <2>8, <2>9, <3>1
    <3> QED BY <1>6, <1>7, <2>8, <2>9, <3>1, <3>2
  <2>11. PICK k \in Int : k = q - cut[m + 1]
    BY <2>9
  <2>12. k \in 1 .. Size(m) /\ cut[m + 1] + k = q
    BY <2>9, <2>10, <2>11
  <2> QED BY <1>7, <2>8, <2>10, <2>12 DEF Kept
<1>18. NothingLost
  <2>1. RemovesOldest(todo, Spare)
    BY <1>2 DEF RemovesOldest
  <2>2. file # Unlinked
    BY <1>2, <1>9
  <2> QED BY <1>17, <2>1, <2>2 DEF NothingLost
<1> QED BY <1>10, <1>11, <1>12, <1>13, <1>14, <1>start, <1>15, <1>16, <1>18 DEF IInv

LEMMA StepKeeps ==
  IInv /\ [Next]_vars => IInv'
<1> SUFFICES ASSUME IInv, [Next]_vars PROVE IInv'
  OBVIOUS
<1>1. CASE Call
  BY <1>1, RemoveFileKeeps, MoveKeeps, OpenKeeps, SweepKeeps, CheckKeeps, WriteAvailableKeeps, RecheckKeeps DEF Call
<1>2. CASE Maintain \/ Start \/ Fail \/ Crash
  BY <1>2, MaintainKeeps, StartKeeps, FailKeeps, CrashKeeps
<1>3. CASE Tick
  <2>1. clock' \in clock .. MaxClock
    BY <1>3, ConstantsAreNumbers DEF IInv, LineType, Tick
  <2> QED BY <1>3, <2>1, TimeKeeps DEF Tick
<1>4. CASE \E w \in Writer : LogRest(w) \/ \E n \in LineLength : Log(w, n)
  BY <1>4, LogRestKeeps, LogKeeps
<1>5. CASE UNCHANGED vars
  <2>1. clock' \in clock .. MaxClock
    BY <1>5, ConstantsAreNumbers DEF IInv, LineType, vars
  <2> QED BY <1>5, <2>1, TimeKeeps DEF vars
<1> QED BY <1>1, <1>2, <1>3, <1>4, <1>5 DEF Next

LEMMA InductiveInvariant ==
  Spec => []IInv
BY InitHolds, StepKeeps, PTL DEF Spec

-----------------------------------------------------------------------------
(***************************************************************************)
(* What a clean-up keeps is within the limits.                             *)
(***************************************************************************)
\* The scan, after the files `seen`, has counted those it keeps.
Weighed(acc, f, seen) ==
  LET kept == seen \ Range(acc.excess) IN
  /\ Range(acc.excess) \subseteq seen
  /\ Cardinality(kept) = acc.files /\ acc.files <= MaxFiles
  /\ SumFunctionOnSet(f, kept) = acc.bytes /\ acc.bytes <= MaxTotalBytes

LEMMA RangeOfAppend ==
  ASSUME NEW S, NEW s \in Seq(S), NEW n \in S
  PROVE  Range(Append(s, n)) = Range(s) \cup {n}
<1>1. /\ Append(s, n) \in Seq(S) /\ Len(Append(s, n)) = Len(s) + 1 /\ Len(s) \in Nat
      /\ \A k \in 1 .. Len(s) : Append(s, n)[k] = s[k]
      /\ Append(s, n)[Len(s) + 1] = n
  BY AppendProperties, LenProperties
<1>2. DOMAIN s = 1 .. Len(s) /\ DOMAIN Append(s, n) = 1 .. Len(s) + 1
  BY <1>1, LenProperties
<1>3. PICK a : a = Append(s, n)
  OBVIOUS
<1> QED BY <1>1, <1>2, <1>3 DEF Range

LEMMA WeighCounts ==
  ASSUME NEW f, NEW seen, IsFiniteSet(seen), NEW n, n \notin seen, Size(n) = f[n],
         \A x \in seen \cup {n} : f[x] \in Nat,
         NEW S, n \in S, NEW acc \in Scanned(S), Weighed(acc, f, seen)
  PROVE  Weighed(Weigh(acc, n), f, seen \cup {n})
<1> DEFINE kept == seen \ Range(acc.excess)
           over == acc.files >= MaxFiles \/ acc.bytes + Size(n) > MaxTotalBytes
<1>1. /\ Range(acc.excess) \subseteq seen /\ acc.excess \in Seq(S) /\ acc.files \in Nat /\ acc.bytes \in Nat
      /\ Cardinality(kept) = acc.files /\ acc.files <= MaxFiles
      /\ SumFunctionOnSet(f, kept) = acc.bytes /\ acc.bytes <= MaxTotalBytes
  BY DEF Weighed, Scanned
<1>2. IsFiniteSet(kept) /\ n \notin kept /\ kept \subseteq seen
  BY FS_Subset
<1>3. CASE over
  <2>1. /\ Weigh(acc, n).excess = Append(acc.excess, n)
        /\ Weigh(acc, n).files = acc.files /\ Weigh(acc, n).bytes = acc.bytes
    BY <1>3 DEF Weigh, Scanned
  <2>2. Range(Weigh(acc, n).excess) = Range(acc.excess) \cup {n}
    BY <1>1, <2>1, RangeOfAppend
  <2>3. (seen \cup {n}) \ Range(Weigh(acc, n).excess) = kept
    BY <2>2
  <2> HIDE DEF kept
  <2> QED BY <1>1, <2>1, <2>2, <2>3 DEF Weighed
<1>4. CASE ~ over
  <2>1. /\ Weigh(acc, n).excess = acc.excess
        /\ Weigh(acc, n).files = acc.files + 1 /\ Weigh(acc, n).bytes = acc.bytes + f[n]
    BY <1>4 DEF Weigh, Scanned
  <2>2. (seen \cup {n}) \ Range(Weigh(acc, n).excess) = kept \cup {n}
    BY <1>1, <2>1
  <2>3. acc.files + 1 <= MaxFiles /\ acc.bytes + f[n] <= MaxTotalBytes
    BY <1>1, <1>4, ConstantsAreNumbers
  <2> HIDE DEF kept
  <2>4. IsFiniteSet(kept \cup {n}) /\ Cardinality(kept \cup {n}) = acc.files + 1
    BY <1>1, <1>2, FS_AddElement
  <2>5. SumFunctionOnSet(f, kept \cup {n}) = f[n] + acc.bytes
    <3>1. \A x \in kept \cup {n} : f[x] \in Nat
      BY <1>2
    <3>2. (kept \cup {n}) \ {n} = kept
      BY <1>2
    <3> QED BY <1>1, <2>4, <3>1, <3>2, SumOfAny
  <2>6. f[n] + acc.bytes = acc.bytes + f[n]
    BY <1>1
  <2> QED BY <1>1, <2>1, <2>2, <2>3, <2>4, <2>5, <2>6 DEF Weighed
<1> QED BY <1>3, <1>4

\* What cleanup_logs keeps is within max_files and max_total_bytes.
LEMMA KeptFits ==
  ASSUME NEW f, NEW S \in SUBSET Name, IsFiniteSet(S), NEW hasCurrent \in BOOLEAN, hasCurrent = (Current \in S),
         \A n \in S : Size(n) \in Nat /\ Size(n) = f[n] /\ Size(n) <= MaxFileBytes,
         NEW order \in Seq(S \ {Current}), Range(order) = S \ {Current},
         \A i, j \in 1 .. Len(order) : i # j => order[i] # order[j]
  PROVE  LET kept == S \ Range(OverLimit(order, hasCurrent)) IN
         Cardinality(kept) <= MaxFiles /\ SumFunctionOnSet(f, kept) <= MaxTotalBytes
<1> DEFINE scan == Scan(order, hasCurrent, Len(order))
           first == S \cap {Current}
           seen(k) == first \cup {order[j] : j \in 1 .. k}
           T == {k \in Nat : k <= Len(order) => Weighed(scan[k], f, seen(k))}
<1>1. /\ scan[0] = Counted(hasCurrent)
      /\ \A k \in 1 .. Len(order) : scan[k] = Weigh(scan[k - 1], order[k])
  BY ScanSteps
<1>2. \A k \in 0 .. Len(order) : scan[k] \in Scanned(S \ {Current})
  BY ScanIsScanned
<1>3. /\ Len(order) \in Nat /\ DOMAIN order = 1 .. Len(order)
      /\ \A k \in 1 .. Len(order) : order[k] \in S \ {Current}
  BY LenProperties, ElementOfSeq
<1> HIDE DEF scan
<1>4. 0 \in T
  <2> SUFFICES Weighed(scan[0], f, seen(0))
    OBVIOUS
  <2>1. Range(Counted(hasCurrent).excess) = {} /\ seen(0) = first
    BY DEF Counted, Range
  <2>2. CASE Current \in S
    <3>1. first = {Current} /\ Counted(hasCurrent) = [files |-> 1, bytes |-> Size(Current), excess |-> <<>>]
      BY <2>2 DEF Counted
    <3>2. Cardinality({Current}) = 1 /\ IsFiniteSet({Current})
      BY FS_Singleton
    <3>3. SumFunctionOnSet(f, {Current}) = Size(Current)
      <4>1. \A x \in {Current} : f[x] \in Nat /\ f[x] = Size(Current)
        BY <2>2
      <4>2. {Current} \ {Current} = {} /\ IsFiniteSet({})
        BY FS_EmptySet
      <4>3. SumFunctionOnSet(f, {}) = 0
        BY <4>2, SumOfChosen
      <4>4. SumFunctionOnSet(f, {Current}) = f[Current] + SumFunctionOnSet(f, {Current} \ {Current})
        BY <3>2, <4>1, SumOfAny
      <4>5. PICK c \in Nat : c = f[Current]
        BY <4>1
      <4>6. SumFunctionOnSet(f, {Current}) = c + 0
        BY <4>2, <4>3, <4>4, <4>5
      <4> QED BY <4>1, <4>5, <4>6
    <3>4. Size(Current) <= MaxTotalBytes /\ 1 <= MaxFiles
      BY <2>2, ConstantsAreNumbers, RetentionAssumption DEF ValidRetention
    <3>5. Range(Counted(hasCurrent).excess) \subseteq first /\ first \ Range(Counted(hasCurrent).excess) = {Current}
      BY <2>1, <3>1
    <3>6. /\ Counted(hasCurrent).files = 1 /\ Counted(hasCurrent).bytes = Size(Current)
      BY <3>1
    <3> HIDE DEF first, seen
    <3> QED BY <1>1, <2>1, <3>2, <3>3, <3>4, <3>5, <3>6 DEF Weighed
  <2>3. CASE Current \notin S
    <3>1. first = {} /\ Counted(hasCurrent) = [files |-> 0, bytes |-> 0, excess |-> <<>>]
      BY <2>3 DEF Counted
    <3>2. Cardinality({}) = 0 /\ SumFunctionOnSet(f, {}) = 0
      BY FS_EmptySet, SumOfChosen
    <3>3. Range(Counted(hasCurrent).excess) \subseteq first /\ first \ Range(Counted(hasCurrent).excess) = {}
      BY <2>1, <3>1
    <3>4. Counted(hasCurrent).files = 0 /\ Counted(hasCurrent).bytes = 0
      BY <3>1
    <3>5. 0 <= MaxFiles /\ 0 <= MaxTotalBytes
      BY ConstantsAreNumbers
    <3> HIDE DEF first, seen
    <3> QED BY <1>1, <2>1, <3>2, <3>3, <3>4, <3>5 DEF Weighed
  <2> HIDE DEF first, seen
  <2> QED BY <2>2, <2>3
<1>5. ASSUME NEW k \in Nat, k \in T PROVE k + 1 \in T
  <2> SUFFICES ASSUME k + 1 <= Len(order) PROVE Weighed(scan[k + 1], f, seen(k + 1))
    OBVIOUS
  <2>1. PICK n : n = order[k + 1]
    OBVIOUS
  <2>2. k + 1 \in 1 .. Len(order) /\ k \in 0 .. Len(order) /\ n \in S \ {Current}
    BY <1>3, <2>1
  <2>3. scan[k + 1] = Weigh(scan[k], n) /\ scan[k] \in Scanned(S \ {Current}) /\ Weighed(scan[k], f, seen(k))
    <3> HIDE DEF seen
    <3>1. k <= Len(order) /\ (k + 1) - 1 = k
      BY <1>3, <2>2
    <3>2. scan[k + 1] = Weigh(scan[k], n)
      BY <1>1, <2>1, <2>2, <3>1
    <3>3. Weighed(scan[k], f, seen(k))
      BY <1>5, <3>1
    <3> QED BY <1>2, <2>2, <3>2, <3>3
  <2>4. n \notin seen(k)
    <3>1. \A j \in 1 .. k : j \in 1 .. Len(order) /\ j # k + 1
      BY <1>3, <2>2
    <3> QED BY <2>1, <2>2, <3>1
  <2>5. seen(k) \subseteq S
    <3>1. \A j \in 1 .. k : j \in 1 .. Len(order)
      BY <1>3, <2>2
    <3> QED BY <1>3, <3>1
  <2>6. seen(k + 1) = seen(k) \cup {n}
    <3>1. 1 .. k + 1 = (1 .. k) \cup {k + 1}
      OBVIOUS
    <3> QED BY <2>1, <3>1
  <2> HIDE DEF seen
  <2>7. IsFiniteSet(seen(k))
    BY <2>5, FS_Subset
  <2>8. \A x \in seen(k) \cup {n} : f[x] \in Nat
    BY <2>2, <2>5
  <2>9. n \in S \ {Current} /\ Size(n) = f[n]
    BY <2>2
  <2>10. Weighed(Weigh(scan[k], n), f, seen(k) \cup {n})
    BY <2>3, <2>4, <2>7, <2>8, <2>9, WeighCounts
  <2> QED BY <2>3, <2>6, <2>10
<1>6. Weighed(scan[Len(order)], f, seen(Len(order)))
  <2> HIDE DEF T
  <2>1. Len(order) \in T
    BY <1>3, <1>4, <1>5, Induction
  <2> QED BY <1>3, <2>1 DEF T
<1>7. seen(Len(order)) = S
  <2>1. {order[j] : j \in 1 .. Len(order)} = S \ {Current}
    BY <1>3 DEF Range
  <2> QED BY <2>1
<1>8. OverLimit(order, hasCurrent) = scan[Len(order)].excess
  BY OverLimitScans DEF scan
<1>9. scan[Len(order)].files \in Nat /\ scan[Len(order)].bytes \in Nat
  BY <1>2, <1>3 DEF Scanned
<1> HIDE DEF seen
<1> QED BY <1>6, <1>7, <1>8 DEF Weighed

LEMMA RangeOfConcat ==
  ASSUME NEW S, NEW a \in Seq(S), NEW b \in Seq(S)
  PROVE  Range(a \o b) = Range(a) \cup Range(b)
<1> DEFINE s == a \o b
<1>1. /\ s \in Seq(S) /\ Len(s) = Len(a) + Len(b) /\ Len(a) \in Nat /\ Len(b) \in Nat
      /\ \A k \in 1 .. Len(s) : s[k] = IF k <= Len(a) THEN a[k] ELSE b[k - Len(a)]
  BY ConcatProperties, LenProperties
<1> HIDE DEF s
<1>2. DOMAIN s = 1 .. Len(s) /\ DOMAIN a = 1 .. Len(a) /\ DOMAIN b = 1 .. Len(b)
  BY <1>1, LenProperties
<1>3. ASSUME NEW k \in 1 .. Len(s) PROVE s[k] \in Range(a) \cup Range(b)
  <2>1. CASE k <= Len(a)
    <3>1. k \in 1 .. Len(a) /\ s[k] = a[k]
      BY <1>1, <2>1
    <3> QED BY <1>2, <3>1 DEF Range
  <2>2. CASE ~ (k <= Len(a))
    <3>1. k - Len(a) \in 1 .. Len(b) /\ s[k] = b[k - Len(a)]
      BY <1>1, <2>2
    <3> QED BY <1>2, <3>1 DEF Range
  <2> QED BY <2>1, <2>2
<1>4. ASSUME NEW k \in 1 .. Len(a) PROVE a[k] \in Range(s)
  <2>1. k \in 1 .. Len(s) /\ k <= Len(a)
    BY <1>1
  <2> QED BY <1>1, <1>2, <2>1 DEF Range
<1>5. ASSUME NEW k \in 1 .. Len(b) PROVE b[k] \in Range(s)
  <2>1. Len(a) + k \in 1 .. Len(s) /\ ~ (Len(a) + k <= Len(a)) /\ (Len(a) + k) - Len(a) = k
    BY <1>1
  <2>2. s[Len(a) + k] = b[k]
    BY <1>1, <2>1
  <2> QED BY <1>2, <2>1, <2>2 DEF Range
<1>6. Range(s) = Range(a) \cup Range(b)
  <2>1. \A n \in Range(s) : n \in Range(a) \cup Range(b)
    BY <1>2, <1>3 DEF Range
  <2>2. \A n \in Range(a) : n \in Range(s)
    <3>1. \A n \in Range(a) : \E k \in 1 .. Len(a) : n = a[k]
      BY <1>2 DEF Range
    <3> QED BY <1>4, <3>1
  <2>3. \A n \in Range(b) : n \in Range(s)
    <3>1. \A n \in Range(b) : \E k \in 1 .. Len(b) : n = b[k]
      BY <1>2 DEF Range
    <3> QED BY <1>5, <3>1
  <2> QED BY <2>1, <2>2, <2>3
<1> QED BY <1>6 DEF s

-----------------------------------------------------------------------------
(***************************************************************************)
(* The limits hold when a call returns.                                    *)
(***************************************************************************)
SizeOf == [n \in Files |-> Size(n)]
Within(S) ==
  /\ Cardinality(S) <= MaxFiles
  /\ SumFunctionOnSet(SizeOf, S) <= MaxTotalBytes
  /\ \A n \in S : Size(n) <= MaxFileBytes

\* Whatever a call does to the files, it lists them again later; only new opens the
\* current log after it has cleaned up.
HasSweep(ops) == \E k \in 1 .. Len(ops) : ops[k].op = "sweep"
SweepsLater(ops, c) ==
  \A k \in 1 .. Len(ops) :
    \/ ops[k].op \in {"remove", "sweep"}
    \/ c = Startup /\ ops[k].op = "open" /\ k = Len(ops)
    \/ \E j \in k + 1 .. Len(ops) : ops[j].op = "sweep"

\* The files that are about to be removed.
Removed(ops) == {ops[k].name : k \in {k \in 1 .. Len(ops) : ops[k].op = "remove"}}

LimitsHold ==
  /\ SweepsLater(todo, caller)
  /\ todo # <<>> /\ ~ HasSweep(todo) => Within(Files \ Removed(todo))
  /\ result \in {"ok", "started"} => todo = <<>> /\ WithinLimits

LEMMA FilesAreFinite ==
  ASSUME FileType
  PROVE  /\ Files \in SUBSET Name /\ IsFiniteSet(Files)
         /\ \A n \in Files : Size(n) \in Nat /\ SizeOf[n] = Size(n)
<1>1. Files \in SUBSET Name
  BY DEF Files
<1>2. \A n \in Files : n \in Name /\ Exists(n)
  BY DEF Files
<1> QED BY <1>1, <1>2, NameIsFinite, FS_Subset, FileFacts DEF SizeOf

\* Fewer files are within the limits too.
LEMMA FewerFit ==
  ASSUME FileType, NEW S \in SUBSET Files, NEW R \in SUBSET S,
         Cardinality(S) <= MaxFiles, SumFunctionOnSet(SizeOf, S) <= MaxTotalBytes,
         \A n \in R : Size(n) <= MaxFileBytes
  PROVE  Within(R)
<1>1. IsFiniteSet(S) /\ IsFiniteSet(R) /\ \A n \in S : SizeOf[n] \in Nat
  BY FilesAreFinite, FS_Subset
<1>2. Cardinality(R) <= Cardinality(S) /\ Cardinality(R) \in Nat /\ Cardinality(S) \in Nat
  BY <1>1, FS_Subset, FS_CardinalityType
<1>3. SumFunctionOnSet(SizeOf, R) <= SumFunctionOnSet(SizeOf, S)
  BY <1>1, SumOfFewer
<1>4. SumFunctionOnSet(SizeOf, R) \in Nat /\ SumFunctionOnSet(SizeOf, S) \in Nat
  BY <1>1, SumIsNatural
<1>5. Cardinality(R) <= MaxFiles
  BY <1>2, ConstantsAreNumbers
<1>6. SumFunctionOnSet(SizeOf, R) <= MaxTotalBytes
  BY <1>3, <1>4, ConstantsAreNumbers
<1> QED BY <1>5, <1>6 DEF Within

\* The limits depend on the directory alone.
LEMMA SameFilesFit ==
  ASSUME dir' = dir
  PROVE  /\ Files' = Files /\ \A S : Within(S)' <=> Within(S)
         /\ result' = result => (WithinLimits' <=> WithinLimits)
<1>1. Files' = Files /\ \A n : Size(n)' = Size(n)
  BY DEF Files, Exists, Size
<1>2. SizeOf' = SizeOf
  BY DEF SizeOf, Files, Exists, Size
<1>3. TotalBytes' = TotalBytes
  BY DEF TotalBytes, Files, Exists, Size
<1>4. \A S : Within(S)' <=> Within(S)
  BY <1>1, <1>2 DEF Within
<1> QED BY <1>1, <1>3, <1>4 DEF WithinLimits

LEMMA TotalIsSum ==
  /\ TotalBytes = SumFunctionOnSet(SizeOf, Files)
  /\ TotalBytes' = SumFunctionOnSet(SizeOf', Files')
<1>1. DOMAIN SizeOf = Files /\ TotalBytes = SumFunctionOnSet(SizeOf, DOMAIN SizeOf)
  BY DEF TotalBytes, SumFunction, SizeOf
<1>2. DOMAIN SizeOf' = Files' /\ TotalBytes' = SumFunctionOnSet(SizeOf', DOMAIN SizeOf')
  BY DEF TotalBytes, SumFunction, SizeOf
<1> QED BY <1>1, <1>2

LEMMA TailSweepsLater ==
  ASSUME CallType, todo # <<>>, NEW c, SweepsLater(todo, c)
  PROVE  /\ Tail(todo) \in Seq(Op) /\ SweepsLater(Tail(todo), c)
         /\ Removed(todo) = Removed(Tail(todo)) \cup (IF Head(todo).op = "remove" THEN {Target} ELSE {})
         /\ HasSweep(todo) => Head(todo).op = "sweep" \/ HasSweep(Tail(todo))
         /\ \/ Head(todo).op \in {"remove", "sweep"}
            \/ c = Startup /\ Head(todo).op = "open" /\ Tail(todo) = <<>>
            \/ HasSweep(Tail(todo))
<1> DEFINE t == Tail(todo)
<1>1. /\ t \in Seq(Op) /\ Len(t) = Len(todo) - 1 /\ Len(todo) \in Nat \ {0}
      /\ \A k \in 1 .. Len(todo) - 1 : t[k] = todo[k + 1]
  BY HeadTailProperties, LenProperties, EmptySeq DEF CallType
<1>2. Head(todo) = todo[1] /\ 1 \in 1 .. Len(todo)
  BY HeadOfTodo
<1> HIDE DEF t
<1>3. \A k \in 1 .. Len(t) : k + 1 \in 1 .. Len(todo) /\ t[k] = todo[k + 1]
  BY <1>1
<1>4. \A k \in 1 .. Len(todo) : k # 1 => k - 1 \in 1 .. Len(t) /\ todo[k] = t[k - 1]
  BY <1>1
<1>5. SweepsLater(t, c)
  <2> SUFFICES ASSUME NEW k \in 1 .. Len(t)
               PROVE  \/ t[k].op \in {"remove", "sweep"}
                      \/ c = Startup /\ t[k].op = "open" /\ k = Len(t)
                      \/ \E j \in k + 1 .. Len(t) : t[j].op = "sweep"
    BY DEF SweepsLater
  <2>1. CASE \E j \in (k + 1) + 1 .. Len(todo) : todo[j].op = "sweep"
    <3>1. PICK j \in (k + 1) + 1 .. Len(todo) : todo[j].op = "sweep"
      BY <2>1
    <3>2. j - 1 \in k + 1 .. Len(t) /\ t[j - 1] = todo[j]
      BY <1>1, <1>4, <3>1
    <3> QED BY <3>1, <3>2
  <2>2. CASE ~ \E j \in (k + 1) + 1 .. Len(todo) : todo[j].op = "sweep"
    <3>1. k + 1 = Len(todo) => k = Len(t)
      BY <1>1
    <3> QED BY <1>3, <2>2, <3>1 DEF SweepsLater
  <2> QED BY <2>1, <2>2
<1>6. Removed(todo) = Removed(t) \cup (IF Head(todo).op = "remove" THEN {Target} ELSE {})
  <2>1. ASSUME NEW n PROVE n \in Removed(t) => n \in Removed(todo)
    BY <1>3 DEF Removed
  <2>2. Head(todo).op = "remove" => Target \in Removed(todo)
    BY <1>2 DEF Removed, Target
  <2>3. ASSUME NEW n \in Removed(todo) PROVE n \in Removed(t) \/ (Head(todo).op = "remove" /\ n = Target)
    <3>1. PICK k \in 1 .. Len(todo) : todo[k].op = "remove" /\ n = todo[k].name
      BY DEF Removed
    <3>2. CASE k = 1
      BY <1>2, <3>1, <3>2 DEF Target
    <3>3. CASE k # 1
      BY <1>4, <3>1, <3>3 DEF Removed
    <3> QED BY <3>2, <3>3
  <2> QED BY <2>1, <2>2, <2>3
<1>7. HasSweep(todo) => Head(todo).op = "sweep" \/ HasSweep(t)
  <2> SUFFICES ASSUME NEW k \in 1 .. Len(todo), todo[k].op = "sweep"
               PROVE  Head(todo).op = "sweep" \/ HasSweep(t)
    BY DEF HasSweep
  <2> QED BY <1>2, <1>4 DEF HasSweep
<1>8. \/ Head(todo).op \in {"remove", "sweep"}
      \/ c = Startup /\ Head(todo).op = "open" /\ t = <<>>
      \/ HasSweep(t)
  <2>1. CASE \E j \in 1 + 1 .. Len(todo) : todo[j].op = "sweep"
    <3>1. PICK j \in 1 + 1 .. Len(todo) : todo[j].op = "sweep"
      BY <2>1
    <3>2. j - 1 \in 1 .. Len(t) /\ t[j - 1] = todo[j]
      BY <1>1, <3>1
    <3> QED BY <3>1, <3>2 DEF HasSweep
  <2>2. CASE ~ \E j \in 1 + 1 .. Len(todo) : todo[j].op = "sweep"
    <3>1. 1 = Len(todo) => t = <<>>
      BY <1>1, EmptySeq
    <3> QED BY <1>2, <2>2, <3>1 DEF SweepsLater
  <2> QED BY <2>1, <2>2
<1> QED BY <1>1, <1>5, <1>6, <1>7, <1>8 DEF t

LEMMA ConcatSweepsLater ==
  ASSUME NEW a \in Seq(Op), NEW b \in Seq(Op), NEW c, SweepsLater(b, c),
         HasSweep(b) \/ \A k \in 1 .. Len(a) : a[k].op = "remove"
  PROVE  /\ SweepsLater(a \o b, c)
         /\ HasSweep(b) => HasSweep(a \o b)
<1> DEFINE s == a \o b
<1>1. /\ s \in Seq(Op) /\ Len(s) = Len(a) + Len(b) /\ Len(a) \in Nat /\ Len(b) \in Nat
      /\ \A k \in 1 .. Len(s) : s[k] = IF k <= Len(a) THEN a[k] ELSE b[k - Len(a)]
  BY ConcatProperties, LenProperties
<1> HIDE DEF s
<1>2. \A k \in 1 .. Len(b) : Len(a) + k \in 1 .. Len(s) /\ s[Len(a) + k] = b[k]
  <2> TAKE k \in 1 .. Len(b)
  <2>1. Len(a) + k \in 1 .. Len(s) /\ ~ (Len(a) + k <= Len(a)) /\ (Len(a) + k) - Len(a) = k
    BY <1>1
  <2> QED BY <1>1, <2>1
<1>3. ASSUME NEW k \in 1 .. Len(s)
      PROVE  \/ s[k].op \in {"remove", "sweep"}
             \/ c = Startup /\ s[k].op = "open" /\ k = Len(s)
             \/ \E j \in k + 1 .. Len(s) : s[j].op = "sweep"
  <2>1. CASE k <= Len(a) /\ HasSweep(b)
    <3>1. PICK j \in 1 .. Len(b) : b[j].op = "sweep"
      BY <2>1 DEF HasSweep
    <3>2. Len(a) + j \in k + 1 .. Len(s)
      BY <1>1, <2>1
    <3> QED BY <1>2, <3>1, <3>2
  <2>2. CASE k <= Len(a) /\ ~ HasSweep(b)
    <3>1. k \in 1 .. Len(a)
      BY <1>1, <2>2
    <3> QED BY <1>1, <2>2, <3>1
  <2>3. CASE k > Len(a)
    <3>1. PICK i \in 1 .. Len(b) : k = Len(a) + i
      <4>1. k - Len(a) \in 1 .. Len(b) /\ k = Len(a) + (k - Len(a))
        BY <1>1, <2>3
      <4> QED BY <4>1
    <3>2. s[k] = b[i] /\ (i = Len(b) => k = Len(s))
      BY <1>1, <1>2, <3>1
    <3>3. ASSUME NEW j \in i + 1 .. Len(b), b[j].op = "sweep"
          PROVE  \E m \in k + 1 .. Len(s) : s[m].op = "sweep"
      <4>1. j \in 1 .. Len(b) /\ Len(a) + j \in k + 1 .. Len(s)
        BY <1>1, <3>1
      <4> QED BY <1>2, <3>3, <4>1
    <3> QED BY <3>2, <3>3 DEF SweepsLater
  <2> QED BY <1>1, <2>1, <2>2, <2>3
<1>4. SweepsLater(s, c)
  BY <1>3 DEF SweepsLater
<1>5. HasSweep(b) => HasSweep(s)
  BY <1>2 DEF HasSweep
<1> QED BY <1>4, <1>5 DEF s

\* What a call goes on with keeps the invariant, if the files are within the limits
\* once all it is to remove is gone and nothing is listed any more.
LEMMA GoesOn ==
  ASSUME LimitsHold, CallType, todo # <<>>, NEW rest \in Seq(Op), Proceed(rest), SweepsLater(rest, caller),
         ~ HasSweep(rest) => (Within(Files \ Removed(todo)))'
  PROVE  LimitsHold'
<1>1. /\ todo' = rest /\ caller' = (IF rest = <<>> THEN NoCaller ELSE caller)
      /\ result' = (IF rest # <<>> THEN result ELSE IF caller = Startup THEN "started" ELSE "ok")
  BY DEF Proceed
<1>2. result \notin {"ok", "started"}
  BY DEF LimitsHold
<1>3. CASE rest # <<>>
  BY <1>1, <1>2, <1>3 DEF LimitsHold
<1>4. CASE rest = <<>>
  <2>1. Len(rest) = 0 /\ 1 .. Len(rest) = {} /\ ~ HasSweep(rest) /\ Removed(rest) = {}
    BY <1>4 DEF HasSweep, Removed
  <2>2. (Within(Files))'
    <3>1. Files' \ Removed(todo') = Files'
      BY <1>1, <2>1
    <3> QED BY <2>1, <3>1 DEF Within
  <2>3. TotalBytes' = SumFunctionOnSet(SizeOf', Files')
    BY TotalIsSum
  <2>4. WithinLimits'
    <3>1. IsFiniteSet(Files')
      <4>1. Files' \in SUBSET Name
        BY DEF Files
      <4> QED BY <4>1, NameIsFinite, FS_Subset
    <3>2. Cardinality(Files') <= MaxFiles => Cardinality(Files') <= MaxFiles + 1
      BY <3>1, FS_CardinalityType, ConstantsAreNumbers
    <3> QED BY <2>2, <2>3, <3>2 DEF Within, WithinLimits
  <2>5. SweepsLater(todo', caller')
    BY <1>1, <2>1 DEF SweepsLater
  <2> QED BY <1>1, <1>4, <2>4, <2>5 DEF LimitsHold
<1> QED BY <1>3, <1>4

LEMMA RemoveFileFits ==
  ASSUME IInv, LimitsHold, RemoveFile
  PROVE  LimitsHold'
<1>1. FileType /\ CallType /\ todo # <<>> /\ Head(todo).op = "remove"
  BY DEF IInv, RemoveFile, Doing
<1>2. dir' = [dir EXCEPT ![Target] = NoFile] /\ Proceed(Tail(todo))
  BY DEF RemoveFile
<1>3. /\ Tail(todo) \in Seq(Op) /\ SweepsLater(Tail(todo), caller)
      /\ Removed(todo) = Removed(Tail(todo)) \cup {Target}
      /\ HasSweep(todo) => HasSweep(Tail(todo))
  BY <1>1, TailSweepsLater DEF LimitsHold
<1> DEFINE S == Files \ Removed(todo)
<1>4. Files' = Files \ {Target}
  BY <1>1, <1>2 DEF Files, Exists, FileType
<1>5. Files' \ Removed(Tail(todo)) = S
  BY <1>3, <1>4
<1>6. \A n \in S : dir'[n] = dir[n] /\ n \in Files /\ n \in Files'
  BY <1>1, <1>2, <1>3, <1>4 DEF FileType, Files
<1>7. ASSUME Within(S) PROVE (Within(Files \ Removed(todo)))'
  <2>1. IsFiniteSet(S)
    BY <1>1, FilesAreFinite, FS_Subset
  <2>2. \A n \in S : SizeOf[n] = SizeOf'[n] /\ Size(n)' = Size(n)
    BY <1>6 DEF SizeOf, Size
  <2> HIDE DEF S
  <2>3. SumFunctionOnSet(SizeOf, S) = SumFunctionOnSet(SizeOf', S)
    BY <2>1, <2>2, SumOfSame
  <2>4. Files' \ Removed(todo') = S
    BY <1>2, <1>5 DEF Proceed
  <2> QED BY <1>7, <2>2, <2>3, <2>4 DEF Within
<1>8. ~ HasSweep(Tail(todo)) => (Within(Files \ Removed(todo)))'
  BY <1>1, <1>3, <1>7 DEF LimitsHold
<1> QED BY <1>1, <1>2, <1>3, <1>8, GoesOn

\* An operation that another listing follows.
LEMMA ListsAgain ==
  ASSUME LimitsHold, CallType, todo # <<>>, Head(todo).op \notin {"remove", "sweep"},
         Head(todo).op = "open" => caller # Startup \/ Tail(todo) # <<>>,
         NEW first \in Seq(Op), Proceed(first \o Tail(todo))
  PROVE  LimitsHold'
<1>1. Tail(todo) \in Seq(Op) /\ SweepsLater(Tail(todo), caller) /\ HasSweep(Tail(todo))
  BY TailSweepsLater DEF LimitsHold
<1>2. /\ first \o Tail(todo) \in Seq(Op)
      /\ SweepsLater(first \o Tail(todo), caller) /\ HasSweep(first \o Tail(todo))
  BY <1>1, ConcatSweepsLater, ConcatProperties
<1> QED BY <1>2, GoesOn

LEMMA EmptyFirst ==
  ASSUME CallType, todo # <<>>
  PROVE  <<>> \in Seq(Op) /\ <<>> \o Tail(todo) = Tail(todo)
<1>1. Tail(todo) \in Seq(Op)
  BY HeadTailProperties DEF CallType
<1> QED BY <1>1, EmptySeq, ConcatEmptySeq

LEMMA CheckFits ==
  ASSUME IInv, LimitsHold, Check \/ Recheck
  PROVE  LimitsHold'
<1>1. CallType /\ todo # <<>> /\ Head(todo).op \in {"check", "recheck"}
  BY DEF IInv, Check, Recheck, Doing
<1>2. PICK first \in {Rotation, <<>>} : Proceed(first \o Tail(todo))
  BY DEF Check, Recheck
<1>3. first \in Seq(Op)
  BY RotationElements, EmptySeq
<1> QED BY <1>1, <1>2, <1>3, ListsAgain

LEMMA MoveFits ==
  ASSUME IInv, LimitsHold, Move \/ WriteAvailable
  PROVE  LimitsHold'
<1>1. CallType /\ todo # <<>> /\ Head(todo).op \in {"move", "append"} /\ Proceed(Tail(todo))
  BY DEF IInv, Move, WriteAvailable, Doing
<1>2. <<>> \in Seq(Op) /\ Proceed(<<>> \o Tail(todo))
  BY <1>1, EmptyFirst
<1> QED BY <1>1, <1>2, ListsAgain

\* new adds an empty current log to what it kept, if there was none.
LEMMA OpenFits ==
  ASSUME IInv, LimitsHold, Open
  PROVE  LimitsHold'
<1>1. FileType /\ CallType /\ todo # <<>> /\ Head(todo).op = "open"
  BY DEF IInv, Open, Doing
<1>2. /\ dir' = [dir EXCEPT ![Current] = IF @ = NoFile THEN [bytes |-> <<>>, modified |-> clock] ELSE @]
      /\ Proceed(Tail(todo))
  BY DEF Open
<1>3. CASE caller # Startup \/ Tail(todo) # <<>>
  <2>1. <<>> \in Seq(Op) /\ Proceed(<<>> \o Tail(todo))
    BY <1>1, <1>2, EmptyFirst
  <2> QED BY <1>1, <1>3, <2>1, ListsAgain
<1>4. CASE caller = Startup /\ Tail(todo) = <<>>
  <2>1. todo' = <<>> /\ result' = "started"
    BY <1>2, <1>4 DEF Proceed
  <2>2. Removed(todo) = {} /\ ~ HasSweep(todo)
    <3>1. Removed(<<>>) = {} /\ ~ HasSweep(<<>>)
      BY DEF Removed, HasSweep
    <3> QED BY <1>1, <1>4, <3>1, TailSweepsLater DEF LimitsHold
  <2>3. Within(Files)
    <3>1. Files \ Removed(todo) = Files
      BY <2>2
    <3> QED BY <1>1, <2>2, <3>1 DEF LimitsHold
  <2>4. Files' = Files \cup {Current} /\ Current \in Name
    <3>1. Current \in Name
      BY NamesOfRotation
    <3>2. [bytes |-> <<>>, modified |-> clock] # NoFile
      <4>1. [bytes |-> <<>>, modified |-> clock] \in File
        BY ConstantsAreNumbers, RetentionAssumption DEF IInv, LineType, File
      <4> QED BY <4>1, NoFileAssumption
    <3> QED BY <1>1, <1>2, <3>1, <3>2 DEF Files, Exists, FileType
  <2>5. \A n \in Files : Size(n)' = Size(n) /\ SizeOf'[n] = SizeOf[n]
    <3>1. \A n \in Files : dir'[n] = dir[n] /\ n \in Files'
      BY <1>1, <1>2, <2>4 DEF Files, Exists, FileType
    <3> QED BY <3>1 DEF SizeOf, Size
  <2>6. IsFiniteSet(Files) /\ Cardinality(Files) \in Nat /\ \A n \in Files : SizeOf'[n] \in Nat
    BY <1>1, <2>5, FilesAreFinite, FS_CardinalityType
  <2>7. SumFunctionOnSet(SizeOf', Files) = SumFunctionOnSet(SizeOf, Files)
    BY <2>5, <2>6, SumOfSame
  <2>8. TotalBytes' = SumFunctionOnSet(SizeOf', Files')
    BY TotalIsSum
  <2>9. CASE Current \in Files
    <3>1. Files' = Files
      BY <2>4, <2>9
    <3>2. Cardinality(Files') <= MaxFiles + 1
      BY <2>3, <2>6, <3>1, ConstantsAreNumbers DEF Within
    <3>3. \A n \in Files' : Size(n)' <= MaxFileBytes
      BY <2>3, <2>5, <3>1 DEF Within
    <3>4. TotalBytes' <= MaxTotalBytes
      BY <2>3, <2>7, <2>8, <3>1 DEF Within
    <3> QED BY <2>1, <3>2, <3>3, <3>4 DEF LimitsHold, WithinLimits, SweepsLater
  <2>10. CASE Current \notin Files
    <3>1. Size(Current)' = 0 /\ SizeOf'[Current] = 0
      <4>1. dir'[Current].bytes = <<>> /\ Current \in Files'
        BY <1>1, <1>2, <2>4, <2>10 DEF Files, Exists, FileType
      <4> QED BY <4>1, EmptySeq DEF Size, SizeOf
    <3>2. IsFiniteSet(Files \cup {Current}) /\ Cardinality(Files \cup {Current}) = Cardinality(Files) + 1
      BY <2>6, <2>10, FS_AddElement
    <3>3. Cardinality(Files') <= MaxFiles + 1
      BY <2>3, <2>4, <2>6, <3>2, ConstantsAreNumbers DEF Within
    <3>4. \A n \in Files' : Size(n)' <= MaxFileBytes
      BY <2>3, <2>4, <2>5, <3>1, ConstantsAreNumbers DEF Within
    <3>5. SumFunctionOnSet(SizeOf', Files \cup {Current}) = 0 + SumFunctionOnSet(SizeOf', Files)
      <4>1. \A n \in Files \cup {Current} : SizeOf'[n] \in Nat
        BY <2>6, <3>1
      <4>2. (Files \cup {Current}) \ {Current} = Files
        BY <2>10
      <4>3. PICK f : f = SizeOf'
        OBVIOUS
      <4> QED BY <3>1, <3>2, <4>1, <4>2, <4>3, SumOfAny
    <3>6. TotalBytes' <= MaxTotalBytes
      <4>1. SumFunctionOnSet(SizeOf, Files) \in Nat
        BY <1>1, FilesAreFinite, SumIsNatural
      <4> QED BY <2>3, <2>4, <2>7, <2>8, <3>5, <4>1 DEF Within
    <3> QED BY <2>1, <3>3, <3>4, <3>6 DEF LimitsHold, WithinLimits, SweepsLater
  <2> QED BY <2>9, <2>10
<1> QED BY <1>3, <1>4

\* cleanup_logs removes what does not fit.
LEMMA SweepFits ==
  ASSUME IInv, LimitsHold, Sweep
  PROVE  LimitsHold'
<1>0. PICK outdated, retained :
        /\ outdated = {n \in Name : Exists(n) /\ Outdated(n)}
        /\ retained = {n \in Name : Exists(n)} \ outdated
  OBVIOUS
<1>1. PICK hasCurrent \in BOOLEAN : hasCurrent = (Current \in retained)
  BY CurrentOrNot
<1>2. FileType /\ CallType /\ todo # <<>> /\ Head(todo).op = "sweep" /\ dir' = dir
  BY DEF IInv, Sweep, Doing
<1>3. PICK first \in SetToSeqs(outdated), order \in NewestFirst(retained \ {Current}) :
        Proceed(Removals(first \o OverLimit(order, hasCurrent)) \o Tail(todo))
  BY <1>0, <1>1 DEF Sweep, Removals
<1> DEFINE over == OverLimit(order, hasCurrent)
           doomed == first \o over
           t == Tail(todo)
           a == Removals(doomed)
           kept == retained \ Range(over)
<1>4. /\ retained \in SUBSET Files /\ retained \in SUBSET Name /\ outdated \in SUBSET Name
      /\ Files = retained \cup outdated
      /\ IsFiniteSet(retained)
      /\ \A n \in retained : Size(n) \in Nat /\ Size(n) = SizeOf[n] /\ Size(n) <= MaxFileBytes
  <2>1. retained \in SUBSET Files /\ outdated \in SUBSET Name /\ Files = retained \cup outdated
    BY <1>0 DEF Files
  <2>2. \A n \in retained : Size(n) \in Nat /\ Size(n) = SizeOf[n] /\ IsFiniteSet(Files) /\ Files \in SUBSET Name
    BY <1>2, <2>1, FilesAreFinite
  <2>3. \A n \in retained : ~ (Size(n) > MaxFileBytes)
    BY <1>0 DEF Outdated
  <2>4. IsFiniteSet(retained) /\ retained \in SUBSET Name
    BY <1>2, <2>1, FilesAreFinite, FS_Subset
  <2>5. \A n \in retained : Size(n) <= MaxFileBytes
    BY <2>2, <2>3, ConstantsAreNumbers
  <2> QED BY <2>1, <2>2, <2>4, <2>5
<1>5. /\ order \in Seq(retained \ {Current}) /\ Range(order) = retained \ {Current}
      /\ \A i, j \in 1 .. Len(order) : i # j => order[i] # order[j]
  <2>1. order \in SetToSeqs(retained \ {Current}) /\ retained \ {Current} \in SUBSET Name
    BY <1>3, <1>4 DEF NewestFirst
  <2> QED BY <2>1, ListedOnce, ListedWhole
<1>6. first \in Seq(outdated) /\ Range(first) = outdated
  BY <1>3, <1>4, ListedOnce, ListedWhole
<1>7. over \in Seq(retained \ {Current})
  <2>1. \A n \in retained \ {Current} : Size(n) \in Nat
    BY <1>4
  <2>2. hasCurrent => Size(Current) \in Nat
    BY <1>1, <1>4
  <2> QED BY <1>5, <2>1, <2>2, OverLimitIsOfOrder
<1>8. Cardinality(kept) <= MaxFiles /\ SumFunctionOnSet(SizeOf, kept) <= MaxTotalBytes
  <2>1. PICK f : f = SizeOf
    OBVIOUS
  <2>2. \A n \in retained : Size(n) \in Nat /\ Size(n) = f[n] /\ Size(n) <= MaxFileBytes
    BY <1>4, <2>1
  <2> QED BY <1>1, <1>4, <1>5, <2>1, <2>2, KeptFits
<1> HIDE DEF over
<1>9. doomed \in Seq(Name) /\ Range(doomed) = Range(first) \cup Range(over)
  <2>1. first \in Seq(Name) /\ over \in Seq(Name)
    BY <1>4, <1>6, <1>7, SeqMonotonic
  <2> QED BY <2>1, RangeOfConcat, ConcatProperties
<1> HIDE DEF doomed
<1>10. /\ a \in Seq(Op) /\ Len(a) = Len(doomed)
       /\ \A k \in 1 .. Len(a) : a[k].op = "remove" /\ a[k].name = doomed[k]
  BY <1>9, RemovalsAreWellOrdered
<1>11. t \in Seq(Op) /\ SweepsLater(t, caller)
  BY <1>2, TailSweepsLater DEF LimitsHold
<1> HIDE DEF a, t
<1>12. a \o t \in Seq(Op) /\ SweepsLater(a \o t, caller)
  BY <1>10, <1>11, ConcatSweepsLater, ConcatProperties
<1>13. Range(doomed) \subseteq Removed(a \o t)
  <2> SUFFICES ASSUME NEW k \in DOMAIN doomed PROVE doomed[k] \in Removed(a \o t)
    BY DEF Range
  <2>1. k \in 1 .. Len(a)
    BY <1>9, <1>10, LenProperties
  <2>2. k \in 1 .. Len(a \o t) /\ (a \o t)[k] = a[k]
    BY <1>10, <1>11, <2>1, ConcatProperties, LenProperties
  <2> QED BY <1>10, <2>1, <2>2 DEF Removed
<1>14. Within(Files \ Removed(a \o t))
  <2> DEFINE R == Files \ Removed(a \o t)
  <2>1. R \in SUBSET kept
    BY <1>4, <1>6, <1>9, <1>13
  <2>2. \A n \in R : Size(n) <= MaxFileBytes
    BY <1>4, <2>1
  <2> HIDE DEF R
  <2>3. kept \in SUBSET Files
    BY <1>4
  <2> HIDE DEF kept
  <2>4. Within(R)
    BY <1>2, <1>8, <2>1, <2>2, <2>3, FewerFit
  <2> QED BY <2>4 DEF R
<1>15. Proceed(a \o t) /\ todo' = a \o t
  BY <1>3 DEF a, t, doomed, over, Proceed
<1>16. (Within(Files \ Removed(todo)))'
  <2>1. Files' = Files /\ \A S : Within(S)' <=> Within(S)
    BY <1>2, SameFilesFit
  <2>2. SizeOf' = SizeOf /\ \A n : Size(n)' = Size(n)
    BY <1>2 DEF SizeOf, Size, Files, Exists
  <2> QED BY <1>14, <1>15, <2>1, <2>2 DEF Within
<1> QED BY <1>2, <1>12, <1>15, <1>16, GoesOn

\* A call begins with operations that another listing follows.
LEMMA EnteredFits ==
  ASSUME todo' # <<>>, result' = "none", SweepsLater(todo', caller'), HasSweep(todo')
  PROVE  LimitsHold'
BY DEF LimitsHold

LEMMA LogFits ==
  ASSUME \/ \E w \in Writer : LogRest(w) \/ \E n \in LineLength : Log(w, n)
  PROVE  LimitsHold'
<1>1. todo' = WriteCall /\ result' = "none"
  BY DEF LogRest, Log, Enter
<1>2. Len(WriteCall) = 4 /\ WriteCall[4].op = "sweep" /\ WriteCall # <<>>
  BY DEF WriteCall, Do
<1>3. HasSweep(WriteCall) /\ SweepsLater(WriteCall, caller')
  <2>1. \A k \in 1 .. Len(WriteCall) : k = 4 \/ 4 \in k + 1 .. Len(WriteCall)
    BY <1>2
  <2> QED BY <1>2, <2>1 DEF HasSweep, SweepsLater
<1> QED BY <1>1, <1>2, <1>3, EnteredFits

LEMMA MaintainFits ==
  ASSUME Maintain
  PROVE  LimitsHold'
<1> DEFINE ops == <<Do("recheck"), Do("sweep")>>
<1>1. todo' = ops /\ result' = "none"
  BY DEF Maintain, Enter
<1>2. Len(ops) = 2 /\ ops[2].op = "sweep" /\ ops # <<>>
  BY DEF Do
<1> HIDE DEF ops
<1>3. HasSweep(ops) /\ SweepsLater(ops, caller')
  <2>1. \A k \in 1 .. Len(ops) : k = 2 \/ 2 \in k + 1 .. Len(ops)
    BY <1>2
  <2> QED BY <1>2, <2>1 DEF HasSweep, SweepsLater
<1> QED BY <1>1, <1>2, <1>3, EnteredFits

LEMMA StartFits ==
  ASSUME Start
  PROVE  LimitsHold'
<1> DEFINE ops == <<Do("sweep"), Do("open")>>
<1>1. todo' = ops /\ result' = "none" /\ caller' = Startup
  BY DEF Start
<1>2. Len(ops) = 2 /\ ops[1].op = "sweep" /\ ops[2].op = "open" /\ ops # <<>>
  BY DEF Do
<1> HIDE DEF ops
<1>3. HasSweep(ops) /\ SweepsLater(ops, caller')
  <2>1. \A k \in 1 .. Len(ops) : k = 1 \/ k = 2
    BY <1>2
  <2> QED BY <1>1, <1>2, <2>1 DEF HasSweep, SweepsLater
<1> QED BY <1>1, <1>2, <1>3, EnteredFits

\* A call that fails promises nothing.
LEMMA FailFits ==
  ASSUME Fail \/ Crash
  PROVE  LimitsHold'
<1>1. todo' = <<>> /\ result' \in {"none", "error"}
  BY DEF Fail, Crash
<1>2. SweepsLater(<<>>, caller')
  BY DEF SweepsLater
<1> QED BY <1>1, <1>2 DEF LimitsHold

LEMMA TimeFits ==
  ASSUME LimitsHold, UNCHANGED <<dir, caller, todo, result>>
  PROVE  LimitsHold'
<1>1. /\ Files' = Files /\ SizeOf' = SizeOf /\ \A n : Size(n)' = Size(n)
      /\ WithinLimits' <=> WithinLimits
  BY SameFilesFit DEF SizeOf, Size, Files, Exists
<1>2. (Within(Files \ Removed(todo)))' <=> Within(Files \ Removed(todo))
  BY <1>1 DEF Within
<1> QED BY <1>1, <1>2 DEF LimitsHold

LEMMA LimitsStep ==
  IInv /\ LimitsHold /\ [Next]_vars => LimitsHold'
<1> SUFFICES ASSUME IInv, LimitsHold, [Next]_vars PROVE LimitsHold'
  OBVIOUS
<1>1. CASE Call
  BY <1>1, RemoveFileFits, MoveFits, OpenFits, SweepFits, CheckFits DEF Call
<1>2. CASE Maintain \/ Start \/ Fail \/ Crash
  BY <1>2, MaintainFits, StartFits, FailFits
<1>3. CASE Tick \/ UNCHANGED vars
  BY <1>3, TimeFits DEF Tick, vars
<1>4. CASE \E w \in Writer : LogRest(w) \/ \E n \in LineLength : Log(w, n)
  BY <1>4, LogFits
<1> QED BY <1>1, <1>2, <1>3, <1>4 DEF Next

LEMMA LimitsInit ==
  Init => LimitsHold
<1> SUFFICES ASSUME Init PROVE LimitsHold
  OBVIOUS
<1>1. todo = <<>> /\ result = "none"
  BY DEF Init
<1> QED BY <1>1 DEF LimitsHold, SweepsLater

-----------------------------------------------------------------------------
(***************************************************************************)
(* The theorems.                                                           *)
(***************************************************************************)
\* The state of the writer and of the log directory is what the code can store:
\* above all, the file that is open is in the directory under its name or has none,
\* and it never exceeds max_file_bytes, whatever the lengths of the lines.
THEOREM TypeCorrect ==
  Spec => []TypeOK
<1>1. IInv => TypeOK
  BY TypeParts DEF IInv
<1> QED BY <1>1, InductiveInvariant, PTL

\* RotatingLogWriter: the files of the directory hold what was written in its
\* order and none of it twice, for any retention settings, any number of failed
\* operations, crashes and restarts; and under settings and within a time in which
\* nothing expires, none of the bytes is missing between the oldest that is kept
\* and the newest but those of files an earlier Core left larger than allowed.
THEOREM LogAlwaysInOrder ==
  Spec => []LogInOrder
<1>1. IInv => LogInOrder
  BY DEF IInv, NothingLost, LogInOrder
<1> QED BY <1>1, InductiveInvariant, PTL

\* LogState::write: when a write reaches the file there is room for it, for a whole
\* line if a line fits into a file at all.
THEOREM LineAlwaysFits ==
  Spec => []LineFits
<1>1. IInv => LineFits
  BY DEF IInv
<1> QED BY <1>1, InductiveInvariant, PTL

\* RotatingLogWriter: after a write, a turn of the maintenance thread or a start that
\* succeeds the directory is within max_files, max_total_bytes and max_file_bytes, but
\* for the new current log of a start, for any settings, whichever of the files an
\* earlier Core left there at whatever size, and whatever failed before.
THEOREM AlwaysWithinLimits ==
  Spec => []WithinLimits
<1>1. LimitsHold => WithinLimits
  BY DEF LimitsHold, WithinLimits
<1> QED BY <1>1, InductiveInvariant, LimitsInit, LimitsStep, PTL DEF Spec

=============================================================================
