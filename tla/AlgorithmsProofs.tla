-------------------------- MODULE AlgorithmsProofs --------------------------
(***************************************************************************)
(* Proofs about the pure parts of the program, for inputs of any length:   *)
(* the loop over a request is the closed form that Installer uses, texts   *)
(* and settings are rewritten as promised, and listings and plans agree.   *)
(*                                                                         *)
(* Induction: the theorems of the library about it take a predicate as a   *)
(* parameter; here the numbers for which something holds are a set, which  *)
(* is all of Nat because its complement would have a least element.        *)
(***************************************************************************)
EXTENDS MCAlgorithms, SequenceTheorems, FiniteSetTheorems, WellFoundedInduction, TLAPS

-----------------------------------------------------------------------------
(* Induction, and the largest and the least number of a set.               *)

LEMMA LeastElement ==
  ASSUME NEW T \in SUBSET Nat, T # {}
  PROVE  \E n \in T : \A m \in T : n <= m
<1> DEFINE Less == {pair \in Nat \X Nat : pair[1] < pair[2]}
<1>1. IsWellFoundedOn(Less, Nat)
  BY NatLessThanWellFounded DEF OpToRel
<1> HIDE DEF Less
<1>2. PICK n \in T : \A m \in T : ~(<<m, n>> \in Less)
  BY <1>1, WFMin
<1>3. ASSUME NEW m \in T PROVE n <= m
  <2>1. n \in Nat /\ m \in Nat
    OBVIOUS
  <2>2. ~(m < n)
    BY <1>2, <2>1 DEF Less
  <2> QED BY <2>1, <2>2
<1> QED BY <1>3

LEMMA Induction ==
  ASSUME NEW T, 0 \in T, \A n \in Nat : n \in T => n + 1 \in T
  PROVE  Nat \subseteq T
<1> SUFFICES ASSUME Nat \ T # {} PROVE FALSE
  OBVIOUS
<1>1. PICK n \in Nat \ T : \A m \in Nat \ T : n <= m
  BY LeastElement
<1>2. n - 1 \in Nat /\ n = (n - 1) + 1
  BY <1>1
<1> QED BY <1>1, <1>2

\* Up to a bound: n in a set of numbers up to N.
LEMMA InductionUpTo ==
  ASSUME NEW N \in Nat, NEW T, 0 \in T, \A n \in 1..N : n - 1 \in T => n \in T
  PROVE  \A n \in 0..N : n \in T
<1> DEFINE S == {n \in Nat : n <= N => n \in T}
<1>1. 0 \in S
  OBVIOUS
<1>2. ASSUME NEW n \in Nat, n \in S PROVE n + 1 \in S
  <2>1. SUFFICES ASSUME n + 1 <= N PROVE n + 1 \in T
    OBVIOUS
  <2>2. n \in T /\ n + 1 \in 1..N /\ (n + 1) - 1 = n
    BY <1>2, <2>1
  <2> QED BY <2>2
<1> HIDE DEF S
<1>3. Nat \subseteq S
  BY <1>1, <1>2, Induction
<1> QED BY <1>3 DEF S

LEMMA MinOf ==
  ASSUME NEW S \in SUBSET Nat, S # {}
  PROVE  Min(S) \in S /\ \A m \in S : Min(S) <= m
BY LeastElement DEF Min

LEMMA MaxOf ==
  ASSUME NEW N \in Nat, NEW S \in SUBSET (0..N), S # {}
  PROVE  Max(S) \in S /\ \A m \in S : Max(S) >= m
<1> DEFINE Above == {N - m : m \in S}
<1>1. Above \in SUBSET Nat /\ Above # {}
  <2>1. ASSUME NEW m \in S PROVE N - m \in Nat
    <3>1. m \in 0..N
      OBVIOUS
    <3> QED BY <3>1
  <2> QED BY <2>1
<1>2. PICK a \in Above : \A b \in Above : a <= b
  BY <1>1, LeastElement
<1>3. PICK n \in S : a = N - n
  BY <1>2
<1>4. ASSUME NEW m \in S PROVE n >= m
  <2>1. n \in 0..N /\ m \in 0..N
    OBVIOUS
  <2>2. N - n <= N - m
    BY <1>2, <1>3
  <2> QED BY <2>1, <2>2
<1> QED BY <1>3, <1>4 DEF Max

LEMMA MaxOfSegment ==
  ASSUME NEW n \in Nat \ {0}
  PROVE  /\ Max(1..n) = n
         /\ (1..n) \ {n} = 1..(n - 1)
<1>1. 1..n \in SUBSET (0..n) /\ n \in 1..n
  OBVIOUS
<1>2. Max(1..n) \in 1..n /\ \A m \in 1..n : Max(1..n) >= m
  <2> HIDE DEF Max
  <2> QED BY <1>1, MaxOf
<1>3. Max(1..n) >= n /\ Max(1..n) <= n /\ Max(1..n) \in Int
  BY <1>1, <1>2
<1> QED BY <1>3

-----------------------------------------------------------------------------
(* Folds: there is a function that satisfies the equation of                *)
(* MapThenFoldSet, for a step that is given as a function.                  *)

LEMMA FoldExists ==
  ASSUME NEW N \in Nat, NEW T, NEW b \in T, NEW F \in [T \X (1..N) -> T]
  PROVE  \E g \in [SUBSET (1..N) -> T] :
           /\ \A s \in SUBSET (1..N) : g[s] = IF s = {} THEN b ELSE F[<<g[s \ {Max(s)}], Max(s)>>]
           /\ \A s \in SUBSET (1..N) : s # {} => g[s \ {Max(s)}] \in T /\ Max(s) \in 1..N
<1> DEFINE Good(g, n) ==
             /\ g \in [SUBSET (1..n) -> T]
             /\ \A s \in SUBSET (1..n) :
                  g[s] = IF s = {} THEN b ELSE F[<<g[s \ {Max(s)}], Max(s)>>]
           S == {n \in 0..N : \E g : Good(g, n)}
<1>1. 0 \in S
  <2> DEFINE f == [s \in SUBSET (1..0) |-> b]
  <2>1. f \in [SUBSET (1..0) -> T]
    OBVIOUS
  <2>2. ASSUME NEW s \in SUBSET (1..0) PROVE s = {} /\ f[s] = b
    OBVIOUS
  <2>3. Good(f, 0)
    BY <2>1, <2>2
  <2>4. 0 \in 0..N
    OBVIOUS
  <2> HIDE DEF Good, f
  <2> QED BY <2>3, <2>4
<1>2. ASSUME NEW n \in 1..N, n - 1 \in S PROVE n \in S
  <2>1. PICK g : Good(g, n - 1)
    BY <1>2
  <2> DEFINE f == [s \in SUBSET (1..n) |->
                     IF n \in s THEN F[<<g[s \ {n}], n>>] ELSE g[s]]
  <2>2. ASSUME NEW s \in SUBSET (1..n), n \in s
        PROVE  s \ {n} \in SUBSET (1..(n - 1)) /\ Max(s) = n /\ f[s] \in T
    <3>1. s \ {n} \in SUBSET (1..(n - 1))
      BY <2>2
    <3>2. s \in SUBSET (0..n) /\ s # {} /\ n \in Nat
      BY <2>2
    <3>3. Max(s) \in 1..n /\ Max(s) >= n
      BY <2>2, <3>2, MaxOf
    <3>4. Max(s) = n
      BY <3>3
    <3>5. g[s \ {n}] \in T
      BY <2>1, <3>1
    <3>6. F[<<g[s \ {n}], n>>] \in T
      BY <3>5
    <3> QED BY <2>2, <3>1, <3>4, <3>6
  <2>3. ASSUME NEW s \in SUBSET (1..n), n \notin s
        PROVE  s \in SUBSET (1..(n - 1)) /\ f[s] = g[s] /\ f[s] \in T
    BY <2>1, <2>3
  <2>4. f \in [SUBSET (1..n) -> T]
    BY <2>2, <2>3
  <2>5. ASSUME NEW s \in SUBSET (1..n)
        PROVE  f[s] = IF s = {} THEN b ELSE F[<<f[s \ {Max(s)}], Max(s)>>]
    <3>1. CASE n \in s
      <4>1. s \ {n} \in SUBSET (1..n) /\ n \notin s \ {n}
        OBVIOUS
      <4>2. f[s \ {n}] = g[s \ {n}]
        BY <4>1, <2>3
      <4> QED BY <3>1, <2>2, <4>2
    <3>2. CASE n \notin s /\ s # {}
      <4>1. s \in SUBSET (0..n) /\ n \in Nat
        OBVIOUS
      <4>2. f[s \ {Max(s)}] = g[s \ {Max(s)}]
        BY <3>2
      <4>3. g[s] = F[<<g[s \ {Max(s)}], Max(s)>>]
        BY <3>2, <2>3, <2>1
      <4> QED BY <3>2, <2>3, <4>2, <4>3
    <3>3. CASE s = {}
      BY <3>3, <2>3, <2>1
    <3> QED BY <3>1, <3>2, <3>3
  <2>6. Good(f, n)
    BY <2>4, <2>5
  <2>7. n \in 0..N
    OBVIOUS
  <2> HIDE DEF Good, f
  <2> QED BY <2>6, <2>7
<1> HIDE DEF S
<1>3. N \in S
  BY <1>1, <1>2, InductionUpTo
<1>4. PICK g : Good(g, N)
  BY <1>3 DEF S
<1>5. ASSUME NEW s \in SUBSET (1..N), s # {}
      PROVE  g[s \ {Max(s)}] \in T /\ Max(s) \in 1..N
  <2>1. s \in SUBSET (0..N)
    OBVIOUS
  <2>2. Max(s) \in s
    BY <1>5, <2>1, MaxOf
  <2>3. s \ {Max(s)} \in SUBSET (1..N)
    OBVIOUS
  <2> QED BY <1>4, <2>2, <2>3
<1> QED BY <1>4, <1>5

\* Initial segments of the indices, one index after another.
LEMMA Segments ==
  ASSUME NEW N \in Nat
  PROVE  /\ 1..0 = {} /\ {} \in SUBSET (1..N)
         /\ \A k \in 1..N : /\ 1..k # {} /\ 1..k \in SUBSET (1..N)
                            /\ Max(1..k) = k
                            /\ (1..k) \ {k} = 1..(k - 1)
<1>1. 1..0 = {} /\ {} \in SUBSET (1..N)
  OBVIOUS
<1>2. ASSUME NEW k \in 1..N
      PROVE  /\ 1..k # {} /\ 1..k \in SUBSET (1..N)
             /\ Max(1..k) = k
             /\ (1..k) \ {k} = 1..(k - 1)
  <2>1. k \in Nat \ {0} /\ k \in 1..k /\ \A j \in 1..k : j \in 1..N
    OBVIOUS
  <2>2. Max(1..k) = k /\ (1..k) \ {k} = 1..(k - 1)
    BY <2>1, MaxOfSegment
  <2> QED BY <2>1, <2>2
<1> QED BY <1>1, <1>2

LEMMA PrefixOneMore ==
  ASSUME NEW S, NEW seq \in Seq(S), NEW k \in 1..Len(seq)
  PROVE  SubSeq(seq, 1, k) = Append(SubSeq(seq, 1, k - 1), seq[k])
<1>1. Len(seq) \in Nat /\ k \in Nat /\ k - 1 \in 0..Len(seq)
  BY LenProperties
<1>2. SubSeq(seq, 1, k) = SubSeq(seq, 1, k - 1) \o <<seq[k]>>
  BY <1>1, SubSeqRecursiveSecond
<1>3. SubSeq(seq, 1, k - 1) \in Seq(S) /\ seq[k] \in S
  BY <1>1, SubSeqProperties, ElementOfSeq
<1> QED BY <1>2, <1>3, AppendIsConcat

\* A fold over 1..N that starts at b and whose step G is F where F is defined.
Folds(fold, N, T, b, F, G) ==
  /\ N \in Nat /\ b \in T /\ F \in [T \X (1..N) -> T]
  /\ \A s \in SUBSET (1..N) : fold[s] = IF s = {} THEN b ELSE G[s]
  /\ \A s \in SUBSET (1..N) : s # {} /\ fold[s \ {Max(s)}] \in T =>
                               G[s] = F[<<fold[s \ {Max(s)}], Max(s)>>]

\* Its values on the initial segments are those of a loop.
LEMMA FoldIsLoop ==
  ASSUME NEW fold, NEW N, NEW T, NEW b, NEW F, NEW G, Folds(fold, N, T, b, F, G)
  PROVE  \E h \in [0..N -> T] :
           /\ h[0] = b
           /\ \A k \in 1..N : h[k] = F[<<h[k - 1], k>>]
           /\ h[N] = fold[1..N]
<1> DEFINE h == [k \in 0..N |-> fold[1..k]]
           S == {k \in 0..N : h[k] \in T}
<1>0. /\ N \in Nat /\ b \in T /\ F \in [T \X (1..N) -> T]
      /\ \A s \in SUBSET (1..N) : fold[s] = IF s = {} THEN b ELSE G[s]
      /\ \A s \in SUBSET (1..N) : s # {} /\ fold[s \ {Max(s)}] \in T =>
                                   G[s] = F[<<fold[s \ {Max(s)}], Max(s)>>]
  BY DEF Folds
<1>1. h[0] = b
  BY <1>0, Segments
<1>2. ASSUME NEW k \in 1..N, h[k - 1] \in T PROVE h[k] = F[<<h[k - 1], k>>]
  <2>1. /\ 1..k # {} /\ 1..k \in SUBSET (1..N)
        /\ Max(1..k) = k /\ (1..k) \ {k} = 1..(k - 1)
    BY <1>0, Segments
  <2>2. k \in 0..N /\ k - 1 \in 0..N
    BY <1>0
  <2>3. fold[(1..k) \ {Max(1..k)}] = h[k - 1]
    BY <2>1, <2>2
  <2>4. fold[1..k] = F[<<fold[(1..k) \ {Max(1..k)}], Max(1..k)>>]
    BY <1>0, <1>2, <2>1, <2>3
  <2> QED BY <2>1, <2>2, <2>3, <2>4
<1>3. h[N] = fold[1..N]
  <2>1. N \in 0..N
    BY <1>0
  <2> QED BY <2>1
<1> HIDE DEF h
<1>4. 0 \in S
  BY <1>0, <1>1
<1>5. ASSUME NEW k \in 1..N, k - 1 \in S PROVE k \in S
  <2>1. h[k] = F[<<h[k - 1], k>>] /\ h[k - 1] \in T
    BY <1>2, <1>5
  <2> QED BY <1>0, <2>1
<1> HIDE DEF S
<1>6. \A k \in 0..N : k \in S
  BY <1>0, <1>4, <1>5, InductionUpTo
<1>7. \A k \in 0..N : h[k] \in T
  BY <1>6 DEF S
<1>8. h \in [0..N -> T]
  BY <1>7 DEF h
<1>9. ASSUME NEW k \in 1..N PROVE h[k] = F[<<h[k - 1], k>>]
  <2>1. k - 1 \in 0..N
    BY <1>0
  <2> QED BY <1>2, <1>7, <2>1
<1> QED BY <1>1, <1>3, <1>8, <1>9

-----------------------------------------------------------------------------
(* Reconcile: the loop over the selections is the closed form.             *)

LEMMA ReplaceRecordType ==
  ASSUME NEW pk \in Packages, NEW s \in Selections
  PROVE  ReplaceRecord(pk, s) \in Packages
<1> DEFINE kept == {n \in DOMAIN pk : pk[n].module # s.module}
           f == [n \in kept \cup {s.name} |-> IF n = s.name THEN RecordOf(s) ELSE pk[n]]
<1>1. PICK N \in SUBSET Names : pk \in [N -> PackageRecords]
  BY DEF Packages
<1>2. RecordOf(s) \in PackageRecords /\ s.name \in Names
  BY DEF RecordOf, Selections, PackageRecords
<1>3. kept \cup {s.name} \in SUBSET Names
  BY <1>1, <1>2
<1>4. f \in [kept \cup {s.name} -> PackageRecords]
  BY <1>1, <1>2
<1>5. f \in Packages
  BY <1>3, <1>4 DEF Packages
<1> QED BY <1>5 DEF ReplaceRecord

LEMMA RecordLoopSteps ==
  ASSUME NEW pk \in Packages, NEW sels \in Seq(Selections)
  PROVE  \E h \in [0..Len(sels) -> Packages] :
           /\ h[0] = pk
           /\ \A k \in 1..Len(sels) : h[k] = ReplaceRecord(h[k - 1], sels[k])
           /\ h[Len(sels)] = RecordLoop(pk, sels)
<1> DEFINE N == Len(sels)
           F == [pair \in Packages \X (1..N) |-> ReplaceRecord(pair[1], sels[pair[2]])]
           fold[s \in SUBSET DOMAIN sels] ==
             IF s = {} THEN pk ELSE ReplaceRecord(fold[s \ {Max(s)}], sels[Max(s)])
           Step(g) == [s \in SUBSET DOMAIN sels |->
                         IF s = {} THEN pk ELSE ReplaceRecord(g[s \ {Max(s)}], sels[Max(s)])]
<1>1. N \in Nat /\ DOMAIN sels = 1..N /\ \A k \in 1..N : sels[k] \in Selections
  BY LenProperties, ElementOfSeq
<1>2. RecordLoop(pk, sels) = fold[DOMAIN sels]
  BY DEF RecordLoop, FoldLeft, MapThenFoldSet
<1>3. ASSUME NEW x \in Packages, NEW k \in 1..N
      PROVE  ReplaceRecord(x, sels[k]) \in Packages
  BY <1>1, ReplaceRecordType
<1>4. F \in [Packages \X (1..N) -> Packages]
  BY <1>3
<1>5. PICK g \in [SUBSET (1..N) -> Packages] :
        /\ \A s \in SUBSET (1..N) : g[s] = IF s = {} THEN pk ELSE F[<<g[s \ {Max(s)}], Max(s)>>]
        /\ \A s \in SUBSET (1..N) : s # {} => g[s \ {Max(s)}] \in Packages /\ Max(s) \in 1..N
  <2> HIDE DEF N, F
  <2> QED BY <1>1, <1>4, FoldExists
<1>6. g = Step(g)
  <2>1. ASSUME NEW s \in SUBSET (1..N) PROVE g[s] = Step(g)[s]
    <3>1. CASE s = {}
      BY <1>1, <1>5, <3>1
    <3>2. CASE s # {}
      <4>1. g[s] = F[<<g[s \ {Max(s)}], Max(s)>>]
        BY <1>5, <3>2
      <4>2. F[<<g[s \ {Max(s)}], Max(s)>>] = ReplaceRecord(g[s \ {Max(s)}], sels[Max(s)])
        BY <1>5, <3>2
      <4> QED BY <1>1, <3>2, <4>1, <4>2
    <3> QED BY <3>1, <3>2
  <2> QED BY <1>1, <2>1
<1>7. fold = Step(fold)
  <2> HIDE DEF Step
  <2>1. fold = CHOOSE f : f = Step(f)
    BY DEF Step
  <2> HIDE DEF fold
  <2> QED BY <1>6, <2>1
<1> HIDE DEF fold
<1>8. \E h \in [0..N -> Packages] :
        /\ h[0] = pk
        /\ \A k \in 1..N : h[k] = F[<<h[k - 1], k>>]
        /\ h[N] = fold[1..N]
  <2> DEFINE G == [s \in SUBSET (1..N) |-> ReplaceRecord(fold[s \ {Max(s)}], sels[Max(s)])]
  <2>1. \A s \in SUBSET (1..N) : fold[s] = IF s = {} THEN pk ELSE G[s]
    BY <1>1, <1>7
  <2>2. ASSUME NEW s \in SUBSET (1..N), s # {}, fold[s \ {Max(s)}] \in Packages
        PROVE  G[s] = F[<<fold[s \ {Max(s)}], Max(s)>>]
    BY <1>5, <2>2
  <2>3. \A s \in SUBSET (1..N) : s # {} /\ fold[s \ {Max(s)}] \in Packages =>
                                    G[s] = F[<<fold[s \ {Max(s)}], Max(s)>>]
    BY <2>2
  <2>4. Folds(fold, N, Packages, pk, F, G)
    <3> HIDE DEF N, F, G
    <3> QED BY <1>1, <1>4, <2>1, <2>3 DEF Folds
  <2> HIDE DEF N, F, G
  <2> QED BY <2>4, FoldIsLoop
<1>9. ASSUME NEW x \in Packages, NEW k \in 1..N
      PROVE  F[<<x, k>>] = ReplaceRecord(x, sels[k])
  OBVIOUS
<1> HIDE DEF F
<1>10. PICK h \in [0..N -> Packages] :
         h[0] = pk /\ (\A k \in 1..N : h[k] = F[<<h[k - 1], k>>]) /\ h[N] = fold[1..N]
  BY <1>8
<1>11. ASSUME NEW k \in 1..N PROVE h[k] = ReplaceRecord(h[k - 1], sels[k])
  <2>1. k - 1 \in 0..N
    BY <1>1
  <2> QED BY <1>9, <1>10, <2>1
<1> QED BY <1>1, <1>2, <1>10, <1>11

\* No selection has the name or the module of package n.
Keeps(pk, q, n) ==
  n \in DOMAIN pk /\ \A i \in DOMAIN q : q[i].name # n /\ q[i].module # pk[n].module

\* Selection i is of package n, and none behind it has its name or module.
LastOf(q, i, n) ==
  /\ i \in DOMAIN q /\ q[i].name = n
  /\ \A j \in DOMAIN q : j > i => q[j].module # q[i].module /\ q[j].name # q[i].name

LEMMA RecordedValues ==
  ASSUME NEW pk, NEW q \in Seq(Selections), NEW n
  PROVE  /\ n \in DOMAIN Recorded(pk, q) <=> Keeps(pk, q, n) \/ \E i \in DOMAIN q : LastOf(q, i, n)
         /\ Keeps(pk, q, n) => Recorded(pk, q)[n] = pk[n]
         /\ \A i \in DOMAIN q : LastOf(q, i, n) => Recorded(pk, q)[n] = RecordOf(q[i])
<1> DEFINE kept == {m \in DOMAIN pk : \A i \in DOMAIN q : q[i].name # m /\ q[i].module # pk[m].module}
           added == {i \in DOMAIN q : \A j \in DOMAIN q : j > i =>
                       q[j].module # q[i].module /\ q[j].name # q[i].name}
           chosen == CHOOSE i \in added : q[i].name = n
           R == [m \in kept \cup {q[i].name : i \in added} |->
                   IF m \in kept THEN pk[m] ELSE RecordOf(q[CHOOSE i \in added : q[i].name = m])]
<1>1. Recorded(pk, q) = R
  BY DEF Recorded
<1>2. n \in DOMAIN R <=> n \in kept \/ \E i \in added : q[i].name = n
  OBVIOUS
<1>3. n \in kept <=> Keeps(pk, q, n)
  BY DEF Keeps
<1>4. \A i \in DOMAIN q : LastOf(q, i, n) <=> i \in added /\ q[i].name = n
  BY DEF LastOf
<1>5. n \in kept => R[n] = pk[n]
  OBVIOUS
<1>6. ASSUME NEW i \in DOMAIN q, LastOf(q, i, n) PROVE R[n] = RecordOf(q[i])
  <2>1. i \in added /\ q[i].name = n /\ n \notin kept
    BY <1>4, <1>6
  <2>2. chosen \in added /\ q[chosen].name = n
    BY <2>1
  <2>3. chosen \in Nat /\ i \in Nat
    BY <2>1, <2>2, LenProperties
  <2>4. chosen = i
    BY <2>1, <2>2, <2>3
  <2>5. R[n] = RecordOf(q[chosen])
    BY <2>1
  <2> QED BY <2>4, <2>5
<1> HIDE DEF R, kept, added, chosen
<1>7. added \subseteq DOMAIN q
  BY DEF added
<1>8. (\E i \in added : q[i].name = n) <=> \E i \in DOMAIN q : LastOf(q, i, n)
  BY <1>4, <1>7
<1>9. \A i \in DOMAIN q : LastOf(q, i, n) => R[n] = RecordOf(q[i])
  BY <1>6
<1>10. n \in DOMAIN R <=> Keeps(pk, q, n) \/ \E i \in DOMAIN q : LastOf(q, i, n)
  BY <1>2, <1>3, <1>8
<1> QED BY <1>1, <1>3, <1>5, <1>9, <1>10

LEMMA RecordedStep ==
  ASSUME NEW pk \in Packages, NEW q \in Seq(Selections), NEW e \in Selections
  PROVE  Recorded(pk, Append(q, e)) = ReplaceRecord(Recorded(pk, q), e)
<1> DEFINE A == Append(q, e)
           R == Recorded(pk, q)
           m == Len(q) + 1
<1>1. /\ A \in Seq(Selections) /\ DOMAIN q = 1..Len(q) /\ Len(q) \in Nat
      /\ DOMAIN A = 1..m /\ A[m] = e /\ \A i \in DOMAIN q : A[i] = q[i]
  BY AppendProperties, LenProperties
<1>2. DOMAIN A = DOMAIN q \cup {m} /\ \A i \in DOMAIN q : m > i /\ ~(i > m)
  BY <1>1
<1> HIDE DEF A, m
<1>3. ASSUME NEW n
      PROVE  Keeps(pk, A, n) <=> Keeps(pk, q, n) /\ e.name # n /\ e.module # pk[n].module
  BY <1>1, <1>2 DEF Keeps
<1>4. ASSUME NEW n PROVE LastOf(A, m, n) <=> e.name = n
  <2>1. ~(m > m)
    BY <1>1 DEF m
  <2> QED BY <1>1, <1>2, <2>1 DEF LastOf
<1>5. ASSUME NEW n, NEW i \in DOMAIN q
      PROVE  LastOf(A, i, n) <=> LastOf(q, i, n) /\ e.name # n /\ e.module # q[i].module
  BY <1>1, <1>2 DEF LastOf
<1>6. ASSUME NEW i \in DOMAIN q PROVE RecordOf(q[i]).module = q[i].module
  BY DEF RecordOf
<1> DEFINE kept == {n \in DOMAIN R : R[n].module # e.module}
           L == Recorded(pk, A)
           Z == [n \in kept \cup {e.name} |-> IF n = e.name THEN RecordOf(e) ELSE R[n]]
<1>7. ReplaceRecord(R, e) = Z
  BY DEF ReplaceRecord
<1>8. ASSUME NEW n
      PROVE  /\ n \in DOMAIN L <=> Keeps(pk, A, n) \/ \E i \in DOMAIN A : LastOf(A, i, n)
             /\ Keeps(pk, A, n) => L[n] = pk[n]
             /\ \A i \in DOMAIN A : LastOf(A, i, n) => L[n] = RecordOf(A[i])
  <2>1. A \in Seq(Selections)
    BY <1>1
  <2> HIDE DEF A
  <2> QED BY <2>1, RecordedValues
<1>9. ASSUME NEW n PROVE n \in DOMAIN L <=> n \in kept \cup {e.name}
  <2>1. n \in DOMAIN L <=> Keeps(pk, A, n) \/ \E i \in DOMAIN A : LastOf(A, i, n)
    BY <1>1, RecordedValues
  <2>2. (\E i \in DOMAIN A : LastOf(A, i, n)) <=>
          e.name = n \/ \E i \in DOMAIN q : LastOf(q, i, n) /\ e.name # n /\ e.module # q[i].module
    BY <1>2, <1>4, <1>5
  <2>3. n \in kept <=> \/ Keeps(pk, q, n) /\ e.module # pk[n].module
                       \/ \E i \in DOMAIN q : LastOf(q, i, n) /\ e.module # q[i].module
    BY <1>6, RecordedValues
  <2> QED BY <1>3, <2>1, <2>2, <2>3
<1>10. ASSUME NEW n \in DOMAIN L PROVE L[n] = Z[n]
  <2>1. CASE n = e.name
    <3>1. L[n] = RecordOf(A[m])
      <4>1. m \in DOMAIN A /\ LastOf(A, m, n)
        BY <1>2, <1>4, <2>1
      <4> QED BY <1>1, <4>1, RecordedValues
    <3>2. L[n] = RecordOf(e)
      BY <1>1, <3>1
    <3>3. Z[n] = RecordOf(e)
      BY <2>1
    <3> HIDE DEF Z, L
    <3> QED BY <3>2, <3>3
  <2>2. CASE n # e.name
    <3>1. n \in kept /\ Z[n] = R[n]
      BY <1>9, <2>2
    <3>2. CASE Keeps(pk, q, n)
      <4>1. R[n] = pk[n]
        BY <3>2, RecordedValues
      <4>2. Keeps(pk, A, n)
        BY <1>3, <2>2, <3>1, <3>2, <4>1
      <4>3. L[n] = pk[n]
        BY <1>1, <4>2, RecordedValues
      <4> QED BY <3>1, <4>1, <4>3
    <3>3. ASSUME NEW i \in DOMAIN q, LastOf(q, i, n) PROVE L[n] = R[n]
      <4>1. R[n] = RecordOf(q[i])
        BY <3>3, RecordedValues
      <4>2. LastOf(A, i, n)
        BY <1>5, <1>6, <2>2, <3>1, <3>3, <4>1
      <4>3. L[n] = RecordOf(A[i])
        <5>1. i \in DOMAIN A
          BY <1>2
        <5> HIDE DEF L
        <5> QED BY <1>8, <4>2, <5>1
      <4> QED BY <1>1, <4>1, <4>3
    <3>4. Keeps(pk, q, n) \/ \E i \in DOMAIN q : LastOf(q, i, n)
      BY <3>1, RecordedValues
    <3> QED BY <3>1, <3>2, <3>3, <3>4
  <2> QED BY <2>1, <2>2
<1>11. L = [n \in DOMAIN L |-> L[n]]
  BY DEF Recorded
<1>12. L = Z
  <2>1. DOMAIN L = DOMAIN Z
    BY <1>9
  <2>2. Z = [n \in DOMAIN Z |-> Z[n]]
    OBVIOUS
  <2> HIDE DEF L, Z
  <2> QED BY <1>10, <1>11, <2>1, <2>2
<1> QED BY <1>7, <1>12 DEF A

LEMMA RecordedOfNothing ==
  ASSUME NEW pk \in Packages
  PROVE  Recorded(pk, <<>>) = pk
<1>1. PICK N \in SUBSET Names : pk \in [N -> PackageRecords]
  BY DEF Packages
<1>2. DOMAIN Recorded(pk, <<>>) = N /\ \A n \in N : Recorded(pk, <<>>)[n] = pk[n]
  BY <1>1 DEF Recorded
<1>3. Recorded(pk, <<>>) = [n \in DOMAIN Recorded(pk, <<>>) |-> Recorded(pk, <<>>)[n]]
  BY DEF Recorded
<1> QED BY <1>1, <1>2, <1>3

\* The loop over a request of any length records what Installer records at once.
LEMMA LoopRecords ==
  ASSUME NEW pk \in Packages, NEW sels \in Seq(Selections)
  PROVE  RecordLoop(pk, sels) = Recorded(pk, sels)
<1> DEFINE N == Len(sels)
<1>1. PICK h \in [0..N -> Packages] :
        /\ h[0] = pk
        /\ \A k \in 1..N : h[k] = ReplaceRecord(h[k - 1], sels[k])
        /\ h[N] = RecordLoop(pk, sels)
  BY RecordLoopSteps
<1>2. N \in Nat
  BY LenProperties
<1> DEFINE S == {k \in 0..N : h[k] = Recorded(pk, SubSeq(sels, 1, k))}
<1>3. 0 \in S
  <2>1. SubSeq(sels, 1, 0) = <<>>
    BY SubSeqEmpty
  <2>2. 0 \in 0..N
    BY <1>2
  <2> QED BY <1>1, <2>1, <2>2, RecordedOfNothing
<1>4. ASSUME NEW k \in 1..N, k - 1 \in S PROVE k \in S
  <2>1. k \in 0..N /\ k - 1 \in 0..N
    BY <1>2
  <2>2. h[k - 1] = Recorded(pk, SubSeq(sels, 1, k - 1)) /\ h[k] = ReplaceRecord(h[k - 1], sels[k])
    BY <1>1, <1>4
  <2>3. SubSeq(sels, 1, k - 1) \in Seq(Selections) /\ sels[k] \in Selections
    BY <1>2, <2>1, SubSeqProperties, ElementOfSeq
  <2>4. SubSeq(sels, 1, k) = Append(SubSeq(sels, 1, k - 1), sels[k])
    BY <1>2, <2>1, PrefixOneMore
  <2> QED BY <2>1, <2>2, <2>3, <2>4, RecordedStep
<1> HIDE DEF S
<1>5. N \in S
  <2> HIDE DEF N
  <2>1. \A k \in 0..N : k \in S
    BY <1>2, <1>3, <1>4, InductionUpTo
  <2> QED BY <1>2, <2>1
<1>6. SubSeq(sels, 1, N) = sels
  BY <1>2, SubSeqProperties
<1> QED BY <1>1, <1>5, <1>6 DEF S

-----------------------------------------------------------------------------
\* Every request of the specification is a sequence of selections, and every
\* manifest it is applied to is one.
LEMMA RequestsAreSequences ==
  Requested \subseteq Seq(Selections)
<1>1. ASSUME NEW sels \in Requested PROVE sels \in Seq(Selections)
  <2>1. PICK m \in 0..MaxSelections : sels \in [1..m -> Selections]
    BY <1>1 DEF Requested, BoundedSeq, SeqOf
  <2>2. m \in Nat
    BY BoundsAssumption
  <2> QED BY <2>1, <2>2 DEF Seq
<1> QED BY <1>1

ManifestsAreTyped == packages \in Packages

LEMMA ManifestsStayTyped ==
  Spec => []ManifestsAreTyped
<1>1. Init => ManifestsAreTyped
  <2>1. NoPackages \in Packages
    <3>1. NoPackages \in [{} -> PackageRecords] /\ {} \in SUBSET Names
      BY DEF NoPackages
    <3> QED BY <3>1 DEF Packages
  <2> QED BY <2>1 DEF Init, ManifestsAreTyped
<1>2. ManifestsAreTyped /\ [Next]_<<packages, text, lines, site>> => ManifestsAreTyped'
  <2> SUFFICES ASSUME ManifestsAreTyped, [Next]_<<packages, text, lines, site>>
               PROVE  ManifestsAreTyped'
    OBVIOUS
  <2>1. CASE Install
    <3>1. PICK sels \in Requested : packages' = RecordLoop(packages, sels)
      BY <2>1 DEF Install
    <3>2. sels \in Seq(Selections) /\ Len(sels) \in 0..Len(sels)
      BY RequestsAreSequences, LenProperties
    <3>3. RecordLoop(packages, sels) \in Packages
      BY <3>2, RecordLoopSteps DEF ManifestsAreTyped
    <3> QED BY <3>1, <3>3 DEF ManifestsAreTyped
  <2>2. CASE RelocateText
    BY <2>2 DEF RelocateText, ManifestsAreTyped
  <2>3. CASE RelocateLines
    BY <2>3 DEF RelocateLines, ManifestsAreTyped
  <2>4. CASE PublishOne
    BY <2>4 DEF PublishOne, ManifestsAreTyped
  <2>5. CASE UNCHANGED <<packages, text, lines, site>>
    BY <2>5 DEF ManifestsAreTyped
  <2> QED BY <2>1, <2>2, <2>3, <2>4, <2>5 DEF Next
<1> QED BY <1>1, <1>2, PTL DEF Spec

\* Whatever the requests, whose length has no bound but the one that is given,
\* the loop of reconcileKit and the manifest of Installer are the same
\* (installation_state.go:232).
THEOREM LoopIsRecordedAlways ==
  Spec => []LoopIsRecorded
<1>1. ManifestsAreTyped => LoopIsRecorded
  BY RequestsAreSequences, LoopRecords DEF ManifestsAreTyped, LoopIsRecorded
<1> QED BY <1>1, ManifestsStayTyped, PTL

-----------------------------------------------------------------------------
(* Settings files: rewriteINIValues' walk over the lines says of each line *)
(* what the section it is in and its name say.                             *)

\* Any string; the provers do not know of a literal that it is one.
Words == STRING \cup {"", "Paths", "DevicePaths", "HostPrefix", "HostData", "Prefix", "stock", "own"}

SettingsLines == [kind : {"section", "entry"}, name : Words, value : Words]

\* The states of the walk.
Walks(values) ==
  [section : Words, found : SUBSET DOMAIN values, twice : BOOLEAN, lines : Seq(SettingsLines)]

Begin == [section |-> "", found |-> {}, twice |-> FALSE, lines |-> <<>>]

Walk(ls, section, values) ==
  FoldLeft(LAMBDA done, line : RewriteLine(done, line, section, values), Begin, ls)

Heads(ls, i) == {j \in 1..i - 1 : IsSection(ls[j])}

SectionAt(ls, i) == IF Heads(ls, i) = {} THEN "" ELSE ls[Max(Heads(ls, i))].name

\* Line i is an entry to be rewritten.
Hit(ls, section, values, i) ==
  ls[i].kind = "entry" /\ ls[i].name \in DOMAIN values /\ SectionAt(ls, i) = section

Replaced(ls, section, values, i) ==
  IF Hit(ls, section, values, i) THEN [ls[i] EXCEPT !.value = values[ls[i].name]] ELSE ls[i]

Found(ls, section, values, k) ==
  {key \in DOMAIN values : \E i \in 1..k : Hit(ls, section, values, i) /\ ls[i].name = key}

Twice(ls, section, values, k) ==
  \E i, j \in 1..k : /\ i # j /\ ls[i].name = ls[j].name
                     /\ Hit(ls, section, values, i) /\ Hit(ls, section, values, j)

\* The state of the walk behind k lines.
WalkedTo(ls, section, values, k) ==
  [section |-> SectionAt(ls, k + 1),
   found   |-> Found(ls, section, values, k),
   twice   |-> Twice(ls, section, values, k),
   lines   |-> [i \in 1..k |-> Replaced(ls, section, values, i)]]

LEMMA SectionStep ==
  ASSUME NEW ls, NEW k \in Nat \ {0}
  PROVE  SectionAt(ls, k + 1) = IF IsSection(ls[k]) THEN ls[k].name ELSE SectionAt(ls, k)
<1> DEFINE S == Heads(ls, k + 1)
<1>1. S \in SUBSET (0..k)
  BY DEF Heads
<1>2. CASE IsSection(ls[k])
  <2>1. k \in S /\ k \in Nat
    BY <1>2 DEF Heads
  <2>2. Max(S) \in S /\ Max(S) >= k
    <3> HIDE DEF S
    <3> QED BY <1>1, <2>1, MaxOf
  <2>3. Max(S) = k
    BY <1>1, <2>2
  <2> QED BY <1>2, <2>1, <2>3 DEF SectionAt
<1>3. CASE ~IsSection(ls[k])
  <2>1. ASSUME NEW j PROVE j \in S <=> j \in Heads(ls, k)
    BY <1>3 DEF Heads
  <2>2. S = Heads(ls, k)
    BY <2>1
  <2> QED BY <1>3, <2>2 DEF SectionAt
<1> QED BY <1>2, <1>3

LEMMA RewriteLineType ==
  ASSUME NEW section, NEW K \in SUBSET Words, NEW values \in [K -> Words],
         NEW done \in Walks(values), NEW line \in SettingsLines
  PROVE  RewriteLine(done, line, section, values) \in Walks(values)
<1>1. done.lines \in Seq(SettingsLines) /\ line.name \in Words
  BY DEF Walks, SettingsLines
<1>2. Append(done.lines, line) \in Seq(SettingsLines)
  BY <1>1, AppendProperties
<1>3. CASE IsSection(line)
  <2>1. RewriteLine(done, line, section, values) =
          [done EXCEPT !.section = line.name, !.lines = Append(@, line)]
    BY <1>3 DEF RewriteLine, IsSection
  <2> QED BY <1>1, <1>2, <2>1 DEF Walks
<1>4. CASE ~IsSection(line) /\ line.kind = "entry" /\ done.section = section /\ line.name \in DOMAIN values
  <2> DEFINE new == [line EXCEPT !.value = values[line.name]]
  <2>1. new \in SettingsLines
    BY <1>4 DEF SettingsLines
  <2>2. Append(done.lines, new) \in Seq(SettingsLines)
    BY <1>1, <2>1, AppendProperties
  <2>3. RewriteLine(done, line, section, values) =
          [done EXCEPT !.found = @ \cup {line.name},
                       !.twice = @ \/ line.name \in done.found,
                       !.lines = Append(@, new)]
    BY <1>4 DEF RewriteLine
  <2>4. done.found \cup {line.name} \in SUBSET DOMAIN values
    BY <1>4 DEF Walks
  <2> HIDE DEF new
  <2> QED BY <2>2, <2>3, <2>4 DEF Walks
<1>5. CASE ~IsSection(line) /\ ~(line.kind = "entry" /\ done.section = section /\ line.name \in DOMAIN values)
  BY <1>1, <1>2, <1>5 DEF RewriteLine, Walks
<1> QED BY <1>3, <1>4, <1>5

LEMMA WalkStep ==
  ASSUME NEW section, NEW K \in SUBSET Words, NEW values \in [K -> Words],
         NEW ls \in Seq(SettingsLines), NEW k \in 1..Len(ls)
  PROVE  RewriteLine(WalkedTo(ls, section, values, k - 1), ls[k], section, values)
           = WalkedTo(ls, section, values, k)
<1> DEFINE done == WalkedTo(ls, section, values, k - 1)
           next == WalkedTo(ls, section, values, k)
           out(i) == Replaced(ls, section, values, i)
<1>1. k \in Nat \ {0} /\ k - 1 \in Nat /\ (k - 1) + 1 = k /\ 1..k = (1..(k - 1)) \cup {k} /\ k \notin 1..(k - 1)
  BY LenProperties
<1>2. SectionAt(ls, k + 1) = IF IsSection(ls[k]) THEN ls[k].name ELSE SectionAt(ls, k)
  BY <1>1, SectionStep
<1>3. /\ done.section = SectionAt(ls, k) /\ done.found = Found(ls, section, values, k - 1)
      /\ done.twice = Twice(ls, section, values, k - 1) /\ done.lines = [i \in 1..(k - 1) |-> out(i)]
  BY <1>1 DEF WalkedTo
<1>4. ls[k] \in SettingsLines
  BY ElementOfSeq
<1>5. ASSUME NEW x PROVE Append([i \in 1..(k - 1) |-> out(i)], x) = [i \in 1..k |-> IF i = k THEN x ELSE out(i)]
  BY <1>1
<1>6. CASE ~Hit(ls, section, values, k)
  <2>1. Found(ls, section, values, k) = Found(ls, section, values, k - 1)
    BY <1>1, <1>6 DEF Found
  <2>2. Twice(ls, section, values, k) = Twice(ls, section, values, k - 1)
    BY <1>1, <1>6 DEF Twice
  <2>3. out(k) = ls[k]
    BY <1>6 DEF Replaced
  <2>4. Append(done.lines, ls[k]) = [i \in 1..k |-> out(i)]
    BY <1>3, <1>5, <2>3
  <2> QED BY <1>2, <1>3, <1>6, <2>1, <2>2, <2>4 DEF WalkedTo, RewriteLine, Hit, IsSection
<1>7. CASE Hit(ls, section, values, k)
  <2> DEFINE new == [ls[k] EXCEPT !.value = values[ls[k].name]]
  <2>1. Found(ls, section, values, k) = Found(ls, section, values, k - 1) \cup {ls[k].name}
    BY <1>1, <1>7 DEF Found, Hit
  <2>2. Twice(ls, section, values, k) <=>
          Twice(ls, section, values, k - 1) \/ ls[k].name \in Found(ls, section, values, k - 1)
    BY <1>1, <1>7 DEF Twice, Found, Hit
  <2>3. out(k) = new
    BY <1>7 DEF Replaced
  <2>4. Append(done.lines, new) = [i \in 1..k |-> out(i)]
    BY <1>3, <1>5, <2>3
  <2>5. ~IsSection(ls[k]) /\ ls[k].kind = "entry" /\ done.section = section /\ ls[k].name \in DOMAIN values
    BY <1>3, <1>7 DEF Hit, IsSection
  <2>6. SectionAt(ls, k + 1) = done.section
    BY <1>2, <1>3, <2>5
  <2>7. RewriteLine(done, ls[k], section, values) =
          [done EXCEPT !.found = @ \cup {ls[k].name},
                       !.twice = @ \/ ls[k].name \in done.found,
                       !.lines = Append(@, new)]
    BY <2>5 DEF RewriteLine
  <2>8. Twice(ls, section, values, k) \in BOOLEAN /\ Twice(ls, section, values, k - 1) \in BOOLEAN
    BY DEF Twice
  <2> QED BY <1>3, <2>1, <2>2, <2>4, <2>6, <2>7, <2>8 DEF WalkedTo
<1> QED BY <1>6, <1>7

LEMMA WalkLoopSteps ==
  ASSUME NEW section, NEW K \in SUBSET Words, NEW values \in [K -> Words],
         NEW ls \in Seq(SettingsLines)
  PROVE  \E h \in [0..Len(ls) -> Walks(values)] :
           /\ h[0] = Begin
           /\ \A k \in 1..Len(ls) : h[k] = RewriteLine(h[k - 1], ls[k], section, values)
           /\ h[Len(ls)] = Walk(ls, section, values)
<1> DEFINE N == Len(ls)
           T == Walks(values)
           F == [pair \in T \X (1..N) |-> RewriteLine(pair[1], ls[pair[2]], section, values)]
           fold[s \in SUBSET DOMAIN ls] ==
             IF s = {} THEN Begin ELSE RewriteLine(fold[s \ {Max(s)}], ls[Max(s)], section, values)
           Step(g) == [s \in SUBSET DOMAIN ls |->
                         IF s = {} THEN Begin
                         ELSE RewriteLine(g[s \ {Max(s)}], ls[Max(s)], section, values)]
<1>1. N \in Nat /\ DOMAIN ls = 1..N /\ \A k \in 1..N : ls[k] \in SettingsLines
  BY LenProperties, ElementOfSeq
<1>2. Walk(ls, section, values) = fold[DOMAIN ls]
  BY DEF Walk, FoldLeft, MapThenFoldSet
<1>3. ASSUME NEW x \in T, NEW k \in 1..N
      PROVE  RewriteLine(x, ls[k], section, values) \in T
  BY <1>1, RewriteLineType
<1>4. F \in [T \X (1..N) -> T] /\ Begin \in T
  <2>1. Begin \in T
    <3>1. <<>> \in Seq(SettingsLines)
      OBVIOUS
    <3>2. {} \in SUBSET DOMAIN values /\ FALSE \in BOOLEAN
      OBVIOUS
    <3> QED BY <3>1, <3>2, Zenon DEF Begin, Walks, Words
  <2> HIDE DEF T
  <2> QED BY <1>3, <2>1
<1> HIDE DEF T
<1>5. PICK g \in [SUBSET (1..N) -> T] :
        /\ \A s \in SUBSET (1..N) : g[s] = IF s = {} THEN Begin ELSE F[<<g[s \ {Max(s)}], Max(s)>>]
        /\ \A s \in SUBSET (1..N) : s # {} => g[s \ {Max(s)}] \in T /\ Max(s) \in 1..N
  <2> HIDE DEF N, F
  <2> QED BY <1>1, <1>4, FoldExists
<1>6. g = Step(g)
  <2>1. ASSUME NEW s \in SUBSET (1..N) PROVE g[s] = Step(g)[s]
    <3>1. CASE s = {}
      BY <1>1, <1>5, <3>1
    <3>2. CASE s # {}
      <4>1. g[s] = F[<<g[s \ {Max(s)}], Max(s)>>]
        BY <1>5, <3>2
      <4>2. F[<<g[s \ {Max(s)}], Max(s)>>] = RewriteLine(g[s \ {Max(s)}], ls[Max(s)], section, values)
        BY <1>5, <3>2
      <4> QED BY <1>1, <3>2, <4>1, <4>2
    <3> QED BY <3>1, <3>2
  <2> QED BY <1>1, <2>1
<1>7. fold = Step(fold)
  <2> HIDE DEF Step
  <2>1. fold = CHOOSE f : f = Step(f)
    BY DEF Step
  <2> HIDE DEF fold
  <2> QED BY <1>6, <2>1
<1> HIDE DEF fold
<1>8. \E h \in [0..N -> T] :
        h[0] = Begin /\ (\A k \in 1..N : h[k] = F[<<h[k - 1], k>>]) /\ h[N] = fold[1..N]
  <2> DEFINE G == [s \in SUBSET (1..N) |-> RewriteLine(fold[s \ {Max(s)}], ls[Max(s)], section, values)]
  <2>1. \A s \in SUBSET (1..N) : fold[s] = IF s = {} THEN Begin ELSE G[s]
    BY <1>1, <1>7
  <2>2. ASSUME NEW s \in SUBSET (1..N), s # {}, fold[s \ {Max(s)}] \in T
        PROVE  G[s] = F[<<fold[s \ {Max(s)}], Max(s)>>]
    BY <1>5, <2>2
  <2>3. Folds(fold, N, T, Begin, F, G)
    <3>1. \A s \in SUBSET (1..N) : s # {} /\ fold[s \ {Max(s)}] \in T =>
                                      G[s] = F[<<fold[s \ {Max(s)}], Max(s)>>]
      BY <2>2
    <3> HIDE DEF N, F, G
    <3> QED BY <1>1, <1>4, <2>1, <3>1 DEF Folds
  <2> HIDE DEF N, F, G
  <2> QED BY <2>3, FoldIsLoop
<1>9. ASSUME NEW x \in T, NEW k \in 1..N
      PROVE  F[<<x, k>>] = RewriteLine(x, ls[k], section, values)
  OBVIOUS
<1> HIDE DEF F
<1>10. PICK h \in [0..N -> T] :
         h[0] = Begin /\ (\A k \in 1..N : h[k] = F[<<h[k - 1], k>>]) /\ h[N] = fold[1..N]
  BY <1>8
<1>11. ASSUME NEW k \in 1..N PROVE h[k] = RewriteLine(h[k - 1], ls[k], section, values)
  <2>1. k - 1 \in 0..N
    BY <1>1
  <2> QED BY <1>9, <1>10, <2>1
<1> QED BY <1>1, <1>2, <1>10, <1>11 DEF T

LEMMA WalkIsClosed ==
  ASSUME NEW section, NEW K \in SUBSET Words, NEW values \in [K -> Words],
         NEW ls \in Seq(SettingsLines)
  PROVE  Walk(ls, section, values) = WalkedTo(ls, section, values, Len(ls))
<1> DEFINE N == Len(ls)
<1>1. PICK h \in [0..N -> Walks(values)] :
        /\ h[0] = Begin
        /\ \A k \in 1..N : h[k] = RewriteLine(h[k - 1], ls[k], section, values)
        /\ h[N] = Walk(ls, section, values)
  BY WalkLoopSteps
<1>2. N \in Nat
  BY LenProperties
<1> DEFINE S == {k \in 0..N : h[k] = WalkedTo(ls, section, values, k)}
<1>3. 0 \in S
  <2>1. 1..0 = {} /\ 0 + 1 = 1 /\ 0 \in 0..N
    BY <1>2
  <2>2. Heads(ls, 0 + 1) = {}
    BY DEF Heads
  <2>3. SectionAt(ls, 0 + 1) = ""
    BY <2>2 DEF SectionAt
  <2>4. Found(ls, section, values, 0) = {} /\ Twice(ls, section, values, 0) = FALSE
    BY <2>1 DEF Found, Twice
  <2>5. [i \in 1..0 |-> Replaced(ls, section, values, i)] = <<>>
    BY <2>1
  <2>6. WalkedTo(ls, section, values, 0) = Begin
    BY <2>3, <2>4, <2>5 DEF WalkedTo, Begin
  <2> QED BY <1>1, <2>1, <2>6
<1>4. ASSUME NEW k \in 1..N, k - 1 \in S PROVE k \in S
  <2>1. k \in 0..N
    BY <1>2
  <2>2. h[k] = RewriteLine(WalkedTo(ls, section, values, k - 1), ls[k], section, values)
    BY <1>1, <1>4
  <2> QED BY <2>1, <2>2, WalkStep
<1> HIDE DEF S
<1>5. N \in S
  <2> HIDE DEF N
  <2>1. \A k \in 0..N : k \in S
    BY <1>2, <1>3, <1>4, InductionUpTo
  <2> QED BY <1>2, <2>1
<1> QED BY <1>1, <1>5 DEF S

\* The lines of a key in the section.
EntriesAt(ls, section, key) ==
  {i \in DOMAIN ls : ls[i].kind = "entry" /\ ls[i].name = key /\ SectionAt(ls, i) = section}

\* What rewriteINIValues makes of a file, whatever its lines.
LEMMA RewriteINIIsClosed ==
  ASSUME NEW section, NEW K \in SUBSET Words, NEW values \in [K -> Words],
         NEW ls \in Seq(SettingsLines)
  PROVE  RewriteINI(ls, section, values) =
           IF \E key \in DOMAIN values : Cardinality(EntriesAt(ls, section, key)) # 1 THEN RefusedLines
           ELSE [i \in DOMAIN ls |-> Replaced(ls, section, values, i)]
<1> DEFINE N == Len(ls)
           end == WalkedTo(ls, section, values, N)
           E(key) == EntriesAt(ls, section, key)
<1>1. RewriteINI(ls, section, values) =
        IF end.twice \/ end.found # DOMAIN values THEN RefusedLines ELSE end.lines
  <2>1. Walk(ls, section, values) = end
    BY WalkIsClosed
  <2> HIDE DEF end
  <2> QED BY <2>1 DEF RewriteINI, Walk, Begin
<1>2. N \in Nat /\ DOMAIN ls = 1..N
  BY LenProperties
<1>3. /\ end.twice = Twice(ls, section, values, N) /\ end.found = Found(ls, section, values, N)
      /\ end.lines = [i \in DOMAIN ls |-> Replaced(ls, section, values, i)]
  BY <1>2 DEF WalkedTo
<1>4. ASSUME NEW key \in DOMAIN values, NEW i PROVE i \in E(key) <=> i \in 1..N /\ Hit(ls, section, values, i) /\ ls[i].name = key
  BY <1>2 DEF EntriesAt, Hit
<1>5. ASSUME NEW key \in DOMAIN values
      PROVE  Cardinality(E(key)) = 1 <=> \E i : E(key) = {i}
  <2>1. IsFiniteSet(1..N)
    BY <1>2, FS_Interval
  <2>2. E(key) \in SUBSET (1..N)
    BY <1>2 DEF EntriesAt
  <2>3. IsFiniteSet(E(key))
    BY <2>1, <2>2, FS_Subset
  <2> HIDE DEF E
  <2> QED BY <2>3, FS_Singleton
<1> HIDE DEF E, end
<1>6. end.twice \/ end.found # DOMAIN values <=> \E key \in DOMAIN values : Cardinality(E(key)) # 1
  <2>1. ASSUME NEW key \in DOMAIN values, Cardinality(E(key)) # 1
        PROVE  end.twice \/ end.found # DOMAIN values
    <3>1. CASE E(key) = {}
      <4>1. key \notin end.found
        BY <1>3, <1>4, <3>1 DEF Found
      <4> QED BY <4>1
    <3>2. CASE E(key) # {}
      <4>1. PICK i \in E(key) : TRUE
        BY <3>2
      <4>2. E(key) # {i}
        BY <1>5, <2>1
      <4>3. PICK j \in E(key) : j # i
        BY <4>1, <4>2
      <4> QED BY <1>3, <1>4, <4>1, <4>3 DEF Twice
    <3> QED BY <3>1, <3>2
  <2>2. ASSUME end.twice PROVE \E key \in DOMAIN values : Cardinality(E(key)) # 1
    <3>1. PICK i, j \in 1..N : /\ i # j /\ ls[i].name = ls[j].name
                               /\ Hit(ls, section, values, i) /\ Hit(ls, section, values, j)
      BY <1>3, <2>2 DEF Twice
    <3>2. ls[i].name \in DOMAIN values
      BY <3>1 DEF Hit
    <3>3. i \in E(ls[i].name) /\ j \in E(ls[i].name)
      BY <1>4, <3>1, <3>2
    <3>4. \A x : E(ls[i].name) # {x}
      BY <3>1, <3>3
    <3>5. Cardinality(E(ls[i].name)) # 1
      BY <1>5, <3>2, <3>4
    <3> QED BY <3>2, <3>5
  <2>3. ASSUME end.found # DOMAIN values PROVE \E key \in DOMAIN values : Cardinality(E(key)) # 1
    <3>1. PICK key \in DOMAIN values : key \notin end.found
      BY <1>3, <2>3 DEF Found
    <3>2. E(key) = {}
      BY <1>3, <1>4, <3>1 DEF Found
    <3>3. Cardinality(E(key)) # 1
      BY <1>5, <3>2
    <3> QED BY <3>3
  <2> QED BY <2>1, <2>2, <2>3
<1> QED BY <1>1, <1>3, <1>6 DEF E

LEMMA ReplacedType ==
  ASSUME NEW section, NEW K \in SUBSET Words, NEW values \in [K -> Words],
         NEW ls \in Seq(SettingsLines), NEW i \in DOMAIN ls
  PROVE  /\ Replaced(ls, section, values, i) \in SettingsLines
         /\ Replaced(ls, section, values, i).kind = ls[i].kind
         /\ Replaced(ls, section, values, i).name = ls[i].name
<1>1. ls[i] \in SettingsLines
  BY ElementOfSeq, LenProperties
<1>2. CASE Hit(ls, section, values, i)
  <2>1. values[ls[i].name] \in Words
    BY <1>2 DEF Hit
  <2> QED BY <1>1, <1>2, <2>1 DEF Replaced, SettingsLines
<1>3. CASE ~Hit(ls, section, values, i)
  BY <1>1, <1>3 DEF Replaced
<1> QED BY <1>2, <1>3

\* A file that was rewritten has the same entries, with the values they get.
LEMMA RewriteINITwice ==
  ASSUME NEW section, NEW K \in SUBSET Words, NEW values \in [K -> Words],
         NEW ls \in Seq(SettingsLines), RewriteINI(ls, section, values) # RefusedLines
  PROVE  /\ RewriteINI(ls, section, values) \in Seq(SettingsLines)
         /\ RewriteINI(RewriteINI(ls, section, values), section, values) = RewriteINI(ls, section, values)
<1> DEFINE R == RewriteINI(ls, section, values)
           N == Len(ls)
<1>1. N \in Nat /\ DOMAIN ls = 1..N
  BY LenProperties
<1>2. /\ R = [i \in DOMAIN ls |-> Replaced(ls, section, values, i)]
      /\ \A key \in DOMAIN values : Cardinality(EntriesAt(ls, section, key)) = 1
  BY RewriteINIIsClosed
<1> HIDE DEF R
<1>3. ASSUME NEW i \in 1..N
      PROVE  /\ R[i] = Replaced(ls, section, values, i) /\ R[i] \in SettingsLines
             /\ R[i].kind = ls[i].kind /\ R[i].name = ls[i].name
  <2>1. i \in DOMAIN ls
    BY <1>1
  <2>2. /\ Replaced(ls, section, values, i) \in SettingsLines
        /\ Replaced(ls, section, values, i).kind = ls[i].kind
        /\ Replaced(ls, section, values, i).name = ls[i].name
    BY <2>1, ReplacedType
  <2>3. R[i] = Replaced(ls, section, values, i)
    BY <1>2, <2>1
  <2> QED BY <2>2, <2>3
<1>4. R \in Seq(SettingsLines) /\ DOMAIN R = 1..N
  <2>1. R \in [1..N -> SettingsLines]
    BY <1>1, <1>2, <1>3
  <2> QED BY <1>1, <2>1, SeqDef
<1>5. ASSUME NEW i \in 1..N PROVE SectionAt(R, i) = SectionAt(ls, i)
  <2>1. Heads(R, i) = Heads(ls, i) /\ Heads(ls, i) \in SUBSET (0..N)
    BY <1>1, <1>3 DEF Heads, IsSection
  <2>2. Heads(ls, i) # {} => Max(Heads(ls, i)) \in Heads(ls, i)
    BY <1>1, <2>1, MaxOf
  <2>3. Heads(ls, i) # {} => Max(Heads(ls, i)) \in 1..N
    BY <1>1, <2>2 DEF Heads
  <2> QED BY <1>3, <2>1, <2>3 DEF SectionAt
<1>6. ASSUME NEW key PROVE EntriesAt(R, section, key) = EntriesAt(ls, section, key)
  BY <1>1, <1>3, <1>4, <1>5 DEF EntriesAt
<1>7. ASSUME NEW i \in 1..N PROVE Replaced(R, section, values, i) = R[i]
  <2>1. Hit(R, section, values, i) <=> Hit(ls, section, values, i)
    BY <1>3, <1>5 DEF Hit
  <2>2. CASE Hit(ls, section, values, i)
    <3>1. Replaced(R, section, values, i) = [R[i] EXCEPT !.value = values[ls[i].name]]
      BY <1>3, <2>1, <2>2 DEF Replaced
    <3>2. R[i].value = values[ls[i].name] /\ R[i] \in SettingsLines
      <4>1. ls[i] \in SettingsLines
        BY <1>1, ElementOfSeq
      <4> QED BY <1>3, <2>2, <4>1 DEF Replaced, SettingsLines
    <3> QED BY <3>1, <3>2 DEF SettingsLines
  <2>3. CASE ~Hit(ls, section, values, i)
    BY <2>1, <2>3 DEF Replaced
  <2> QED BY <2>2, <2>3
<1>8. RewriteINI(R, section, values) = [i \in DOMAIN R |-> Replaced(R, section, values, i)]
  <2>1. \A key \in DOMAIN values : Cardinality(EntriesAt(R, section, key)) = 1
    BY <1>2, <1>6
  <2>2. RewriteINI(R, section, values) =
          IF \E key \in DOMAIN values : Cardinality(EntriesAt(R, section, key)) # 1 THEN RefusedLines
          ELSE [i \in DOMAIN R |-> Replaced(R, section, values, i)]
    BY <1>4, RewriteINIIsClosed
  <2> QED BY <2>1, <2>2
<1>9. R = [i \in 1..N |-> R[i]]
  BY <1>1, <1>2
<1>10. RewriteINI(R, section, values) = R
  BY <1>4, <1>7, <1>8, <1>9
<1> QED BY <1>4, <1>10 DEF R

\* The settings that the specification begins with and comes to.
LinesAreTyped == lines \in Seq(SettingsLines)

LEMMA ValuesType ==
  /\ {"HostPrefix", "HostData"} \in SUBSET Words
  /\ Values \in [{"HostPrefix", "HostData"} -> Words]
  /\ DOMAIN Values = {"HostPrefix", "HostData"}
BY DEF Values, Words

LEMMA LinesStayTyped ==
  Spec => []LinesAreTyped
<1>1. Init => LinesAreTyped
  <2>1. ASSUME NEW ls \in BuiltLines PROVE ls \in Seq(SettingsLines)
    <3> DEFINE B == [kind : {"section"}, name : {"Paths", "DevicePaths"}, value : {""}]
                      \cup [kind : {"entry"}, name : {"HostPrefix", "HostData", "Prefix"}, value : {"stock"}]
    <3>1. PICK m \in 0..MaxLines : ls \in [1..m -> B]
      BY <2>1 DEF BuiltLines, BoundedSeq, SeqOf
    <3>2. m \in Nat
      BY BoundsAssumption
    <3>3. B \subseteq SettingsLines
      BY DEF SettingsLines, Words
    <3> HIDE DEF B
    <3>4. ls \in [1..m -> SettingsLines]
      BY <3>1, <3>3
    <3> QED BY <3>2, <3>4, SeqDef
  <2>2. <<>> \in Seq(SettingsLines)
    OBVIOUS
  <2> QED BY <2>1, <2>2 DEF Init, LinesAreTyped
<1>2. LinesAreTyped /\ [Next]_<<packages, text, lines, site>> => LinesAreTyped'
  <2> SUFFICES ASSUME LinesAreTyped, [Next]_<<packages, text, lines, site>>
               PROVE  LinesAreTyped'
    OBVIOUS
  <2>1. CASE Install
    BY <2>1 DEF Install, LinesAreTyped
  <2>2. CASE RelocateText
    BY <2>2 DEF RelocateText, LinesAreTyped
  <2>3. CASE RelocateLines
    BY <2>3, ValuesType, RewriteINITwice DEF RelocateLines, LinesAreTyped
  <2>4. CASE PublishOne
    BY <2>4 DEF PublishOne, LinesAreTyped
  <2>5. CASE UNCHANGED <<packages, text, lines, site>>
    BY <2>5 DEF LinesAreTyped
  <2> QED BY <2>1, <2>2, <2>3, <2>4, <2>5 DEF Next
<1> QED BY <1>1, <1>2, PTL DEF Spec

\* In a settings file of any length the values of the kit's paths are replaced,
\* each in the section it belongs to, and nothing else is; a file in which one of
\* them is missing or comes twice is refused (mobile_relocator.go:366).
THEOREM SettingsAreReplacedAlways ==
  Spec => []SettingsAreReplaced
<1>1. LinesAreTyped => SettingsAreReplaced
  <2> SUFFICES ASSUME LinesAreTyped PROVE SettingsAreReplaced
    OBVIOUS
  <2>1. ASSUME NEW i PROVE SectionOf(i) = SectionAt(lines, i)
    BY DEF SectionOf, SectionAt, Heads
  <2>2. ASSUME NEW key PROVE Entries(key) = EntriesAt(lines, "Paths", key)
    BY <2>1 DEF Entries, EntriesAt
  <2>3. ASSUME NEW i \in DOMAIN lines
        PROVE  (\E key \in DOMAIN Values : i \in Entries(key)) <=> Hit(lines, "Paths", Values, i)
    BY <2>2 DEF EntriesAt, Hit
  <2>4. RewriteINI(lines, "Paths", Values) =
          IF \E key \in DOMAIN Values : Cardinality(EntriesAt(lines, "Paths", key)) # 1 THEN RefusedLines
          ELSE [i \in DOMAIN lines |-> Replaced(lines, "Paths", Values, i)]
    BY ValuesType, RewriteINIIsClosed DEF LinesAreTyped
  <2>5. ASSUME NEW i \in DOMAIN lines
        PROVE  Replaced(lines, "Paths", Values, i) =
                 IF \E key \in DOMAIN Values : i \in Entries(key)
                 THEN [lines[i] EXCEPT !.value = Values[lines[i].name]]
                 ELSE lines[i]
    BY <2>3 DEF Replaced
  <2>6. \A key \in DOMAIN Values : Cardinality(Entries(key)) = Cardinality(EntriesAt(lines, "Paths", key))
    BY <2>2
  <2> QED BY <2>4, <2>5, <2>6 DEF SettingsAreReplaced
<1> QED BY <1>1, LinesStayTyped, PTL

-----------------------------------------------------------------------------
(* Texts: bytes.ReplaceAll behind position i of a text, as a function of i. *)

Occurs(txt, old, i) ==
  i + Len(old) <= Len(txt) + 1 /\ SubSeq(txt, i, i + Len(old) - 1) = old

Rest(f, txt, old, new, i) ==
  IF i > Len(txt) THEN <<>>
  ELSE IF Occurs(txt, old, i) THEN new \o f[i + Len(old)]
  ELSE <<txt[i]>> \o f[i + 1]

\* Whatever is not replaced and what it is replaced by is in U.
Replaces(txt, old, new, T, U) ==
  /\ txt \in Seq(T) /\ new \in Seq(U)
  /\ Len(old) \in Nat \ {0}
  /\ \A i \in 1..Len(txt) : Occurs(txt, old, i) \/ txt[i] \in U

LEMMA RestType ==
  ASSUME NEW T, NEW U, NEW txt, NEW old, NEW new, Replaces(txt, old, new, T, U),
         NEW f \in [1..Len(txt) + 1 -> Seq(U)], NEW i \in 1..Len(txt) + 1
  PROVE  Rest(f, txt, old, new, i) \in Seq(U)
<1>1. Len(txt) \in Nat /\ Len(old) \in Nat \ {0} /\ new \in Seq(U)
  BY LenProperties DEF Replaces
<1>2. CASE i > Len(txt)
  BY <1>2 DEF Rest
<1>3. CASE ~(i > Len(txt)) /\ Occurs(txt, old, i)
  <2>1. i + Len(old) \in 1..Len(txt) + 1
    BY <1>1, <1>3 DEF Occurs
  <2>2. f[i + Len(old)] \in Seq(U)
    BY <2>1
  <2> QED BY <1>1, <1>3, <2>2, ConcatProperties DEF Rest
<1>4. CASE ~(i > Len(txt)) /\ ~Occurs(txt, old, i)
  <2>1. i \in 1..Len(txt) /\ i + 1 \in 1..Len(txt) + 1
    BY <1>1, <1>4
  <2>2. f[i + 1] \in Seq(U) /\ <<txt[i]>> \in Seq(U)
    BY <1>4, <2>1 DEF Replaces
  <2> QED BY <1>4, <2>2, ConcatProperties DEF Rest
<1> QED BY <1>2, <1>3, <1>4

LEMMA ReplaceSteps ==
  ASSUME NEW T, NEW U, NEW txt, NEW old, NEW new, Replaces(txt, old, new, T, U)
  PROVE  \E f \in [1..Len(txt) + 1 -> Seq(U)] :
           /\ \A i \in 1..Len(txt) + 1 : f[i] = Rest(f, txt, old, new, i)
           /\ f[1] = ReplaceEach(txt, old, new)
<1> DEFINE N == Len(txt)
           D == 1..N + 1
           Good(g, n) == \A i \in D : i >= N + 1 - n => g[i] = Rest(g, txt, old, new, i)
           S == {n \in 0..N : \E g \in [D -> Seq(U)] : Good(g, n)}
<1>1. N \in Nat /\ Len(old) \in Nat \ {0}
  BY LenProperties DEF Replaces
<1>2. 0 \in S
  <2> DEFINE g == [i \in D |-> <<>>]
  <2>1. g \in [D -> Seq(U)]
    OBVIOUS
  <2>2. ASSUME NEW i \in D, i >= N + 1 - 0 PROVE g[i] = Rest(g, txt, old, new, i)
    BY <1>1, <2>2 DEF Rest
  <2>3. Good(g, 0) /\ 0 \in 0..N
    BY <1>1, <2>2
  <2> HIDE DEF g, Good
  <2> QED BY <2>1, <2>3
<1>3. ASSUME NEW n \in 1..N, n - 1 \in S PROVE n \in S
  <2>1. PICK g \in [D -> Seq(U)] : Good(g, n - 1)
    BY <1>3
  <2> DEFINE at == N + 1 - n
             h == [g EXCEPT ![at] = Rest(g, txt, old, new, at)]
  <2>2. at \in D /\ n \in 0..N
    BY <1>1
  <2>3. h \in [D -> Seq(U)]
    <3>1. Rest(g, txt, old, new, at) \in Seq(U)
      BY <2>2, RestType
    <3> HIDE DEF at
    <3> QED BY <2>2, <3>1
  <2>4. ASSUME NEW i \in D, i >= at PROVE h[i] = Rest(h, txt, old, new, i)
    <3>1. \A j \in D : j > at => h[j] = g[j]
      BY <1>1, <2>2
    <3>2. Rest(h, txt, old, new, i) = Rest(g, txt, old, new, i)
      <4>1. CASE i > N
        BY <4>1 DEF Rest
      <4>2. CASE ~(i > N) /\ Occurs(txt, old, i)
        <5>1. i + Len(old) \in D /\ i + Len(old) > at
          BY <1>1, <2>2, <2>4, <4>2 DEF Occurs
        <5>2. h[i + Len(old)] = g[i + Len(old)]
          BY <3>1, <5>1
        <5> HIDE DEF h
        <5> QED BY <4>2, <5>2 DEF Rest
      <4>3. CASE ~(i > N) /\ ~Occurs(txt, old, i)
        <5>1. i + 1 \in D /\ i + 1 > at
          BY <1>1, <2>2, <2>4, <4>3
        <5>2. h[i + 1] = g[i + 1]
          BY <3>1, <5>1
        <5> HIDE DEF h
        <5> QED BY <4>3, <5>2 DEF Rest
      <4> QED BY <4>1, <4>2, <4>3
    <3>3. CASE i = at
      <4>1. h[i] = Rest(g, txt, old, new, i)
        BY <2>2, <3>3
      <4> HIDE DEF h
      <4> QED BY <3>2, <4>1
    <3>4. CASE i # at
      <4>1. i > at /\ i >= N + 1 - (n - 1)
        BY <1>1, <2>2, <2>4, <3>4
      <4>2. h[i] = g[i] /\ g[i] = Rest(g, txt, old, new, i)
        BY <2>1, <3>1, <4>1
      <4> HIDE DEF h
      <4> QED BY <3>2, <4>2
    <3> QED BY <3>3, <3>4
  <2>5. Good(h, n)
    BY <2>4
  <2> HIDE DEF h, Good
  <2> QED BY <2>2, <2>3, <2>5
<1> HIDE DEF S
<1>4. N \in S
  <2> HIDE DEF N
  <2>1. \A n \in 0..N : n \in S
    BY <1>1, <1>2, <1>3, InductionUpTo
  <2> QED BY <1>1, <2>1
<1>5. PICK g \in [D -> Seq(U)] : Good(g, N)
  BY <1>4 DEF S
<1>6. \A i \in D : g[i] = Rest(g, txt, old, new, i)
  <2>1. \A i \in D : i >= N + 1 - N
    BY <1>1
  <2> QED BY <1>5, <2>1
<1> HIDE DEF Good
<1> DEFINE from[i \in 1..Len(txt) + 1] ==
             IF i > Len(txt) THEN <<>>
             ELSE IF i + Len(old) <= Len(txt) + 1 /\ SubSeq(txt, i, i + Len(old) - 1) = old
                  THEN new \o from[i + Len(old)]
             ELSE <<txt[i]>> \o from[i + 1]
           Step(f) == [i \in D |-> Rest(f, txt, old, new, i)]
<1>7. ReplaceEach(txt, old, new) = from[1]
  BY DEF ReplaceEach
<1>8. g = Step(g)
  BY <1>6
<1>9. from = Step(from)
  <2> HIDE DEF Step
  <2>1. from = CHOOSE f : f = Step(f)
    BY DEF Step, Rest, Occurs
  <2> HIDE DEF from
  <2> QED BY <1>8, <2>1
<1> HIDE DEF from
<1>10. \A i \in D : from[i] = Rest(from, txt, old, new, i)
  BY <1>9
<1> DEFINE Same == {n \in 0..N : \A i \in D : i >= N + 1 - n => from[i] = g[i]}
<1>11. 0 \in Same
  <2>1. ASSUME NEW i \in D, i >= N + 1 - 0 PROVE from[i] = g[i]
    <3>1. i > N
      BY <1>1, <2>1
    <3>2. Rest(from, txt, old, new, i) = <<>> /\ Rest(g, txt, old, new, i) = <<>>
      BY <3>1 DEF Rest
    <3> QED BY <1>6, <1>10, <3>2
  <2> QED BY <1>1, <2>1
<1>12. ASSUME NEW n \in 1..N, n - 1 \in Same PROVE n \in Same
  <2>1. n \in 0..N
    BY <1>1
  <2>2. ASSUME NEW i \in D, i >= N + 1 - n PROVE from[i] = g[i]
    <3>1. \A j \in D : j > i => from[j] = g[j]
      BY <1>1, <1>12, <2>2
    <3>2. Rest(from, txt, old, new, i) = Rest(g, txt, old, new, i)
      <4>1. CASE i > N
        BY <4>1 DEF Rest
      <4>2. CASE ~(i > N) /\ Occurs(txt, old, i)
        <5>1. i + Len(old) \in D /\ i + Len(old) > i
          BY <1>1, <4>2 DEF Occurs
        <5> QED BY <3>1, <4>2, <5>1 DEF Rest
      <4>3. CASE ~(i > N) /\ ~Occurs(txt, old, i)
        <5>1. i + 1 \in D /\ i + 1 > i
          BY <1>1, <4>3
        <5> QED BY <3>1, <4>3, <5>1 DEF Rest
      <4> QED BY <4>1, <4>2, <4>3
    <3> QED BY <1>6, <1>10, <3>2
  <2> QED BY <2>1, <2>2
<1> HIDE DEF Same
<1>13. N \in Same
  <2> HIDE DEF N
  <2>1. \A n \in 0..N : n \in Same
    BY <1>1, <1>11, <1>12, InductionUpTo
  <2> QED BY <1>1, <2>1
<1>14. from[1] = g[1]
  <2>1. 1 \in D /\ 1 >= N + 1 - N
    BY <1>1
  <2> QED BY <1>13, <2>1 DEF Same
<1> QED BY <1>6, <1>7, <1>14

LEMMA ReplaceInto ==
  ASSUME NEW T, NEW U, NEW txt, NEW old, NEW new, Replaces(txt, old, new, T, U)
  PROVE  ReplaceEach(txt, old, new) \in Seq(U)
<1>1. Len(txt) \in Nat
  BY LenProperties DEF Replaces
<1>2. 1 \in 1..Len(txt) + 1
  BY <1>1
<1>3. PICK f \in [1..Len(txt) + 1 -> Seq(U)] : f[1] = ReplaceEach(txt, old, new)
  BY ReplaceSteps
<1> QED BY <1>2, <1>3

\* Downwards from the end of a text.
LEMMA InductionDown ==
  ASSUME NEW N \in Nat, NEW S, N + 1 \in S,
         \A i \in 1..N : (\A j \in i + 1..N + 1 : j \in S) => i \in S
  PROVE  \A i \in 1..N + 1 : i \in S
<1> DEFINE Above == {n \in 0..N : \A i \in 1..N + 1 : i >= N + 1 - n => i \in S}
<1>1. 0 \in Above
  <2>1. ASSUME NEW i \in 1..N + 1, i >= N + 1 - 0 PROVE i \in S
    <3>1. i = N + 1
      BY <2>1
    <3> QED BY <3>1
  <2> QED BY <2>1
<1>2. ASSUME NEW n \in 1..N, n - 1 \in Above PROVE n \in Above
  <2>1. ASSUME NEW i \in 1..N + 1, i >= N + 1 - n PROVE i \in S
    <3>1. CASE i >= N + 1 - (n - 1)
      BY <1>2, <3>1
    <3>2. CASE i < N + 1 - (n - 1)
      <4>1. i \in 1..N
        BY <3>2
      <4>2. \A j \in i + 1..N + 1 : j \in 1..N + 1 /\ j >= N + 1 - (n - 1)
        BY <2>1, <4>1
      <4>3. \A j \in i + 1..N + 1 : j \in S
        BY <1>2, <4>2
      <4> QED BY <4>1, <4>3
    <3> QED BY <3>1, <3>2
  <2>2. n \in 0..N
    OBVIOUS
  <2> QED BY <2>1, <2>2
<1> HIDE DEF Above
<1>3. \A n \in 0..N : n \in Above
  BY <1>1, <1>2, InductionUpTo
<1>4. N \in Above /\ \A i \in 1..N + 1 : i >= N + 1 - N
  BY <1>3
<1> QED BY <1>4 DEF Above

\* Nothing is replaced in a text that does not have what is to be replaced.
LEMMA ReplaceNothing ==
  ASSUME NEW T, NEW U, NEW txt \in Seq(T), NEW old, Len(old) \in Nat \ {0}, NEW new \in Seq(U),
         \A i \in 1..Len(txt) : ~Occurs(txt, old, i)
  PROVE  ReplaceEach(txt, old, new) = txt
<1> DEFINE N == Len(txt)
<1>1. N \in Nat
  BY LenProperties
<1>2. Replaces(txt, old, new, T, T \cup U)
  <2>1. \A i \in 1..N : txt[i] \in T \cup U
    BY ElementOfSeq
  <2>2. new \in Seq(T \cup U)
    BY ElementOfSeq, LenProperties, SeqDef
  <2> QED BY <2>1, <2>2 DEF Replaces
<1>3. PICK f \in [1..N + 1 -> Seq(T \cup U)] :
        (\A i \in 1..N + 1 : f[i] = Rest(f, txt, old, new, i)) /\ f[1] = ReplaceEach(txt, old, new)
  BY <1>2, ReplaceSteps
<1> DEFINE S == {i \in 1..N + 1 : f[i] = SubSeq(txt, i, N)}
<1>4. N + 1 \in S
  <2>1. SubSeq(txt, N + 1, N) = <<>>
    BY <1>1, SubSeqEmpty
  <2>2. N + 1 > N /\ N + 1 \in 1..N + 1
    BY <1>1
  <2>3. Rest(f, txt, old, new, N + 1) = <<>>
    BY <2>2 DEF Rest
  <2> QED BY <1>3, <2>1, <2>2, <2>3
<1>5. ASSUME NEW i \in 1..N, \A j \in i + 1..N + 1 : j \in S PROVE i \in S
  <2>1. i \in 1..N + 1 /\ i + 1 \in i + 1..N + 1 /\ ~(i > N) /\ N \in i..N
    BY <1>1
  <2>2. f[i] = <<txt[i]>> \o f[i + 1]
    BY <1>3, <2>1 DEF Rest
  <2>3. f[i + 1] = SubSeq(txt, i + 1, N)
    BY <1>5, <2>1
  <2>4. SubSeq(txt, i, N) = <<txt[i]>> \o SubSeq(txt, i + 1, N)
    BY <2>1, SubSeqRecursiveFirst
  <2> QED BY <2>1, <2>2, <2>3, <2>4
<1> HIDE DEF S
<1>6. 1 \in S
  <2>1. \A i \in 1..N + 1 : i \in S
    <3> HIDE DEF N
    <3> QED BY <1>1, <1>4, <1>5, InductionDown
  <2> QED BY <1>1, <2>1
<1> QED BY <1>3, <1>6, SubSeqFull DEF S

LEMMA ConcatOne ==
  ASSUME NEW x, NEW z
  PROVE  <<x>> \o <<z>> = <<x, z>>
<1> DEFINE T == {x, z}
           s == <<x>>
           t == <<z>>
           r == <<x, z>>
<1>1. s \in Seq(T) /\ t \in Seq(T) /\ r \in Seq(T)
  OBVIOUS
<1>2. Len(s) = 1 /\ Len(t) = 1 /\ Len(r) = 2 /\ s[1] = x /\ t[1] = z /\ r[1] = x /\ r[2] = z
  OBVIOUS
<1> HIDE DEF T, s, t, r
<1>3. /\ s \o t \in Seq(T) /\ Len(s \o t) = Len(s) + Len(t)
      /\ \A k \in 1..Len(s) + Len(t) : (s \o t)[k] = IF k <= Len(s) THEN s[k] ELSE t[k - Len(s)]
  BY <1>1, ConcatProperties
<1>4. \A k \in 1..2 : (s \o t)[k] = r[k]
  BY <1>2, <1>3
<1>5. s \o t = r
  BY <1>1, <1>2, <1>3, <1>4, SeqEqual
<1> QED BY <1>5 DEF s, t, r

LEMMA ConcatTwo ==
  ASSUME NEW x, NEW y, NEW z
  PROVE  <<x, y>> \o <<z>> = <<x, y, z>>
<1> DEFINE T == {x, y, z}
           s == <<x, y>>
           t == <<z>>
           r == <<x, y, z>>
<1>1. s \in Seq(T) /\ t \in Seq(T) /\ r \in Seq(T)
  OBVIOUS
<1>2. /\ Len(s) = 2 /\ Len(t) = 1 /\ Len(r) = 3
      /\ s[1] = x /\ s[2] = y /\ t[1] = z /\ r[1] = x /\ r[2] = y /\ r[3] = z
  OBVIOUS
<1> HIDE DEF T, s, t, r
<1>3. /\ s \o t \in Seq(T) /\ Len(s \o t) = Len(s) + Len(t)
      /\ \A k \in 1..Len(s) + Len(t) : (s \o t)[k] = IF k <= Len(s) THEN s[k] ELSE t[k - Len(s)]
  BY <1>1, ConcatProperties
<1>4. \A k \in 1..3 : (s \o t)[k] = r[k]
  BY <1>2, <1>3
<1>5. s \o t = r
  BY <1>1, <1>2, <1>3, <1>4, SeqEqual
<1> QED BY <1>5 DEF s, t, r

LEMMA SubSeqOfOne ==
  ASSUME NEW T, NEW seq \in Seq(T), NEW i \in 1..Len(seq)
  PROVE  SubSeq(seq, i, i) = <<seq[i]>>
<1>1. i \in i..Len(seq) /\ i + 1 > i /\ i \in Int
  BY LenProperties
<1>2. SubSeq(seq, i, i) = <<seq[i]>> \o SubSeq(seq, i + 1, i)
  BY <1>1, SubSeqRecursiveFirst
<1>3. SubSeq(seq, i + 1, i) = <<>>
  BY <1>1, SubSeqEmpty
<1>4. <<seq[i]>> \in Seq(T)
  BY ElementOfSeq
<1> QED BY <1>2, <1>3, <1>4, ConcatEmptySeq

LEMMA SubSeqOfTwo ==
  ASSUME NEW T, NEW seq \in Seq(T), NEW i \in 1..Len(seq) - 1
  PROVE  SubSeq(seq, i, i + 1) = <<seq[i], seq[i + 1]>>
<1>1. Len(seq) \in Nat
  BY LenProperties
<1>2. i \in 1..Len(seq) /\ i + 1 \in i..Len(seq) /\ i + 1 \in 1..Len(seq) /\ i + 1 \in i + 1..Len(seq)
  BY <1>1
<1>3. SubSeq(seq, i, i + 1) = <<seq[i]>> \o SubSeq(seq, i + 1, i + 1)
  BY <1>2, SubSeqRecursiveFirst
<1>4. SubSeq(seq, i + 1, i + 1) = <<seq[i + 1]>> \o SubSeq(seq, (i + 1) + 1, i + 1)
  BY <1>2, SubSeqRecursiveFirst
<1>5. SubSeq(seq, (i + 1) + 1, i + 1) = <<>>
  BY <1>2, SubSeqEmpty
<1>6. seq[i] \in T /\ seq[i + 1] \in T
  BY <1>2, ElementOfSeq
<1>7. <<seq[i + 1]>> \o <<>> = <<seq[i + 1]>>
  BY <1>6
<1>8. <<seq[i]>> \o <<seq[i + 1]>> = <<seq[i], seq[i + 1]>>
  BY ConcatOne
<1> QED BY <1>3, <1>4, <1>5, <1>7, <1>8

\* No occurrence of a with b right behind it.
NoPair(txt, a, b) == \A i \in 1..Len(txt) - 1 : ~(txt[i] = a /\ txt[i + 1] = b)

\* Replacing by a single other token makes no pair, and replacing the pair
\* leaves none of it.
LEMMA ReplaceLeavesNoPair ==
  ASSUME NEW T, NEW U, NEW txt, NEW old, NEW c, Replaces(txt, old, <<c>>, T, U),
         NEW a, NEW b, c # a, c # b, NoPair(txt, a, b) \/ old = <<a, b>>
  PROVE  NoPair(ReplaceEach(txt, old, <<c>>), a, b)
<1> DEFINE N == Len(txt)
<1>1. N \in Nat /\ Len(old) \in Nat \ {0}
  BY LenProperties DEF Replaces
<1>2. PICK f \in [1..N + 1 -> Seq(U)] :
        (\A i \in 1..N + 1 : f[i] = Rest(f, txt, old, <<c>>, i)) /\ f[1] = ReplaceEach(txt, old, <<c>>)
  BY ReplaceSteps
<1> DEFINE S == {i \in 1..N + 1 :
                   NoPair(f[i], a, b) /\ (f[i] # <<>> /\ f[i][1] = b => i \in 1..N /\ txt[i] = b)}
<1>3. N + 1 \in S
  <2>1. N + 1 > N /\ N + 1 \in 1..N + 1
    BY <1>1
  <2>2. f[N + 1] = <<>>
    BY <1>2, <2>1 DEF Rest
  <2>3. NoPair(<<>>, a, b)
    BY DEF NoPair
  <2> QED BY <2>1, <2>2, <2>3
<1>4. ASSUME NEW x \in U, NEW s \in Seq(U), NoPair(s, a, b), ~(x = a /\ s # <<>> /\ s[1] = b)
      PROVE  NoPair(<<x>> \o s, a, b) /\ (<<x>> \o s)[1] = x
  <2> DEFINE r == <<x>> \o s
  <2>1. Len(r) = Len(s) + 1 /\ r[1] = x /\ \A i \in 1..Len(s) : r[i + 1] = s[i]
    OBVIOUS
  <2>2. Len(s) \in Nat /\ (Len(s) > 0 => s # <<>>)
    BY LenProperties
  <2> HIDE DEF r
  <2>3. ASSUME NEW i \in 1..Len(r) - 1, r[i] = a, r[i + 1] = b PROVE FALSE
    <3>1. i \in 1..Len(s)
      BY <2>1, <2>2
    <3>2. CASE i = 1
      <4>1. x = a /\ s[1] = b /\ s # <<>>
        BY <2>1, <2>2, <2>3, <3>1, <3>2
      <4> QED BY <1>4, <4>1
    <3>3. CASE i # 1
      <4>1. i - 1 \in 1..Len(s) - 1 /\ (i - 1) + 1 = i
        BY <2>2, <3>1, <3>3
      <4>2. i - 1 \in 1..Len(s)
        BY <2>2, <4>1
      <4>3. r[(i - 1) + 1] = s[i - 1] /\ r[i + 1] = s[i]
        BY <2>1, <3>1, <4>2
      <4>4. s[i - 1] = a /\ s[(i - 1) + 1] = b
        BY <2>3, <4>1, <4>3
      <4> QED BY <1>4, <4>1, <4>4 DEF NoPair
    <3> QED BY <3>2, <3>3
  <2>4. NoPair(r, a, b)
    BY <2>3 DEF NoPair
  <2>5. r[1] = x
    BY <2>1
  <2> QED BY <2>4, <2>5, Zenon DEF r
<1>5. ASSUME NEW j \in S
      PROVE  /\ j \in 1..N + 1 /\ f[j] \in Seq(U) /\ NoPair(f[j], a, b)
             /\ f[j] # <<>> /\ f[j][1] = b => j \in 1..N /\ txt[j] = b
  <2>1. j \in 1..N + 1
    OBVIOUS
  <2>2. f[j] \in Seq(U)
    BY <2>1
  <2>3. NoPair(f[j], a, b) /\ (f[j] # <<>> /\ f[j][1] = b => j \in 1..N /\ txt[j] = b)
    OBVIOUS
  <2> QED BY <2>1, <2>2, <2>3
<1>6. ASSUME NEW j \in 1..N + 1, NoPair(f[j], a, b), f[j] # <<>> /\ f[j][1] = b => j \in 1..N /\ txt[j] = b
      PROVE  j \in S
  BY <1>6
<1> HIDE DEF S
<1>7. ASSUME NEW i \in 1..N, \A j \in i + 1..N + 1 : j \in S PROVE i \in S
  <2>1. i \in 1..N + 1 /\ i + 1 \in i + 1..N + 1 /\ ~(i > N)
    BY <1>1
  <2>2. CASE Occurs(txt, old, i)
    <3>1. i + Len(old) \in i + 1..N + 1
      BY <1>1, <2>2 DEF Occurs
    <3>2. f[i + Len(old)] \in Seq(U) /\ NoPair(f[i + Len(old)], a, b)
      BY <1>7, <1>5, <3>1
    <3>3. f[i] = <<c>> \o f[i + Len(old)]
      BY <1>2, <2>1, <2>2 DEF Rest
    <3>4. <<c>> \in Seq(U) /\ <<c>>[1] = c
      BY DEF Replaces
    <3>5. c \in U
      BY <3>4
    <3>6. NoPair(f[i], a, b) /\ f[i][1] = c
      BY <1>4, <3>2, <3>3, <3>5
    <3> QED BY <1>6, <2>1, <3>6
  <2>3. CASE ~Occurs(txt, old, i)
    <3>1. /\ f[i + 1] \in Seq(U) /\ NoPair(f[i + 1], a, b)
          /\ f[i + 1] # <<>> /\ f[i + 1][1] = b => i + 1 \in 1..N /\ txt[i + 1] = b
      BY <1>7, <1>5, <2>1
    <3>2. f[i] = <<txt[i]>> \o f[i + 1] /\ txt[i] \in U
      BY <1>2, <2>1, <2>3 DEF Rest, Replaces
    <3>3. ASSUME txt[i] = a, f[i + 1] # <<>>, f[i + 1][1] = b PROVE FALSE
      <4>1. i + 1 \in 1..N /\ txt[i + 1] = b
        BY <3>1, <3>3
      <4>2. i \in 1..N - 1
        BY <1>1, <4>1
      <4>3. ~NoPair(txt, a, b)
        BY <3>3, <4>1, <4>2 DEF NoPair
      <4>4. old = <<a, b>> /\ Len(old) = 2
        BY <4>3
      <4>5. SubSeq(txt, i, i + 1) = <<txt[i], txt[i + 1]>>
        BY <4>2, SubSeqOfTwo DEF Replaces
      <4>6. Occurs(txt, old, i)
        BY <1>1, <3>3, <4>1, <4>4, <4>5 DEF Occurs
      <4> QED BY <2>3, <4>6
    <3>4. NoPair(f[i], a, b) /\ f[i][1] = txt[i]
      BY <1>4, <3>1, <3>2, <3>3
    <3> QED BY <1>6, <2>1, <3>4
  <2> QED BY <2>2, <2>3
<1>8. 1 \in S
  <2>1. \A i \in 1..N + 1 : i \in S
    <3> HIDE DEF N
    <3> QED BY <1>1, <1>3, <1>7, InductionDown
  <2> QED BY <1>1, <2>1
<1>9. NoPair(f[1], a, b)
  BY <1>5, <1>8
<1> QED BY <1>2, <1>9

-----------------------------------------------------------------------------
(* The build paths of package metadata, one prefix after another.          *)

Tokens == MetadataTokens \cup ScriptTokens \cup {"/kit", "\\kit", "libs", "'"}

LEMMA BackslashedPaths ==
  /\ Backslashed(<<"/Users">>) = <<"\\Users">>
  /\ Backslashed(<<"/home">>) = <<"\\home">>
  /\ Backslashed(<<"c:", "/Users">>) = <<"c:", "\\Users">>
  /\ Backslashed(<<"C:", "/Users">>) = <<"C:", "\\Users">>
  /\ Backslashed(KitDir) = <<"\\kit">>
<1>1. /\ "/Users" \in DOMAIN Backslashes /\ Backslashes["/Users"] = "\\Users"
      /\ "/home" \in DOMAIN Backslashes /\ Backslashes["/home"] = "\\home"
      /\ "/kit" \in DOMAIN Backslashes /\ Backslashes["/kit"] = "\\kit"
      /\ "c:" \notin DOMAIN Backslashes /\ "C:" \notin DOMAIN Backslashes
  BY DEF Backslashes
<1>2. ASSUME NEW x \in DOMAIN Backslashes PROVE Backslashed(<<x>>) = <<Backslashes[x]>>
  BY DEF Backslashed
<1>3. ASSUME NEW x \in DOMAIN Backslashes, NEW d, d \notin DOMAIN Backslashes
      PROVE  Backslashed(<<d, x>>) = <<d, Backslashes[x]>>
  BY <1>3 DEF Backslashed
<1> QED BY <1>1, <1>2, <1>3 DEF KitDir

\* Of a text and a prefix: what replaceDesktopBuildPrefixes makes of them, and
\* what rewriteDesktopPRL does.
IntoKit(t, p) == ReplaceEach(ReplaceEach(t, p, KitDir), Backslashed(p), Backslashed(KitDir))

IntoProperty(t, p) ==
  ReplaceEach(ReplaceEach(t, p \o <<"/lib">>, <<"libs">>), Backslashed(p) \o <<"\\lib">>, <<"libs">>)

\* A text over U becomes one over V, when the prefix is one token of U outside V.
LEMMA ReplaceOne ==
  ASSUME NEW U, NEW V, NEW txt \in Seq(U), NEW old, NEW c \in V, U \ {old} \subseteq V
  PROVE  ReplaceEach(txt, <<old>>, <<c>>) \in Seq(V)
<1>1. ASSUME NEW i \in 1..Len(txt) PROVE Occurs(txt, <<old>>, i) \/ txt[i] \in V
  <2>1. txt[i] \in U /\ Len(txt) \in Nat
    BY ElementOfSeq, LenProperties
  <2>2. CASE txt[i] = old
    <3>1. SubSeq(txt, i, i) = <<txt[i]>>
      BY SubSeqOfOne
    <3>2. Len(<<old>>) = 1 /\ i + 1 <= Len(txt) + 1 /\ i + 1 - 1 = i
      BY <2>1
    <3> QED BY <2>2, <3>1, <3>2 DEF Occurs
  <2>3. CASE txt[i] # old
    BY <2>1, <2>3
  <2> QED BY <2>2, <2>3
<1>2. <<c>> \in Seq(V) /\ Len(<<old>>) \in Nat \ {0}
  OBVIOUS
<1>3. Replaces(txt, <<old>>, <<c>>, U, V)
  BY <1>1, <1>2 DEF Replaces
<1> QED BY <1>3, ReplaceInto

\* A pattern that contains a token which the text does not is not in it.
LEMMA NoOccurrence ==
  ASSUME NEW U, NEW txt \in Seq(U), NEW old, NEW k \in 1..Len(old), Len(old) \in Nat, old[k] \notin U,
         NEW i \in 1..Len(txt)
  PROVE  ~Occurs(txt, old, i)
<1> SUFFICES ASSUME Occurs(txt, old, i) PROVE FALSE
  OBVIOUS
<1>1. Len(txt) \in Nat
  BY LenProperties
<1>2. i + Len(old) <= Len(txt) + 1 /\ SubSeq(txt, i, i + Len(old) - 1) = old
  BY DEF Occurs
<1>3. \A j \in i..i + Len(old) - 1 : j \in 1..Len(txt)
  BY <1>1, <1>2
<1>4. \A j \in i..i + Len(old) - 1 : txt[j] \in U
  BY <1>3, ElementOfSeq
<1>5. SubSeq(txt, i, i + Len(old) - 1) \in Seq(U)
  BY <1>2, <1>4, SubSeqProperties
<1>6. old[k] \in U
  BY <1>2, <1>5, ElementOfSeq
<1> QED BY <1>6

LEMMA ReplaceAbsent ==
  ASSUME NEW U, NEW txt \in Seq(U), NEW old, NEW k \in 1..Len(old), Len(old) \in Nat, old[k] \notin U, NEW c
  PROVE  ReplaceEach(txt, old, <<c>>) = txt
<1>1. \A i \in 1..Len(txt) : ~Occurs(txt, old, i)
  BY NoOccurrence
<1>2. <<c>> \in Seq({c}) /\ Len(old) \in Nat \ {0}
  OBVIOUS
<1> QED BY <1>1, <1>2, ReplaceNothing

LEMMA ReplaceType ==
  ASSUME NEW U, NEW txt \in Seq(U), NEW old, Len(old) \in Nat \ {0}, NEW c \in U
  PROVE  ReplaceEach(txt, old, <<c>>) \in Seq(U)
<1>1. \A i \in 1..Len(txt) : txt[i] \in U
  BY ElementOfSeq
<1>2. <<c>> \in Seq(U)
  OBVIOUS
<1>3. Replaces(txt, old, <<c>>, U, U)
  BY <1>1, <1>2 DEF Replaces
<1> QED BY <1>3, ReplaceInto

\* The prefixes, with slashes and with backslashes, and with the libraries.
LEMMA ThePrefixes ==
  /\ Len(BuildPrefixes) = 4 /\ DOMAIN BuildPrefixes = 1..4
  /\ BuildPrefixes[1] = <<"/Users">> /\ BuildPrefixes[2] = <<"/home">>
  /\ BuildPrefixes[3] = <<"c:", "/Users">> /\ BuildPrefixes[4] = <<"C:", "/Users">>
  /\ \A k \in 1..4 : Len(BuildPrefixes[k]) \in {1, 2} /\ Len(Backslashed(BuildPrefixes[k])) \in {1, 2}
<1>1. /\ Len(BuildPrefixes) = 4 /\ DOMAIN BuildPrefixes = 1..4
      /\ BuildPrefixes[1] = <<"/Users">> /\ BuildPrefixes[2] = <<"/home">>
      /\ BuildPrefixes[3] = <<"c:", "/Users">> /\ BuildPrefixes[4] = <<"C:", "/Users">>
  BY DEF BuildPrefixes
<1>2. ASSUME NEW k \in 1..4
      PROVE  Len(BuildPrefixes[k]) \in {1, 2} /\ Len(Backslashed(BuildPrefixes[k])) \in {1, 2}
  <2>1. k = 1 \/ k = 2 \/ k = 3 \/ k = 4
    OBVIOUS
  <2> QED BY <1>1, <2>1, BackslashedPaths
<1> QED BY <1>1, <1>2

LEMMA PrefixLoopSteps ==
  ASSUME NEW U, NEW txt \in Seq(U), "/kit" \in U, "\\kit" \in U
  PROVE  \E h \in [0..4 -> Seq(U)] :
           /\ h[0] = txt
           /\ \A k \in 1..4 : h[k] = IntoKit(h[k - 1], BuildPrefixes[k])
           /\ h[4] = ReplaceBuildPrefixes(txt, KitDir)
<1> DEFINE N == 4
           T == Seq(U)
           F == [pair \in T \X (1..N) |-> IntoKit(pair[1], BuildPrefixes[pair[2]])]
           fold[s \in SUBSET DOMAIN BuildPrefixes] ==
             IF s = {} THEN txt ELSE IntoKit(fold[s \ {Max(s)}], BuildPrefixes[Max(s)])
           Step(g) == [s \in SUBSET DOMAIN BuildPrefixes |->
                         IF s = {} THEN txt ELSE IntoKit(g[s \ {Max(s)}], BuildPrefixes[Max(s)])]
<1>1. N \in Nat /\ DOMAIN BuildPrefixes = 1..N
  BY ThePrefixes
<1>2. ReplaceBuildPrefixes(txt, KitDir) = fold[DOMAIN BuildPrefixes]
  BY DEF ReplaceBuildPrefixes, ReplacePrefixes, IntoKit, FoldLeft, MapThenFoldSet
<1>3. ASSUME NEW x \in T, NEW k \in 1..N
      PROVE  IntoKit(x, BuildPrefixes[k]) \in T
  <2>1. Len(BuildPrefixes[k]) \in Nat \ {0} /\ Len(Backslashed(BuildPrefixes[k])) \in Nat \ {0}
    <3>1. Len(BuildPrefixes[k]) \in {1, 2} /\ Len(Backslashed(BuildPrefixes[k])) \in {1, 2}
      BY ThePrefixes
    <3>2. \A n \in {1, 2} : n \in Nat \ {0}
      OBVIOUS
    <3> QED BY <3>1, <3>2, Zenon
  <2>2. ReplaceEach(x, BuildPrefixes[k], <<"/kit">>) \in T
    BY <2>1, ReplaceType
  <2>3. ReplaceEach(ReplaceEach(x, BuildPrefixes[k], <<"/kit">>), Backslashed(BuildPrefixes[k]), <<"\\kit">>) \in T
    BY <2>1, <2>2, ReplaceType
  <2> QED BY <2>3, BackslashedPaths DEF IntoKit, KitDir
<1> HIDE DEF T
<1>4. F \in [T \X (1..N) -> T] /\ txt \in T
  BY <1>3 DEF T
<1>5. PICK g \in [SUBSET (1..N) -> T] :
        /\ \A s \in SUBSET (1..N) : g[s] = IF s = {} THEN txt ELSE F[<<g[s \ {Max(s)}], Max(s)>>]
        /\ \A s \in SUBSET (1..N) : s # {} => g[s \ {Max(s)}] \in T /\ Max(s) \in 1..N
  <2> HIDE DEF F, N
  <2> QED BY <1>1, <1>4, FoldExists
<1>6. g = Step(g)
  <2>1. ASSUME NEW s \in SUBSET (1..N) PROVE g[s] = Step(g)[s]
    <3>1. CASE s = {}
      BY <1>1, <1>5, <3>1
    <3>2. CASE s # {}
      <4>1. g[s] = F[<<g[s \ {Max(s)}], Max(s)>>]
        BY <1>5, <3>2
      <4>2. F[<<g[s \ {Max(s)}], Max(s)>>] = IntoKit(g[s \ {Max(s)}], BuildPrefixes[Max(s)])
        BY <1>5, <3>2
      <4> QED BY <1>1, <3>2, <4>1, <4>2
    <3> QED BY <3>1, <3>2
  <2> QED BY <1>1, <2>1
<1>7. fold = Step(fold)
  <2> HIDE DEF Step
  <2>1. fold = CHOOSE f : f = Step(f)
    BY DEF Step
  <2> HIDE DEF fold
  <2> QED BY <1>6, <2>1
<1> HIDE DEF fold
<1>8. \E h \in [0..N -> T] :
        h[0] = txt /\ (\A k \in 1..N : h[k] = F[<<h[k - 1], k>>]) /\ h[N] = fold[1..N]
  <2> DEFINE G == [s \in SUBSET (1..N) |-> IntoKit(fold[s \ {Max(s)}], BuildPrefixes[Max(s)])]
  <2>1. \A s \in SUBSET (1..N) : fold[s] = IF s = {} THEN txt ELSE G[s]
    BY <1>1, <1>7
  <2>2. ASSUME NEW s \in SUBSET (1..N), s # {}, fold[s \ {Max(s)}] \in T
        PROVE  G[s] = F[<<fold[s \ {Max(s)}], Max(s)>>]
    BY <1>5, <2>2
  <2>3. Folds(fold, N, T, txt, F, G)
    <3>1. \A s \in SUBSET (1..N) : s # {} /\ fold[s \ {Max(s)}] \in T =>
                                      G[s] = F[<<fold[s \ {Max(s)}], Max(s)>>]
      BY <2>2
    <3> HIDE DEF N, F, G
    <3> QED BY <1>1, <1>4, <2>1, <3>1 DEF Folds
  <2> HIDE DEF N, F, G
  <2> QED BY <2>3, FoldIsLoop
<1>9. ASSUME NEW x \in T, NEW k \in 1..N
      PROVE  F[<<x, k>>] = IntoKit(x, BuildPrefixes[k])
  OBVIOUS
<1> HIDE DEF F
<1>10. PICK h \in [0..N -> T] :
         h[0] = txt /\ (\A k \in 1..N : h[k] = F[<<h[k - 1], k>>]) /\ h[N] = fold[1..N]
  BY <1>8
<1>11. ASSUME NEW k \in 1..N PROVE h[k] = IntoKit(h[k - 1], BuildPrefixes[k])
  <2>1. k - 1 \in 0..N
    OBVIOUS
  <2> QED BY <1>9, <1>10, <2>1
<1> QED BY <1>1, <1>2, <1>10, <1>11 DEF T

LEMMA IntoKitAbsent ==
  ASSUME NEW U, NEW t \in Seq(U), "/Users" \notin U, "/home" \notin U, "\\Users" \notin U, "\\home" \notin U,
         NEW k \in 1..4
  PROVE  IntoKit(t, BuildPrefixes[k]) = t
<1>1. \E j \in {1, 2} : /\ j \in 1..Len(BuildPrefixes[k]) /\ BuildPrefixes[k][j] \notin U
                       /\ j \in 1..Len(Backslashed(BuildPrefixes[k])) /\ Backslashed(BuildPrefixes[k])[j] \notin U
  <2>1. CASE k = 1
    <3>1. BuildPrefixes[1][1] = "/Users" /\ Backslashed(BuildPrefixes[1])[1] = "\\Users"
          /\ Len(BuildPrefixes[1]) = 1 /\ Len(Backslashed(BuildPrefixes[1])) = 1
      BY ThePrefixes, BackslashedPaths
    <3> QED BY <2>1, <3>1
  <2>2. CASE k = 2
    <3>1. BuildPrefixes[2][1] = "/home" /\ Backslashed(BuildPrefixes[2])[1] = "\\home"
          /\ Len(BuildPrefixes[2]) = 1 /\ Len(Backslashed(BuildPrefixes[2])) = 1
      BY ThePrefixes, BackslashedPaths
    <3> QED BY <2>2, <3>1
  <2>3. CASE k = 3
    <3>1. BuildPrefixes[3][2] = "/Users" /\ Backslashed(BuildPrefixes[3])[2] = "\\Users"
          /\ Len(BuildPrefixes[3]) = 2 /\ Len(Backslashed(BuildPrefixes[3])) = 2
      BY ThePrefixes, BackslashedPaths
    <3> QED BY <2>3, <3>1
  <2>4. CASE k = 4
    <3>1. BuildPrefixes[4][2] = "/Users" /\ Backslashed(BuildPrefixes[4])[2] = "\\Users"
          /\ Len(BuildPrefixes[4]) = 2 /\ Len(Backslashed(BuildPrefixes[4])) = 2
      BY ThePrefixes, BackslashedPaths
    <3> QED BY <2>4, <3>1
  <2> QED BY <2>1, <2>2, <2>3, <2>4
<1>2. Len(BuildPrefixes[k]) \in Nat /\ Len(Backslashed(BuildPrefixes[k])) \in Nat
  BY ThePrefixes
<1>3. ReplaceEach(t, BuildPrefixes[k], <<"/kit">>) = t
  BY <1>1, <1>2, ReplaceAbsent
<1>4. ReplaceEach(t, Backslashed(BuildPrefixes[k]), <<"\\kit">>) = t
  BY <1>1, <1>2, ReplaceAbsent
<1> QED BY <1>3, <1>4, BackslashedPaths DEF IntoKit, KitDir

\* No token of a build path is left in a text of any length, and a text
\* without them is left alone.
LEMMA BuildPathsGo ==
  ASSUME NEW U, NEW txt \in Seq(U), "/kit" \in U, "\\kit" \in U
  PROVE  /\ ReplaceBuildPrefixes(txt, KitDir) \in Seq(U \ {"/Users", "/home", "\\Users", "\\home"})
         /\ ReplaceBuildPrefixes(ReplaceBuildPrefixes(txt, KitDir), KitDir) = ReplaceBuildPrefixes(txt, KitDir)
<1> DEFINE V == U \ {"/Users", "/home", "\\Users", "\\home"}
           R == ReplaceBuildPrefixes(txt, KitDir)
<1>1. PICK h \in [0..4 -> Seq(U)] :
        h[0] = txt /\ (\A k \in 1..4 : h[k] = IntoKit(h[k - 1], BuildPrefixes[k])) /\ h[4] = R
  BY PrefixLoopSteps
<1>2. /\ h[1] = IntoKit(txt, <<"/Users">>) /\ h[2] = IntoKit(h[1], <<"/home">>)
      /\ h[3] = IntoKit(h[2], BuildPrefixes[3]) /\ h[4] = IntoKit(h[3], BuildPrefixes[4])
  <2>1. /\ 1 - 1 = 0 /\ 2 - 1 = 1 /\ 3 - 1 = 2 /\ 4 - 1 = 3
        /\ 1 \in 1..4 /\ 2 \in 1..4 /\ 3 \in 1..4 /\ 4 \in 1..4
    OBVIOUS
  <2>2. /\ h[1] = IntoKit(h[1 - 1], BuildPrefixes[1]) /\ h[2] = IntoKit(h[2 - 1], BuildPrefixes[2])
        /\ h[3] = IntoKit(h[3 - 1], BuildPrefixes[3]) /\ h[4] = IntoKit(h[4 - 1], BuildPrefixes[4])
    BY <1>1, <2>1
  <2> QED BY <1>1, <2>1, <2>2, ThePrefixes
<1>3. h[1] \in Seq(U \ {"/Users", "\\Users"})
  <2> DEFINE U1 == U \ {"/Users"}
             U2 == U \ {"/Users", "\\Users"}
  <2>1. "/kit" \in U1 /\ "\\kit" \in U2 /\ U \ {"/Users"} \subseteq U1 /\ U1 \ {"\\Users"} \subseteq U2
    OBVIOUS
  <2> HIDE DEF U1, U2
  <2>2. ReplaceEach(txt, <<"/Users">>, <<"/kit">>) \in Seq(U1)
    BY <2>1, ReplaceOne
  <2>3. ReplaceEach(ReplaceEach(txt, <<"/Users">>, <<"/kit">>), <<"\\Users">>, <<"\\kit">>) \in Seq(U2)
    BY <2>1, <2>2, ReplaceOne
  <2> QED BY <1>2, <2>3, BackslashedPaths DEF IntoKit, KitDir, U2
<1>4. h[2] \in Seq(V)
  <2> DEFINE U2 == U \ {"/Users", "\\Users"}
             U3 == U \ {"/Users", "\\Users", "/home"}
  <2>1. "/kit" \in U3 /\ "\\kit" \in V /\ U2 \ {"/home"} \subseteq U3 /\ U3 \ {"\\home"} \subseteq V
    OBVIOUS
  <2>2. h[1] \in Seq(U2)
    BY <1>3
  <2> HIDE DEF U2, U3, V
  <2>3. ReplaceEach(h[1], <<"/home">>, <<"/kit">>) \in Seq(U3)
    BY <2>1, <2>2, ReplaceOne
  <2>4. ReplaceEach(ReplaceEach(h[1], <<"/home">>, <<"/kit">>), <<"\\home">>, <<"\\kit">>) \in Seq(V)
    BY <2>1, <2>3, ReplaceOne
  <2> QED BY <1>2, <2>4, BackslashedPaths DEF IntoKit, KitDir
<1>5. "/Users" \notin V /\ "/home" \notin V /\ "\\Users" \notin V /\ "\\home" \notin V
      /\ "/kit" \in V /\ "\\kit" \in V
  OBVIOUS
<1> HIDE DEF V
<1>6. \A t \in Seq(V), k \in 1..4 : IntoKit(t, BuildPrefixes[k]) = t
  BY <1>5, IntoKitAbsent
<1>7. R = h[2] /\ R \in Seq(V)
  BY <1>1, <1>2, <1>4, <1>6
<1> HIDE DEF R
<1>8. PICK g \in [0..4 -> Seq(V)] :
        /\ g[0] = R
        /\ \A k \in 1..4 : g[k] = IntoKit(g[k - 1], BuildPrefixes[k])
        /\ g[4] = ReplaceBuildPrefixes(R, KitDir)
  BY <1>5, <1>7, PrefixLoopSteps
<1>9. g[1] = R /\ g[2] = R /\ g[3] = R /\ g[4] = R
  <2>1. \A k \in 1..4 : k - 1 \in 0..4 /\ g[k] = g[k - 1]
    BY <1>6, <1>8
  <2>2. g[1] = g[0] /\ g[2] = g[1] /\ g[3] = g[2] /\ g[4] = g[3]
    BY <2>1
  <2> QED BY <1>8, <2>2
<1> QED BY <1>7, <1>8, <1>9 DEF V, R

-----------------------------------------------------------------------------
(* The library paths of .prl files.                                        *)

LEMMA ThePatterns ==
  /\ BuildPrefixes[1] \o <<"/lib">> = <<"/Users", "/lib">>
  /\ Backslashed(BuildPrefixes[1]) \o <<"\\lib">> = <<"\\Users", "\\lib">>
  /\ BuildPrefixes[2] \o <<"/lib">> = <<"/home", "/lib">>
  /\ Backslashed(BuildPrefixes[2]) \o <<"\\lib">> = <<"\\home", "\\lib">>
  /\ BuildPrefixes[3] \o <<"/lib">> = <<"c:", "/Users", "/lib">>
  /\ Backslashed(BuildPrefixes[3]) \o <<"\\lib">> = <<"c:", "\\Users", "\\lib">>
  /\ BuildPrefixes[4] \o <<"/lib">> = <<"C:", "/Users", "/lib">>
  /\ Backslashed(BuildPrefixes[4]) \o <<"\\lib">> = <<"C:", "\\Users", "\\lib">>
  /\ \A k \in 1..4 : /\ Len(BuildPrefixes[k] \o <<"/lib">>) \in {2, 3}
                     /\ Len(Backslashed(BuildPrefixes[k]) \o <<"\\lib">>) \in {2, 3}
<1>1. \A x, z : <<x>> \o <<z>> = <<x, z>>
  BY ConcatOne
<1>2. \A x, y, z : <<x, y>> \o <<z>> = <<x, y, z>>
  BY ConcatTwo
<1>3. /\ BuildPrefixes[1] \o <<"/lib">> = <<"/Users", "/lib">>
      /\ Backslashed(BuildPrefixes[1]) \o <<"\\lib">> = <<"\\Users", "\\lib">>
      /\ BuildPrefixes[2] \o <<"/lib">> = <<"/home", "/lib">>
      /\ Backslashed(BuildPrefixes[2]) \o <<"\\lib">> = <<"\\home", "\\lib">>
  BY <1>1, ThePrefixes, BackslashedPaths
<1>4. /\ BuildPrefixes[3] \o <<"/lib">> = <<"c:", "/Users", "/lib">>
      /\ Backslashed(BuildPrefixes[3]) \o <<"\\lib">> = <<"c:", "\\Users", "\\lib">>
      /\ BuildPrefixes[4] \o <<"/lib">> = <<"C:", "/Users", "/lib">>
      /\ Backslashed(BuildPrefixes[4]) \o <<"\\lib">> = <<"C:", "\\Users", "\\lib">>
  BY <1>2, ThePrefixes, BackslashedPaths
<1>5. ASSUME NEW k \in 1..4
      PROVE  /\ Len(BuildPrefixes[k] \o <<"/lib">>) \in {2, 3}
             /\ Len(Backslashed(BuildPrefixes[k]) \o <<"\\lib">>) \in {2, 3}
  <2>1. CASE k \in {1, 2}
    <3>1. \A x, z : Len(<<x, z>>) = 2
      OBVIOUS
    <3> QED BY <1>3, <2>1, <3>1
  <2>2. CASE k \in {3, 4}
    <3>1. \A x, y, z : Len(<<x, y, z>>) = 3
      OBVIOUS
    <3> QED BY <1>4, <2>2, <3>1
  <2> QED BY <2>1, <2>2
<1> QED BY <1>3, <1>4, <1>5

LEMMA PropertyLoopSteps ==
  ASSUME NEW U, NEW txt \in Seq(U), "libs" \in U
  PROVE  \E h \in [0..4 -> Seq(U)] :
           /\ h[0] = txt
           /\ \A k \in 1..4 : h[k] = IntoProperty(h[k - 1], BuildPrefixes[k])
           /\ h[4] = RewritePRL(txt)
<1> DEFINE N == 4
           T == Seq(U)
           F == [pair \in T \X (1..N) |-> IntoProperty(pair[1], BuildPrefixes[pair[2]])]
           fold[s \in SUBSET DOMAIN BuildPrefixes] ==
             IF s = {} THEN txt ELSE IntoProperty(fold[s \ {Max(s)}], BuildPrefixes[Max(s)])
           Step(g) == [s \in SUBSET DOMAIN BuildPrefixes |->
                         IF s = {} THEN txt ELSE IntoProperty(g[s \ {Max(s)}], BuildPrefixes[Max(s)])]
<1>1. N \in Nat /\ DOMAIN BuildPrefixes = 1..N
  BY ThePrefixes
<1>2. RewritePRL(txt) = fold[DOMAIN BuildPrefixes]
  BY DEF RewritePRL, IntoProperty, FoldLeft, MapThenFoldSet
<1>3. ASSUME NEW x \in T, NEW k \in 1..N
      PROVE  IntoProperty(x, BuildPrefixes[k]) \in T
  <2> DEFINE one == BuildPrefixes[k] \o <<"/lib">>
             two == Backslashed(BuildPrefixes[k]) \o <<"\\lib">>
  <2>1. Len(one) \in Nat \ {0} /\ Len(two) \in Nat \ {0}
    <3>1. Len(one) \in {2, 3} /\ Len(two) \in {2, 3}
      BY ThePatterns
    <3>2. \A n \in {2, 3} : n \in Nat \ {0}
      OBVIOUS
    <3> QED BY <3>1, <3>2, Zenon
  <2> HIDE DEF one, two
  <2>2. ReplaceEach(x, one, <<"libs">>) \in T
    BY <2>1, ReplaceType
  <2>3. ReplaceEach(ReplaceEach(x, one, <<"libs">>), two, <<"libs">>) \in T
    BY <2>1, <2>2, ReplaceType
  <2> QED BY <2>3 DEF IntoProperty, one, two
<1> HIDE DEF T
<1>4. F \in [T \X (1..N) -> T] /\ txt \in T
  BY <1>3 DEF T
<1>5. PICK g \in [SUBSET (1..N) -> T] :
        /\ \A s \in SUBSET (1..N) : g[s] = IF s = {} THEN txt ELSE F[<<g[s \ {Max(s)}], Max(s)>>]
        /\ \A s \in SUBSET (1..N) : s # {} => g[s \ {Max(s)}] \in T /\ Max(s) \in 1..N
  <2> HIDE DEF F, N
  <2> QED BY <1>1, <1>4, FoldExists
<1>6. g = Step(g)
  <2>1. ASSUME NEW s \in SUBSET (1..N) PROVE g[s] = Step(g)[s]
    <3>1. CASE s = {}
      BY <1>1, <1>5, <3>1
    <3>2. CASE s # {}
      <4>1. g[s] = F[<<g[s \ {Max(s)}], Max(s)>>]
        BY <1>5, <3>2
      <4>2. F[<<g[s \ {Max(s)}], Max(s)>>] = IntoProperty(g[s \ {Max(s)}], BuildPrefixes[Max(s)])
        BY <1>5, <3>2
      <4> QED BY <1>1, <3>2, <4>1, <4>2
    <3> QED BY <3>1, <3>2
  <2> QED BY <1>1, <2>1
<1>7. fold = Step(fold)
  <2> HIDE DEF Step
  <2>1. fold = CHOOSE f : f = Step(f)
    BY DEF Step
  <2> HIDE DEF fold
  <2> QED BY <1>6, <2>1
<1> HIDE DEF fold
<1>8. \E h \in [0..N -> T] :
        h[0] = txt /\ (\A k \in 1..N : h[k] = F[<<h[k - 1], k>>]) /\ h[N] = fold[1..N]
  <2> DEFINE G == [s \in SUBSET (1..N) |-> IntoProperty(fold[s \ {Max(s)}], BuildPrefixes[Max(s)])]
  <2>1. \A s \in SUBSET (1..N) : fold[s] = IF s = {} THEN txt ELSE G[s]
    BY <1>1, <1>7
  <2>2. ASSUME NEW s \in SUBSET (1..N), s # {}, fold[s \ {Max(s)}] \in T
        PROVE  G[s] = F[<<fold[s \ {Max(s)}], Max(s)>>]
    BY <1>5, <2>2
  <2>3. Folds(fold, N, T, txt, F, G)
    <3>1. \A s \in SUBSET (1..N) : s # {} /\ fold[s \ {Max(s)}] \in T =>
                                      G[s] = F[<<fold[s \ {Max(s)}], Max(s)>>]
      BY <2>2
    <3> HIDE DEF N, F, G
    <3> QED BY <1>1, <1>4, <2>1, <3>1 DEF Folds
  <2> HIDE DEF N, F, G
  <2> QED BY <2>3, FoldIsLoop
<1>9. ASSUME NEW x \in T, NEW k \in 1..N
      PROVE  F[<<x, k>>] = IntoProperty(x, BuildPrefixes[k])
  OBVIOUS
<1> HIDE DEF F
<1>10. PICK h \in [0..N -> T] :
         h[0] = txt /\ (\A k \in 1..N : h[k] = F[<<h[k - 1], k>>]) /\ h[N] = fold[1..N]
  BY <1>8
<1>11. ASSUME NEW k \in 1..N PROVE h[k] = IntoProperty(h[k - 1], BuildPrefixes[k])
  <2>1. k - 1 \in 0..N
    OBVIOUS
  <2> QED BY <1>9, <1>10, <2>1
<1> QED BY <1>1, <1>2, <1>10, <1>11 DEF T

\* A pattern that contains a pair which the text does not have is not in it.
LEMMA NoPairNoOccurrence ==
  ASSUME NEW U, NEW txt \in Seq(U), NEW old, Len(old) \in Nat, NEW k \in 1..Len(old) - 1,
         NoPair(txt, old[k], old[k + 1]), NEW i \in 1..Len(txt)
  PROVE  ~Occurs(txt, old, i)
<1> SUFFICES ASSUME Occurs(txt, old, i) PROVE FALSE
  OBVIOUS
<1>1. Len(txt) \in Nat
  BY LenProperties
<1>2. i + Len(old) <= Len(txt) + 1 /\ SubSeq(txt, i, i + Len(old) - 1) = old
  BY DEF Occurs
<1>3. \A j \in i..i + Len(old) - 1 : txt[j] \in U
  <2>1. \A j \in i..i + Len(old) - 1 : j \in 1..Len(txt)
    BY <1>1, <1>2
  <2> QED BY <2>1, ElementOfSeq
<1>4. \A j \in 1..(i + Len(old) - 1) - i + 1 : SubSeq(txt, i, i + Len(old) - 1)[j] = txt[i + j - 1]
  BY <1>2, <1>3, SubSeqProperties
<1>5. k \in 1..(i + Len(old) - 1) - i + 1 /\ k + 1 \in 1..(i + Len(old) - 1) - i + 1
  BY <1>2
<1>6. old[k] = txt[i + k - 1] /\ old[k + 1] = txt[i + (k + 1) - 1]
  BY <1>2, <1>4, <1>5
<1>7. i + k - 1 \in 1..Len(txt) - 1 /\ (i + k - 1) + 1 = i + (k + 1) - 1
  BY <1>1, <1>2
<1> QED BY <1>6, <1>7 DEF NoPair

\* The four pairs of a library path.
NoLibraryPath(t) ==
  /\ NoPair(t, "/Users", "/lib") /\ NoPair(t, "\\Users", "\\lib")
  /\ NoPair(t, "/home", "/lib") /\ NoPair(t, "\\home", "\\lib")

LEMMA IntoPropertyPairs ==
  ASSUME NEW U, NEW t \in Seq(U), "libs" \in U, NEW k \in 1..4, NEW a, NEW b, a # "libs", b # "libs",
         \/ NoPair(t, a, b)
         \/ BuildPrefixes[k] \o <<"/lib">> = <<a, b>>
         \/ Backslashed(BuildPrefixes[k]) \o <<"\\lib">> = <<a, b>>
  PROVE  NoPair(IntoProperty(t, BuildPrefixes[k]), a, b)
<1> DEFINE one == BuildPrefixes[k] \o <<"/lib">>
           two == Backslashed(BuildPrefixes[k]) \o <<"\\lib">>
           u == ReplaceEach(t, one, <<"libs">>)
<1>1. Len(one) \in Nat \ {0} /\ Len(two) \in Nat \ {0}
  <2>1. Len(one) \in {2, 3} /\ Len(two) \in {2, 3}
    BY ThePatterns
  <2>2. \A n \in {2, 3} : n \in Nat \ {0}
    OBVIOUS
  <2> QED BY <2>1, <2>2, Zenon
<1>2. NoPair(t, a, b) \/ one = <<a, b>> \/ two = <<a, b>>
  OBVIOUS
<1>3. IntoProperty(t, BuildPrefixes[k]) = ReplaceEach(u, two, <<"libs">>)
  BY DEF IntoProperty
<1> HIDE DEF one, two
<1>4. ASSUME NEW v \in Seq(U), NEW old, Len(old) \in Nat \ {0}
      PROVE  Replaces(v, old, <<"libs">>, U, U)
  <2>1. <<"libs">> \in Seq(U) /\ \A i \in 1..Len(v) : v[i] \in U
    BY ElementOfSeq
  <2> QED BY <1>4, <2>1 DEF Replaces
<1>5. u \in Seq(U)
  BY <1>1, ReplaceType
<1>6. NoPair(t, a, b) \/ one = <<a, b>> => NoPair(u, a, b)
  BY <1>1, <1>4, ReplaceLeavesNoPair
<1> HIDE DEF u
<1>7. NoPair(u, a, b) \/ two = <<a, b>> => NoPair(ReplaceEach(u, two, <<"libs">>), a, b)
  BY <1>1, <1>4, <1>5, ReplaceLeavesNoPair
<1> QED BY <1>2, <1>3, <1>6, <1>7

LEMMA IntoPropertyAbsent ==
  ASSUME NEW U, NEW t \in Seq(U), NoLibraryPath(t), NEW k \in 1..4
  PROVE  IntoProperty(t, BuildPrefixes[k]) = t
<1> DEFINE one == BuildPrefixes[k] \o <<"/lib">>
           two == Backslashed(BuildPrefixes[k]) \o <<"\\lib">>
<1>1. \E j \in {1, 2} : /\ j \in 1..Len(one) - 1 /\ NoPair(t, one[j], one[j + 1])
                       /\ j \in 1..Len(two) - 1 /\ NoPair(t, two[j], two[j + 1])
  <2>1. CASE k = 1
    <3>1. one = <<"/Users", "/lib">> /\ two = <<"\\Users", "\\lib">>
      BY <2>1, ThePatterns
    <3> HIDE DEF one, two
    <3> QED BY <3>1 DEF NoLibraryPath
  <2>2. CASE k = 2
    <3>1. one = <<"/home", "/lib">> /\ two = <<"\\home", "\\lib">>
      BY <2>2, ThePatterns
    <3> HIDE DEF one, two
    <3> QED BY <3>1 DEF NoLibraryPath
  <2>3. CASE k = 3
    <3>1. one = <<"c:", "/Users", "/lib">> /\ two = <<"c:", "\\Users", "\\lib">>
      BY <2>3, ThePatterns
    <3> HIDE DEF one, two
    <3> QED BY <3>1 DEF NoLibraryPath
  <2>4. CASE k = 4
    <3>1. one = <<"C:", "/Users", "/lib">> /\ two = <<"C:", "\\Users", "\\lib">>
      BY <2>4, ThePatterns
    <3> HIDE DEF one, two
    <3> QED BY <3>1 DEF NoLibraryPath
  <2>5. k = 1 \/ k = 2 \/ k = 3 \/ k = 4
    OBVIOUS
  <2> HIDE DEF one, two
  <2> QED BY <2>1, <2>2, <2>3, <2>4, <2>5
<1>2. Len(one) \in Nat \ {0} /\ Len(two) \in Nat \ {0}
  <2>1. Len(one) \in {2, 3} /\ Len(two) \in {2, 3}
    BY ThePatterns
  <2>2. \A n \in {2, 3} : n \in Nat \ {0}
    OBVIOUS
  <2> QED BY <2>1, <2>2, Zenon
<1>3. <<"libs">> \in Seq({"libs"})
  OBVIOUS
<1>4. IntoProperty(t, BuildPrefixes[k]) = ReplaceEach(ReplaceEach(t, one, <<"libs">>), two, <<"libs">>)
  BY DEF IntoProperty
<1> HIDE DEF one, two
<1>5. \A i \in 1..Len(t) : ~Occurs(t, one, i) /\ ~Occurs(t, two, i)
  BY <1>1, <1>2, NoPairNoOccurrence
<1>6. ReplaceEach(t, one, <<"libs">>) = t /\ ReplaceEach(t, two, <<"libs">>) = t
  BY <1>2, <1>3, <1>5, ReplaceNothing
<1> QED BY <1>4, <1>6

\* No library path of the build machine is left in a .prl file of any length, and
\* a file without them is left alone.
LEMMA LibraryPathsGo ==
  ASSUME NEW U, NEW txt \in Seq(U), "libs" \in U
  PROVE  /\ RewritePRL(txt) \in Seq(U) /\ NoLibraryPath(RewritePRL(txt))
         /\ RewritePRL(RewritePRL(txt)) = RewritePRL(txt)
<1> DEFINE R == RewritePRL(txt)
<1>1. PICK h \in [0..4 -> Seq(U)] :
        /\ h[0] = txt
        /\ \A k \in 1..4 : h[k] = IntoProperty(h[k - 1], BuildPrefixes[k])
        /\ h[4] = R
  BY PropertyLoopSteps
<1>2. /\ 1 - 1 = 0 /\ 2 - 1 = 1 /\ 3 - 1 = 2 /\ 4 - 1 = 3
      /\ 1 \in 1..4 /\ 2 \in 1..4 /\ 3 \in 1..4 /\ 4 \in 1..4
  OBVIOUS
<1>3. /\ h[1] = IntoProperty(h[0], BuildPrefixes[1]) /\ h[2] = IntoProperty(h[1], BuildPrefixes[2])
      /\ h[3] = IntoProperty(h[2], BuildPrefixes[3]) /\ h[4] = IntoProperty(h[3], BuildPrefixes[4])
      /\ \A k \in 0..4 : h[k] \in Seq(U)
  BY <1>1, <1>2
<1>4. ASSUME NEW k \in 1..4, NEW t \in Seq(U), NEW a, NEW b, a # "libs", b # "libs", NoPair(t, a, b)
      PROVE  NoPair(IntoProperty(t, BuildPrefixes[k]), a, b)
  BY <1>4, IntoPropertyPairs
<1>5. ASSUME NEW k \in 1..4, NEW t \in Seq(U), NEW a, NEW b, a # "libs", b # "libs",
              BuildPrefixes[k] \o <<"/lib">> = <<a, b>>
       PROVE  NoPair(IntoProperty(t, BuildPrefixes[k]), a, b)
  BY <1>5, IntoPropertyPairs
<1>6. ASSUME NEW k \in 1..4, NEW t \in Seq(U), NEW a, NEW b, a # "libs", b # "libs",
              Backslashed(BuildPrefixes[k]) \o <<"\\lib">> = <<a, b>>
       PROVE  NoPair(IntoProperty(t, BuildPrefixes[k]), a, b)
  BY <1>6, IntoPropertyPairs
<1>7. h[0] \in Seq(U) /\ h[1] \in Seq(U)
  BY <1>3
<1>8. NoPair(h[1], "/Users", "/lib") /\ NoPair(h[1], "\\Users", "\\lib")
  <2>1. NoPair(IntoProperty(h[0], BuildPrefixes[1]), "/Users", "/lib")
    BY <1>2, <1>5, <1>7, ThePatterns
  <2>2. NoPair(IntoProperty(h[0], BuildPrefixes[1]), "\\Users", "\\lib")
    BY <1>2, <1>6, <1>7, ThePatterns
  <2> QED BY <1>3, <2>1, <2>2
<1>9. NoLibraryPath(h[2])
  <2>1. NoPair(IntoProperty(h[1], BuildPrefixes[2]), "/home", "/lib")
    BY <1>2, <1>5, <1>7, ThePatterns
  <2>2. NoPair(IntoProperty(h[1], BuildPrefixes[2]), "\\home", "\\lib")
    BY <1>2, <1>6, <1>7, ThePatterns
  <2>3. /\ NoPair(IntoProperty(h[1], BuildPrefixes[2]), "/Users", "/lib")
        /\ NoPair(IntoProperty(h[1], BuildPrefixes[2]), "\\Users", "\\lib")
    BY <1>2, <1>4, <1>8, <1>7
  <2> QED BY <1>3, <2>1, <2>2, <2>3 DEF NoLibraryPath
<1>10. \A t \in Seq(U), k \in 1..4 : NoLibraryPath(t) => IntoProperty(t, BuildPrefixes[k]) = t
  BY IntoPropertyAbsent
<1>11. R = h[2] /\ R \in Seq(U) /\ NoLibraryPath(R)
  <2>1. h[3] = h[2] /\ h[2] \in Seq(U)
    BY <1>2, <1>3, <1>9, <1>10
  <2>2. h[4] = h[3]
    BY <1>2, <1>3, <1>9, <1>10, <2>1
  <2> QED BY <1>1, <1>9, <2>1, <2>2
<1> HIDE DEF R
<1>12. PICK g \in [0..4 -> Seq(U)] :
        /\ g[0] = R
        /\ \A k \in 1..4 : g[k] = IntoProperty(g[k - 1], BuildPrefixes[k])
        /\ g[4] = RewritePRL(R)
  BY <1>11, PropertyLoopSteps
<1>13. g[1] = R /\ g[2] = R /\ g[3] = R /\ g[4] = R
  <2>1. /\ g[1] = IntoProperty(g[0], BuildPrefixes[1]) /\ g[2] = IntoProperty(g[1], BuildPrefixes[2])
        /\ g[3] = IntoProperty(g[2], BuildPrefixes[3]) /\ g[4] = IntoProperty(g[3], BuildPrefixes[4])
    BY <1>2, <1>12
  <2>2. \A k \in 1..4 : IntoProperty(R, BuildPrefixes[k]) = R
    BY <1>10, <1>11
  <2> QED BY <1>2, <1>12, <2>1, <2>2
<1> QED BY <1>11, <1>12, <1>13 DEF R

-----------------------------------------------------------------------------
(* The scripts that run tools of Qt.                                       *)

\* The command has the path of the tool between two quotes.
LEMMA TheCommand ==
  ASSUME NEW windows \in BOOLEAN
  PROVE  \E x \in {"dq", "'"} : Command(HostTool, windows) = <<x, "host", x>>
<1>0. \A x : <<x>> \o <<"host">> \o <<x>> = <<x, "host", x>>
  <2>1. ASSUME NEW x PROVE <<x>> \o <<"host">> \o <<x>> = <<x, "host", x>>
    <3>1. <<x>> \o <<"host">> = <<x, "host">>
      BY ConcatOne
    <3>2. <<x, "host">> \o <<x>> = <<x, "host", x>>
      BY ConcatTwo
    <3> QED BY <3>1, <3>2
  <2> QED BY <2>1
<1>1. CASE windows
  <2>1. Command(HostTool, windows) = <<"dq">> \o <<"host">> \o <<"dq">>
    BY <1>1 DEF Command, HostTool
  <2> QED BY <1>0, <2>1
<1>2. CASE ~windows
  <2> DEFINE new == <<"'", "dq", "'", "dq", "'">>
  <2>1. new \in Seq({"'", "dq"})
    OBVIOUS
  <2>2. Command(HostTool, windows) = <<"'">> \o ReplaceEach(<<"host">>, <<"'">>, new) \o <<"'">>
    BY <1>2 DEF Command, Quoted, HostTool
  <2> HIDE DEF new
  <2>3. <<"host">> \in Seq({"host"}) /\ Len(<<"'">>) = 1 /\ <<"'">>[1] = "'" /\ "'" \notin {"host"}
    OBVIOUS
  <2>4. \A i \in 1..Len(<<"host">>) : ~Occurs(<<"host">>, <<"'">>, i)
    <3>1. 1 \in 1..Len(<<"'">>) /\ Len(<<"'">>) \in Nat
      BY <2>3
    <3> QED BY <2>3, <3>1, NoOccurrence
  <2>5. ReplaceEach(<<"host">>, <<"'">>, new) = <<"host">>
    <3>1. Len(<<"'">>) \in Nat \ {0}
      BY <2>3
    <3> QED BY <2>1, <2>3, <2>4, <3>1, ReplaceNothing
  <2> QED BY <1>0, <2>2, <2>5
<1> QED BY <1>1, <1>2

LEMMA WithCommandParts ==
  ASSUME NEW U, NEW txt \in Seq(U), BuildTools(txt) = 1, NEW x \in U \ {"tool"}, "host" \in U
  PROVE  LET R == WithCommand(txt, <<x, "host", x>>)
         IN  R \in Seq(U \ {"tool"}) /\ \E i \in 1..Len(R) : R[i] = "host"
<1> DEFINE V == U \ {"tool"}
           tools == {i \in DOMAIN txt : txt[i] = "tool"}
           at == CHOOSE i \in DOMAIN txt : txt[i] = "tool"
           from == IF at > 1 /\ txt[at - 1] = "dq" THEN at - 1 ELSE at
           to == IF at < Len(txt) /\ txt[at + 1] = "dq" THEN at + 1 ELSE at
           one == SubSeq(txt, 1, from - 1)
           two == <<x, "host", x>>
           three == SubSeq(txt, to + 1, Len(txt))
<1>1. Len(txt) \in Nat /\ DOMAIN txt = 1..Len(txt)
  BY LenProperties
<1>2. PICK t : tools = {t}
  <2>1. IsFiniteSet(1..Len(txt)) /\ tools \in SUBSET (1..Len(txt))
    BY <1>1, FS_Interval
  <2>2. IsFiniteSet(tools) /\ Cardinality(tools) = 1
    BY <2>1, FS_Subset DEF BuildTools
  <2> HIDE DEF tools
  <2> QED BY <2>2, FS_Singleton
<1>3. at \in DOMAIN txt /\ txt[at] = "tool"
  BY <1>2
<1>4. \A i \in DOMAIN txt : txt[i] = "tool" => i = at
  BY <1>2, <1>3
<1> HIDE DEF at
<1>5. from \in 1..at /\ to \in at..Len(txt)
  BY <1>1, <1>3
<1>6. WithCommand(txt, two) = one \o two \o three
  BY DEF WithCommand, at
<1> HIDE DEF from, to, tools
<1>7. \A i \in 1..from - 1 : txt[i] \in V
  <2>1. ASSUME NEW i \in 1..from - 1 PROVE i \in 1..Len(txt) /\ i # at
    BY <1>1, <1>3, <1>5
  <2> QED BY <1>1, <1>4, <2>1, ElementOfSeq
<1>8. \A i \in to + 1..Len(txt) : txt[i] \in V
  <2>1. ASSUME NEW i \in to + 1..Len(txt) PROVE i \in 1..Len(txt) /\ i # at
    BY <1>1, <1>3, <1>5
  <2> QED BY <1>1, <1>4, <2>1, ElementOfSeq
<1>9. two \in Seq(V) /\ Len(two) = 3 /\ two[2] = "host"
  OBVIOUS
<1> HIDE DEF V, two
<1>10. one \in Seq(V) /\ three \in Seq(V)
  <2>1. from - 1 \in Int /\ to + 1 \in Int /\ Len(txt) \in Int /\ 1 \in Int
    BY <1>1, <1>3, <1>5
  <2> QED BY <1>7, <1>8, <2>1, SubSeqProperties
<1> HIDE DEF one, three
<1>11. one \o two \in Seq(V) /\ Len(one \o two) = Len(one) + 3 /\ (one \o two)[Len(one) + 2] = "host"
  <2>1. Len(one) \in Nat
    BY <1>10, LenProperties
  <2>2. \A i \in 1..Len(one) + Len(two) : (one \o two)[i] = IF i <= Len(one) THEN one[i] ELSE two[i - Len(one)]
    BY <1>9, <1>10, ConcatProperties
  <2>3. Len(one) + 2 \in 1..Len(one) + Len(two) /\ ~(Len(one) + 2 <= Len(one)) /\ (Len(one) + 2) - Len(one) = 2
    BY <1>9, <2>1
  <2>4. (one \o two)[Len(one) + 2] = two[(Len(one) + 2) - Len(one)]
    BY <2>2, <2>3
  <2>5. (one \o two)[Len(one) + 2] = "host"
    BY <1>9, <2>3, <2>4
  <2>6. one \o two \in Seq(V) /\ Len(one \o two) = Len(one) + Len(two)
    BY <1>9, <1>10, ConcatProperties
  <2> QED BY <1>9, <2>5, <2>6
<1> DEFINE four == one \o two
<1>12. four \in Seq(V) /\ Len(four) \in Nat /\ Len(one) + 2 \in 1..Len(four) /\ four[Len(one) + 2] = "host"
  <2>1. Len(one) \in Nat
    BY <1>10, LenProperties
  <2> QED BY <1>11, <2>1
<1> HIDE DEF four
<1>13. /\ four \o three \in Seq(V) /\ Len(four \o three) = Len(four) + Len(three)
       /\ \A i \in 1..Len(four) + Len(three) :
             (four \o three)[i] = IF i <= Len(four) THEN four[i] ELSE three[i - Len(four)]
  BY <1>10, <1>12, ConcatProperties
<1>14. Len(one) + 2 \in 1..Len(four \o three) /\ (four \o three)[Len(one) + 2] = "host"
  <2>1. Len(three) \in Nat
    BY <1>10, LenProperties
  <2>2. Len(one) + 2 \in 1..Len(four) + Len(three) /\ Len(one) + 2 <= Len(four)
    BY <1>12, <2>1
  <2> QED BY <1>12, <1>13, <2>2
<1>15. WithCommand(txt, two) = four \o three
  BY <1>6 DEF four
<1>16. WithCommand(txt, two) \in Seq(V) /\ \E i \in 1..Len(WithCommand(txt, two)) : WithCommand(txt, two)[i] = "host"
  BY <1>13, <1>14, <1>15
<1> QED BY <1>16 DEF two, V

\* A script that runs the host's tool is left alone.
LEMMA RunsHostTool ==
  ASSUME NEW U, NEW txt \in Seq(U \ {"tool"}), NEW i \in 1..Len(txt), txt[i] = "host", NEW windows \in BOOLEAN
  PROVE  RewriteScript(txt, HostTool, windows) = txt
<1>1. {j \in DOMAIN txt : txt[j] = "tool"} = {}
  <2>1. ASSUME NEW j \in DOMAIN txt PROVE txt[j] \in U \ {"tool"}
    BY ElementOfSeq, LenProperties
  <2> QED BY <2>1
<1>2. BuildTools(txt) = 0
  BY <1>1, FS_EmptySet DEF BuildTools
<1>3. HasPart(txt, HostTool)
  <2>1. SubSeq(txt, i, i) = HostTool
    BY SubSeqOfOne DEF HostTool
  <2>2. Len(HostTool) = 1 /\ i + 1 <= Len(txt) + 1 /\ i + 1 - 1 = i
    BY LenProperties DEF HostTool
  <2> QED BY <2>1, <2>2 DEF HasPart
<1> QED BY <1>2, <1>3 DEF RewriteScript

LEMMA ScriptTwice ==
  ASSUME NEW U, NEW txt \in Seq(U), {"host", "dq", "'"} \subseteq U, NEW windows \in BOOLEAN,
         RewriteScript(txt, HostTool, windows) # Refused
  PROVE  /\ RewriteScript(txt, HostTool, windows) \in Seq(U)
         /\ RewriteScript(RewriteScript(txt, HostTool, windows), HostTool, windows)
              = RewriteScript(txt, HostTool, windows)
<1> DEFINE R == RewriteScript(txt, HostTool, windows)
<1>1. CASE BuildTools(txt) = 0 /\ HasPart(txt, HostTool)
  <2>1. R = txt
    BY <1>1 DEF RewriteScript
  <2> HIDE DEF R
  <2>2. RewriteScript(R, HostTool, windows) = R
    BY <2>1 DEF R
  <2> QED BY <2>1, <2>2 DEF R
<1>2. CASE BuildTools(txt) = 1
  <2>1. PICK x \in {"dq", "'"} : Command(HostTool, windows) = <<x, "host", x>>
    BY TheCommand
  <2>2. R = WithCommand(txt, <<x, "host", x>>)
    BY <1>2, <2>1 DEF RewriteScript
  <2> HIDE DEF R
  <2>3. x \in U \ {"tool"} /\ "host" \in U
    OBVIOUS
  <2>4. R \in Seq(U \ {"tool"}) /\ \E i \in 1..Len(R) : R[i] = "host"
    BY <1>2, <2>2, <2>3, WithCommandParts
  <2>5. R \in Seq(U)
    BY <2>4, SeqMonotonic
  <2>6. RewriteScript(R, HostTool, windows) = R
    BY <2>4, RunsHostTool
  <2> QED BY <2>5, <2>6 DEF R
<1>3. CASE ~(BuildTools(txt) = 0 /\ HasPart(txt, HostTool)) /\ BuildTools(txt) # 1
  BY <1>3 DEF RewriteScript
<1> QED BY <1>1, <1>2, <1>3

-----------------------------------------------------------------------------
\* The texts that the specification begins with and comes to.
TextIsTyped == text \in Seq(Tokens)

LEMMA TextStaysTyped ==
  Spec => []TextIsTyped
<1>0. "/kit" \in Tokens /\ "\\kit" \in Tokens /\ "libs" \in Tokens /\ {"host", "dq", "'"} \subseteq Tokens
  BY DEF Tokens, ScriptTokens
<1>1. Init => TextIsTyped
  <2>1. ASSUME NEW B, B \subseteq Tokens, NEW t \in BoundedSeq(B, MaxTokens) PROVE t \in Seq(Tokens)
    <3>1. PICK m \in 0..MaxTokens : t \in [1..m -> B]
      BY DEF BoundedSeq, SeqOf
    <3>2. m \in Nat
      BY BoundsAssumption
    <3>3. t \in [1..m -> Tokens]
      BY <2>1, <3>1
    <3> QED BY <3>2, <3>3, SeqDef
  <2>2. MetadataTokens \subseteq Tokens /\ ScriptTokens \subseteq Tokens
    BY DEF Tokens
  <2>3. <<>> \in Seq(Tokens)
    OBVIOUS
  <2> QED BY <2>1, <2>2, <2>3 DEF Init, BuiltTexts, TextIsTyped
<1>2. TextIsTyped /\ [Next]_<<packages, text, lines, site>> => TextIsTyped'
  <2> SUFFICES ASSUME TextIsTyped, [Next]_<<packages, text, lines, site>>
               PROVE  TextIsTyped'
    OBVIOUS
  <2>1. CASE Install
    BY <2>1 DEF Install, TextIsTyped
  <2>2. CASE RelocateText
    <3>1. CASE text' = ReplaceBuildPrefixes(text, KitDir)
      <4>1. text' \in Seq(Tokens \ {"/Users", "/home", "\\Users", "\\home"})
        BY <1>0, <3>1, BuildPathsGo DEF TextIsTyped
      <4> QED BY <4>1, SeqMonotonic DEF TextIsTyped
    <3>2. CASE text' = RewritePRL(text)
      BY <1>0, <3>2, LibraryPathsGo DEF TextIsTyped
    <3>3. CASE text' \in Scripted \ {Refused}
      <4>1. PICK windows \in BOOLEAN : text' = RewriteScript(text, HostTool, windows) /\ text' # Refused
        BY <3>3 DEF Scripted
      <4> QED BY <1>0, <4>1, ScriptTwice DEF TextIsTyped
    <3> QED BY <2>2, <3>1, <3>2, <3>3 DEF RelocateText
  <2>3. CASE RelocateLines
    BY <2>3 DEF RelocateLines, TextIsTyped
  <2>4. CASE PublishOne
    BY <2>4 DEF PublishOne, TextIsTyped
  <2>5. CASE UNCHANGED <<packages, text, lines, site>>
    BY <2>5 DEF TextIsTyped
  <2> QED BY <2>1, <2>2, <2>3, <2>4, <2>5 DEF Next
<1> QED BY <1>1, <1>2, PTL DEF Spec

\* No path of the build machine is left in a .pc, .la or .prl file of any length,
\* whatever stands around it (desktop_relocator.go:259).
THEOREM NoBuildPathSurvivesAlways ==
  Spec => []NoBuildPathSurvives
<1>1. TextIsTyped => NoBuildPathSurvives
  <2> SUFFICES ASSUME TextIsTyped PROVE NoBuildPathSurvives
    OBVIOUS
  <2> DEFINE R == ReplaceBuildPrefixes(text, KitDir)
             P == RewritePRL(text)
             V == Tokens \ {"/Users", "/home", "\\Users", "\\home"}
  <2>1. "/kit" \in Tokens /\ "\\kit" \in Tokens /\ "libs" \in Tokens
    BY DEF Tokens
  <2>2. R \in Seq(V) /\ NoLibraryPath(P)
    BY <2>1, BuildPathsGo, LibraryPathsGo DEF TextIsTyped
  <2>3. ASSUME NEW i \in DOMAIN R PROVE R[i] \notin {"/Users", "/home", "\\Users", "\\home"}
    <3>1. i \in 1..Len(R)
      BY <2>2, LenProperties
    <3>2. R[i] \in V
      BY <2>2, <3>1, ElementOfSeq
    <3> QED BY <3>2
  <2> HIDE DEF R, P
  <2>4. ASSUME NEW i \in 1..Len(P) - 1
        PROVE  /\ P[i] \in {"/Users", "/home"} => P[i + 1] # "/lib"
               /\ P[i] = "\\Users" => P[i + 1] # "\\lib"
    BY <2>2 DEF NoLibraryPath, NoPair
  <2> QED BY <2>3, <2>4 DEF NoBuildPathSurvives, R, P
<1> QED BY <1>1, TextStaysTyped, PTL

\* A text or a settings file of any length that was rewritten is not changed by
\* rewriting it again, nor refused, so that a relocation that was cut short can be
\* repeated (mobile_relocator.go:331).
THEOREM RewritingTwiceChangesNothingAlways ==
  Spec => []RewritingTwiceChangesNothing
<1>1. TextIsTyped /\ LinesAreTyped => RewritingTwiceChangesNothing
  <2> SUFFICES ASSUME TextIsTyped, LinesAreTyped PROVE RewritingTwiceChangesNothing
    OBVIOUS
  <2>1. "/kit" \in Tokens /\ "\\kit" \in Tokens /\ "libs" \in Tokens /\ {"host", "dq", "'"} \subseteq Tokens
    BY DEF Tokens, ScriptTokens
  <2>2. \A t \in {ReplaceBuildPrefixes(text, KitDir)} : ReplaceBuildPrefixes(t, KitDir) = t
    BY <2>1, BuildPathsGo DEF TextIsTyped
  <2>3. \A t \in {RewritePRL(text)} : RewritePRL(t) = t
    BY <2>1, LibraryPathsGo DEF TextIsTyped
  <2>4. ASSUME NEW windows \in BOOLEAN, NEW t \in {RewriteScript(text, HostTool, windows)}, t # Refused
        PROVE  RewriteScript(t, HostTool, windows) = t
    BY <2>1, <2>4, ScriptTwice DEF TextIsTyped
  <2>5. \A l \in {RewriteINI(lines, "Paths", Values)} :
          l # RefusedLines => RewriteINI(l, "Paths", Values) = l
    BY ValuesType, RewriteINITwice DEF LinesAreTyped
  <2> QED BY <2>2, <2>3, <2>4, <2>5 DEF RewritingTwiceChangesNothing
<1> QED BY <1>1, TextStaysTyped, LinesStayTyped, PTL

-----------------------------------------------------------------------------
(* Planning: loops that keep each value once, and that read digits.        *)

LEMMA OnceSteps ==
  ASSUME NEW T, NEW q \in Seq(T)
  PROVE  \E h \in [0..Len(q) -> Seq(T)] :
           /\ h[0] = <<>>
           /\ \A k \in 1..Len(q) : h[k] = IF Contains(h[k - 1], q[k]) THEN h[k - 1] ELSE Append(h[k - 1], q[k])
           /\ h[Len(q)] = Once(q)
<1> DEFINE N == Len(q)
           Step(x, k) == IF Contains(x, q[k]) THEN x ELSE Append(x, q[k])
           F == [pair \in Seq(T) \X (1..N) |-> Step(pair[1], pair[2])]
           fold[s \in SUBSET DOMAIN q] ==
             IF s = {} THEN <<>> ELSE Step(fold[s \ {Max(s)}], Max(s))
           Next1(g) == [s \in SUBSET DOMAIN q |->
                          IF s = {} THEN <<>> ELSE Step(g[s \ {Max(s)}], Max(s))]
<1>1. N \in Nat /\ DOMAIN q = 1..N /\ <<>> \in Seq(T) /\ \A k \in 1..N : q[k] \in T
  BY LenProperties, ElementOfSeq
<1>2. Once(q) = fold[DOMAIN q]
  BY DEF Once, FoldLeft, MapThenFoldSet
<1>3. ASSUME NEW x \in Seq(T), NEW k \in 1..N
      PROVE  Step(x, k) \in Seq(T)
  <2>1. q[k] \in T
    BY <1>1
  <2> QED BY <2>1
<1> HIDE DEF Step
<1>4. F \in [Seq(T) \X (1..N) -> Seq(T)]
  BY <1>3
<1>5. PICK g \in [SUBSET (1..N) -> Seq(T)] :
        /\ \A s \in SUBSET (1..N) : g[s] = IF s = {} THEN <<>> ELSE F[<<g[s \ {Max(s)}], Max(s)>>]
        /\ \A s \in SUBSET (1..N) : s # {} => g[s \ {Max(s)}] \in Seq(T) /\ Max(s) \in 1..N
  <2> HIDE DEF N, F
  <2> QED BY <1>1, <1>4, FoldExists
<1>6. g = Next1(g)
  <2>1. ASSUME NEW s \in SUBSET (1..N) PROVE g[s] = Next1(g)[s]
    <3>1. CASE s = {}
      BY <1>1, <1>5, <3>1
    <3>2. CASE s # {}
      <4>1. g[s] = F[<<g[s \ {Max(s)}], Max(s)>>]
        BY <1>5, <3>2
      <4>2. F[<<g[s \ {Max(s)}], Max(s)>>] = Step(g[s \ {Max(s)}], Max(s))
        BY <1>5, <3>2
      <4> QED BY <1>1, <3>2, <4>1, <4>2
    <3> QED BY <3>1, <3>2
  <2> QED BY <1>1, <2>1
<1>7. fold = Next1(fold)
  <2> HIDE DEF Next1
  <2>1. fold = CHOOSE f : f = Next1(f)
    BY DEF Next1
  <2> HIDE DEF fold
  <2> QED BY <1>6, <2>1
<1> HIDE DEF fold
<1>8. \E h \in [0..N -> Seq(T)] :
        /\ h[0] = <<>>
        /\ \A k \in 1..N : h[k] = F[<<h[k - 1], k>>]
        /\ h[N] = fold[1..N]
  <2> DEFINE G == [s \in SUBSET (1..N) |-> Step(fold[s \ {Max(s)}], Max(s))]
  <2>1. \A s \in SUBSET (1..N) : fold[s] = IF s = {} THEN <<>> ELSE G[s]
    BY <1>1, <1>7
  <2>2. ASSUME NEW s \in SUBSET (1..N), s # {}, fold[s \ {Max(s)}] \in Seq(T)
        PROVE  G[s] = F[<<fold[s \ {Max(s)}], Max(s)>>]
    BY <1>5, <2>2
  <2>3. \A s \in SUBSET (1..N) : s # {} /\ fold[s \ {Max(s)}] \in Seq(T) =>
                                    G[s] = F[<<fold[s \ {Max(s)}], Max(s)>>]
    BY <2>2
  <2>4. Folds(fold, N, Seq(T), <<>>, F, G)
    <3> HIDE DEF N, F, G
    <3> QED BY <1>1, <1>4, <2>1, <2>3 DEF Folds
  <2> HIDE DEF N, F, G
  <2> QED BY <2>4, FoldIsLoop
<1>9. ASSUME NEW x \in Seq(T), NEW k \in 1..N PROVE F[<<x, k>>] = Step(x, k)
  OBVIOUS
<1> HIDE DEF F
<1>10. PICK h \in [0..N -> Seq(T)] :
         h[0] = <<>> /\ (\A k \in 1..N : h[k] = F[<<h[k - 1], k>>]) /\ h[N] = fold[1..N]
  BY <1>8
<1>11. ASSUME NEW k \in 1..N PROVE h[k] = Step(h[k - 1], k)
  <2>1. k - 1 \in 0..N
    BY <1>1
  <2> QED BY <1>9, <1>10, <2>1
<1> QED BY <1>1, <1>2, <1>10, <1>11 DEF Step

LEMMA NumberSteps ==
  ASSUME NEW q \in Seq(Nat)
  PROVE  \E h \in [0..Len(q) -> Nat] :
           /\ h[0] = 0
           /\ \A k \in 1..Len(q) : h[k] = 10 * h[k - 1] + q[k]
           /\ h[Len(q)] = Number(q)
<1> DEFINE N == Len(q)
           Step(x, k) == 10 * x + q[k]
           F == [pair \in Nat \X (1..N) |-> Step(pair[1], pair[2])]
           fold[s \in SUBSET DOMAIN q] ==
             IF s = {} THEN 0 ELSE Step(fold[s \ {Max(s)}], Max(s))
           Next1(g) == [s \in SUBSET DOMAIN q |->
                          IF s = {} THEN 0 ELSE Step(g[s \ {Max(s)}], Max(s))]
<1>1. N \in Nat /\ DOMAIN q = 1..N /\ 0 \in Nat /\ \A k \in 1..N : q[k] \in Nat
  BY LenProperties, ElementOfSeq
<1>2. Number(q) = fold[DOMAIN q]
  BY DEF Number, FoldLeft, MapThenFoldSet
<1>3. ASSUME NEW x \in Nat, NEW k \in 1..N
      PROVE  Step(x, k) \in Nat
  <2>1. q[k] \in Nat
    BY <1>1
  <2> QED BY <2>1
<1> HIDE DEF Step
<1>4. F \in [Nat \X (1..N) -> Nat]
  BY <1>3
<1>5. PICK g \in [SUBSET (1..N) -> Nat] :
        /\ \A s \in SUBSET (1..N) : g[s] = IF s = {} THEN 0 ELSE F[<<g[s \ {Max(s)}], Max(s)>>]
        /\ \A s \in SUBSET (1..N) : s # {} => g[s \ {Max(s)}] \in Nat /\ Max(s) \in 1..N
  <2> HIDE DEF N, F
  <2> QED BY <1>1, <1>4, FoldExists
<1>6. g = Next1(g)
  <2>1. ASSUME NEW s \in SUBSET (1..N) PROVE g[s] = Next1(g)[s]
    <3>1. CASE s = {}
      BY <1>1, <1>5, <3>1
    <3>2. CASE s # {}
      <4>1. g[s] = F[<<g[s \ {Max(s)}], Max(s)>>]
        BY <1>5, <3>2
      <4>2. F[<<g[s \ {Max(s)}], Max(s)>>] = Step(g[s \ {Max(s)}], Max(s))
        BY <1>5, <3>2
      <4> QED BY <1>1, <3>2, <4>1, <4>2
    <3> QED BY <3>1, <3>2
  <2> QED BY <1>1, <2>1
<1>7. fold = Next1(fold)
  <2> HIDE DEF Next1
  <2>1. fold = CHOOSE f : f = Next1(f)
    BY DEF Next1
  <2> HIDE DEF fold
  <2> QED BY <1>6, <2>1
<1> HIDE DEF fold
<1>8. \E h \in [0..N -> Nat] :
        /\ h[0] = 0
        /\ \A k \in 1..N : h[k] = F[<<h[k - 1], k>>]
        /\ h[N] = fold[1..N]
  <2> DEFINE G == [s \in SUBSET (1..N) |-> Step(fold[s \ {Max(s)}], Max(s))]
  <2>1. \A s \in SUBSET (1..N) : fold[s] = IF s = {} THEN 0 ELSE G[s]
    BY <1>1, <1>7
  <2>2. ASSUME NEW s \in SUBSET (1..N), s # {}, fold[s \ {Max(s)}] \in Nat
        PROVE  G[s] = F[<<fold[s \ {Max(s)}], Max(s)>>]
    BY <1>5, <2>2
  <2>3. \A s \in SUBSET (1..N) : s # {} /\ fold[s \ {Max(s)}] \in Nat =>
                                    G[s] = F[<<fold[s \ {Max(s)}], Max(s)>>]
    BY <2>2
  <2>4. Folds(fold, N, Nat, 0, F, G)
    <3> HIDE DEF N, F, G
    <3> QED BY <1>1, <1>4, <2>1, <2>3 DEF Folds
  <2> HIDE DEF N, F, G
  <2> QED BY <2>4, FoldIsLoop
<1>9. ASSUME NEW x \in Nat, NEW k \in 1..N PROVE F[<<x, k>>] = Step(x, k)
  OBVIOUS
<1> HIDE DEF F
<1>10. PICK h \in [0..N -> Nat] :
         h[0] = 0 /\ (\A k \in 1..N : h[k] = F[<<h[k - 1], k>>]) /\ h[N] = fold[1..N]
  BY <1>8
<1>11. ASSUME NEW k \in 1..N PROVE h[k] = Step(h[k - 1], k)
  <2>1. k - 1 \in 0..N
    BY <1>1
  <2> QED BY <1>9, <1>10, <2>1
<1> QED BY <1>1, <1>2, <1>10, <1>11 DEF Step

\* The values that Once keeps are those it gets, each of them once.
Distinct(q) == \A i, j \in 1..Len(q) : i # j => q[i] # q[j]

Same(q, r, n) == \A x : (\E i \in 1..Len(q) : q[i] = x) <=> (\E i \in 1..n : r[i] = x)

LEMMA DistinctOneMore ==
  ASSUME NEW T, NEW q \in Seq(T), NEW r \in Seq(T), NEW k \in 1..Len(r),
         Distinct(q), Same(q, r, k - 1)
  PROVE  LET new == IF Contains(q, r[k]) THEN q ELSE Append(q, r[k])
         IN  Distinct(new) /\ Same(new, r, k)
<1> DEFINE A == Append(q, r[k])
           m == Len(q) + 1
<1>1. Len(q) \in Nat /\ Len(r) \in Nat /\ k \in Nat /\ r[k] \in T
  BY LenProperties, ElementOfSeq
<1>2. /\ Len(A) = m /\ A[m] = r[k]
      /\ \A i \in 1..Len(q) : A[i] = q[i]
  BY <1>1, AppendProperties
<1>3. \A i \in 1..k : i \in 1..(k - 1) \/ i = k
  BY <1>1
<1>4. \A i \in 1..(k - 1) : i \in 1..k
  BY <1>1
<1>5. k \in 1..k
  BY <1>1
<1>6. CASE Contains(q, r[k])
  <2>1. \E i \in 1..Len(q) : q[i] = r[k]
    BY <1>6 DEF Contains
  <2>2. Same(q, r, k)
    BY <2>1, <1>3, <1>4, <1>5 DEF Same
  <2> QED BY <1>6, <2>2
<1>7. CASE ~Contains(q, r[k])
  <2>1. \A i \in 1..Len(q) : q[i] # r[k]
    BY <1>7 DEF Contains
  <2>2. \A i \in 1..m : i \in 1..Len(q) \/ i = m
    BY <1>1
  <2>3. \A i \in 1..Len(q) : i \in 1..m
    BY <1>1
  <2>4. m \in 1..m
    BY <1>1
  <2> HIDE DEF A, m
  <2>5. Same(A, r, k)
    BY <1>2, <1>3, <1>4, <1>5, <2>2, <2>3, <2>4 DEF Same
  <2>6. Distinct(A)
    BY <1>2, <2>1, <2>2 DEF Distinct
  <2> QED BY <1>7, <2>5, <2>6 DEF A
<1> QED BY <1>6, <1>7

LEMMA OnceKeeps ==
  ASSUME NEW T, NEW q \in Seq(T)
  PROVE  /\ Once(q) \in Seq(T)
         /\ Distinct(Once(q))
         /\ Same(Once(q), q, Len(q))
<1> DEFINE N == Len(q)
<1>1. PICK h \in [0..N -> Seq(T)] :
        /\ h[0] = <<>>
        /\ \A k \in 1..N : h[k] = IF Contains(h[k - 1], q[k]) THEN h[k - 1] ELSE Append(h[k - 1], q[k])
        /\ h[N] = Once(q)
  BY OnceSteps
<1> DEFINE S == {k \in 0..N : Distinct(h[k]) /\ Same(h[k], q, k)}
<1>2. N \in Nat
  BY LenProperties
<1>3. 0 \in S
  <2>1. Len(h[0]) = 0 /\ 1..0 = {}
    BY <1>1
  <2>2. Distinct(h[0])
    BY <2>1 DEF Distinct
  <2>3. Same(h[0], q, 0)
    BY <2>1 DEF Same
  <2> QED BY <1>2, <2>2, <2>3
<1>4. ASSUME NEW k \in 1..N, k - 1 \in S PROVE k \in S
  <2>1. /\ h[k - 1] \in Seq(T) /\ k - 1 \in 0..N /\ k \in 0..N
        /\ Distinct(h[k - 1]) /\ Same(h[k - 1], q, k - 1)
    BY <1>2, <1>1, <1>4
  <2>2. h[k] = IF Contains(h[k - 1], q[k]) THEN h[k - 1] ELSE Append(h[k - 1], q[k])
    BY <1>1
  <2>3. Distinct(h[k]) /\ Same(h[k], q, k)
    BY <2>1, <2>2, DistinctOneMore
  <2> QED BY <2>1, <2>3
<1> HIDE DEF S
<1>5. \A k \in 0..N : k \in S
  BY <1>2, <1>3, <1>4, InductionUpTo
<1>6. N \in 0..N
  BY <1>2
<1>7. N \in S /\ h[N] \in Seq(T)
  BY <1>1, <1>5, <1>6
<1> QED BY <1>1, <1>7 DEF S

\* One value is kept as it is, and of some values some are kept.
LEMMA OnceOfSome ==
  ASSUME NEW T, NEW q \in Seq(T)
  PROVE  /\ q # <<>> => Once(q) # <<>>
         /\ Len(q) = 1 => Len(Once(q)) = 1 /\ Once(q)[1] = q[1]
<1>1. /\ Once(q) \in Seq(T) /\ Len(q) \in Nat /\ Len(Once(q)) \in Nat
      /\ Distinct(Once(q)) /\ Same(Once(q), q, Len(q))
  BY OnceKeeps, LenProperties
<1>2. ASSUME q # <<>> PROVE Once(q) # <<>>
  <2>1. Len(q) # 0
    BY <1>2, EmptySeq
  <2>2. 1 \in 1..Len(q)
    BY <1>1, <2>1
  <2>3. \E i \in 1..Len(Once(q)) : Once(q)[i] = q[1]
    BY <1>1, <2>2 DEF Same
  <2>4. Len(Once(q)) # 0
    BY <2>3
  <2> QED BY <2>4
<1>3. ASSUME Len(q) = 1 PROVE Len(Once(q)) = 1 /\ Once(q)[1] = q[1]
  <2>1. 1 \in 1..Len(q) /\ \A i \in 1..Len(q) : i = 1
    BY <1>3
  <2>2. PICK i \in 1..Len(Once(q)) : Once(q)[i] = q[1]
    BY <1>1, <2>1 DEF Same
  <2>3. \A j \in 1..Len(Once(q)) : Once(q)[j] = q[1]
    BY <1>1, <2>1 DEF Same
  <2>4. \A j \in 1..Len(Once(q)) : j = i
    BY <1>1, <2>2, <2>3 DEF Distinct
  <2>5. 1 \in 1..Len(Once(q))
    BY <1>1, <2>2
  <2>6. Len(Once(q)) \in 1..Len(Once(q))
    BY <1>1, <2>5
  <2> QED BY <2>2, <2>4, <2>5, <2>6
<1> QED BY <1>2, <1>3

-----------------------------------------------------------------------------
(* Versions: what is spelled is read, unless Misread says otherwise.       *)

LEMMA NumberOne ==
  ASSUME NEW a \in Nat PROVE Number(<<a>>) = a
<1>1. <<a>> \in Seq(Nat) /\ Len(<<a>>) = 1 /\ <<a>>[1] = a
  OBVIOUS
<1>2. PICK h : /\ h[0] = 0
               /\ \A k \in 1..1 : h[k] = 10 * h[k - 1] + <<a>>[k]
               /\ h[1] = Number(<<a>>)
  BY <1>1, NumberSteps
<1>3. h[1] = 10 * h[0] + a
  BY <1>2, 1 \in 1..1, 1 - 1 = 0
<1> QED BY <1>2, <1>3

LEMMA NumberTwo ==
  ASSUME NEW a \in Nat, NEW b \in Nat PROVE Number(<<a, b>>) = 10 * a + b
<1>1. <<a, b>> \in Seq(Nat) /\ Len(<<a, b>>) = 2 /\ <<a, b>>[1] = a /\ <<a, b>>[2] = b
  OBVIOUS
<1>2. PICK h : /\ h[0] = 0
               /\ \A k \in 1..2 : h[k] = 10 * h[k - 1] + <<a, b>>[k]
               /\ h[2] = Number(<<a, b>>)
  BY <1>1, NumberSteps
<1>3. h[1] = 10 * h[0] + a
  BY <1>2, 1 \in 1..2, 1 - 1 = 0
<1>4. h[2] = 10 * h[1] + b
  BY <1>2, 2 \in 1..2, 2 - 1 = 1
<1> QED BY <1>2, <1>3, <1>4

LEMMA NumberThree ==
  ASSUME NEW a \in Nat, NEW b \in Nat, NEW c \in Nat
  PROVE  Number(<<a, b, c>>) = 100 * a + 10 * b + c
<1>1. /\ <<a, b, c>> \in Seq(Nat) /\ Len(<<a, b, c>>) = 3
      /\ <<a, b, c>>[1] = a /\ <<a, b, c>>[2] = b /\ <<a, b, c>>[3] = c
  OBVIOUS
<1>2. PICK h : /\ h[0] = 0
               /\ \A k \in 1..3 : h[k] = 10 * h[k - 1] + <<a, b, c>>[k]
               /\ h[3] = Number(<<a, b, c>>)
  BY <1>1, NumberSteps
<1>3. h[1] = 10 * h[0] + a
  BY <1>2, 1 \in 1..3, 1 - 1 = 0
<1>4. h[2] = 10 * h[1] + b
  BY <1>2, 2 \in 1..3, 2 - 1 = 1
<1>5. h[3] = 10 * h[2] + c
  BY <1>2, 3 \in 1..3, 3 - 1 = 2
<1> QED BY <1>2, <1>3, <1>4, <1>5

LEMMA DigitsSpell ==
  ASSUME NEW n \in 0..999
  PROVE  /\ Digits(n) \in Seq(Nat)
         /\ n < 10 => Len(Digits(n)) = 1
         /\ n >= 10 /\ n < 100 => Len(Digits(n)) = 2
         /\ n >= 100 => Len(Digits(n)) = 3
         /\ Number(Digits(n)) = n
<1>1. CASE n < 10
  <2>1. Digits(n) = <<n>> /\ n \in Nat
    BY <1>1 DEF Digits
  <2> QED BY <1>1, <2>1, NumberOne
<1>2. CASE n >= 10 /\ n < 100
  <2>1. Digits(n) = <<n \div 10, n % 10>>
    BY <1>2 DEF Digits
  <2>2. n \div 10 \in Nat /\ n % 10 \in Nat /\ 10 * (n \div 10) + (n % 10) = n
    BY <1>2
  <2>3. Number(<<n \div 10, n % 10>>) = n
    BY <2>2, NumberTwo
  <2>4. <<n \div 10, n % 10>> \in Seq(Nat) /\ Len(<<n \div 10, n % 10>>) = 2
    BY <2>2
  <2> QED BY <1>2, <2>1, <2>3, <2>4
<1>3. CASE n >= 100
  <2> DEFINE q == <<n \div 100, (n \div 10) % 10, n % 10>>
  <2>1. Digits(n) = q
    BY <1>3 DEF Digits
  <2>2. /\ n \div 100 \in Nat /\ (n \div 10) % 10 \in Nat /\ n % 10 \in Nat
        /\ 100 * (n \div 100) + 10 * ((n \div 10) % 10) + (n % 10) = n
    BY <1>3
  <2>3. Number(q) = n
    BY <2>2, NumberThree
  <2>4. q \in Seq(Nat) /\ Len(q) = 3
    BY <2>2
  <2> HIDE DEF q
  <2> QED BY <1>3, <2>1, <2>3, <2>4
<1> QED BY <1>1, <1>2, <1>3

LEMMA PartsOfConcat ==
  ASSUME NEW T, NEW q \in Seq(T), NEW r \in Seq(T), q # <<>>, r # <<>>
  PROVE  /\ SubSeq(q \o r, 1, Len(q)) = q
         /\ SubSeq(q \o r, Len(q) + 1, Len(q \o r)) = r
         /\ Len(q \o r) = Len(q) + Len(r)
         /\ q \o r \in Seq(T)
<1>1. /\ Len(q \o r) = Len(q) + Len(r) /\ q \o r \in Seq(T)
      /\ Len(q) \in Nat \ {0} /\ Len(r) \in Nat \ {0}
  BY ConcatProperties, EmptySeq
<1>2. 1 \in 1..Len(q) /\ Len(q) \in 1..Len(q)
  BY <1>1
<1>3. SubSeq(q \o r, 1, Len(q)) = q
  BY <1>2, SubSeqOfConcat1, SubSeqFull
<1>4. /\ Len(q) + 1 \in Len(q) + 1 .. Len(q) + Len(r)
      /\ Len(q) + Len(r) \in Len(q) + 1 .. Len(q) + Len(r)
      /\ (Len(q) + 1) - Len(q) = 1 /\ (Len(q) + Len(r)) - Len(q) = Len(r)
  BY <1>1
<1>5. SubSeq(q \o r, Len(q) + 1, Len(q) + Len(r)) = SubSeq(r, 1, Len(r))
  BY <1>4, SubSeqOfConcat2
<1> QED BY <1>1, <1>3, <1>5, SubSeqFull

LEMMA PartsAreRead ==
  ASSUME NEW T, 6 \in T, NEW minor \in Seq(T), NEW patch \in Seq(T),
         minor # <<>>, patch # <<>>,
         Len(minor) = IF Len(minor) + Len(patch) <= 2 THEN 1 ELSE 2
  PROVE  ParseCompact(6, (<<6>> \o minor) \o patch) = Version(6, Number(minor), Number(patch))
<1> DEFINE six     == <<6>>
           numbers == minor \o patch
           spelled == six \o numbers
           rest    == SubSeq(spelled, Len(Digits(6)) + 1, Len(spelled))
           split   == IF Len(rest) <= 2 THEN 1 ELSE 2
<1>1. Digits(6) = six /\ six \in Seq(T) /\ Len(six) = 1 /\ six # <<>>
  BY DEF Digits
<1> HIDE DEF six
<1>2. (six \o minor) \o patch = spelled
  <2>1. (six \o minor) \o patch = six \o (minor \o patch)
    BY <1>1, ConcatAssociative
  <2> QED BY <2>1
<1>3. /\ numbers \in Seq(T) /\ Len(numbers) = Len(minor) + Len(patch)
      /\ SubSeq(numbers, 1, Len(minor)) = minor
      /\ SubSeq(numbers, Len(minor) + 1, Len(numbers)) = patch
  BY PartsOfConcat
<1> HIDE DEF numbers
<1>4. Len(numbers) \in Nat \ {0} /\ numbers # <<>>
  <2>1. Len(minor) \in Nat \ {0} /\ Len(patch) \in Nat \ {0}
    BY EmptySeq
  <2>2. Len(numbers) \in Nat \ {0}
    BY <1>3, <2>1
  <2> QED BY <2>2
<1>5. /\ SubSeq(spelled, 1, Len(six)) = six
      /\ SubSeq(spelled, Len(six) + 1, Len(spelled)) = numbers
      /\ Len(spelled) = Len(six) + Len(numbers)
  <2>1. /\ SubSeq(six \o numbers, 1, Len(six)) = six
        /\ SubSeq(six \o numbers, Len(six) + 1, Len(six \o numbers)) = numbers
        /\ Len(six \o numbers) = Len(six) + Len(numbers)
    <3>1. six \in Seq(T) /\ numbers \in Seq(T) /\ six # <<>> /\ numbers # <<>>
      BY <1>1, <1>3, <1>4
    <3> QED BY <3>1, PartsOfConcat
  <2> QED BY <2>1
<1> HIDE DEF spelled
<1>6. rest = numbers
  BY <1>1, <1>5
<1>7. IsPrefix(Digits(6), spelled)
  <2>1. SubSeq(six, 1, Len(six)) = six
    BY <1>1, SubSeqFull
  <2>2. Len(six) <= Len(spelled)
    BY <1>1, <1>4, <1>5
  <2> QED BY <1>1, <1>5, <2>1, <2>2 DEF IsPrefix
<1>8. ParseCompact(6, spelled) =
        Version(6, Number(SubSeq(rest, 1, split)), Number(SubSeq(rest, split + 1, Len(rest))))
  <2>1. rest # <<>>
    BY <1>4, <1>6
  <2> QED BY <1>7, <2>1 DEF ParseCompact
<1> HIDE DEF rest
<1>9. split = Len(minor)
  <2>1. Len(rest) = Len(minor) + Len(patch)
    BY <1>3, <1>6
  <2> HIDE DEF rest
  <2> QED BY <2>1
<1> HIDE DEF split
<1> QED BY <1>1, <1>2, <1>3, <1>6, <1>8, <1>9 DEF six

\* A version is read as it is spelled, whatever its numbers, unless it is one
\* that Misread names.
LEMMA SpelledIsRead ==
  ASSUME NEW v \in QtReleases, ~Misread(v)
  PROVE  ParseCompact(6, Compact(v)) = v
<1> DEFINE minor == Digits(v.minor)
           patch == Digits(v.patch)
<1>1. v.major = 6 /\ v = [major |-> 6, minor |-> v.minor, patch |-> v.patch]
  BY DEF QtReleases
<1>2. /\ v.minor \in Nat /\ v.minor < 100 /\ v.patch \in 0..999
      /\ v.minor < 10 => v.patch < 10
      /\ v.minor < 10 \/ v.minor >= 10
  BY DEF QtReleases, Misread
<1>3. v.minor \in 0..999
  BY <1>2
<1>4. /\ minor \in Seq(Nat) /\ Number(minor) = v.minor
      /\ v.minor < 10 => Len(minor) = 1
      /\ v.minor >= 10 => Len(minor) = 2
  <2>1. v.minor < 100
    BY <1>2
  <2>2. v.minor < 10 => Len(minor) = 1
    BY <1>3, DigitsSpell
  <2>3. v.minor >= 10 => Len(minor) = 2
    BY <1>3, <2>1, DigitsSpell
  <2> QED BY <1>3, <2>2, <2>3, DigitsSpell
<1>5. /\ patch \in Seq(Nat) /\ Number(patch) = v.patch
      /\ v.patch < 10 => Len(patch) = 1
      /\ Len(patch) > 0
  <2>1. v.patch < 10 => Len(patch) = 1
    BY <1>2, DigitsSpell
  <2>2. Len(patch) > 0
    <3>1. v.patch < 10 \/ (v.patch >= 10 /\ v.patch < 100) \/ v.patch >= 100
      BY <1>2
    <3>2. Len(patch) = 1 \/ Len(patch) = 2 \/ Len(patch) = 3
      BY <1>2, <3>1, DigitsSpell
    <3> HIDE DEF patch
    <3> QED BY <3>2
  <2> QED BY <1>2, <2>1, <2>2, DigitsSpell
<1>6. Compact(v) = (<<6>> \o minor) \o patch
  <2>1. Digits(6) = <<6>>
    BY DEF Digits
  <2> QED BY <1>1, <2>1 DEF Compact
<1> HIDE DEF minor, patch
<1>7. Len(minor) = IF Len(minor) + Len(patch) <= 2 THEN 1 ELSE 2
  <2>1. CASE v.minor < 10
    <3>1. Len(minor) = 1 /\ Len(patch) = 1
      BY <1>2, <1>4, <1>5, <2>1
    <3> QED BY <3>1
  <2>2. CASE v.minor >= 10
    <3>1. Len(minor) = 2 /\ Len(patch) \in Nat /\ Len(patch) > 0
      BY <1>4, <1>5, <2>2, LenProperties
    <3> QED BY <3>1
  <2> QED BY <1>2, <2>1, <2>2
<1>8. minor # <<>> /\ patch # <<>>
  <2>1. Len(minor) # 0
    BY <1>2, <1>4
  <2>2. Len(patch) # 0
    BY <1>5
  <2> QED BY <2>1, <2>2
<1>9. ParseCompact(6, Compact(v)) = Version(6, Number(minor), Number(patch))
  BY 6 \in Nat, <1>4, <1>5, <1>6, <1>7, <1>8, PartsAreRead
<1> QED BY <1>1, <1>4, <1>5, <1>9 DEF Version

-----------------------------------------------------------------------------
(* Planning: what is published, and what the documents say.                *)

Documents == Seq([name : {offer.name : offer \in Offers}, update : Updates])

\* Every directory is that of a known version, and every document lists updates.
SiteIsTyped ==
  \A a \in DOMAIN site :
    /\ \E v \in KnownVersions : a.version = Compact(v)
    /\ site[a] \in Documents

LEMMA SiteStaysTyped ==
  Spec => []SiteIsTyped
<1>1. Init => SiteIsTyped
  BY DEF Init, Empty, SiteIsTyped
<1>2. SiteIsTyped /\ [Next]_<<packages, text, lines, site>> => SiteIsTyped'
  <2> SUFFICES ASSUME SiteIsTyped, [Next]_<<packages, text, lines, site>>
               PROVE  SiteIsTyped'
    OBVIOUS
  <2>1. CASE UNCHANGED site
    BY <2>1 DEF SiteIsTyped
  <2>2. CASE PublishOne
    <3>1. PICK offer \in Offers : Publish(offer)
      BY <2>2 DEF PublishOne
    <3> DEFINE update   == [name |-> offer.name, update |-> offer.update]
               document == IF offer.address \in DOMAIN site THEN site[offer.address] ELSE <<>>
    <3>2. update \in [name : {o.name : o \in Offers}, update : Updates]
      BY PlanningAssumption
    <3>3. document \in Documents
      BY DEF SiteIsTyped, Documents
    <3>4. Append(document, update) \in Documents
      <4> HIDE DEF document, update
      <4> QED BY <3>2, <3>3, AppendProperties DEF Documents
    <3>5. site' = [a \in DOMAIN site \cup {offer.address} |->
                     IF a = offer.address THEN Append(document, update) ELSE site[a]]
      BY <3>1 DEF Publish
    <3> HIDE DEF document, update
    <3>6. ASSUME NEW a \in DOMAIN site'
          PROVE  (\E v \in KnownVersions : a.version = Compact(v)) /\ site'[a] \in Documents
      <4>1. CASE a = offer.address
        BY <3>4, <3>5, <4>1, PlanningAssumption
      <4>2. CASE a # offer.address
        <5>1. a \in DOMAIN site /\ site'[a] = site[a]
          BY <3>5, <4>2
        <5> QED BY <5>1 DEF SiteIsTyped
      <4> QED BY <4>1, <4>2
    <3> QED BY <3>6 DEF SiteIsTyped
  <2> QED BY <2>1, <2>2 DEF Next, Install, RelocateText, RelocateLines
<1> QED BY <1>1, <1>2, PTL DEF Spec

LEMMA PackagesAreUpdates ==
  ASSUME NEW document \in Documents, NEW name \in DOMAIN PackagesOf(document)
  PROVE  PackagesOf(document)[name] \in Updates
<1> DEFINE S == {i \in DOMAIN document : document[i].name = name}
<1>1. DOMAIN document = 1..Len(document) /\ Len(document) \in Nat
  BY LenProperties DEF Documents
<1>2. S \in SUBSET (0..Len(document)) /\ S # {} /\ PackagesOf(document)[name] = document[Max(S)].update
  <2>1. S \in SUBSET (0..Len(document))
    BY <1>1
  <2>2. name \in {document[i].name : i \in DOMAIN document}
    BY DEF PackagesOf
  <2> QED BY <2>1, <2>2 DEF PackagesOf
<1>3. Max(S) \in DOMAIN document
  <2> HIDE DEF S
  <2>1. Max(S) \in S
    BY <1>1, <1>2, MaxOf
  <2> QED BY <2>1 DEF S
<1> HIDE DEF S
<1>4. document[Max(S)] \in [name : {offer.name : offer \in Offers}, update : Updates]
  BY <1>1, <1>3, ElementOfSeq DEF Documents
<1> QED BY <1>2, <1>4

\* An archive that resolves is extracted to a path.
LEMMA ExtractToPath ==
  ASSUME NEW update \in Updates, NEW version, Resolves(update, version),
         NEW archive \in ToSet(update.archives)
  PROVE  ExtractTo(update, archive) \in Paths
<1> DEFINE ops == update.extract
           S   == {i \in DOMAIN ops : ops[i].archive = archive}
<1>1. ops \in Seq([archive : STRING, to : Paths])
  BY DEF Updates
<1>2. CASE ops = <<>>
  BY <1>2 DEF ExtractTo, Paths
<1>3. CASE ops # <<>>
  <2>1. archive \in DOMAIN ExtractPaths(update)
    BY <1>3 DEF Resolves
  <2>2. DOMAIN ops = 1..Len(ops) /\ Len(ops) \in Nat
    BY <1>1, LenProperties
  <2>3. S \in SUBSET (0..Len(ops)) /\ S # {} /\ ExtractTo(update, archive) = ops[Max(S)].to
    <3>1. S \in SUBSET (0..Len(ops))
      BY <2>2
    <3>2. archive \in {ops[i].archive : i \in DOMAIN ops}
      BY <2>1 DEF ExtractPaths
    <3>3. ExtractPaths(update)[archive] = ops[Max(S)].to
      BY <3>2 DEF ExtractPaths
    <3> QED BY <1>3, <3>1, <3>2, <3>3 DEF ExtractTo
  <2>4. Max(S) \in DOMAIN ops
    <3> HIDE DEF S
    <3>1. Max(S) \in S
      BY <2>2, <2>3, MaxOf
    <3> QED BY <3>1 DEF S
  <2> HIDE DEF S, ops
  <2>5. ops[Max(S)] \in [archive : STRING, to : Paths]
    BY <1>1, <2>2, <2>4, ElementOfSeq
  <2> QED BY <2>3, <2>5
<1> QED BY <1>2, <1>3

\* The two first segments of a path of two or more.
LEMMA PrefixOfTwo ==
  ASSUME NEW T, NEW path \in Seq(T), Len(path) >= 2, NEW a, NEW b, path[1] = a, path[2] = b
  PROVE  IsPrefix(<<a, b>>, path)
<1>1. Len(path) \in Nat /\ 1 \in 1..Len(path) /\ 2 \in 1..Len(path)
  BY LenProperties
<1>2. a \in T /\ b \in T
  BY <1>1, ElementOfSeq
<1> DEFINE two == <<a, b>>
           sub == SubSeq(path, 1, 2)
           same == SubSeq(two, 1, 2)
<1>3. two \in Seq(T) /\ Len(two) = 2 /\ two[1] = a /\ two[2] = b
  BY <1>2
<1>4. same = two
  <2> HIDE DEF two
  <2> QED BY <1>3, SubSeqFull
<1>5. sub \in Seq(T) /\ Len(sub) = 2 /\ \A i \in 1..2 : sub[i] = path[i]
  <2>1. \A i \in 1..2 : path[i] \in T
    BY <1>1, <1>2
  <2>2. 1 \in Int /\ 2 \in Int /\ (2 - 1) + 1 = 2 /\ \A i \in 1..2 : (1 + i) - 1 = i
    OBVIOUS
  <2> QED BY <2>1, <2>2, SubSeqProperties
<1>6. \A i \in 1..2 : i = 1 \/ i = 2
  OBVIOUS
<1> HIDE DEF two, sub, same
<1>7. sub = two
  <2>1. \A i \in 1..Len(sub) : sub[i] = two[i]
    BY <1>3, <1>5, <1>6
  <2> QED BY <1>3, <1>5, <2>1, SeqEqual
<1> QED BY <1>1, <1>3, <1>4, <1>7 DEF IsPrefix, two, sub, same

-----------------------------------------------------------------------------
(* Commands: their variants and modules.                                   *)

LEMMA NormalisedOnce ==
  ASSUME NEW R, NEW q \in Seq(R)
  PROVE  LET normal == [i \in DOMAIN q |-> Normal(q[i])]
             once   == Once(normal)
         IN  /\ normal \in Seq({Normal(q[i]) : i \in DOMAIN q}) /\ Len(normal) = Len(q)
             /\ DOMAIN once = 1..Len(once) /\ Len(once) \in Nat
             /\ Distinct(once)
             /\ \A i \in 1..Len(once) : \E j \in DOMAIN q : once[i] = Normal(q[j])
             /\ q # <<>> => Len(once) # 0
             /\ Len(q) = 1 => Len(once) = 1 /\ once[1] = Normal(q[1])
<1> DEFINE T      == {Normal(q[i]) : i \in DOMAIN q}
           normal == [i \in DOMAIN q |-> Normal(q[i])]
           once   == Once(normal)
<1>1. DOMAIN q = 1..Len(q) /\ Len(q) \in Nat
  BY LenProperties
<1>2. normal \in [1..Len(q) -> T] /\ \A i \in 1..Len(q) : normal[i] = Normal(q[i])
  BY <1>1
<1> HIDE DEF normal, T
<1>3. normal \in Seq(T) /\ Len(normal) = Len(q)
  BY <1>1, <1>2, SeqDef
<1>4. once \in Seq(T) /\ Distinct(once) /\ Same(once, normal, Len(normal))
  BY <1>3, OnceKeeps
<1>5. /\ normal # <<>> => once # <<>>
      /\ Len(normal) = 1 => Len(once) = 1 /\ once[1] = normal[1]
  BY <1>3, OnceOfSome
<1> HIDE DEF once
<1>6. DOMAIN once = 1..Len(once) /\ Len(once) \in Nat
  BY <1>4, LenProperties
<1>7. ASSUME NEW i \in 1..Len(once) PROVE \E j \in DOMAIN q : once[i] = Normal(q[j])
  <2>1. \E j \in 1..Len(normal) : normal[j] = once[i]
    BY <1>4 DEF Same
  <2> QED BY <1>1, <1>2, <1>3, <2>1
<1>8. ASSUME q # <<>> PROVE Len(once) # 0
  <2>1. Len(normal) # 0
    BY <1>3, <1>8, EmptySeq
  <2>2. normal # <<>>
    BY <2>1, EmptySeq
  <2>3. once # <<>>
    BY <1>5, <2>2
  <2> QED BY <1>4, <2>3, EmptySeq
<1>9. ASSUME Len(q) = 1 PROVE Len(once) = 1 /\ once[1] = Normal(q[1])
  <2>1. 1 \in 1..Len(q)
    BY <1>9
  <2> QED BY <1>2, <1>3, <1>5, <1>9, <2>1
<1> QED BY <1>3, <1>4, <1>6, <1>7, <1>8, <1>9 DEF once, normal, T

LEMMA CommandsAreTyped ==
  ASSUME NEW c \in Commands
  PROVE  /\ c.abis \in Seq(STRING) /\ c.modules \in Seq(STRING)
         /\ c.version \in QtReleases /\ c.host \in Hosts
         /\ c = [host |-> c.host, target |-> c.target, version |-> c.version, arch |-> c.arch,
                 abis |-> c.abis, modules |-> c.modules, flags |-> c.flags]
<1>1. c \in Requests
  BY PlanningAssumption
<1> QED BY <1>1 DEF Requests

LEMMA AndroidNames ==
  /\ \A abi \in DOMAIN AndroidABIs :
       AndroidABIs[abi].architecture \in Architectures /\ AndroidABIs[abi].child \in Children
  /\ \A abi, other \in DOMAIN AndroidABIs :
       AndroidABIs[abi].architecture = AndroidABIs[other].architecture => abi = other
<1>1. ASSUME NEW abi \in DOMAIN AndroidABIs
      PROVE  AndroidABIs[abi].architecture \in Architectures /\ AndroidABIs[abi].child \in Children
  BY DEF Architectures, Children
<1>2. /\ DOMAIN AndroidABIs = {"arm64-v8a", "armeabi-v7a", "x86", "x86_64"}
      /\ AndroidABIs["arm64-v8a"].architecture = "android_arm64_v8a"
      /\ AndroidABIs["armeabi-v7a"].architecture = "android_armv7"
      /\ AndroidABIs["x86"].architecture = "android_x86"
      /\ AndroidABIs["x86_64"].architecture = "android_x86_64"
  BY DEF AndroidABIs
<1>3. ASSUME NEW abi \in DOMAIN AndroidABIs, NEW other \in DOMAIN AndroidABIs,
             AndroidABIs[abi].architecture = AndroidABIs[other].architecture
      PROVE  abi = other
  BY <1>2, <1>3
<1> QED BY <1>1, <1>3

\* What every variant of a command has in common.
IsVariantOf(c, variant) ==
  /\ variant.architecture \in Architectures
  /\ variant.prefix = MainPrefix(c.version)
  /\ variant.version = c.version
  /\ \E child \in Children : variant.address = Address(c, child)

AreVariantsOf(c, variants) ==
  /\ DOMAIN variants = 1..Len(variants) /\ Len(variants) \in Nat \ {0}
  /\ \A i \in DOMAIN variants : IsVariantOf(c, variants[i])
  /\ \A i, j \in DOMAIN variants : i # j => variants[i].architecture # variants[j].architecture
  /\ Len(c.abis) <= 1 => Len(variants) = 1

\* A command that names variants has some, each architecture once.
LEMMA VariantsOfCommand ==
  ASSUME NEW c \in Commands, NamesVariants(c)
  PROVE  AreVariantsOf(c, Variants(c))
<1> DEFINE variants == Variants(c)
<1>1. ASSUME NEW v, IsVariantOf(c, v), variants = <<v>> PROVE AreVariantsOf(c, variants)
  <2> HIDE DEF variants
  <2>1. DOMAIN variants = 1..1 /\ Len(variants) = 1 /\ variants[1] = v
    BY <1>1
  <2>2. \A i \in 1..1 : i = 1
    OBVIOUS
  <2> QED BY <1>1, <2>1, <2>2 DEF AreVariantsOf
<1>2. CASE c.target = "desktop"
  <2> DEFINE arch == Architecture(c.host, c.arch)
             v == Variant(c, DesktopChild(c), arch, Desktops[arch].directory, Desktops[arch].extensions)
  <2>1. variants = <<v>>
    BY <1>2 DEF Variants
  <2>2. arch \in DOMAIN Desktops
    BY <1>2 DEF NamesVariants, IsArchitectureOf
  <2>3. DesktopChild(c) \in Children
    <3> HIDE DEF arch
    <3>1. DesktopChild(c) = "" \/ DesktopChild(c) = Desktops[arch].child
      BY DEF DesktopChild, arch
    <3> QED BY <2>2, <3>1 DEF Children
  <2>4. arch \in Architectures
    BY <2>2 DEF Architectures
  <2> HIDE DEF arch
  <2>5. IsVariantOf(c, v)
    BY <2>3, <2>4 DEF IsVariantOf, Variant
  <2> HIDE DEF v
  <2> QED BY <1>1, <2>1, <2>5
<1>3. CASE c.target = "ios"
  <2> DEFINE v == Variant(c, "", "ios", "ios", "ios")
  <2>1. variants = <<v>>
    BY <1>3 DEF Variants
  <2>2. "" \in Children /\ "ios" \in Architectures
    BY DEF Children, Architectures
  <2>3. IsVariantOf(c, v)
    BY <2>2 DEF IsVariantOf, Variant
  <2> HIDE DEF v
  <2> QED BY <1>1, <2>1, <2>3
<1>4. CASE c.target = "android"
  <2> DEFINE normal == [i \in DOMAIN c.abis |-> Normal(c.abis[i])]
             abis   == Once(normal)
  <2>1. variants = [i \in DOMAIN abis |-> AndroidVariant(c, abis[i])]
    BY <1>4 DEF Variants
  <2>2. c.abis \in Seq(STRING) /\ c.abis # <<>>
        /\ \A i \in DOMAIN c.abis : Normal(c.abis[i]) \in DOMAIN AndroidABIs
    BY <1>4, CommandsAreTyped DEF NamesVariants
  <2>3. /\ DOMAIN abis = 1..Len(abis) /\ Len(abis) \in Nat /\ Len(abis) # 0
        /\ Distinct(abis)
        /\ \A i \in 1..Len(abis) : \E j \in DOMAIN c.abis : abis[i] = Normal(c.abis[j])
        /\ Len(c.abis) = 1 => Len(abis) = 1
    BY <2>2, NormalisedOnce
  <2> HIDE DEF abis, normal
  <2>4. \A i \in 1..Len(abis) : abis[i] \in DOMAIN AndroidABIs
    BY <2>2, <2>3
  <2>5. variants \in [1..Len(abis) -> {AndroidVariant(c, abis[i]) : i \in 1..Len(abis)}]
    BY <2>1, <2>3
  <2>6. DOMAIN variants = 1..Len(abis) /\ Len(variants) = Len(abis)
    <3> HIDE DEF variants
    <3>1. variants \in Seq({AndroidVariant(c, abis[i]) : i \in 1..Len(abis)})
      BY <2>3, <2>5, SeqDef
    <3> QED BY <2>3, <2>5, <3>1, LenProperties
  <2>7. ASSUME NEW i \in 1..Len(abis)
        PROVE  /\ variants[i].architecture = AndroidABIs[abis[i]].architecture
               /\ IsVariantOf(c, variants[i])
    <3>1. variants[i] = AndroidVariant(c, abis[i])
      BY <2>1, <2>3
    <3>2. abis[i] \in DOMAIN AndroidABIs
      BY <2>4
    <3> DEFINE a == AndroidABIs[abis[i]]
    <3>3. a.architecture \in Architectures /\ a.child \in Children
      BY <3>2, AndroidNames
    <3> HIDE DEF a
    <3>4. variants[i] = Variant(c, a.child, a.architecture, a.architecture, a.child)
      BY <3>1 DEF AndroidVariant, a
    <3> HIDE DEF variants
    <3> QED BY <3>3, <3>4 DEF Variant, IsVariantOf, a
  <2>8. ASSUME NEW i \in 1..Len(abis), NEW j \in 1..Len(abis),
               variants[i].architecture = variants[j].architecture
        PROVE  i = j
    <3>1. abis[i] = abis[j]
      <4> HIDE DEF variants
      <4>1. AndroidABIs[abis[i]].architecture = AndroidABIs[abis[j]].architecture
        BY <2>7, <2>8
      <4> QED BY <2>4, <4>1, AndroidNames
    <3> QED BY <2>3, <3>1 DEF Distinct
  <2>9. Len(c.abis) <= 1 => Len(abis) = 1
    <3>1. Len(c.abis) \in Nat \ {0}
      BY <2>2, EmptySeq
    <3>2. \A n \in Nat \ {0} : n <= 1 => n = 1
      OBVIOUS
    <3> QED BY <2>3, <3>1, <3>2
  <2>10. AreVariantsOf(c, variants)
    <3> HIDE DEF variants
    <3> QED BY <2>3, <2>6, <2>7, <2>8, <2>9 DEF AreVariantsOf
  <2> QED BY <2>10
<1>5. c.target \in {"desktop", "android", "ios"}
  BY DEF NamesVariants
<1> QED BY <1>2, <1>3, <1>4, <1>5

LEMMA ModulesOfCommand ==
  ASSUME NEW c \in Commands, AcceptsInstall(c)
  PROVE  /\ DOMAIN ModulesOf(c) = 1..Len(ModulesOf(c)) /\ Len(ModulesOf(c)) \in Nat
         /\ Distinct(ModulesOf(c))
         /\ \A i \in 1..Len(ModulesOf(c)) : ModulesOf(c)[i] \in Identifiers
<1>1. c.modules \in Seq(STRING)
  BY CommandsAreTyped
<1>2. /\ DOMAIN ModulesOf(c) = 1..Len(ModulesOf(c)) /\ Len(ModulesOf(c)) \in Nat
      /\ Distinct(ModulesOf(c))
      /\ \A i \in 1..Len(ModulesOf(c)) : \E j \in DOMAIN c.modules : ModulesOf(c)[i] = Normal(c.modules[j])
  BY <1>1, NormalisedOnce DEF ModulesOf
<1>3. \A j \in DOMAIN c.modules : Normal(c.modules[j]) \in Identifiers
  BY DEF AcceptsInstall
<1> QED BY <1>2, <1>3

-----------------------------------------------------------------------------
(* Plans.                                                                  *)

SelectsEach(pk, variant, mods, selected) ==
  /\ DOMAIN selected = 1..(Len(mods) + 1)
  /\ selected[1] = Selection(pk, BaseName(variant), "")
  /\ \A i \in 1..Len(mods) :
       selected[i + 1] = Selection(pk, ModuleName(pk, variant, mods[i]), mods[i])

LEMMA SelectedPackages ==
  ASSUME NEW pk, NEW variant, NEW mods, DOMAIN mods = 1..Len(mods), Len(mods) \in Nat
  PROVE  SelectsEach(pk, variant, mods, SelectPackages(pk, variant, mods))
<1> DEFINE first == Selection(pk, BaseName(variant), "")
           others == [i \in DOMAIN mods |-> Selection(pk, ModuleName(pk, variant, mods[i]), mods[i])]
           T == {first} \cup {others[i] : i \in 1..Len(mods)}
           selected == <<first>> \o others
<1>1. SelectPackages(pk, variant, mods) = selected
  BY DEF SelectPackages
<1>2. \A i \in 1..Len(mods) : others[i] = Selection(pk, ModuleName(pk, variant, mods[i]), mods[i])
  OBVIOUS
<1>3. others \in [1..Len(mods) -> T]
  OBVIOUS
<1>4. first \in T
  OBVIOUS
<1> HIDE DEF first, others, T
<1>5. others \in Seq(T) /\ Len(others) = Len(mods)
  BY <1>3, SeqDef
<1>6. <<first>> \in Seq(T) /\ Len(<<first>>) = 1 /\ <<first>>[1] = first
  BY <1>4
<1>7. /\ selected \in Seq(T) /\ Len(selected) = 1 + Len(mods)
      /\ \A i \in 1..(1 + Len(mods)) : selected[i] = IF i <= 1 THEN <<first>>[i] ELSE others[i - 1]
  <2> DEFINE one == <<first>>
  <2>1. one \in Seq(T) /\ Len(one) = 1 /\ others \in Seq(T)
    BY <1>5, <1>6
  <2> HIDE DEF one
  <2>2. /\ one \o others \in Seq(T) /\ Len(one \o others) = Len(one) + Len(others)
        /\ \A i \in 1..Len(one) + Len(others) :
             (one \o others)[i] = IF i <= Len(one) THEN one[i] ELSE others[i - Len(one)]
    BY <2>1, ConcatProperties
  <2> QED BY <1>5, <2>1, <2>2 DEF one
<1> HIDE DEF selected
<1>8. DOMAIN selected = 1..(Len(mods) + 1)
  BY <1>7, LenProperties
<1>9. selected[1] = first
  <2>1. 1 \in 1..(1 + Len(mods))
    OBVIOUS
  <2> QED BY <1>6, <1>7, <2>1
<1>10. ASSUME NEW i \in 1..Len(mods) PROVE selected[i + 1] = others[i]
  <2>1. i + 1 \in 1..(1 + Len(mods)) /\ ~(i + 1 <= 1) /\ (i + 1) - 1 = i
    OBVIOUS
  <2> QED BY <1>7, <2>1
<1> QED BY <1>1, <1>2, <1>8, <1>9, <1>10 DEF first, SelectsEach

\* What a plan is made of: the documents of its variants and what they select.
LEMMA PlannedKits ==
  ASSUME SiteIsTyped, NEW c \in Commands, CanPlan(site, c), NEW i \in DOMAIN Variants(c)
  PROVE  LET variant == Variants(c)[i]
             pk      == PackagesAt(site, variant)
         IN  /\ KitsPlanned(site, c)[i] = KitOf(site, variant, ModulesOf(c))
             /\ variant.address \in DOMAIN site
             /\ CanSelect(pk, variant, ModulesOf(c))
             /\ HasVariant(pk, variant)
             /\ pk[BaseName(variant)] \in Updates
<1> DEFINE variant == Variants(c)[i]
           pk      == PackagesAt(site, variant)
<1>1. KitsPlanned(site, c)[i] = KitOf(site, variant, ModulesOf(c))
  BY DEF KitsPlanned
<1>2. variant \in ToSet(Variants(c))
  BY DEF ToSet
<1>3. variant.address \in DOMAIN site /\ CanSelect(pk, variant, ModulesOf(c))
  BY <1>2 DEF CanPlan
<1> HIDE DEF variant
<1>4. HasVariant(pk, variant) /\ BaseName(variant) \in DOMAIN pk
  BY <1>3 DEF CanSelect, HasVariant
<1>5. site[variant.address] \in Documents
  BY <1>3 DEF SiteIsTyped
<1>6. pk[BaseName(variant)] \in Updates
  BY <1>4, <1>5, PackagesAreUpdates DEF PackagesAt
<1> QED BY <1>1, <1>3, <1>4, <1>6 DEF variant

\* The directory that becomes a kit is where its base archive lands.
LEMMA BaseArchiveLands ==
  ASSUME NEW pk, NEW variant, HasVariant(pk, variant), pk[BaseName(variant)] \in Updates,
         NEW j \in DOMAIN pk[BaseName(variant)].archives,
         pk[BaseName(variant)].archives[j] = "qtbase",
         ExtractTo(pk[BaseName(variant)], "qtbase") # <<>>
  PROVE  IsPrefix(<<VersionDirectory, InstallDirectory(pk[BaseName(variant)], variant.fallback)>>,
                  ExtractTo(pk[BaseName(variant)], "qtbase"))
<1> DEFINE update == pk[BaseName(variant)]
           path   == ExtractTo(update, "qtbase")
<1>1. update \in Updates /\ Resolves(update, variant.version)
      /\ InstallDirectory(update, variant.fallback) # NoDirectory
  BY DEF HasVariant
<1>2. update.archives \in Seq(STRING)
  BY <1>1 DEF Updates
<1>3. DOMAIN update.archives = 1..Len(update.archives)
  BY <1>2, LenProperties
<1>4. Contains(update.archives, "qtbase") /\ "qtbase" \in ToSet(update.archives)
  <2> HIDE DEF update
  <2>1. j \in DOMAIN update.archives /\ update.archives[j] = "qtbase"
    BY DEF update
  <2> QED BY <1>3, <2>1 DEF Contains, ToSet
<1> HIDE DEF update
<1>5. BaseArchive(update) = "qtbase"
  BY <1>4 DEF BaseArchive
<1>6. path # <<>>
  BY DEF update
<1>7. path \in Seq(STRING)
  BY <1>1, <1>4, ExtractToPath DEF Paths
<1> HIDE DEF path
<1>8. /\ ~(Len(path) < 2) /\ path[1] = VersionDirectory
      /\ InstallDirectory(update, variant.fallback) = path[2]
  BY <1>1, <1>5, <1>6 DEF InstallDirectory, path
<1>9. Len(path) >= 2
  BY <1>7, <1>8, LenProperties
<1>10. IsPrefix(<<VersionDirectory, InstallDirectory(update, variant.fallback)>>, path)
  BY <1>7, <1>8, <1>9, PrefixOfTwo
<1> QED BY <1>10 DEF path, update

\* The archive with the tools of a kit is extracted into the directory that
\* becomes the kit, whatever documents the server has (package_variant.go:338).
THEOREM BaseLandsInKitAlways ==
  Spec => []BaseLandsInKit
<1>1. SiteIsTyped => BaseLandsInKit
  <2> SUFFICES ASSUME SiteIsTyped, NEW c \in Commands, CanPlan(site, c),
                      NEW kit \in ToSet(KitsPlanned(site, c)),
                      NEW j \in DOMAIN kit.packages[1].archives,
                      kit.packages[1].archives[j] = "qtbase", kit.packages[1].to[j] # <<>>
               PROVE  IsPrefix(kit.destination, kit.packages[1].to[j])
    BY DEF BaseLandsInKit
  <2>1. PICK i \in DOMAIN Variants(c) : kit = KitsPlanned(site, c)[i]
    BY DEF ToSet, KitsPlanned
  <2> DEFINE variant == Variants(c)[i]
             pk      == PackagesAt(site, variant)
             update  == pk[BaseName(variant)]
  <2>2. /\ kit = KitOf(site, variant, ModulesOf(c))
        /\ HasVariant(pk, variant) /\ update \in Updates
    BY <2>1, PlannedKits
  <2> HIDE DEF variant
  <2>3. /\ kit.destination = <<VersionDirectory, InstallDirectory(update, variant.fallback)>>
        /\ kit.packages = SelectPackages(pk, variant, ModulesOf(c))
    BY <2>2 DEF KitOf
  <2> HIDE DEF pk
  <2>4. AcceptsInstall(c)
    BY DEF CanPlan
  <2>5. kit.packages[1] = Selection(pk, BaseName(variant), "")
    BY <2>3, <2>4, ModulesOfCommand, SelectedPackages DEF SelectsEach
  <2>6. /\ kit.packages[1].archives = update.archives
        /\ \A k \in DOMAIN update.archives :
             kit.packages[1].to[k] = ExtractTo(update, update.archives[k])
    <3> DEFINE base == kit.packages[1]
    <3>1. base = Selection(pk, BaseName(variant), "")
      BY <2>5
    <3> HIDE DEF base
    <3>2. /\ base.archives = pk[BaseName(variant)].archives
          /\ \A k \in DOMAIN pk[BaseName(variant)].archives :
               base.to[k] = ExtractTo(pk[BaseName(variant)], pk[BaseName(variant)].archives[k])
      BY <3>1 DEF Selection
    <3> QED BY <3>2 DEF base
  <2>7. /\ j \in DOMAIN update.archives /\ update.archives[j] = "qtbase"
        /\ kit.packages[1].to[j] = ExtractTo(update, "qtbase")
    BY <2>6
  <2>8. ExtractTo(update, "qtbase") # <<>>
    BY <2>7
  <2>9. HasVariant(pk, variant) /\ update \in Updates
    BY <2>2 DEF pk
  <2>10. IsPrefix(<<VersionDirectory, InstallDirectory(update, variant.fallback)>>,
                  ExtractTo(update, "qtbase"))
    BY <2>7, <2>8, <2>9, BaseArchiveLands
  <2> HIDE DEF update
  <2> QED BY <2>3, <2>7, <2>10
<1> QED BY <1>1, SiteStaysTyped, PTL

\* The parts of a name of a module.
NamesModule(parts, module, architecture) ==
  parts \in {<<"addons", module, architecture>>, <<module, architecture>>}

LEMMA NamesOfModules ==
  ASSUME NEW pk, NEW variant, NEW module, HasModule(pk, variant, module)
  PROVE  NamesModule(ModuleName(pk, variant, module).parts, module, variant.architecture)
<1> DEFINE S == Named(pk, variant, module)
           k == Min(S)
<1>1. S \in SUBSET Nat /\ S # {} /\ S \subseteq 1..2
  BY DEF HasModule, Named
<1> HIDE DEF S
<1>2. k \in 1..2
  BY <1>1, MinOf
<1>3. ModuleName(pk, variant, module) = ModuleNames(variant, module)[k]
  BY DEF ModuleName, S
<1> HIDE DEF k
<1>4. k = 1 \/ k = 2
  BY <1>2
<1>5. /\ ModuleNames(variant, module)[1].parts = <<"addons", module, variant.architecture>>
      /\ ModuleNames(variant, module)[2].parts = <<module, variant.architecture>>
  BY DEF ModuleNames
<1> QED BY <1>3, <1>4, <1>5 DEF NamesModule

\* Names say which module they are of: of none when they have one part.
LEMMA NamesHaveParts ==
  ASSUME NEW a, NEW m, NEW p, NamesModule(p, m, a)
  PROVE  p # <<a>>
BY DEF NamesModule

LEMMA NamesDiffer ==
  ASSUME NEW a, NEW m, NEW n, NEW p, NEW q, NamesModule(p, m, a), NamesModule(q, n, a), p = q
  PROVE  m = n
<1>1. p \in {<<"addons", m, a>>, <<m, a>>} /\ q \in {<<"addons", n, a>>, <<n, a>>}
  BY DEF NamesModule
<1>2. CASE p = <<"addons", m, a>>
  <2>1. q = <<"addons", n, a>>
    <3>1. <<"addons", m, a>> # <<n, a>>
      OBVIOUS
    <3> QED BY <1>1, <1>2, <3>1
  <2>2. <<"addons", m, a>>[2] = <<"addons", n, a>>[2]
    BY <1>2, <2>1
  <2> QED BY <2>2
<1>3. CASE p = <<m, a>>
  <2>1. q = <<n, a>>
    <3>1. <<m, a>> # <<"addons", n, a>>
      OBVIOUS
    <3> QED BY <1>1, <1>3, <3>1
  <2>2. <<m, a>>[1] = <<n, a>>[1]
    BY <1>3, <2>1
  <2> QED BY <2>2
<1> QED BY <1>1, <1>2, <1>3

\* The packages that are selected for a kit: each with archives, no name and no
\* module twice, the base package first.
LEMMA SelectedOnce ==
  ASSUME NEW pk, NEW variant, NEW mods, DOMAIN mods = 1..Len(mods), Len(mods) \in Nat,
         Distinct(mods), \A i \in 1..Len(mods) : mods[i] \in Identifiers,
         CanSelect(pk, variant, mods)
  PROVE  LET selected == SelectPackages(pk, variant, mods)
         IN  /\ ~SelectsTwice(selected)
             /\ \A j \in DOMAIN selected : selected[j].archives # <<>>
             /\ \A j, k \in DOMAIN selected : selected[j].module = selected[k].module => j = k
             /\ selected[1].module = ""
<1> DEFINE q == SelectPackages(pk, variant, mods)
           n == Len(mods)
<1>1. /\ DOMAIN q = 1..(n + 1)
      /\ q[1] = Selection(pk, BaseName(variant), "")
      /\ \A i \in 1..n : q[i + 1] = Selection(pk, ModuleName(pk, variant, mods[i]), mods[i])
  <2>1. SelectsEach(pk, variant, mods, q)
    BY SelectedPackages
  <2> HIDE DEF q
  <2> QED BY <2>1 DEF SelectsEach
<1>2. /\ Resolves(pk[BaseName(variant)], variant.version)
      /\ \A i \in 1..n : HasModule(pk, variant, mods[i])
                         /\ Resolves(pk[ModuleName(pk, variant, mods[i])], variant.version)
  BY DEF CanSelect, HasVariant
<1> HIDE DEF q
<1>3. /\ q[1].module = "" /\ q[1].archives # <<>>
      /\ q[1].name.parts = <<variant.architecture>>
  <2> DEFINE s == q[1]
  <2>1. s = Selection(pk, BaseName(variant), "")
    BY <1>1
  <2> HIDE DEF s
  <2>2. s.module = "" /\ s.archives = pk[BaseName(variant)].archives /\ s.name = BaseName(variant)
    BY <2>1 DEF Selection
  <2>3. pk[BaseName(variant)].archives # <<>>
    BY <1>2 DEF Resolves
  <2>4. s.name.parts = <<variant.architecture>>
    <3>1. BaseName(variant).parts = <<variant.architecture>>
      BY DEF BaseName
    <3> QED BY <2>2, <3>1
  <2> QED BY <2>2, <2>3, <2>4 DEF s
<1>4. ASSUME NEW i \in 1..n
      PROVE  /\ q[i + 1].module = mods[i] /\ q[i + 1].archives # <<>>
             /\ q[i + 1].module # ""
             /\ NamesModule(q[i + 1].name.parts, mods[i], variant.architecture)
  <2> DEFINE name == ModuleName(pk, variant, mods[i])
             s    == q[i + 1]
  <2>1. s = Selection(pk, name, mods[i])
    BY <1>1
  <2>2. Resolves(pk[name], variant.version) /\ HasModule(pk, variant, mods[i])
    BY <1>2
  <2>3. NamesModule(name.parts, mods[i], variant.architecture)
    BY <2>2, NamesOfModules
  <2> HIDE DEF name, s
  <2>4. s.module = mods[i] /\ s.archives = pk[name].archives /\ s.name = name
    BY <2>1 DEF Selection
  <2>5. pk[name].archives # <<>>
    BY <2>2 DEF Resolves
  <2>6. mods[i] # ""
    BY IdentifierAssumption
  <2> QED BY <2>3, <2>4, <2>5, <2>6 DEF s
<1>5. ASSUME NEW k \in DOMAIN q PROVE k = 1 \/ (k - 1 \in 1..n /\ k = (k - 1) + 1)
  <2>1. k \in 1..(n + 1)
    BY <1>1
  <2> QED BY <2>1
<1>6. ASSUME NEW j \in 1..n, NEW k \in 1..n, mods[j] = mods[k] PROVE j = k
  BY <1>6 DEF Distinct
<1>7. ASSUME NEW k \in DOMAIN q PROVE q[k].archives # <<>>
  BY <1>3, <1>4, <1>5
<1>8. ASSUME NEW j \in DOMAIN q, NEW k \in DOMAIN q, q[j].module = q[k].module PROVE j = k
  <2>1. CASE j = 1
    <3>1. CASE k # 1
      <4>1. k - 1 \in 1..n /\ k = (k - 1) + 1
        BY <1>5, <3>1
      <4>2. q[k].module # ""
        BY <1>4, <4>1
      <4> QED BY <1>3, <1>8, <2>1, <4>2
    <3> QED BY <2>1, <3>1
  <2>2. CASE j # 1
    <3>1. j - 1 \in 1..n /\ j = (j - 1) + 1
      BY <1>5, <2>2
    <3>2. q[j].module = mods[j - 1] /\ q[j].module # ""
      BY <1>4, <3>1
    <3>3. k - 1 \in 1..n /\ k = (k - 1) + 1
      BY <1>3, <1>5, <1>8, <3>2
    <3>4. q[k].module = mods[k - 1]
      BY <1>4, <3>3
    <3>5. j - 1 = k - 1
      BY <1>6, <1>8, <3>1, <3>2, <3>3, <3>4
    <3> QED BY <3>1, <3>3, <3>5
  <2> QED BY <2>1, <2>2
<1>9. ASSUME NEW j \in DOMAIN q, NEW k \in DOMAIN q, q[j].name = q[k].name PROVE j = k
  <2>1. CASE j = 1
    <3>1. CASE k # 1
      <4>1. k - 1 \in 1..n /\ k = (k - 1) + 1
        BY <1>5, <3>1
      <4>2. NamesModule(q[k].name.parts, mods[k - 1], variant.architecture)
        BY <1>4, <4>1
      <4>3. q[k].name.parts # <<variant.architecture>>
        BY <4>2, NamesHaveParts
      <4> QED BY <1>3, <1>9, <2>1, <4>3
    <3> QED BY <2>1, <3>1
  <2>2. CASE j # 1
    <3>1. j - 1 \in 1..n /\ j = (j - 1) + 1
      BY <1>5, <2>2
    <3>2. NamesModule(q[j].name.parts, mods[j - 1], variant.architecture)
      BY <1>4, <3>1
    <3>3. q[j].name.parts # <<variant.architecture>>
      BY <3>2, NamesHaveParts
    <3>4. k - 1 \in 1..n /\ k = (k - 1) + 1
      BY <1>3, <1>5, <1>9, <3>3
    <3>5. NamesModule(q[k].name.parts, mods[k - 1], variant.architecture)
      BY <1>4, <3>4
    <3>6. mods[j - 1] = mods[k - 1]
      BY <1>9, <3>2, <3>5, NamesDiffer
    <3>7. j - 1 = k - 1
      BY <1>6, <3>1, <3>4, <3>6
    <3> QED BY <3>1, <3>4, <3>7
  <2> QED BY <2>1, <2>2
<1>10. ~SelectsTwice(q)
  BY <1>9 DEF SelectsTwice
<1> QED BY <1>3, <1>7, <1>8, <1>10 DEF q

\* Whatever the documents say and however a user spells or repeats the names, a
\* plan is one that is not refused: kits of different architectures, each with its
\* base package first, packages with archives, no package and no module twice
\* (installation_state.go:212, install_plan.go:436).
THEOREM PlansAreAcceptedAlways ==
  Spec => []PlansAreAccepted
<1>1. SiteIsTyped => PlansAreAccepted
  <2> SUFFICES ASSUME SiteIsTyped, NEW c \in Commands, CanPlan(site, c)
               PROVE  LET kits == KitsPlanned(site, c)
                      IN  /\ kits # <<>>
                          /\ \A i, j \in DOMAIN kits : i # j => kits[i].architecture # kits[j].architecture
                          /\ \A kit \in ToSet(kits) :
                               LET packages_1 == kit.packages
                               IN  /\ ~SelectsTwice(packages_1)
                                   /\ \A j \in DOMAIN packages_1 : packages_1[j].archives # <<>>
                                   /\ \A j, k \in DOMAIN packages_1 :
                                        packages_1[j].module = packages_1[k].module => j = k
                                   /\ packages_1[1].module = ""
    BY DEF PlansAreAccepted
  <2> DEFINE kits == KitsPlanned(site, c)
             variants == Variants(c)
             mods == ModulesOf(c)
  <2>1. AcceptsInstall(c) /\ NamesVariants(c)
    BY DEF CanPlan, AcceptsInstall
  <2>2. /\ DOMAIN variants = 1..Len(variants) /\ Len(variants) \in Nat \ {0}
        /\ \A i, j \in DOMAIN variants : i # j => variants[i].architecture # variants[j].architecture
    BY <2>1, VariantsOfCommand DEF AreVariantsOf
  <2>3. DOMAIN kits = DOMAIN variants
    BY DEF KitsPlanned
  <2>4. ASSUME NEW i \in DOMAIN variants
        PROVE  /\ kits[i] = KitOf(site, variants[i], mods)
               /\ CanSelect(PackagesAt(site, variants[i]), variants[i], mods)
    BY PlannedKits
  <2> HIDE DEF kits, variants, mods
  <2>5. ASSUME NEW i \in DOMAIN variants
        PROVE  /\ kits[i].architecture = variants[i].architecture
               /\ kits[i].packages = SelectPackages(PackagesAt(site, variants[i]), variants[i], mods)
    <3>1. kits[i] = KitOf(site, variants[i], mods)
      BY <2>4
    <3> QED BY <3>1 DEF KitOf
  <2>6. kits # <<>>
    <3>1. 1 \in DOMAIN kits
      BY <2>2, <2>3
    <3> QED BY <3>1
  <2>7. \A i, j \in DOMAIN kits : i # j => kits[i].architecture # kits[j].architecture
    BY <2>2, <2>3, <2>5
  <2>8. /\ DOMAIN mods = 1..Len(mods) /\ Len(mods) \in Nat /\ Distinct(mods)
        /\ \A i \in 1..Len(mods) : mods[i] \in Identifiers
    BY <2>1, ModulesOfCommand DEF mods
  <2>9. ASSUME NEW kit \in ToSet(kits)
        PROVE  /\ ~SelectsTwice(kit.packages)
               /\ \A j \in DOMAIN kit.packages : kit.packages[j].archives # <<>>
               /\ \A j, k \in DOMAIN kit.packages :
                    kit.packages[j].module = kit.packages[k].module => j = k
               /\ kit.packages[1].module = ""
    <3>1. PICK i \in DOMAIN variants : kit = kits[i]
      BY <2>3 DEF ToSet
    <3> DEFINE selected == SelectPackages(PackagesAt(site, variants[i]), variants[i], mods)
    <3>2. kit.packages = selected
      BY <2>5, <3>1
    <3>3. CanSelect(PackagesAt(site, variants[i]), variants[i], mods)
      BY <2>4
    <3>4. /\ ~SelectsTwice(selected)
          /\ \A j \in DOMAIN selected : selected[j].archives # <<>>
          /\ \A j, k \in DOMAIN selected : selected[j].module = selected[k].module => j = k
          /\ selected[1].module = ""
      BY <2>8, <3>3, SelectedOnce
    <3> HIDE DEF selected
    <3> QED BY <3>2, <3>4
  <2> QED BY <2>6, <2>7, <2>9 DEF kits
<1> QED BY <1>1, SiteStaysTyped, PTL

-----------------------------------------------------------------------------
(* Listings.                                                               *)

LEMMA VariantsDependOn ==
  ASSUME NEW c, NEW d, c.host = d.host, c.target = d.target, c.arch = d.arch,
         c.abis = d.abis, c.version = d.version
  PROVE  /\ Variants(c) = Variants(d)
         /\ NamesVariants(c) <=> NamesVariants(d)
<1>1. \A child : Address(c, child) = Address(d, child)
  BY DEF Address
<1>2. \A child, architecture, directory, extensions :
        Variant(c, child, architecture, directory, extensions) =
        Variant(d, child, architecture, directory, extensions)
  BY <1>1 DEF Variant
<1>3. \A abi : AndroidVariant(c, abi) = AndroidVariant(d, abi)
  BY <1>2 DEF AndroidVariant
<1>4. DesktopChild(c) = DesktopChild(d)
  BY DEF DesktopChild
<1>5. Variants(c) = Variants(d)
  <2>1. CASE c.target = "desktop"
    BY <1>2, <1>4, <2>1 DEF Variants
  <2>2. CASE c.target = "ios"
    BY <1>2, <2>2 DEF Variants
  <2>3. CASE c.target # "desktop" /\ c.target # "ios"
    <3> DEFINE abis == Once([i \in DOMAIN c.abis |-> Normal(c.abis[i])])
    <3>1. Variants(c) = [i \in DOMAIN abis |-> AndroidVariant(c, abis[i])]
      BY <2>3 DEF Variants
    <3>2. abis = Once([i \in DOMAIN d.abis |-> Normal(d.abis[i])])
      OBVIOUS
    <3> HIDE DEF abis
    <3>3. Variants(d) = [i \in DOMAIN abis |-> AndroidVariant(d, abis[i])]
      BY <2>3, <3>2 DEF Variants
    <3>4. [i \in DOMAIN abis |-> AndroidVariant(c, abis[i])] = [i \in DOMAIN abis |-> AndroidVariant(d, abis[i])]
      BY <1>3
    <3> QED BY <3>1, <3>3, <3>4
  <2> QED BY <2>1, <2>2, <2>3
<1>6. NamesVariants(c) <=> NamesVariants(d)
  BY DEF NamesVariants
<1> QED BY <1>5, <1>6

LEMMA ChildrenHoldVariants ==
  Children \cap (SourceExtensions \cup Shelved) = {}
<1>1. ASSUME NEW arch \in DOMAIN Desktops PROVE Desktops[arch].child \in {"", "msvc2022_64"}
  <2>1. DOMAIN Desktops = {"clang_64", "linux_gcc_64", "linux_gcc_arm64", "win64_msvc2022_64", "win64_msvc2022_arm64"}
    BY DEF Desktops
  <2>2. /\ Desktops["clang_64"].child = "" /\ Desktops["linux_gcc_64"].child = ""
        /\ Desktops["linux_gcc_arm64"].child = "" /\ Desktops["win64_msvc2022_arm64"].child = ""
        /\ Desktops["win64_msvc2022_64"].child = "msvc2022_64"
    BY DEF Desktops
  <2> QED BY <2>1, <2>2
<1>2. ASSUME NEW abi \in DOMAIN AndroidABIs
      PROVE  AndroidABIs[abi].child \in {"arm64_v8a", "armv7", "x86", "x86_64"}
  BY DEF AndroidABIs
<1>3. Children \subseteq {"", "msvc2022_64", "arm64_v8a", "armv7", "x86", "x86_64"}
  BY <1>1, <1>2 DEF Children
<1>4. Children \cap SourceExtensions = {}
  BY <1>3 DEF SourceExtensions
<1> QED BY <1>4, NamesAssumption

LEMMA OneModule ==
  ASSUME NEW c, NEW module \in Identifiers, c.modules = <<module>>
  PROVE  DOMAIN ModulesOf(c) = 1..1 /\ ModulesOf(c)[1] = module
<1> DEFINE q == <<module>>
<1>1. q \in Seq(Identifiers) /\ Len(q) = 1 /\ q[1] = module
  OBVIOUS
<1>2. Normal(module) = module
  BY NamesAssumption DEF Normal
<1>3. c.modules = q
  OBVIOUS
<1> HIDE DEF q
<1>4. /\ DOMAIN ModulesOf(c) = 1..Len(ModulesOf(c))
      /\ Len(ModulesOf(c)) = 1 /\ ModulesOf(c)[1] = Normal(q[1])
  BY <1>1, <1>3, NormalisedOnce DEF ModulesOf
<1> QED BY <1>1, <1>2, <1>4

\* list-modules and install-qt agree whatever the server has: a listed module of
\* the main repository can be installed, one that can be installed is listed
\* (README.md:88, modules.go:141).
THEOREM ListedModulesInstallAlways ==
  Spec => []ListedModulesInstall
<1>1. ListedModulesInstall
  <2> SUFFICES ASSUME NEW c \in Commands, CanListModules(site, c), NEW module \in Identifiers
               PROVE  LET install == [c EXCEPT !.modules = <<module>>, !.flags = {"download-only"}]
                          listed  == module \in ModulesListed(site, c)
                      IN  /\ listed /\ module \notin ExtensionModules => CanPlan(site, install)
                          /\ CanPlan(site, install) => listed
    BY DEF ListedModulesInstall
  <2> DEFINE install == [c EXCEPT !.modules = <<module>>, !.flags = {"download-only"}]
             variant == Variants(c)[1]
             pk      == PackagesAt(site, variant)
             good    == /\ HasModule(pk, variant, module)
                        /\ Resolves(pk[ModuleName(pk, variant, module)], variant.version)
  <2>1. /\ install.host = c.host /\ install.target = c.target /\ install.arch = c.arch
        /\ install.abis = c.abis /\ install.version = c.version
        /\ install.modules = <<module>> /\ install.flags = {"download-only"}
    BY CommandsAreTyped
  <2> HIDE DEF install
  <2>2. /\ NamesVariants(c) /\ Supported(c.version) /\ Len(c.abis) <= 1
        /\ variant.address \in DOMAIN site /\ HasVariant(pk, variant)
    BY DEF CanListModules
  <2>3. Variants(install) = Variants(c) /\ NamesVariants(install)
    BY <2>1, <2>2, VariantsDependOn
  <2>4. ToSet(Variants(install)) = {variant}
    <3>1. AreVariantsOf(c, Variants(c))
      BY <2>2, VariantsOfCommand
    <3>2. DOMAIN Variants(c) = 1..1
      BY <2>2, <3>1 DEF AreVariantsOf
    <3>3. \A i \in 1..1 : i = 1
      OBVIOUS
    <3>4. 1 \in 1..1
      OBVIOUS
    <3> QED BY <2>3, <3>2, <3>3, <3>4 DEF ToSet
  <2>5. DOMAIN ModulesOf(install) = 1..1 /\ ModulesOf(install)[1] = module
    BY <2>1, OneModule
  <2>6. AcceptsInstall(install)
    <3>1. Cardinality(install.flags) <= 1 /\ install.flags # {}
      <4>1. Cardinality({"download-only"}) = 1
        BY FS_Singleton
      <4> QED BY <2>1, <4>1
    <3>2. \A i \in DOMAIN install.modules : Normal(install.modules[i]) \in Identifiers
      <4>1. Normal(module) = module
        BY NamesAssumption DEF Normal
      <4>2. DOMAIN <<module>> = {1} /\ <<module>>[1] = module
        OBVIOUS
      <4> QED BY <2>1, <4>1, <4>2
    <3> QED BY <2>1, <2>2, <2>3, <3>1, <3>2 DEF AcceptsInstall
  <2> HIDE DEF variant, pk
  <2>7. CanSelect(pk, variant, ModulesOf(install)) <=> good
    <3>1. \A i \in 1..1 : i = 1
      OBVIOUS
    <3>2. 1 \in 1..1
      OBVIOUS
    <3> QED BY <2>2, <2>5, <3>1, <3>2 DEF CanSelect
  <2>8. CanPlan(site, install) <=> good
    BY <2>2, <2>4, <2>6, <2>7 DEF CanPlan, pk
  <2>9. /\ module \in AvailableModules(pk, variant) <=> good
        /\ ModulesListed(site, c) = AvailableModules(pk, variant) \cup Offered(site, c, variant)
        /\ Offered(site, c, variant) \subseteq ExtensionModules
    BY DEF AvailableModules, ModulesListed, Offered, pk, variant
  <2> QED BY <2>8, <2>9 DEF install
<1> QED BY <1>1, PTL

\* An architecture that can be installed is listed, whatever else the server has,
\* unless a variant of the release is broken or its version is misread
\* (package_metadata.go:179, package_variant.go:146).
THEOREM InstallableIsListedAlways ==
  Spec => []InstallableIsListed
<1>1. SiteIsTyped => InstallableIsListed
  <2> SUFFICES ASSUME SiteIsTyped, NEW c \in Commands, CanPlan(site, c), ~Misread(c.version),
                      AllAreVariants(site, c, {a \in {b \in DOMAIN site : b = Address(c, b.child)} :
                                                 a.child \notin Shelved \cup SourceExtensions})
               PROVE  /\ CanListArchitectures(site, c)
                      /\ \A variant \in ToSet(Variants(c)) :
                           variant.architecture \in ArchitecturesListed(site, c)
    BY DEF InstallableIsListed
  <2> DEFINE stable == {a \in {b \in DOMAIN site : b = Address(c, b.child)} :
                          a.child \notin Shelved \cup SourceExtensions}
             variants == Variants(c)
  <2>1. AcceptsInstall(c) /\ NamesVariants(c) /\ Supported(c.version)
    BY DEF CanPlan, AcceptsInstall
  <2>2. /\ DOMAIN variants = 1..Len(variants) /\ Len(variants) \in Nat \ {0}
        /\ \A i \in DOMAIN variants : IsVariantOf(c, variants[i])
    BY <2>1, VariantsOfCommand DEF AreVariantsOf
  <2>3. ParseCompact(6, Compact(c.version)) = c.version
    BY CommandsAreTyped, SpelledIsRead
  <2>4. ArchitectureAddresses(site, c) \subseteq stable
    BY DEF ArchitectureAddresses, CanHoldVariants
  <2>5. AllAreVariants(site, c, ArchitectureAddresses(site, c))
    BY <2>4 DEF AllAreVariants
  <2>6. ASSUME NEW i \in DOMAIN variants
        PROVE  variants[i].architecture \in ArchitecturesListed(site, c)
    <3> DEFINE variant == variants[i]
               address == variant.address
               pk      == PackagesAt(site, variant)
    <3>1. address \in DOMAIN site /\ HasVariant(pk, variant)
      BY PlannedKits
    <3>2. IsVariantOf(c, variant)
      BY <2>2
    <3> HIDE DEF variant
    <3>3. PICK child \in Children : address = Address(c, child)
      BY <3>2 DEF IsVariantOf
    <3>4. address.child = child /\ address.version = Compact(c.version)
      <4>1. Address(c, child).child = child /\ Address(c, child).version = Compact(c.version)
        BY DEF Address
      <4> QED BY <3>3, <4>1
    <3>5. child \notin SourceExtensions \cup Shelved
      BY ChildrenHoldVariants
    <3>6. address \in ArchitectureAddresses(site, c)
      BY <2>3, <3>1, <3>3, <3>4, <3>5 DEF ArchitectureAddresses, CanHoldVariants
    <3>7. /\ BaseName(variant) \in DOMAIN pk /\ pk[BaseName(variant)].archives # <<>>
          /\ BaseName(variant) = [prefix |-> MainPrefix(c.version), parts |-> <<variant.architecture>>]
          /\ variant.architecture \in Identifiers
      BY <3>1, <3>2, NamesAssumption DEF HasVariant, Resolves, BaseName, IsVariantOf
    <3>8. variant.architecture \in AdvertisedAt(site, c, address)
      BY <3>7 DEF AdvertisedAt, Advertised, PackagesAt
    <3> QED BY <3>6, <3>8 DEF ArchitecturesListed, variant
  <2> HIDE DEF variants
  <2>7. ArchitecturesListed(site, c) # {}
    <3>1. 1 \in DOMAIN variants
      BY <2>2
    <3> QED BY <2>6, <3>1
  <2>8. CanListArchitectures(site, c)
    BY <2>1, <2>5, <2>7 DEF CanListArchitectures, NamesVariants
  <2>9. \A variant \in ToSet(variants) : variant.architecture \in ArchitecturesListed(site, c)
    BY <2>6 DEF ToSet
  <2> QED BY <2>8, <2>9 DEF variants
<1> QED BY <1>1, SiteStaysTyped, PTL

\* The versions that are listed are the releases that the server has, unless the
\* spelling of one misleads: every other spelling is read as it was written
\* (version.go:98).
THEOREM ListedVersionsAreReleasesAlways ==
  Spec => []ListedVersionsAreReleases
<1>1. SiteIsTyped => ListedVersionsAreReleases
  <2> SUFFICES ASSUME SiteIsTyped, NEW target \in Targets,
                      NEW host \in {h \in Hosts : Available(target, h)}
               PROVE  LET there == {v \in KnownVersions : \E name \in IndexOf(site, host, target) :
                             /\ name.version = Compact(v)
                             /\ name.extension # "" => target = "qt" /\ name.extension \in SourceExtensions}
                      IN  (\A v \in there : ~Misread(v)) =>
                            VersionsListed(site, host, target) = {v \in there : Supported(v)}
    BY DEF ListedVersionsAreReleases
  <2> DEFINE index == IndexOf(site, host, target)
             there == {v \in KnownVersions : \E name \in index :
                         /\ name.version = Compact(v)
                         /\ name.extension # "" => target = "qt" /\ name.extension \in SourceExtensions}
  <2>1. SUFFICES ASSUME \A v \in there : ~Misread(v)
                 PROVE  VersionsIn(target, index) = {v \in there : Supported(v)}
    BY DEF VersionsListed
  <2>2. ASSUME NEW name \in index
        PROVE  name.family = 6 /\ \E v \in KnownVersions : name.version = Compact(v)
    <3>1. PICK a \in DOMAIN site : name = [family |-> 6, version |-> a.version, extension |-> a.extension]
      BY DEF IndexOf
    <3> QED BY <3>1 DEF SiteIsTyped
  <2>3. ASSUME NEW v \in there PROVE ParseCompact(6, Compact(v)) = v
    BY <2>1, PlanningAssumption, SpelledIsRead
  <2> HIDE DEF index
  <2>4. ASSUME NEW v \in VersionsIn(target, index) PROVE v \in there /\ Supported(v)
    <3>1. PICK name \in index : Includes(target, name) /\ v = ParseCompact(name.family, name.version)
      BY DEF VersionsIn
    <3>2. PICK w \in KnownVersions : name.version = Compact(w)
      BY <2>2
    <3>3. w \in there
      BY <3>1, <3>2 DEF Includes
    <3>4. name.family = 6 /\ v = w
      BY <2>2, <2>3, <3>1, <3>2, <3>3
    <3> QED BY <3>1, <3>3, <3>4 DEF Includes
  <2>5. ASSUME NEW v \in there, Supported(v) PROVE v \in VersionsIn(target, index)
    <3>1. PICK name \in index :
            /\ name.version = Compact(v)
            /\ name.extension # "" => target = "qt" /\ name.extension \in SourceExtensions
      OBVIOUS
    <3>2. name.family = 6 /\ ParseCompact(name.family, name.version) = v
      BY <2>2, <2>3, <3>1
    <3>3. Includes(target, name)
      BY <2>5, <3>1, <3>2 DEF Includes
    <3> QED BY <3>2, <3>3 DEF VersionsIn
  <2> QED BY <2>4, <2>5
<1> QED BY <1>1, SiteStaysTyped, PTL
=============================================================================
