-------------------------- MODULE LivePlaneProofs --------------------------
(***************************************************************************)
(* The media plane of a provider for any number of frames, any timestamps  *)
(* and any order of frames, losses, teardown and requests: the segments    *)
(* are the stream (SegmentsFaithful), their parts tile them                *)
(* (PartsTileSegments), what is listed can be fetched and what is pinned   *)
(* was served (ServedHonestly), nothing published changes                  *)
(* (PublishedIsFinal), and what the HLS muxer writes can be played         *)
(* (StreamPlayable).                                                       *)
(***************************************************************************)
EXTENDS LiveSession, HlsMuxer, SumTheorems, SequenceTheorems

-----------------------------------------------------------------------------
(* Induction over the naturals, with a set for the predicate. *)

LEMMA NaturalInduction ==
  ASSUME NEW G, 0 \in G, \A m \in Nat : m \in G => m + 1 \in G, NEW n \in Nat
  PROVE  n \in G
<1> DEFINE H == {T \in SUBSET (1..n) : \A m \in Nat : T = 1..m => m \in G}
<1>1. ASSUME NEW T \in SUBSET (1..n), \A U \in SUBSET T : U # T => U \in H
      PROVE  T \in H
  <2> SUFFICES ASSUME NEW m \in Nat, T = 1..m PROVE m \in G
    OBVIOUS
  <2>1. CASE m = 0
    BY <2>1
  <2>2. CASE m # 0
    <3>1. m - 1 \in Nat /\ m = (m - 1) + 1 /\ m \in T
      BY <2>2
    <3>2. 1..(m - 1) \in SUBSET T /\ m \notin 1..(m - 1)
      BY <3>1
    <3>3. 1..(m - 1) \in H
      BY <1>1, <3>1, <3>2
    <3>4. m - 1 \in G
      BY <3>1, <3>3
    <3> QED
      BY <3>1, <3>4
  <2> QED
    BY <2>1, <2>2
<1> HIDE DEF H
<1> DEFINE A == 1..n
<1>2. IsFiniteSet(A)
  BY FS_Interval
<1>3. ASSUME NEW T \in SUBSET A, \A U \in SUBSET T : U # T => U \in H
      PROVE  T \in H
  BY <1>1, <1>3
<1>4. A \in H
  <2> HIDE DEF A
  <2> QED
    BY <1>2, <1>3, FiniteSubsetInduction
<1> QED
  BY <1>4 DEF H

-----------------------------------------------------------------------------
(* FlattenSeq (community module SequencesExt): what it does to an append. *)

\* The recursion equation of FlattenSeq's local function, on the first n entries.
IsFlattening(g, ss, n) ==
  g = [i \in 1..n |-> IF i = 1 THEN ss[i] ELSE g[i - 1] \o ss[i]]

LEMMA FlatteningExists ==
  ASSUME NEW ss, NEW n \in Nat
  PROVE  \E g : IsFlattening(g, ss, n)
<1> DEFINE G == {m \in Nat : \E g : IsFlattening(g, ss, m)}
<1>1. 0 \in G
  <2> DEFINE g == [i \in 1..0 |-> <<>>]
  <2>1. IsFlattening(g, ss, 0)
    BY DEF IsFlattening
  <2> QED
    BY <2>1
<1>2. ASSUME NEW m \in Nat, m \in G PROVE m + 1 \in G
  <2>1. PICK g : IsFlattening(g, ss, m)
    BY <1>2
  <2> DEFINE h == [i \in 1..(m + 1) |-> IF i \in 1..m THEN g[i]
                                        ELSE IF i = 1 THEN ss[i] ELSE g[m] \o ss[i]]
  <2>2. \A i \in 1..m : h[i] = g[i]
    OBVIOUS
  <2>3. h[m + 1] = IF m + 1 = 1 THEN ss[m + 1] ELSE g[m] \o ss[m + 1]
    OBVIOUS
  <2>4. \A i \in 1..m : g[i] = IF i = 1 THEN ss[i] ELSE g[i - 1] \o ss[i]
    BY <2>1 DEF IsFlattening
  <2>5. h = [i \in 1..(m + 1) |-> h[i]]
    OBVIOUS
  <2> HIDE DEF h
  <2>6. \A i \in 1..(m + 1) : h[i] = IF i = 1 THEN ss[i] ELSE h[i - 1] \o ss[i]
    <3> TAKE i \in 1..(m + 1)
    <3>1. CASE i \in 1..m
      BY <2>2, <2>4, <3>1
    <3>2. CASE i = m + 1
      BY <2>2, <2>3, <3>2
    <3> QED
      BY <3>1, <3>2
  <2>7. IsFlattening(h, ss, m + 1)
    BY <2>5, <2>6 DEF IsFlattening
  <2> QED
    BY <2>7
<1> HIDE DEF G
<1>3. n \in G
  BY <1>1, <1>2, NaturalInduction
<1> QED
  BY <1>3 DEF G

LEMMA FlatteningStep ==
  ASSUME NEW ss, NEW n \in Nat, NEW g, IsFlattening(g, ss, n),
         NEW j \in Nat, j + 1 \in 1..n
  PROVE  g[j + 1] = IF j = 0 THEN ss[j + 1] ELSE g[j] \o ss[j + 1]
<1>1. \A i \in 1..n : g[i] = IF i = 1 THEN ss[i] ELSE g[i - 1] \o ss[i]
  BY DEF IsFlattening
<1>2. (j + 1) - 1 = j /\ (j + 1 = 1 <=> j = 0)
  OBVIOUS
<1> DEFINE i == j + 1
<1>3. i \in 1..n /\ i - 1 = j /\ (i = 1 <=> j = 0)
  BY <1>2
<1> HIDE DEF i
<1>4. g[i] = IF i = 1 THEN ss[i] ELSE g[i - 1] \o ss[i]
  BY <1>1, <1>3
<1>5. g[i] = IF j = 0 THEN ss[i] ELSE g[j] \o ss[i]
  BY <1>3, <1>4
<1> QED
  BY <1>5 DEF i

LEMMA FlatteningUnique ==
  ASSUME NEW ss, NEW tt, NEW m \in Nat, NEW g, NEW h,
         IsFlattening(g, ss, m), IsFlattening(h, tt, m + 1),
         \A i \in 1..m : ss[i] = tt[i]
  PROVE  \A k \in 1..m : g[k] = h[k]
<1> SUFFICES ASSUME NEW k \in 1..m PROVE g[k] = h[k]
  OBVIOUS
<1> DEFINE G == {j \in Nat : j \in 1..m => g[j] = h[j]}
<1>1. 0 \in G
  OBVIOUS
<1>2. ASSUME NEW j \in Nat, j \in G PROVE j + 1 \in G
  <2> SUFFICES ASSUME j + 1 \in 1..m PROVE g[j + 1] = h[j + 1]
    OBVIOUS
  <2>1. g[j + 1] = IF j = 0 THEN ss[j + 1] ELSE g[j] \o ss[j + 1]
    BY FlatteningStep
  <2>2. h[j + 1] = IF j = 0 THEN tt[j + 1] ELSE h[j] \o tt[j + 1]
    BY FlatteningStep
  <2>3. ss[j + 1] = tt[j + 1] /\ (j # 0 => j \in 1..m)
    OBVIOUS
  <2> QED
    BY <1>2, <2>1, <2>2, <2>3
<1> HIDE DEF G
<1>3. k \in Nat /\ k \in G
  BY <1>1, <1>2, NaturalInduction
<1> QED
  BY <1>3 DEF G

LEMMA FlattenUnfold ==
  ASSUME NEW ss, NEW n \in Nat, Len(ss) = n, n # 0
  PROVE  \E g : IsFlattening(g, ss, n) /\ FlattenSeq(ss) = g[n]
<1> DEFINE g == CHOOSE g : IsFlattening(g, ss, n)
<1>1. FlattenSeq(ss) = g[n]
  BY DEF FlattenSeq, IsFlattening
<1>2. IsFlattening(g, ss, n)
  BY FlatteningExists
<1> QED
  BY <1>1, <1>2

LEMMA FlattenGrows ==
  ASSUME NEW ss, NEW tt, NEW m \in Nat, Len(ss) = m, m # 0, Len(tt) = m + 1,
         \A i \in 1..m : ss[i] = tt[i]
  PROVE  FlattenSeq(tt) = FlattenSeq(ss) \o tt[m + 1]
<1>1. PICK g : IsFlattening(g, ss, m) /\ FlattenSeq(ss) = g[m]
  BY FlattenUnfold
<1>2. PICK h : IsFlattening(h, tt, m + 1) /\ FlattenSeq(tt) = h[m + 1]
  BY FlattenUnfold
<1>3. \A k \in 1..m : g[k] = h[k]
  BY <1>1, <1>2, FlatteningUnique
<1>4. h[m + 1] = IF m = 0 THEN tt[m + 1] ELSE h[m] \o tt[m + 1]
  <2> DEFINE q == m + 1
  <2>1. q \in Nat /\ m + 1 \in 1..q /\ IsFlattening(h, tt, q)
    BY <1>2
  <2> HIDE DEF q
  <2> QED
    BY <2>1, FlatteningStep
<1>5. g[m] = h[m]
  BY <1>3
<1> QED
  BY <1>1, <1>2, <1>4, <1>5

LEMMA FlattenEmpty == FlattenSeq(<<>>) = <<>>
BY DEF FlattenSeq

LEMMA FlattenSingle ==
  ASSUME NEW tt, Len(tt) = 1
  PROVE  FlattenSeq(tt) = tt[1]
<1>0. \A n \in Nat : (Len(tt) = n /\ n # 0)
                       => \E g : IsFlattening(g, tt, n) /\ FlattenSeq(tt) = g[n]
  BY FlattenUnfold
<1>1. PICK h : IsFlattening(h, tt, 1) /\ FlattenSeq(tt) = h[1]
  BY <1>0
<1> QED
  BY <1>1 DEF IsFlattening

LEMMA FlattenAppend ==
  ASSUME NEW S, NEW ss \in Seq(Seq(S)), NEW x \in Seq(S)
  PROVE  FlattenSeq(Append(ss, x)) = FlattenSeq(ss) \o x
<1> DEFINE uu == Append(ss, x)
           n == Len(ss)
<1>1. Len(uu) = n + 1 /\ n \in Nat /\ uu[n + 1] = x /\ \A i \in 1..n : ss[i] = uu[i]
  BY AppendProperties
<1> HIDE DEF uu
<1>2. CASE ss = <<>>
  <2>1. Len(uu) = 1 /\ uu[1] = x
    BY <1>1, <1>2
  <2>2. FlattenSeq(uu) = x /\ FlattenSeq(ss) = <<>>
    BY <1>2, <2>1, FlattenSingle, FlattenEmpty
  <2> QED
    BY <2>2 DEF uu
<1>3. CASE ss # <<>>
  <2>1. n # 0
    BY <1>3, EmptySeq
  <2> QED
    BY <1>1, <2>1, FlattenGrows DEF uu
<1> QED
  BY <1>2, <1>3

-----------------------------------------------------------------------------
(* Ticks: the fold of Plus from the left, one duration after the other. *)

LEMMA MaxMember ==
  ASSUME NEW s, IsFiniteSet(s), s \subseteq Int, s # {}
  PROVE  Max(s) \in s /\ \A y \in s : y <= Max(s)
<1>1. PICK i \in s : \A j \in s : j <= i
  BY FiniteMaximum
<1>2. \E x \in s : \A y \in s : x >= y
  BY <1>1
<1>3. Max(s) \in s /\ \A y \in s : Max(s) >= y
  BY <1>2 DEF Max
<1> DEFINE m == Max(s)
<1>4. m \in s /\ \A y \in s : m >= y
  BY <1>3
<1> HIDE DEF m
<1>5. \A y \in s : y <= m
  BY <1>4
<1> QED
  BY <1>4, <1>5 DEF m

IsTicks(h, d, A) ==
  h = [s \in SUBSET A |->
         IF s = {} THEN 0 ELSE Plus(h[s \ {Max(s)}], d[Max(s)])]

LEMMA TicksUnique ==
  ASSUME NEW d, NEW e, NEW A, NEW B, NEW g, NEW h, IsTicks(g, d, A), IsTicks(h, e, B),
         NEW S, IsFiniteSet(S), S \subseteq Int, S \subseteq A, S \subseteq B,
         \A i \in S : d[i] = e[i]
  PROVE  g[S] = h[S]
<1> DEFINE G == {T \in SUBSET S : g[T] = h[T]}
<1>1. ASSUME NEW T \in SUBSET S, \A U \in SUBSET T : U # T => U \in G
      PROVE  T \in G
  <2>1. CASE T = {}
    BY <2>1 DEF IsTicks
  <2>2. CASE T # {}
    <3> DEFINE c == Max(T)
    <3>1. c \in T
      BY <2>2, FS_Subset, MaxMember
    <3>4. g[T] = Plus(g[T \ {c}], d[c])
      BY <2>2 DEF IsTicks
    <3>5. h[T] = Plus(h[T \ {c}], e[c])
      BY <2>2 DEF IsTicks
    <3> HIDE DEF c
    <3>2. T \ {c} \in SUBSET T /\ T \ {c} # T
      BY <3>1
    <3>3. g[T \ {c}] = h[T \ {c}] /\ d[c] = e[c]
      BY <1>1, <3>1, <3>2
    <3>6. g[T] = h[T]
      BY <3>3, <3>4, <3>5
    <3> QED
      BY <3>6
  <2> QED
    BY <2>1, <2>2
<1> HIDE DEF G
<1>2. S \in G
  BY <1>1, FiniteSubsetInduction
<1> QED
  BY <1>2 DEF G

LEMMA TicksExists ==
  ASSUME NEW d, NEW S, IsFiniteSet(S), S \subseteq Int
  PROVE  \E h : IsTicks(h, d, S)
<1> DEFINE G == {T \in SUBSET S : \E h : IsTicks(h, d, T)}
           H(T) == CHOOSE h : IsTicks(h, d, T)
<1>1. ASSUME NEW T \in SUBSET S, \A U \in SUBSET T : U # T => U \in G
      PROVE  T \in G
  <2>1. \A U \in SUBSET T : U # T => IsTicks(H(U), d, U)
    BY <1>1
  <2> HIDE DEF H
  <2> DEFINE val(s) == IF s = T THEN Plus(H(s \ {Max(s)})[s \ {Max(s)}], d[Max(s)])
                       ELSE H(s)[s]
             g == [s \in SUBSET T |-> IF s = {} THEN 0 ELSE val(s)]
  <2>2. ASSUME NEW s \in SUBSET T, s # {}
        PROVE  g[s] = Plus(g[s \ {Max(s)}], d[Max(s)])
    <3> DEFINE c == Max(s)
               r == s \ {c}
    <3>0. IsFiniteSet(s) /\ s \subseteq Int
      BY FS_Subset
    <3>1. c \in s
      BY <2>2, <3>0, MaxMember
    <3> HIDE DEF c
    <3>2. r \in SUBSET T /\ r # T /\ r # s /\ r \in SUBSET s
      BY <3>1
    <3>3. IsTicks(H(r), d, r)
      BY <2>1, <3>2
    <3>4. g[r] = H(r)[r]
      <4>1. CASE r = {}
        BY <4>1, <3>3, <3>2 DEF IsTicks
      <4>2. CASE r # {}
        BY <4>2, <3>2
      <4> QED
        BY <4>1, <4>2
    <3>5. g[s] = Plus(H(r)[r], d[c])
      <4>1. CASE s = T
        BY <4>1, <2>2 DEF c
      <4>2. CASE s # T
        <5>1. IsTicks(H(s), d, s)
          BY <2>1, <4>2
        <5>2. g[s] = H(s)[s]
          BY <4>2, <2>2
        <5>3. H(s)[s] = Plus(H(s)[r], d[c])
          <6>1. ASSUME NEW h, IsTicks(h, d, s)
                PROVE  h[s] = Plus(h[r], d[c])
            BY <2>2, <6>1 DEF IsTicks, c
          <6> QED
            BY <5>1, <6>1
        <5>4. IsFiniteSet(r) /\ r \subseteq Int
          BY <3>0, <3>2, FS_Subset
        <5>5. H(s)[r] = H(r)[r]
          <6> HIDE DEF r
          <6>1. ASSUME NEW h, NEW k, IsTicks(h, d, s), IsTicks(k, d, r)
                PROVE  h[r] = k[r]
            BY <3>2, <5>4, <6>1, TicksUnique
          <6> QED
            BY <3>3, <5>1, <6>1
        <5> QED
          BY <5>2, <5>3, <5>5
      <4> QED
        BY <4>1, <4>2
    <3> HIDE DEF g, r
    <3>6. g[s] = Plus(g[r], d[c])
      BY <3>4, <3>5
    <3> QED
      BY <3>6 DEF c, r
  <2>3. g[{}] = 0
    OBVIOUS
  <2>4. IsTicks(g, d, T)
    <3>1. g = [s \in SUBSET T |-> g[s]]
      OBVIOUS
    <3> HIDE DEF g
    <3>2. \A s \in SUBSET T :
            g[s] = IF s = {} THEN 0 ELSE Plus(g[s \ {Max(s)}], d[Max(s)])
      BY <2>2, <2>3
    <3> QED
      BY <3>1, <3>2 DEF IsTicks
  <2> QED
    BY <2>4
<1> HIDE DEF G
<1>2. S \in G
  BY <1>1, FiniteSubsetInduction
<1> QED
  BY <1>2 DEF G

LEMMA TicksUnfold ==
  ASSUME NEW d, NEW S, S = DOMAIN d, IsFiniteSet(S), S \subseteq Int
  PROVE  \E h : IsTicks(h, d, S) /\ Ticks(d) = h[S]
<1> DEFINE h == CHOOSE h : IsTicks(h, d, S)
<1>1. Ticks(d) = h[S]
  BY DEF Ticks, FoldLeft, MapThenFoldSet, IsTicks
<1>2. IsTicks(h, d, S)
  BY TicksExists
<1> QED
  BY <1>1, <1>2

LEMMA TicksEmpty == Ticks(<<>>) = 0
<1> DEFINE d == <<>>
<1>1. {} = DOMAIN d /\ IsFiniteSet({}) /\ {} \subseteq Int
  BY FS_EmptySet
<1>2. PICK h : IsTicks(h, d, {}) /\ Ticks(d) = h[{}]
  BY <1>1, TicksUnfold
<1> QED
  BY <1>2 DEF IsTicks

\* uint32 arithmetic, for the timestamps and durations of RtpFrames.
LEMMA UintRange ==
  ASSUME NEW a \in 0..Wrap - 1, NEW b \in 0..Wrap - 1
  PROVE  /\ Plus(a, b) \in 0..Wrap - 1
         /\ Minus(a, b) \in 0..Wrap - 1
         /\ Plus(a, b) = IF a + b < Wrap THEN a + b ELSE a + b - Wrap
         /\ Minus(a, b) = IF b <= a THEN a - b ELSE a - b + Wrap
BY RtpAssumption DEF Plus, Minus

LEMMA StampRestores ==
  ASSUME NEW t \in 0..Wrap - 1, NEW start \in 0..Wrap - 1, NEW so \in 0..Wrap - 1
  PROVE  Plus(so, Minus(t, Plus(start, so))) = Minus(t, start)
<1> DEFINE p == Plus(start, so)
<1>1. p \in 0..Wrap - 1 /\ p = IF start + so < Wrap THEN start + so ELSE start + so - Wrap
  BY UintRange
<1> HIDE DEF p
<1> DEFINE m == Minus(t, p)
<1>2. m \in 0..Wrap - 1 /\ m = IF p <= t THEN t - p ELSE t - p + Wrap
  BY <1>1, UintRange
<1> HIDE DEF m
<1>3. Plus(so, m) = IF so + m < Wrap THEN so + m ELSE so + m - Wrap
  BY <1>2, UintRange
<1>4. Minus(t, start) = IF start <= t THEN t - start ELSE t - start + Wrap
  BY UintRange
<1>5. Plus(so, m) = Minus(t, start)
  BY <1>1, <1>2, <1>3, <1>4, RtpAssumption
<1> QED
  BY <1>5 DEF p, m

LEMMA StepLengthens ==
  ASSUME NEW c \in 0..Wrap - 1, NEW d \in 0..Wrap - 1, NEW start \in 0..Wrap - 1
  PROVE  Minus(Plus(c, d), start) <= Minus(c, start) + d
<1> DEFINE p == Plus(c, d)
<1>1. p \in 0..Wrap - 1 /\ p = IF c + d < Wrap THEN c + d ELSE c + d - Wrap
  BY UintRange
<1> HIDE DEF p
<1>2. Minus(p, start) = IF start <= p THEN p - start ELSE p - start + Wrap
  BY <1>1, UintRange
<1>3. Minus(c, start) = IF start <= c THEN c - start ELSE c - start + Wrap
  BY UintRange
<1>4. Minus(p, start) <= Minus(c, start) + d
  BY <1>1, <1>2, <1>3, RtpAssumption
<1> QED
  BY <1>4 DEF p

Uint == 0..Wrap - 1

LEMMA TicksRange ==
  ASSUME NEW d \in Seq(Uint)
  PROVE  Ticks(d) \in Uint
<1> DEFINE A == DOMAIN d
<1>1. IsFiniteSet(A) /\ A \subseteq Int
  <2>1. A = 1..Len(d) /\ Len(d) \in Nat
    OBVIOUS
  <2>2. 1..Len(d) \subseteq Int
    BY <2>1
  <2>3. IsFiniteSet(1..Len(d))
    BY <2>1, FS_Interval
  <2> QED
    BY <2>1, <2>2, <2>3
<1>2. PICK h : IsTicks(h, d, A) /\ Ticks(d) = h[A]
  BY <1>1, TicksUnfold
<1>3. \A i \in A : d[i] \in Uint
  OBVIOUS
<1> HIDE DEF A
<1> DEFINE G == {T \in SUBSET A : h[T] \in Uint}
<1>4. ASSUME NEW T \in SUBSET A, \A U \in SUBSET T : U # T => U \in G
      PROVE  T \in G
  <2>1. CASE T = {}
    <3>1. h[T] = 0
      BY <1>2, <2>1 DEF IsTicks
    <3> QED
      BY <3>1, RtpAssumption DEF Uint
  <2>2. CASE T # {}
    <3> DEFINE c == Max(T)
    <3>1. c \in T
      BY <1>1, <2>2, FS_Subset, MaxMember
    <3>2. h[T] = Plus(h[T \ {c}], d[c])
      BY <1>2, <2>2 DEF IsTicks
    <3> HIDE DEF c
    <3>3. T \ {c} \in SUBSET T /\ T \ {c} # T
      BY <3>1
    <3>4. h[T \ {c}] \in Uint /\ d[c] \in Uint
      BY <1>3, <1>4, <3>1, <3>3
    <3>5. h[T] \in Uint
      BY <3>2, <3>4, UintRange DEF Uint
    <3> QED
      BY <3>5
  <2> QED
    BY <2>1, <2>2
<1> HIDE DEF G
<1>5. A \in G
  BY <1>1, <1>4, FiniteSubsetInduction
<1> QED
  BY <1>2, <1>5 DEF G

LEMMA TicksAppend ==
  ASSUME NEW d \in Seq(Uint), NEW x \in Uint
  PROVE  Ticks(Append(d, x)) = Plus(Ticks(d), x)
<1> DEFINE e == Append(d, x)
           A == DOMAIN d
           B == DOMAIN e
           n == Len(d) + 1
<1>1. A = 1..Len(d) /\ Len(d) \in Nat /\ B = A \cup {n} /\ n \notin A /\ e[n] = x
      /\ \A i \in A : d[i] = e[i]
  BY SeqAppend
<1>2. IsFiniteSet(A) /\ IsFiniteSet(B) /\ A \subseteq Int /\ B \subseteq Int
  <2>1. IsFiniteSet(1..Len(d))
    BY <1>1, FS_Interval
  <2>2. IsFiniteSet(A)
    BY <1>1, <2>1
  <2> HIDE DEF A, B
  <2>3. IsFiniteSet(B)
    BY <1>1, <2>2, FS_AddElement
  <2> QED
    BY <1>1, <2>2, <2>3
<1>3. \A i \in B : i <= n
  BY <1>1
<1>4. n \in Int
  BY <1>1
<1> HIDE DEF e, A, B, n
<1>5. PICK g : IsTicks(g, d, A) /\ Ticks(d) = g[A]
  BY <1>2, TicksUnfold DEF A
<1>6. PICK h : IsTicks(h, e, B) /\ Ticks(e) = h[B]
  BY <1>2, TicksUnfold DEF B
<1>7. Max(B) = n
  <2> DEFINE m == Max(B)
  <2>1. m \in B /\ n <= m
    BY <1>1, <1>2, MaxMember
  <2> HIDE DEF m
  <2>2. m <= n /\ m \in Int
    BY <1>2, <1>3, <2>1
  <2>3. m = n
    BY <1>4, <2>1, <2>2
  <2> QED
    BY <2>3 DEF m
<1>8. B \ {n} = A /\ B # {} /\ A \subseteq B
  BY <1>1
<1>9. h[B] = Plus(h[B \ {n}], e[n])
  BY <1>6, <1>7, <1>8 DEF IsTicks
<1>10. g[A] = h[A]
  BY <1>1, <1>2, <1>5, <1>6, <1>8, TicksUnique
<1>11. Ticks(e) = Plus(Ticks(d), x)
  BY <1>1, <1>5, <1>6, <1>8, <1>9, <1>10
<1> QED
  BY <1>11 DEF e

\* Stamping the last duration, which was 0, adds what is stamped.
LEMMA TicksStamp ==
  ASSUME NEW d \in Seq(Uint), d # <<>>, d[Len(d)] = 0, NEW x \in Uint
  PROVE  /\ [d EXCEPT ![Len(d)] = x] \in Seq(Uint)
         /\ Len([d EXCEPT ![Len(d)] = x]) = Len(d)
         /\ Ticks([d EXCEPT ![Len(d)] = x]) = Plus(Ticks(d), x)
<1> DEFINE n == Len(d)
           e == SubSeq(d, 1, n - 1)
           q == [d EXCEPT ![n] = x]
<1>1. n \in Nat \ {0} /\ DOMAIN d = 1..n
  BY EmptySeq
<1>2. n \in DOMAIN d
  BY <1>1
<1>3. q \in Seq(Uint) /\ Len(q) = n
  BY <1>2, SeqUpdate
<1>4. e \in Seq(Uint) /\ Len(e) = n - 1 /\ \A i \in 1..n - 1 : e[i] = d[i]
  BY <1>1, SubSeqProperties
<1>5. d = Append(e, 0)
  <2> DEFINE u == Append(e, 0)
  <2>1. 0 \in Uint
    BY RtpAssumption DEF Uint
  <2> HIDE DEF e
  <2>4. u \in Seq(Uint) /\ Len(u) = Len(e) + 1 /\ u[Len(e) + 1] = 0
        /\ \A i \in 1..Len(e) : u[i] = e[i]
    BY <1>4, <2>1, AppendProperties
  <2>2. u \in Seq(Uint) /\ Len(u) = n /\ u[n] = 0 /\ \A i \in 1..n - 1 : u[i] = e[i]
    <3>1. Len(e) + 1 = n /\ Len(e) = n - 1
      BY <1>1, <1>4
    <3> QED
      BY ONLY <2>4, <3>1
  <2> HIDE DEF u
  <2>3. \A i \in 1..n : d[i] = u[i]
    BY <1>1, <1>4, <2>2
  <2> QED
    BY <1>1, <2>2, <2>3, SeqEqual DEF u
<1>6. q = Append(e, x)
  <2> DEFINE u == Append(e, x)
  <2>1. q[n] = x /\ \A i \in 1..n - 1 : q[i] = d[i]
    <3>1. q[n] = x /\ \A i \in DOMAIN d \ {n} : q[i] = d[i]
      BY <1>2, SeqUpdate
    <3> HIDE DEF n
    <3>2. \A i \in 1..n - 1 : i \in 1..n /\ i # n
      BY <1>1
    <3> QED
      BY <1>1, <3>1, <3>2
  <2> HIDE DEF e
  <2>4. u \in Seq(Uint) /\ Len(u) = Len(e) + 1 /\ u[Len(e) + 1] = x
        /\ \A i \in 1..Len(e) : u[i] = e[i]
    BY <1>4, AppendProperties
  <2>2. u \in Seq(Uint) /\ Len(u) = n /\ u[n] = x /\ \A i \in 1..n - 1 : u[i] = e[i]
    <3>1. Len(e) + 1 = n /\ Len(e) = n - 1
      BY <1>1, <1>4
    <3> QED
      BY ONLY <2>4, <3>1
  <2> HIDE DEF u, q
  <2>3. \A i \in 1..n : q[i] = u[i]
    BY <1>1, <1>4, <2>1, <2>2
  <2> QED
    BY <1>1, <1>3, <2>2, <2>3, SeqEqual DEF u
<1> HIDE DEF e
<1> DEFINE a == Ticks(e)
<1>7. a \in 0..Wrap - 1 /\ 0 \in Uint
  BY <1>4, TicksRange, RtpAssumption DEF Uint
<1>8. Ticks(d) = Plus(a, 0) /\ Ticks(q) = Plus(a, x)
  <2>1. Ticks(Append(e, 0)) = Plus(a, 0)
    BY <1>4, <1>7, TicksAppend
  <2>2. Ticks(Append(e, x)) = Plus(a, x)
    BY <1>4, TicksAppend
  <2> QED
    BY <1>5, <1>6, <2>1, <2>2
<1>9. Plus(a, 0) = a
  <2> HIDE DEF a
  <2> QED
    BY <1>7, RtpAssumption DEF Plus
<1> QED
  BY <1>3, <1>8, <1>9

-----------------------------------------------------------------------------
(* The inductive invariant, as predicates on the values of the segmenter s *)
(* and the sink k after n packets, so that each operator of CmafSegmenter  *)
(* gets a lemma of its own.                                                *)

SegmenterShape ==
  [params : 0..MaxGen, initEmitted : BOOLEAN,
   samples : Seq(VideoFrame), durations : Seq(0..Wrap - 1), startTS : 0..Wrap - 1,
   hasKey : BOOLEAN, next : Nat,
   partTS : 0..Wrap - 1, partFrom : Nat, partIndex : Nat, partKey : BOOLEAN,
   discarded : SUBSET (1..MaxFrames)]

SinkShape ==
  [init : BOOLEAN, segments : Seq(Segment), parts : [0..MaxFrames -> Seq(Part)],
   finalized : Seq(Segment), refusedSegments : Nat, refusedParts : Nat]

\* The frames of a sequence of segments, or of parts.
Samples(q) == FlattenSeq([i \in DOMAIN q |-> q[i].samples])

Ordered(q, n) ==
  /\ q \in Seq(VideoFrame)
  /\ \A i, j \in DOMAIN q : i < j => q[i].id < q[j].id
  /\ \A i \in DOMAIN q : q[i].id <= n

Numbered(s, k, n) ==
  /\ s.next = Len(k.segments)
  /\ k.refusedSegments = 0
  /\ s.next <= n
  /\ s.samples # <<>> => s.next < n

\* A buffer has a duration for each sample, the last one still to be stamped,
\* and they add up to the time since its first sample.
Timed(s) ==
  IF s.samples = <<>> THEN s.durations = <<>> /\ ~ s.hasKey
  ELSE /\ Len(s.durations) = Len(s.samples)
       /\ s.durations[Len(s.durations)] = 0
       /\ s.startTS = s.samples[1].ts
       /\ Ticks(s.durations) = Minus(s.samples[Len(s.samples)].ts, s.startTS)
       /\ s.partFrom <= Len(s.samples)

Spans(g) ==
  /\ g.samples # <<>>
  /\ g.ticks = Plus(Minus(g.samples[Len(g.samples)].ts, g.samples[1].ts), FrameTicks)

Spanned(k) == \A i \in DOMAIN k.segments : Spans(k.segments[i])

Sequenced(s, k, n) ==
  /\ Samples(k.segments) \in Seq(VideoFrame)
  /\ Ordered(Samples(k.segments) \o s.samples, n)

Announced(s, k) ==
  /\ s.initEmitted = k.init
  /\ s.samples # <<>> \/ k.segments # <<>> => k.init
  /\ \A i \in 0..MaxFrames : k.parts[i] # <<>> => k.init

\* The segment being built has the parts the segmenter thinks it has.
Building(s, k) ==
  IF s.samples = <<>> THEN k.parts[s.next] = <<>>
  ELSE /\ s.partIndex = Len(k.parts[s.next])
       /\ Samples(k.parts[s.next]) = SubSeq(s.samples, 1, s.partFrom)

Tiled(s, k) ==
  /\ \A i \in 0..MaxFrames : i > s.next => k.parts[i] = <<>>
  /\ s.discarded = {} =>
       /\ \A i \in DOMAIN k.segments :
            IsPrefix(Samples(k.parts[i - 1]), k.segments[i].samples)
       /\ Building(s, k)

MediaOK(s, k, n) ==
  /\ s \in SegmenterShape
  /\ k \in SinkShape
  /\ Numbered(s, k, n)
  /\ Timed(s)
  /\ Spanned(k)
  /\ Sequenced(s, k, n)
  /\ Announced(s, k)
  /\ Tiled(s, k)

RtpOK ==
  /\ clock \in 0..Wrap - 1
  /\ sent \in 0..MaxFrames
  /\ gen \in 1..MaxGen
  /\ picture \in {"none", "params", "idr", "slice"}

\* The longest step between two packets.
LongestStep == CHOOSE d \in Step \cup {0} : \A e \in Step \cup {0} : e <= d

\* Once the segmenter is closed, what it still buffers is shorter than a segment.
AfterClose ==
  phase \in {"flushed", "ended", "unpinned"} /\ segmenter.samples # <<>> =>
    /\ late >= 1
    /\ Minus(clock, segmenter.startTS) <= (late - 1) * LongestStep

Pinned ==
  sink.finalized # <<>> => phase = "ended" /\ sink.finalized = sink.segments

\* A request or a playlist lists no more than there is.
Listed(p, k) ==
  /\ p.count \in Nat
  /\ p.parts \in Nat
  /\ p.count <= Len(k.segments)
  /\ p.parts <= Len(k.parts[p.count])

RequestType == [at : {"idle", "snapshot", "parts"}, count : Nat, parts : Nat]
PlaylistType == [count : Nat, parts : Nat, ended : BOOLEAN]

SessionOK ==
  /\ phase \in {"live", "done", "flushed", "ended", "unpinned"}
  /\ late \in 0..MaxLate
  /\ request \in RequestType
  /\ playlist \in PlaylistType

LiveInv ==
  /\ RtpOK
  /\ SessionOK
  /\ MediaOK(segmenter, sink, sent)
  /\ AfterClose
  /\ Pinned
  /\ Listed(request, sink)
  /\ Listed(playlist, sink)

LEMMA WithLastTicks ==
  ASSUME NEW d \in Seq(Uint), d # <<>>
  PROVE  /\ Ticks(WithLast(d)) \in Uint
         /\ d[Len(d)] = 0 => Ticks(WithLast(d)) = Plus(Ticks(d), FrameTicks)
<1>1. FrameTicks \in Uint
  BY SegmenterAssumption, RtpAssumption DEF Uint
<1>2. CASE d[Len(d)] = 0
  <2>1. WithLast(d) = [d EXCEPT ![Len(d)] = FrameTicks]
    BY <1>2 DEF WithLast, Last
  <2>2. [d EXCEPT ![Len(d)] = FrameTicks] \in Seq(Uint)
        /\ Ticks([d EXCEPT ![Len(d)] = FrameTicks]) = Plus(Ticks(d), FrameTicks)
    BY <1>1, <1>2, TicksStamp
  <2>3. Ticks(WithLast(d)) \in Uint
    BY <2>1, <2>2, TicksRange
  <2> QED
    BY <2>1, <2>2, <2>3
<1>3. CASE d[Len(d)] # 0
  <2>1. WithLast(d) = d
    BY <1>3 DEF WithLast, Last
  <2> QED
    BY <1>3, <2>1, TicksRange
<1> QED
  BY <1>2, <1>3

LEMMA SamplesEmpty == Samples(<<>>) = <<>>
<1>1. [i \in DOMAIN <<>> |-> <<>>[i].samples] = <<>>
  OBVIOUS
<1> QED
  BY <1>1, FlattenEmpty DEF Samples

LEMMA SamplesAppend ==
  ASSUME NEW R, \A r \in R : r.samples \in Seq(VideoFrame), NEW q \in Seq(R), NEW x \in R
  PROVE  Samples(Append(q, x)) = Samples(q) \o x.samples
<1> DEFINE w == Append(q, x)
           n == Len(q)
           m == [i \in 1..n |-> q[i].samples]
           u == [i \in 1..n + 1 |-> w[i].samples]
           v == Append(m, x.samples)
<1>1. n \in Nat /\ DOMAIN q = 1..n /\ \A i \in 1..n : q[i] \in R
  OBVIOUS
<1>2. w \in Seq(R) /\ DOMAIN w = 1..n + 1 /\ w[n + 1] = x /\ \A i \in 1..n : w[i] = q[i]
  BY <1>1, AppendProperties
<1> HIDE DEF w, n
<1>3. \A i \in 1..n : q[i].samples \in Seq(VideoFrame)
  BY <1>1
<1>4. m \in Seq(Seq(VideoFrame)) /\ Len(m) = n /\ \A i \in 1..n : m[i] = q[i].samples
  BY <1>1, <1>3
<1>5. x.samples \in Seq(VideoFrame)
  OBVIOUS
<1>6. v \in Seq(Seq(VideoFrame)) /\ Len(v) = n + 1 /\ v[n + 1] = x.samples
      /\ \A i \in 1..n : v[i] = m[i]
  <2> HIDE DEF m
  <2> QED
    BY <1>4, <1>5, AppendProperties
<1>7. \A i \in 1..n + 1 : u[i] = v[i]
  <2>1. \A i \in 1..n : u[i] = q[i].samples
    BY <1>1, <1>2
  <2>2. u[n + 1] = x.samples
    BY <1>1, <1>2
  <2>3. \A i \in 1..n + 1 : i \in 1..n \/ i = n + 1
    BY <1>1
  <2> HIDE DEF u, v, m
  <2> QED
    BY <1>4, <1>6, <2>1, <2>2, <2>3
<1>8. u = v
  <2>1. u = [i \in 1..n + 1 |-> u[i]]
    OBVIOUS
  <2>2. v = [i \in 1..n + 1 |-> v[i]]
    <3> HIDE DEF v
    <3> QED
      BY <1>6
  <2> HIDE DEF u, v
  <2> QED
    BY <1>7, <2>1, <2>2
<1>9. FlattenSeq(v) = FlattenSeq(m) \o x.samples
  <2> HIDE DEF m
  <2> QED
    BY <1>4, <1>5, FlattenAppend
<1>10. Samples(w) = FlattenSeq(u) /\ Samples(q) = FlattenSeq(m)
  BY <1>1, <1>2 DEF Samples
<1> QED
  BY <1>8, <1>9, <1>10 DEF w

LEMMA PrefixPointwise ==
  ASSUME NEW S, NEW s \in Seq(S), NEW t \in Seq(S)
  PROVE  IsPrefix(s, t) <=> Len(s) <= Len(t) /\ \A i \in 1..Len(s) : s[i] = t[i]
<1>1. Len(s) \in Nat /\ Len(t) \in Nat /\ DOMAIN s = 1..Len(s) /\ DOMAIN t = 1..Len(t)
  OBVIOUS
<1>2. ASSUME Len(s) <= Len(t)
      PROVE  SubSeq(s, 1, Len(s)) = SubSeq(t, 1, Len(s)) <=> \A i \in 1..Len(s) : s[i] = t[i]
  BY <1>1, <1>2
<1> QED
  BY <1>2 DEF IsPrefix

LEMMA PrefixReflexive ==
  ASSUME NEW S, NEW s \in Seq(S)
  PROVE  IsPrefix(s, s)
BY PrefixPointwise

LEMMA PrefixAppend ==
  ASSUME NEW S, NEW s \in Seq(S), NEW x \in S
  PROVE  IsPrefix(s, Append(s, x))
BY DEF IsPrefix

LEMMA PrefixTransitive ==
  ASSUME NEW S, NEW s \in Seq(S), NEW t \in Seq(S), NEW u \in Seq(S),
         IsPrefix(s, t), IsPrefix(t, u)
  PROVE  IsPrefix(s, u)
<1>1. Len(s) <= Len(t) /\ \A i \in 1..Len(s) : s[i] = t[i]
  BY PrefixPointwise
<1>2. Len(t) <= Len(u) /\ \A i \in 1..Len(t) : t[i] = u[i]
  BY PrefixPointwise
<1>3. Len(s) \in Nat /\ Len(t) \in Nat /\ Len(u) \in Nat
  OBVIOUS
<1>4. Len(s) <= Len(u) /\ \A i \in 1..Len(s) : i \in 1..Len(t)
  BY <1>1, <1>2, <1>3
<1>5. \A i \in 1..Len(s) : s[i] = u[i]
  BY <1>1, <1>2, <1>4
<1> QED
  BY <1>4, <1>5, PrefixPointwise

-----------------------------------------------------------------------------
(* What the segmenter's operators do to a state [s |-> ..., k |-> ...]. *)

StateShape == [s : SegmenterShape, k : SinkShape]

StateOK(st, n) == st \in StateShape /\ MediaOK(st.s, st.k, n)

\* A sink only ever gains segments and parts, and keeps its manifest.
Grows(k, m) ==
  /\ IsPrefix(k.segments, m.segments)
  /\ \A i \in 0..MaxFrames : IsPrefix(k.parts[i], m.parts[i])
  /\ m.finalized = k.finalized
  /\ k.init => m.init

LEMMA GrowsReflexive ==
  ASSUME NEW k \in SinkShape, NEW m \in SinkShape, m.segments = k.segments,
         m.parts = k.parts, m.finalized = k.finalized, k.init => m.init
  PROVE  Grows(k, m)
<1>1. k.segments \in Seq(Segment) /\ \A i \in 0..MaxFrames : k.parts[i] \in Seq(Part)
  BY DEF SinkShape
<1> QED
  BY <1>1, PrefixReflexive DEF Grows

LEMMA GrowsTransitive ==
  ASSUME NEW k \in SinkShape, NEW m \in SinkShape, NEW p \in SinkShape,
         Grows(k, m), Grows(m, p)
  PROVE  Grows(k, p)
<1>1. k.segments \in Seq(Segment) /\ m.segments \in Seq(Segment) /\ p.segments \in Seq(Segment)
  BY DEF SinkShape
<1>2. \A i \in 0..MaxFrames : k.parts[i] \in Seq(Part) /\ m.parts[i] \in Seq(Part)
                              /\ p.parts[i] \in Seq(Part)
  BY DEF SinkShape
<1>3. IsPrefix(k.segments, p.segments)
  BY <1>1, PrefixTransitive DEF Grows
<1>4. ASSUME NEW i \in 0..MaxFrames PROVE IsPrefix(k.parts[i], p.parts[i])
  BY <1>2, PrefixTransitive DEF Grows
<1> QED
  BY <1>3, <1>4 DEF Grows

LEMMA CaptureOK ==
  ASSUME NEW st, NEW n \in 0..MaxFrames, StateOK(st, n), NEW f \in VideoFrame,
         NEW c, c = CaptureParams(st, f)
  PROVE  /\ StateOK(c, n) /\ Grows(st.k, c.k)
         /\ c.k.segments = st.k.segments /\ c.k.refusedSegments = st.k.refusedSegments
         /\ c.s.samples = st.s.samples /\ c.s.startTS = st.s.startTS
<1> DEFINE p == IF f.params # 0 THEN f.params ELSE st.s.params
           ready == ~ st.s.initEmitted /\ p \in Parsable /\ AcceptsInit(st.k)
           emitted == st.s.initEmitted \/ ready
           s1 == [st.s EXCEPT !.params = p, !.initEmitted = emitted]
           k1 == IF ready THEN OnInitSegment(st.k) ELSE st.k
<1>1. st.s \in SegmenterShape /\ st.k \in SinkShape
  BY DEF StateOK, StateShape
<1>2. p \in 0..MaxGen /\ ready \in BOOLEAN /\ emitted \in BOOLEAN
  BY <1>1 DEF SegmenterShape, VideoFrame
<1>3. c = [s |-> s1, k |-> k1]
  BY DEF CaptureParams
<1>4. c.s = s1 /\ c.k = k1
  BY <1>3
<1>5. s1 \in SegmenterShape /\ s1.initEmitted = emitted /\ s1.samples = st.s.samples
      /\ s1.durations = st.s.durations /\ s1.startTS = st.s.startTS
      /\ s1.hasKey = st.s.hasKey /\ s1.next = st.s.next /\ s1.partFrom = st.s.partFrom
      /\ s1.partIndex = st.s.partIndex /\ s1.discarded = st.s.discarded
  <2> HIDE DEF p, emitted
  <2> QED
    BY <1>1, <1>2 DEF SegmenterShape
<1>6. k1 \in SinkShape /\ k1.segments = st.k.segments /\ k1.parts = st.k.parts
      /\ k1.refusedSegments = st.k.refusedSegments /\ k1.finalized = st.k.finalized
      /\ (ready => k1.init = TRUE) /\ (~ ready => k1.init = st.k.init)
  <2> HIDE DEF ready
  <2> QED
    BY <1>1 DEF SinkShape, OnInitSegment
<1>7. st.s.initEmitted \in BOOLEAN /\ st.k.init \in BOOLEAN
  BY <1>1 DEF SegmenterShape, SinkShape
<1>8. Announced(st.s, st.k) /\ Numbered(st.s, st.k, n) /\ Timed(st.s) /\ Spanned(st.k)
      /\ Sequenced(st.s, st.k, n) /\ Tiled(st.s, st.k)
  BY DEF StateOK, MediaOK
<1>9. s1.initEmitted = k1.init /\ (st.k.init => k1.init)
  <2>1. st.s.initEmitted = st.k.init
    BY <1>8 DEF Announced
  <2> HIDE DEF ready, s1, k1
  <2>2. CASE ready
    BY <1>5, <1>6, <2>1, <2>2
  <2>3. CASE ~ ready
    BY <1>5, <1>6, <2>1, <2>3, <1>7
  <2> QED
    BY <2>2, <2>3
<1> HIDE DEF s1, k1
<1>10. Announced(s1, k1)
  BY <1>5, <1>6, <1>8, <1>9 DEF Announced
<1>11. Numbered(s1, k1, n) /\ Spanned(k1) /\ Sequenced(s1, k1, n)
  BY <1>5, <1>6, <1>8 DEF Numbered, Spanned, Sequenced
<1>12. Timed(s1)
  BY <1>5, <1>8 DEF Timed
<1>13. Tiled(s1, k1)
  BY <1>5, <1>6, <1>8 DEF Tiled, Building
<1>14. MediaOK(s1, k1, n)
  BY <1>5, <1>6, <1>10, <1>11, <1>12, <1>13 DEF MediaOK
<1>15. Grows(st.k, k1)
  BY <1>1, <1>6, <1>9, GrowsReflexive
<1>16. c \in StateShape
  BY <1>3, <1>5, <1>6 DEF StateShape
<1> QED
  BY <1>4, <1>5, <1>6, <1>14, <1>15, <1>16 DEF StateOK

LEMMA RootedOK ==
  ASSUME NEW st, NEW n \in 0..MaxFrames, StateOK(st, n), st.s.samples = <<>>,
         NEW f \in VideoFrame, NEW r, r = [st EXCEPT !.s = Rooted(@, f)]
  PROVE  /\ StateOK(r, n) /\ r.k = st.k
         /\ r.s.samples = <<>> /\ r.s.initEmitted = st.s.initEmitted
         /\ r.s.startTS = f.ts /\ r.s.partFrom = 0 /\ r.s.partIndex = 0
<1> DEFINE s1 == Rooted(st.s, f)
<1>1. st \in StateShape /\ st.s \in SegmenterShape /\ st.k \in SinkShape
  BY DEF StateOK, StateShape
<1>2. f.ts \in 0..Wrap - 1 /\ f.key \in BOOLEAN
  BY DEF VideoFrame
<1>3. s1 \in SegmenterShape /\ s1.initEmitted = st.s.initEmitted /\ s1.samples = st.s.samples
      /\ s1.durations = st.s.durations /\ s1.startTS = f.ts
      /\ s1.hasKey = st.s.hasKey /\ s1.next = st.s.next /\ s1.partFrom = 0
      /\ s1.partIndex = 0 /\ s1.discarded = st.s.discarded
  BY <1>1, <1>2 DEF SegmenterShape, Rooted
<1> HIDE DEF s1
<1>4. r \in StateShape /\ r.s = s1 /\ r.k = st.k
  BY <1>1, <1>3 DEF StateShape, s1
<1>5. Announced(st.s, st.k) /\ Numbered(st.s, st.k, n) /\ Timed(st.s) /\ Spanned(st.k)
      /\ Sequenced(st.s, st.k, n) /\ Tiled(st.s, st.k)
  BY DEF StateOK, MediaOK
<1>6. Announced(s1, st.k) /\ Numbered(s1, st.k, n) /\ Sequenced(s1, st.k, n)
  BY <1>3, <1>5 DEF Announced, Numbered, Sequenced
<1>7. Timed(s1)
  BY <1>3, <1>5 DEF Timed
<1>8. Tiled(s1, st.k)
  BY <1>3, <1>5 DEF Tiled, Building
<1>9. MediaOK(s1, st.k, n)
  BY <1>1, <1>3, <1>5, <1>6, <1>7, <1>8 DEF MediaOK
<1> QED
  BY <1>3, <1>4, <1>9 DEF StateOK

LEMMA OrderedAppend ==
  ASSUME NEW q, NEW n \in 0..MaxFrames, Ordered(q, n), NEW f \in VideoFrame, f.id = n + 1
  PROVE  Ordered(Append(q, f), n + 1)
<1> DEFINE u == Append(q, f)
           m == Len(q)
<1>1. q \in Seq(VideoFrame) /\ m \in Nat /\ DOMAIN q = 1..m
  BY DEF Ordered
<1>2. u \in Seq(VideoFrame) /\ DOMAIN u = 1..m + 1 /\ u[m + 1] = f
      /\ \A i \in 1..m : u[i] = q[i]
  BY <1>1, AppendProperties
<1>3. \A i \in 1..m : q[i].id \in Int /\ q[i].id <= n
  <2>1. \A i \in 1..m : q[i] \in VideoFrame /\ q[i].id <= n
    BY <1>1 DEF Ordered
  <2>2. \A g \in VideoFrame : g.id \in Int
    BY DEF VideoFrame
  <2> QED
    BY <2>1, <2>2
<1>4. \A i, j \in 1..m : i < j => q[i].id < q[j].id
  BY <1>1 DEF Ordered
<1> HIDE DEF u, m
<1>5. \A i \in 1..m + 1 : i \in 1..m \/ i = m + 1
  BY <1>1
<1>6. \A i \in DOMAIN u : u[i].id <= n + 1
  BY <1>2, <1>3, <1>5
<1>7. ASSUME NEW i \in DOMAIN u, NEW j \in DOMAIN u, i < j PROVE u[i].id < u[j].id
  <2>1. i \in 1..m
    BY <1>1, <1>2, <1>7
  <2>2. CASE j \in 1..m
    BY <1>2, <1>4, <1>7, <2>1, <2>2
  <2>3. CASE j = m + 1
    BY <1>2, <1>3, <2>1, <2>3
  <2> QED
    BY <1>2, <1>5, <2>2, <2>3
<1> QED
  BY <1>2, <1>6, <1>7 DEF Ordered, u

LEMMA AppendSampleOK ==
  ASSUME NEW s \in SegmenterShape, NEW f \in VideoFrame, Timed(s),
         s.samples = <<>> => (s.startTS = f.ts /\ s.partFrom = 0 /\ s.partIndex = 0),
         NEW t, t = AppendSample(s, f)
  PROVE  /\ t \in SegmenterShape /\ Timed(t)
         /\ t.samples = Append(s.samples, f) /\ t.partFrom < Len(t.samples)
         /\ t.startTS = s.startTS /\ t.next = s.next /\ t.partFrom = s.partFrom
         /\ t.partIndex = s.partIndex /\ t.discarded = s.discarded
         /\ t.initEmitted = s.initEmitted
<1> DEFINE d == s.durations
           v == Minus(f.ts, Plus(s.startTS, Ticks(d)))
           stamped == IF Len(d) = 0 THEN <<>> ELSE [d EXCEPT ![Len(d)] = v]
           e == Append(stamped, 0)
           q == Append(s.samples, f)
           key == s.hasKey \/ f.key
<1>0. Uint = 0..Wrap - 1 /\ 0 \in Uint
  BY RtpAssumption DEF Uint
<1>1. d \in Seq(Uint) /\ s.samples \in Seq(VideoFrame) /\ s.startTS \in 0..Wrap - 1
      /\ s.hasKey \in BOOLEAN /\ s.partFrom \in Nat
  BY <1>0 DEF SegmenterShape
<1>2. f.ts \in 0..Wrap - 1 /\ f.key \in BOOLEAN
  BY DEF VideoFrame
<1>3. q \in Seq(VideoFrame) /\ Len(q) = Len(s.samples) + 1 /\ q # <<>>
      /\ q[Len(s.samples) + 1] = f /\ \A i \in 1..Len(s.samples) : q[i] = s.samples[i]
  BY <1>1, AppendProperties
<1>4. Len(s.samples) \in Nat /\ Len(d) \in Nat
  BY <1>1
<1>5. s.samples = <<>> <=> Len(s.samples) = 0
  BY <1>1, EmptySeq
<1>6. Len(d) = Len(s.samples)
  BY <1>5 DEF Timed
<1>7. v \in 0..Wrap - 1 /\ Ticks(d) \in 0..Wrap - 1
  <2> DEFINE so == Ticks(d)
  <2>1. so \in 0..Wrap - 1
    BY <1>0, <1>1, TicksRange
  <2> HIDE DEF so
  <2>2. Plus(s.startTS, so) \in 0..Wrap - 1
    BY <1>1, <2>1, UintRange
  <2>3. Minus(f.ts, Plus(s.startTS, so)) \in 0..Wrap - 1
    BY <1>2, <2>2, UintRange
  <2> QED
    BY <2>1, <2>3 DEF so
<1>8. stamped \in Seq(Uint) /\ Len(stamped) = Len(d) /\ Ticks(stamped) = Minus(f.ts, s.startTS)
  <2>1. CASE s.samples = <<>>
    <3>1. Len(d) = 0 /\ s.startTS = f.ts
      BY <1>5, <1>6, <2>1
    <3>2. stamped = <<>>
      BY <3>1
    <3>3. Minus(f.ts, f.ts) = 0
      <4> DEFINE a == f.ts
      <4>1. a \in 0..Wrap - 1
        BY <1>2
      <4> HIDE DEF a
      <4>2. a - a = 0 /\ 0 % Wrap = 0
        BY <4>1, RtpAssumption
      <4>3. Minus(a, a) = 0
        BY <4>2 DEF Minus
      <4> QED
        BY <4>3 DEF a
    <3>4. <<>> \in Seq(Uint) /\ Len(<<>>) = 0
      BY EmptySeq
    <3> HIDE DEF stamped
    <3> QED
      BY <3>1, <3>2, <3>3, <3>4, TicksEmpty
  <2>2. CASE s.samples # <<>>
    <3>1. Len(d) # 0 /\ d # <<>> /\ d[Len(d)] = 0
      BY <1>5, <1>6, <2>2 DEF Timed
    <3>2. stamped = [d EXCEPT ![Len(d)] = v]
      BY <3>1
    <3> HIDE DEF stamped
    <3> DEFINE w == v
    <3>3. w \in Uint
      BY <1>0, <1>7
    <3> HIDE DEF w
    <3>4. [d EXCEPT ![Len(d)] = w] \in Seq(Uint) /\ Len([d EXCEPT ![Len(d)] = w]) = Len(d)
          /\ Ticks([d EXCEPT ![Len(d)] = w]) = Plus(Ticks(d), w)
      BY <1>1, <3>1, <3>3, TicksStamp
    <3>5. Plus(Ticks(d), v) = Minus(f.ts, s.startTS)
      <4> DEFINE so == Ticks(d)
      <4>1. so \in 0..Wrap - 1
        BY <1>7
      <4> HIDE DEF so
      <4>2. Plus(so, Minus(f.ts, Plus(s.startTS, so))) = Minus(f.ts, s.startTS)
        BY <1>1, <1>2, <4>1, StampRestores
      <4> QED
        BY <4>2 DEF so
    <3> QED
      BY <3>2, <3>4, <3>5 DEF w
  <2> QED
    BY <2>1, <2>2
<1> HIDE DEF stamped
<1>9. e \in Seq(Uint) /\ Len(e) = Len(d) + 1 /\ e[Len(d) + 1] = 0
  BY <1>0, <1>8, AppendProperties
<1>10. Ticks(e) = Minus(f.ts, s.startTS)
  <2> DEFINE m == Minus(f.ts, s.startTS)
  <2>1. m \in 0..Wrap - 1
    BY <1>1, <1>2, UintRange
  <2>2. Ticks(e) = Plus(m, 0)
    BY <1>0, <1>8, TicksAppend
  <2> HIDE DEF m, e
  <2>3. Plus(m, 0) = m
    BY <2>1, RtpAssumption DEF Plus
  <2> QED
    BY <2>2, <2>3 DEF m
<1>11. t = [s EXCEPT !.samples = q, !.durations = e, !.hasKey = key]
  BY DEF AppendSample, stamped
<1> HIDE DEF q, e, key
<1>12. t \in SegmenterShape /\ t.samples = q /\ t.durations = e
       /\ t.startTS = s.startTS /\ t.next = s.next /\ t.partFrom = s.partFrom
       /\ t.partIndex = s.partIndex /\ t.discarded = s.discarded
       /\ t.initEmitted = s.initEmitted
  <2>1. key \in BOOLEAN
    BY <1>1, <1>2 DEF key
  <2> QED
    BY <1>0, <1>3, <1>9, <1>11, <2>1 DEF SegmenterShape
<1>13. s.partFrom <= Len(s.samples)
  BY <1>4, <1>5 DEF Timed
<1>14. t.partFrom < Len(q)
  BY <1>1, <1>3, <1>4, <1>12, <1>13
<1>15. s.startTS = q[1].ts
  <2>1. CASE s.samples = <<>>
    BY <1>3, <1>5, <2>1
  <2>2. CASE s.samples # <<>>
    BY <1>3, <1>4, <1>5, <2>2 DEF Timed
  <2> QED
    BY <2>1, <2>2
<1>16. Timed(t)
  <2>1. Len(e) = Len(q) /\ e[Len(e)] = 0 /\ q[Len(q)] = f /\ s.partFrom <= Len(q)
    BY <1>1, <1>3, <1>4, <1>6, <1>9, <1>13
  <2> QED
    BY <1>3, <1>10, <1>12, <1>15, <2>1 DEF Timed
<1> QED
  BY <1>12, <1>14, <1>16 DEF q

LEMMA ConcatAppend ==
  ASSUME NEW S, NEW a \in Seq(S), NEW b \in Seq(S), NEW x \in S
  PROVE  a \o Append(b, x) = Append(a \o b, x)
<1>1. <<x>> \in Seq(S) /\ a \o b \in Seq(S)
  BY ConcatProperties
<1>2. Append(b, x) = b \o <<x>> /\ Append(a \o b, x) = (a \o b) \o <<x>>
  BY <1>1, AppendIsConcat
<1>3. a \o (b \o <<x>>) = (a \o b) \o <<x>>
  BY <1>1, ConcatAssociative
<1> QED
  BY <1>2, <1>3

\* The frame joins the buffer, before any part is cut.
LEMMA GrownOK ==
  ASSUME NEW st, NEW n \in 0..MaxFrames, n < MaxFrames, StateOK(st, n), st.s.initEmitted,
         NEW f \in VideoFrame, f.id = n + 1,
         st.s.samples = <<>> =>
           (st.s.startTS = f.ts /\ st.s.partFrom = 0 /\ st.s.partIndex = 0),
         NEW r, r = [st EXCEPT !.s = AppendSample(@, f)]
  PROVE  /\ StateOK(r, n + 1) /\ r.k = st.k
         /\ r.s.samples # <<>> /\ r.s.partFrom < Len(r.s.samples)
         /\ r.s.startTS = st.s.startTS
<1> DEFINE s == st.s
           k == st.k
           t == AppendSample(s, f)
<1>1. st \in StateShape /\ s \in SegmenterShape /\ k \in SinkShape
  BY DEF StateOK, StateShape
<1>2. Announced(s, k) /\ Numbered(s, k, n) /\ Timed(s) /\ Spanned(k)
      /\ Sequenced(s, k, n) /\ Tiled(s, k)
  BY DEF StateOK, MediaOK
<1>3. /\ t \in SegmenterShape /\ Timed(t)
      /\ t.samples = Append(s.samples, f) /\ t.partFrom < Len(t.samples)
      /\ t.startTS = s.startTS /\ t.next = s.next /\ t.partFrom = s.partFrom
      /\ t.partIndex = s.partIndex /\ t.discarded = s.discarded
      /\ t.initEmitted = s.initEmitted
  BY <1>1, <1>2, AppendSampleOK
<1>4. r \in StateShape /\ r.s = t /\ r.k = k
  <2> HIDE DEF t
  <2> QED
    BY <1>1, <1>3 DEF StateShape, t
<1>5. s.samples \in Seq(VideoFrame) /\ s.partFrom \in Nat /\ s.next \in Nat
      /\ k.segments \in Seq(Segment) /\ k.parts \in [0..MaxFrames -> Seq(Part)]
  BY <1>1 DEF SegmenterShape, SinkShape
<1> HIDE DEF t, s, k
<1>6. t.samples # <<>>
  <2>1. Append(s.samples, f) # <<>>
    BY <1>5, AppendProperties
  <2> QED
    BY <1>3, <2>1
<1>7. Announced(t, k)
  BY <1>2, <1>3 DEF Announced, s
<1>8. Numbered(t, k, n + 1)
  BY <1>2, <1>3, <1>5 DEF Numbered
<1>9. Sequenced(t, k, n + 1)
  <2> DEFINE a == Samples(k.segments)
  <2>1. a \in Seq(VideoFrame) /\ Ordered(a \o s.samples, n)
    BY <1>2 DEF Sequenced
  <2> HIDE DEF a
  <2>2. a \o Append(s.samples, f) = Append(a \o s.samples, f)
    <3>1. a \in Seq(VideoFrame) /\ s.samples \in Seq(VideoFrame) /\ f \in VideoFrame
      BY <1>5, <2>1
    <3> DEFINE b == s.samples
    <3> HIDE DEF b
    <3>2. a \o Append(b, f) = Append(a \o b, f)
      BY ONLY <3>1, ConcatAppend DEF b
    <3> QED
      BY <3>2 DEF b
  <2>3. Ordered(Append(a \o s.samples, f), n + 1)
    BY <2>1, OrderedAppend
  <2> QED
    BY <1>3, <2>1, <2>2, <2>3 DEF Sequenced, a
<1>10. Tiled(t, k)
  <2>1. ASSUME s.discarded = {} PROVE Building(t, k)
    <3>0. Building(s, k)
      BY <1>2, <2>1 DEF Tiled
    <3>1. CASE s.samples = <<>>
      <4>1. k.parts[s.next] = <<>> /\ s.partFrom = 0 /\ s.partIndex = 0
        BY <3>0, <3>1 DEF Building, s
      <4>2. SubSeq(t.samples, 1, 0) = <<>>
        BY SubSeqEmpty
      <4>3. Len(k.parts[s.next]) = 0 /\ Samples(k.parts[s.next]) = <<>>
        BY <4>1, SamplesEmpty
      <4>4. t.partIndex = Len(k.parts[t.next])
            /\ Samples(k.parts[t.next]) = SubSeq(t.samples, 1, t.partFrom)
        BY <1>3, <4>1, <4>2, <4>3
      <4> QED
        BY <1>6, <4>4 DEF Building
    <3>2. CASE s.samples # <<>>
      <4>1. s.partIndex = Len(k.parts[s.next])
            /\ Samples(k.parts[s.next]) = SubSeq(s.samples, 1, s.partFrom)
        BY <3>0, <3>2 DEF Building
      <4>2. s.partFrom <= Len(s.samples)
        BY <1>2, <3>2 DEF Timed
      <4>3. SubSeq(Append(s.samples, f), 1, s.partFrom) = SubSeq(s.samples, 1, s.partFrom)
        BY <1>5, <4>2
      <4> QED
        BY <1>3, <1>6, <4>1, <4>3 DEF Building
    <3> QED
      BY <3>1, <3>2
  <2> QED
    BY <1>2, <1>3, <2>1 DEF Tiled
<1>11. MediaOK(t, k, n + 1)
  BY <1>1, <1>2, <1>3, <1>7, <1>8, <1>9, <1>10 DEF MediaOK
<1> QED
  BY <1>3, <1>4, <1>6, <1>11 DEF StateOK, s, k

LEMMA OrderedFront ==
  ASSUME NEW a \in Seq(VideoFrame), NEW b \in Seq(VideoFrame), NEW n \in Nat,
         Ordered(a \o b, n)
  PROVE  Ordered(a \o <<>>, n)
<1>1. a \o <<>> = a
  BY ConcatEmptySeq
<1> DEFINE c == a \o b
<1>2. DOMAIN c = 1..Len(a) + Len(b) /\ \A i \in 1..Len(a) : c[i] = a[i]
  BY ConcatProperties
<1>3. Len(a) \in Nat /\ Len(b) \in Nat /\ DOMAIN a = 1..Len(a)
  OBVIOUS
<1> HIDE DEF c
<1>4. \A i \in DOMAIN a : i \in DOMAIN c /\ c[i] = a[i]
  BY <1>2, <1>3
<1>5. (\A i, j \in DOMAIN c : i < j => c[i].id < c[j].id) /\ \A i \in DOMAIN c : c[i].id <= n
  BY DEF Ordered, c
<1>6. Ordered(a, n)
  BY <1>4, <1>5 DEF Ordered
<1> QED
  BY <1>1, <1>6

LEMMA PrefixOfItself ==
  ASSUME NEW S, NEW q \in Seq(S), NEW m \in Nat, m <= Len(q)
  PROVE  IsPrefix(SubSeq(q, 1, m), q)
<1> DEFINE p == SubSeq(q, 1, m)
<1>1. Len(q) \in Nat /\ \A i \in 1..m : q[i] \in S
  OBVIOUS
<1>2. p \in Seq(S) /\ Len(p) = m /\ \A i \in 1..m : p[i] = q[i]
  BY <1>1, SubSeqProperties
<1> HIDE DEF p
<1>3. IsPrefix(p, q)
  BY <1>2, PrefixPointwise
<1> QED
  BY <1>3 DEF p

LEMMA FlushOK ==
  ASSUME NEW st, NEW n \in 0..MaxFrames, StateOK(st, n), NEW r, r = Flush(st)
  PROVE  /\ StateOK(r, n) /\ Grows(st.k, r.k)
         /\ r.s.samples = <<>> /\ r.s.initEmitted = st.s.initEmitted
         /\ r.k.refusedSegments = st.k.refusedSegments
<1> DEFINE s == st.s
           k == st.k
           next == s.next + 1
           ids == s.discarded \cup {f.id : f \in ToSet(s.samples)}
           thrown == [s EXCEPT !.samples = <<>>, !.durations = <<>>, !.discarded = ids]
           cut == [s EXCEPT !.samples = <<>>, !.durations = <<>>, !.hasKey = FALSE,
                            !.next = next]
           g == [samples |-> s.samples, ticks |-> Ticks(WithLast(s.durations))]
           k1 == [k EXCEPT !.segments = Append(k.segments, g)]
<1>1. st \in StateShape /\ s \in SegmenterShape /\ k \in SinkShape
  BY DEF StateOK, StateShape
<1>2. Announced(s, k) /\ Numbered(s, k, n) /\ Timed(s) /\ Spanned(k)
      /\ Sequenced(s, k, n) /\ Tiled(s, k)
  BY DEF StateOK, MediaOK
<1>3. s.samples \in Seq(VideoFrame) /\ s.next \in Nat /\ s.hasKey \in BOOLEAN
      /\ s.discarded \in SUBSET (1..MaxFrames) /\ s.durations \in Seq(0..Wrap - 1)
  BY <1>1 DEF SegmenterShape
<1>4. k.segments \in Seq(Segment) /\ k.parts \in [0..MaxFrames -> Seq(Part)]
  BY <1>1 DEF SinkShape
<1>5. CASE s.samples = <<>>
  <2>1. r = st
    BY <1>5 DEF Flush
  <2>2. Grows(k, k)
    BY <1>1, GrowsReflexive
  <2> QED
    BY <1>5, <2>1, <2>2
<1>6. CASE s.samples # <<>> /\ ~ s.hasKey
  <2>1. r = [st EXCEPT !.s = thrown]
    BY <1>1, <1>6 DEF Flush, SegmenterShape
  <2>2. ids \in SUBSET (1..MaxFrames) /\ ids # {}
    <3>1. \A f \in ToSet(s.samples) : f \in VideoFrame
      BY <1>3 DEF ToSet
    <3>2. \A f \in ToSet(s.samples) : f.id \in 1..MaxFrames
      BY <3>1 DEF VideoFrame
    <3>3. s.samples[1] \in ToSet(s.samples)
      BY <1>3, <1>6, EmptySeq DEF ToSet
    <3> QED
      BY <1>3, <3>2, <3>3
  <2> HIDE DEF ids
  <2>3. thrown \in SegmenterShape /\ thrown.samples = <<>> /\ thrown.durations = <<>>
        /\ thrown.discarded = ids /\ thrown.hasKey = s.hasKey /\ thrown.next = s.next
        /\ thrown.initEmitted = s.initEmitted
    <3>1. <<>> \in Seq(VideoFrame) /\ <<>> \in Seq(0..Wrap - 1)
      BY EmptySeq
    <3> QED
      BY <1>1, <2>2, <3>1 DEF SegmenterShape
  <2> HIDE DEF thrown
  <2>4. r \in StateShape /\ r.s = thrown /\ r.k = k
    BY <1>1, <2>1, <2>3 DEF StateShape
  <2> HIDE DEF s, k
  <2>5. Announced(thrown, k)
    BY <1>2, <2>3 DEF Announced
  <2>6. Numbered(thrown, k, n)
    BY <1>2, <2>3 DEF Numbered
  <2>7. Timed(thrown)
    BY <1>6, <2>3 DEF Timed
  <2>8. Sequenced(thrown, k, n)
    BY <1>2, <1>3, <2>3, OrderedFront DEF Sequenced
  <2>9. Tiled(thrown, k)
    BY <1>2, <2>2, <2>3 DEF Tiled
  <2>10. MediaOK(thrown, k, n)
    BY <1>1, <1>2, <2>3, <2>5, <2>6, <2>7, <2>8, <2>9 DEF MediaOK
  <2>11. Grows(k, k)
    BY <1>1, GrowsReflexive
  <2> QED
    BY <2>3, <2>4, <2>10, <2>11 DEF StateOK, s, k
<1>7. CASE s.samples # <<>> /\ s.hasKey
  <2>0. s.next = Len(k.segments) /\ s.next < n
    BY <1>2, <1>7 DEF Numbered
  <2>1. r = [s |-> cut, k |-> k1]
    BY <1>1, <1>7, <2>0 DEF Flush, OnMediaSegment, AcceptsSegment, SegmenterShape
  <2>2. next \in Nat /\ next <= n
    BY <1>3, <2>0
  <2>3. g \in Segment /\ g.samples = s.samples /\ Spans(g)
    <3>1. s.durations \in Seq(Uint) /\ s.durations # <<>>
          /\ s.durations[Len(s.durations)] = 0
      BY <1>2, <1>3, <1>7, EmptySeq DEF Timed, Uint
    <3>2. Ticks(WithLast(s.durations)) \in Uint
          /\ Ticks(WithLast(s.durations)) = Plus(Ticks(s.durations), FrameTicks)
      BY <3>1, WithLastTicks
    <3>3. Ticks(s.durations) = Minus(s.samples[Len(s.samples)].ts, s.samples[1].ts)
      BY <1>2, <1>7 DEF Timed
    <3>4. g \in Segment
      BY <1>3, <3>2 DEF Segment, Uint
    <3> QED
      BY <1>7, <3>2, <3>3, <3>4 DEF Spans
  <2> HIDE DEF g, next
  <2>4. cut \in SegmenterShape /\ cut.samples = <<>> /\ cut.durations = <<>>
        /\ cut.discarded = s.discarded /\ cut.hasKey = FALSE /\ cut.next = next
        /\ cut.initEmitted = s.initEmitted
    <3>1. <<>> \in Seq(VideoFrame) /\ <<>> \in Seq(0..Wrap - 1)
      BY EmptySeq
    <3> QED
      BY <1>1, <2>2, <3>1 DEF SegmenterShape
  <2> DEFINE q == Append(k.segments, g)
  <2>5. q \in Seq(Segment) /\ Len(q) = next /\ q[next] = g /\ q # <<>>
        /\ \A i \in 1..Len(k.segments) : q[i] = k.segments[i]
    <3>1. q \in Seq(Segment) /\ Len(q) = Len(k.segments) + 1 /\ q[Len(k.segments) + 1] = g
          /\ q # <<>> /\ \A i \in 1..Len(k.segments) : q[i] = k.segments[i]
      BY <1>4, <2>3, AppendProperties
    <3> QED
      BY <2>0, <3>1 DEF next
  <2>6. k1 \in SinkShape /\ k1.segments = q /\ k1.parts = k.parts /\ k1.init = k.init
        /\ k1.refusedSegments = k.refusedSegments /\ k1.finalized = k.finalized
    <3> HIDE DEF q
    <3> QED
      BY <1>1, <2>5 DEF SinkShape, q
  <2>7. Samples(q) = Samples(k.segments) \o s.samples
    <3>1. \A x \in Segment : x.samples \in Seq(VideoFrame)
      BY DEF Segment
    <3> QED
      BY <1>4, <2>3, <3>1, SamplesAppend
  <2>8. Grows(k, k1)
    <3>1. IsPrefix(k.segments, q)
      BY <1>4, <2>3, PrefixAppend
    <3>2. \A i \in 0..MaxFrames : IsPrefix(k.parts[i], k.parts[i])
      BY <1>4, PrefixReflexive
    <3> QED
      BY <2>6, <3>1, <3>2 DEF Grows
  <2> HIDE DEF q, cut, k1
  <2>9. r \in StateShape /\ r.s = cut /\ r.k = k1
    BY <2>1, <2>4, <2>6 DEF StateShape
  <2> HIDE DEF s, k
  <2>10. Announced(cut, k1)
    BY <1>2, <1>7, <2>4, <2>6 DEF Announced
  <2>11. Numbered(cut, k1, n)
    BY <1>2, <2>2, <2>4, <2>5, <2>6 DEF Numbered
  <2>12. Timed(cut)
    BY <2>4 DEF Timed
  <2>13. Spanned(k1)
    <3>1. \A i \in DOMAIN q : i \in 1..Len(k.segments) \/ i = next
      BY <2>0, <2>5, <1>3 DEF next
    <3>2. \A i \in 1..Len(k.segments) : Spans(k.segments[i])
      BY <1>2, <1>4 DEF Spanned
    <3> QED
      BY <2>3, <2>5, <2>6, <3>1, <3>2 DEF Spanned
  <2>14. Sequenced(cut, k1, n)
    <3> DEFINE a == Samples(k.segments) \o s.samples
    <3>1. Ordered(a, n)
      BY <1>2 DEF Sequenced
    <3>2. a \in Seq(VideoFrame)
      BY <3>1 DEF Ordered
    <3>3. a \o <<>> = a
      BY <3>2, ConcatEmptySeq
    <3> QED
      BY <2>4, <2>6, <2>7, <3>1, <3>2, <3>3 DEF Sequenced
  <2>15. Tiled(cut, k1)
    <3>1. \A i \in 0..MaxFrames : i > s.next => k.parts[i] = <<>>
      BY <1>2 DEF Tiled
    <3>2. next > s.next /\ next \in 0..MaxFrames
      BY <1>3, <2>2, RtpAssumption DEF next
    <3>3. \A i \in 0..MaxFrames : i > next => k.parts[i] = <<>>
      BY <1>3, <2>2, <3>1 DEF next
    <3>4. k.parts[next] = <<>>
      BY <3>1, <3>2
    <3>5. ASSUME s.discarded = {}, NEW i \in DOMAIN q
          PROVE  IsPrefix(Samples(k.parts[i - 1]), q[i].samples)
      <4>1. CASE i \in 1..Len(k.segments)
        BY <1>2, <1>4, <2>5, <3>5, <4>1 DEF Tiled
      <4>2. CASE i = next
        <5>1. i - 1 = s.next
          BY <1>3, <4>2 DEF next
        <5>2. Samples(k.parts[s.next]) = SubSeq(s.samples, 1, s.partFrom)
          BY <1>2, <1>7, <3>5 DEF Tiled, Building
        <5>3. s.partFrom \in Nat /\ s.partFrom <= Len(s.samples)
          BY <1>1, <1>2, <1>7 DEF Timed, SegmenterShape
        <5>4. IsPrefix(SubSeq(s.samples, 1, s.partFrom), s.samples)
          BY <1>3, <5>3, PrefixOfItself
        <5> QED
          BY <2>3, <2>5, <4>2, <5>1, <5>2, <5>4
      <4> QED
        BY <1>3, <2>0, <2>5, <4>1, <4>2 DEF next
    <3> QED
      BY <2>4, <2>6, <3>3, <3>4, <3>5 DEF Tiled, Building
  <2>16. MediaOK(cut, k1, n)
    BY <2>4, <2>6, <2>10, <2>11, <2>12, <2>13, <2>14, <2>15 DEF MediaOK
  <2> QED
    BY <2>4, <2>6, <2>8, <2>9, <2>16 DEF StateOK, s, k
<1> QED
  BY <1>3, <1>5, <1>6, <1>7

LEMMA EmitPartOK ==
  ASSUME NEW st, NEW n \in 0..MaxFrames, StateOK(st, n), st.s.samples # <<>>,
         st.s.partFrom < Len(st.s.samples), NEW r, r = EmitPart(st)
  PROVE  /\ StateOK(r, n) /\ Grows(st.k, r.k) /\ r.k.segments = st.k.segments
         /\ r.s.samples = st.s.samples /\ r.s.startTS = st.s.startTS
<1> DEFINE s == st.s
           k == st.k
           hi == Len(s.samples)
           ticks == Ticks(WithLast(SubSeq(s.durations, s.partFrom + 1, hi)))
           index == s.partIndex + 1
           ts == Plus(s.partTS, ticks)
           t == [s EXCEPT !.partFrom = hi, !.partIndex = index, !.partKey = FALSE,
                          !.partTS = ts]
           part == [samples |-> SubSeq(s.samples, s.partFrom + 1, hi), ticks |-> ticks,
                    independent |-> s.partKey]
           k1 == OnMediaPart(k, s.next, s.partIndex, part)
<1>1. st \in StateShape /\ s \in SegmenterShape /\ k \in SinkShape
  BY DEF StateOK, StateShape
<1>2. Announced(s, k) /\ Numbered(s, k, n) /\ Timed(s) /\ Spanned(k)
      /\ Sequenced(s, k, n) /\ Tiled(s, k)
  BY DEF StateOK, MediaOK
<1>3. s.samples \in Seq(VideoFrame) /\ s.next \in Nat /\ s.partFrom \in Nat
      /\ s.durations \in Seq(Uint) /\ s.partTS \in 0..Wrap - 1 /\ s.partKey \in BOOLEAN
      /\ s.partIndex \in Nat
  BY <1>1 DEF SegmenterShape, Uint
<1>4. k.segments \in Seq(Segment) /\ k.parts \in [0..MaxFrames -> Seq(Part)]
      /\ k.refusedParts \in Nat
  BY <1>1 DEF SinkShape
<1>5. s.next \in 0..MaxFrames
  <2>1. s.next < n
    BY <1>2 DEF Numbered
  <2> QED
    BY <1>3, <2>1, RtpAssumption
<1>6. hi \in Nat /\ s.partFrom < hi /\ Len(s.durations) = hi
  BY <1>2, <1>3 DEF Timed
<1>7. ticks \in Uint
  <2> DEFINE d == SubSeq(s.durations, s.partFrom + 1, hi)
  <2>1. d \in Seq(Uint) /\ Len(d) = hi - s.partFrom
    <3>1. \A i \in s.partFrom + 1..hi : s.durations[i] \in Uint
      BY <1>3, <1>6
    <3>2. s.partFrom + 1 \in Int /\ hi \in Int /\ s.partFrom + 1 <= hi
      BY <1>3, <1>6
    <3> DEFINE lo == s.partFrom + 1
    <3> HIDE DEF hi
    <3>3. hi - lo + 1 = hi - s.partFrom
      <4> DEFINE pf == s.partFrom
      <4>1. pf \in Nat /\ hi \in Nat
        BY <1>3, <1>6
      <4> HIDE DEF pf
      <4>2. hi - (pf + 1) + 1 = hi - pf
        BY <4>1
      <4> QED
        BY <4>2 DEF pf
    <3> HIDE DEF lo
    <3>4. SubSeq(s.durations, lo, hi) \in Seq(Uint)
          /\ Len(SubSeq(s.durations, lo, hi)) = hi - lo + 1
      BY <3>1, <3>2, SubSeqProperties DEF lo
    <3> QED
      BY <3>3, <3>4 DEF lo
  <2> HIDE DEF d
  <2>2. d # <<>>
    BY <1>3, <1>6, <2>1
  <2>3. Ticks(WithLast(d)) \in Uint
    BY <2>1, <2>2, WithLastTicks
  <2> QED
    BY <2>3 DEF d
<1> HIDE DEF ticks
<1>8. ts \in 0..Wrap - 1 /\ index \in Nat
  <2>1. index \in Nat
    BY <1>3
  <2>2. ticks \in 0..Wrap - 1
    BY <1>7 DEF Uint
  <2>3. ts \in 0..Wrap - 1
    BY <1>3, <2>2, UintRange
  <2> QED
    BY <2>1, <2>3
<1>9. SubSeq(s.samples, s.partFrom + 1, hi) \in Seq(VideoFrame)
  BY <1>3, <1>6
<1>10. part \in Part /\ part.samples = SubSeq(s.samples, s.partFrom + 1, hi)
  BY <1>3, <1>7, <1>9 DEF Part, Uint
<1> HIDE DEF part, ts, index
<1>11. r = [s |-> t, k |-> k1]
  BY DEF EmitPart, ticks, part, ts, index
<1>12. t \in SegmenterShape /\ t.samples = s.samples /\ t.durations = s.durations
       /\ t.startTS = s.startTS /\ t.hasKey = s.hasKey /\ t.next = s.next
       /\ t.partFrom = hi /\ t.partIndex = index /\ t.discarded = s.discarded
       /\ t.initEmitted = s.initEmitted
  <2> HIDE DEF hi
  <2> QED
    BY <1>1, <1>6, <1>8 DEF SegmenterShape
<1> DEFINE p == k.parts[s.next]
           p1 == Append(p, part)
<1>13. p \in Seq(Part)
  BY <1>4, <1>5
<1>14. p1 \in Seq(Part) /\ Len(p1) = Len(p) + 1 /\ IsPrefix(p, p1)
  BY <1>10, <1>13, AppendProperties, PrefixAppend
<1>15. /\ k1 \in SinkShape /\ k1.segments = k.segments /\ k1.init = k.init
       /\ k1.refusedSegments = k.refusedSegments /\ k1.finalized = k.finalized
       /\ \A i \in 0..MaxFrames : i # s.next => k1.parts[i] = k.parts[i]
       /\ k1.parts[s.next] = IF Len(p) = s.partIndex THEN p1 ELSE p
  <2>1. CASE Len(p) = s.partIndex
    <3> DEFINE ps == [k.parts EXCEPT ![s.next] = p1]
    <3> HIDE DEF p1
    <3>1. ps \in [0..MaxFrames -> Seq(Part)] /\ ps[s.next] = p1
          /\ \A i \in 0..MaxFrames : i # s.next => ps[i] = k.parts[i]
      BY <1>4, <1>5, <1>14
    <3>2. k1 = [k EXCEPT !.parts = ps]
      BY <1>1, <2>1 DEF OnMediaPart, SinkShape, p1
    <3> HIDE DEF ps, k1
    <3>3. k1 \in SinkShape /\ k1.parts = ps /\ k1.segments = k.segments /\ k1.init = k.init
          /\ k1.refusedSegments = k.refusedSegments /\ k1.finalized = k.finalized
      BY <1>1, <3>1, <3>2 DEF SinkShape
    <3> QED
      BY <2>1, <3>1, <3>3
  <2>2. CASE Len(p) # s.partIndex
    <3> DEFINE rp == k.refusedParts + 1
    <3>1. rp \in Nat
      BY <1>4
    <3>2. k1 = [k EXCEPT !.refusedParts = rp]
      BY <1>1, <2>2 DEF OnMediaPart
    <3> HIDE DEF rp, k1
    <3>3. k1 \in SinkShape /\ k1.parts = k.parts /\ k1.segments = k.segments /\ k1.init = k.init
          /\ k1.refusedSegments = k.refusedSegments /\ k1.finalized = k.finalized
      BY <1>1, <3>1, <3>2 DEF SinkShape
    <3> QED
      BY <2>2, <3>3
  <2> QED
    BY <2>1, <2>2
<1> HIDE DEF t, k1, p1
<1>16. r \in StateShape /\ r.s = t /\ r.k = k1
  BY <1>11, <1>12, <1>15 DEF StateShape
<1>17. Grows(k, k1)
  <2>1. IsPrefix(k.segments, k1.segments)
    BY <1>4, <1>15, PrefixReflexive
  <2>2. ASSUME NEW i \in 0..MaxFrames PROVE IsPrefix(k.parts[i], k1.parts[i])
    <3>1. IsPrefix(k.parts[i], k.parts[i])
      BY <1>4, PrefixReflexive
    <3> QED
      BY <1>14, <1>15, <3>1
  <2> QED
    BY <1>15, <2>1, <2>2 DEF Grows
<1> HIDE DEF s, k
<1>18. Announced(t, k1)
  <2>1. k.init
    BY <1>2 DEF Announced, s
  <2>2. s.initEmitted = k.init
    BY <1>2 DEF Announced
  <2> QED
    BY <1>12, <1>15, <2>1, <2>2 DEF Announced
<1>19. Numbered(t, k1, n) /\ Spanned(k1) /\ Sequenced(t, k1, n)
  BY <1>2, <1>12, <1>15 DEF Numbered, Spanned, Sequenced
<1>20. Timed(t)
  BY <1>2, <1>6, <1>12 DEF Timed
<1>21. Tiled(t, k1)
  <2>1. \A i \in 0..MaxFrames : i > t.next => k1.parts[i] = <<>>
    <3>1. \A i \in 0..MaxFrames : i > s.next => (i # s.next /\ k.parts[i] = <<>>)
      BY <1>2, <1>3 DEF Tiled
    <3> QED
      BY <1>12, <1>15, <3>1
  <2>2. ASSUME s.discarded = {}, NEW i \in DOMAIN k.segments
        PROVE  IsPrefix(Samples(k1.parts[i - 1]), k.segments[i].samples)
    <3>1. i - 1 \in 0..MaxFrames /\ i - 1 # s.next
      <4>1. s.next = Len(k.segments)
        BY <1>2 DEF Numbered
      <4>2. i \in 1..s.next
        BY <1>4, <4>1
      <4> QED
        BY <1>5, <4>2, RtpAssumption
    <3>2. k1.parts[i - 1] = k.parts[i - 1]
      BY <1>15, <3>1
    <3> QED
      BY <1>2, <2>2, <3>2 DEF Tiled
  <2>3. ASSUME s.discarded = {} PROVE Building(t, k1)
    <3>1. s.samples # <<>> /\ s.partIndex = Len(p) /\ Samples(p) = SubSeq(s.samples, 1, s.partFrom)
      BY <1>2, <2>3 DEF Tiled, Building, s
    <3>2. k1.parts[t.next] = p1
      BY <1>12, <1>15, <3>1
    <3>3. t.partIndex = Len(p1)
      BY <1>12, <1>14, <3>1 DEF index
    <3>4. Samples(p1) = Samples(p) \o part.samples
      <4>1. \A x \in Part : x.samples \in Seq(VideoFrame)
        BY DEF Part
      <4> HIDE DEF p
      <4> QED
        BY <1>10, <1>13, <4>1, SamplesAppend DEF p1
    <3>5. SubSeq(s.samples, 1, s.partFrom) \o SubSeq(s.samples, s.partFrom + 1, hi)
            = SubSeq(s.samples, 1, hi)
      <4>1. 1 \in 1..Len(s.samples) + 1 /\ s.partFrom \in 1 - 1..Len(s.samples)
            /\ hi \in s.partFrom..Len(s.samples)
        BY <1>3, <1>6
      <4> QED
        BY <1>3, <4>1, ConcatAdjacentSubSeq
    <3>6. Samples(p1) = SubSeq(t.samples, 1, t.partFrom)
      BY <1>10, <1>12, <3>1, <3>4, <3>5
    <3> QED
      BY <1>12, <3>1, <3>2, <3>3, <3>6 DEF Building
  <2> QED
    BY <1>12, <1>15, <2>1, <2>2, <2>3 DEF Tiled
<1>22. MediaOK(t, k1, n)
  BY <1>12, <1>15, <1>18, <1>19, <1>20, <1>21 DEF MediaOK
<1> QED
  BY <1>12, <1>15, <1>16, <1>17, <1>22 DEF StateOK, s, k

\* A state stays good when a packet passes it by.
LEMMA StateLater ==
  ASSUME NEW st, NEW n \in 0..MaxFrames, StateOK(st, n)
  PROVE  StateOK(st, n + 1)
<1> DEFINE s == st.s
           k == st.k
           a == Samples(k.segments) \o s.samples
<1>1. Numbered(s, k, n) /\ Sequenced(s, k, n) /\ s.next \in Nat
  BY DEF StateOK, MediaOK, SegmenterShape
<1>2. Numbered(s, k, n + 1)
  <2> HIDE DEF s, k
  <2> QED
    BY <1>1 DEF Numbered
<1>3. Ordered(a, n + 1)
  <2>1. Ordered(a, n)
    BY <1>1 DEF Sequenced
  <2> HIDE DEF a
  <2>2. \A i \in DOMAIN a : a[i] \in VideoFrame /\ a[i].id <= n
    BY <2>1 DEF Ordered
  <2>3. \A g \in VideoFrame : g.id \in Int
    BY DEF VideoFrame
  <2>4. \A i \in DOMAIN a : a[i].id <= n + 1
    BY <2>2, <2>3
  <2> QED
    BY <2>1, <2>4 DEF Ordered
<1>4. Sequenced(s, k, n + 1)
  BY <1>1, <1>3 DEF Sequenced
<1> QED
  BY <1>2, <1>4 DEF StateOK, MediaOK

LEMMA BufferOK ==
  ASSUME NEW st, NEW n \in 0..MaxFrames, n < MaxFrames, StateOK(st, n), st.s.initEmitted,
         NEW f \in VideoFrame, f.id = n + 1,
         st.s.samples = <<>> =>
           (st.s.startTS = f.ts /\ st.s.partFrom = 0 /\ st.s.partIndex = 0),
         NEW r, r = Buffer(st, f)
  PROVE  /\ StateOK(r, n + 1) /\ Grows(st.k, r.k) /\ r.k.segments = st.k.segments
         /\ r.s.startTS = st.s.startTS
<1> DEFINE grown == [st EXCEPT !.s = AppendSample(@, f)]
<1>1. /\ StateOK(grown, n + 1) /\ grown.k = st.k
      /\ grown.s.samples # <<>> /\ grown.s.partFrom < Len(grown.s.samples)
      /\ grown.s.startTS = st.s.startTS
  BY GrownOK
<1>2. r = IF PartDue(grown.s, f) THEN EmitPart(grown) ELSE grown
  BY DEF Buffer
<1> HIDE DEF grown
<1>3. n + 1 \in 0..MaxFrames
  BY RtpAssumption
<1>4. CASE r = EmitPart(grown)
  <2> DEFINE m == n + 1
  <2> HIDE DEF m
  <2>1. m \in 0..MaxFrames /\ StateOK(grown, m)
    BY <1>1, <1>3 DEF m
  <2>2. /\ StateOK(r, m) /\ Grows(grown.k, r.k) /\ r.k.segments = grown.k.segments
        /\ r.s.samples = grown.s.samples /\ r.s.startTS = grown.s.startTS
    BY <1>1, <1>4, <2>1, EmitPartOK
  <2> QED
    BY <1>1, <2>2 DEF m
<1>5. CASE r = grown
  <2>1. st.k \in SinkShape
    BY DEF StateOK, StateShape
  <2>2. Grows(st.k, st.k)
    BY <2>1, GrowsReflexive
  <2> QED
    BY <1>1, <1>5, <2>2
<1> QED
  BY <1>2, <1>4, <1>5

\* A whole ingestFrame.  Without a flush that is due, no segment is added, and the
\* buffer begins where it did or with this frame.
LEMMA IngestOK ==
  ASSUME NEW st, NEW n \in 0..MaxFrames, n < MaxFrames, StateOK(st, n),
         NEW f \in VideoFrame, f.id = n + 1, NEW r, r = Ingest(st, f)
  PROVE  /\ StateOK(r, n + 1) /\ Grows(st.k, r.k)
         /\ (st.s.samples = <<>> \/ ~ (Minus(f.ts, st.s.startTS) >= SegmentTicks))
              => /\ r.k.segments = st.k.segments
                 /\ r.s.samples # <<>> =>
                      r.s.startTS = IF st.s.samples = <<>> THEN f.ts ELSE st.s.startTS
<1> DEFINE c == CaptureParams(st, f)
           due == f.key /\ Minus(f.ts, c.s.startTS) >= SegmentTicks
           flushed == Flush(c)
           fresh == [c EXCEPT !.s = Rooted(@, f)]
           next == [flushed EXCEPT !.s = Rooted(@, f)]
<1>1. /\ StateOK(c, n) /\ Grows(st.k, c.k)
      /\ c.k.segments = st.k.segments /\ c.k.refusedSegments = st.k.refusedSegments
      /\ c.s.samples = st.s.samples /\ c.s.startTS = st.s.startTS
  BY CaptureOK
<1>2. r = IF ~ c.s.initEmitted THEN c
          ELSE IF c.s.samples = <<>> THEN Buffer(fresh, f)
          ELSE IF ~ due THEN Buffer(c, f)
          ELSE IF flushed.k.refusedSegments > c.k.refusedSegments THEN flushed
          ELSE Buffer(next, f)
  BY DEF Ingest
<1> HIDE DEF c
<1>3. st.k \in SinkShape /\ c.k \in SinkShape
  BY <1>1 DEF StateOK, StateShape
<1>4. CASE ~ c.s.initEmitted
  <2>1. r = c
    BY <1>2, <1>4
  <2>2. c.s.samples = <<>>
    BY <1>1, <1>4 DEF StateOK, MediaOK, Announced
  <2>3. StateOK(c, n + 1)
    BY <1>1, <2>2, StateLater
  <2> QED
    BY <1>1, <2>1, <2>2, <2>3
<1>5. CASE c.s.initEmitted /\ c.s.samples = <<>>
  <2>1. r = Buffer(fresh, f)
    BY <1>2, <1>5
  <2>2. /\ StateOK(fresh, n) /\ fresh.k = c.k
        /\ fresh.s.samples = <<>> /\ fresh.s.initEmitted = c.s.initEmitted
        /\ fresh.s.startTS = f.ts /\ fresh.s.partFrom = 0 /\ fresh.s.partIndex = 0
    BY ZenonT(60), <1>1, <1>5, RootedOK
  <2> HIDE DEF fresh
  <2>3. /\ StateOK(r, n + 1) /\ Grows(fresh.k, r.k) /\ r.k.segments = fresh.k.segments
        /\ r.s.startTS = fresh.s.startTS
    BY ZenonT(60), <1>5, <2>1, <2>2, BufferOK
  <2>4. r.k \in SinkShape
    BY <2>3 DEF StateOK, StateShape
  <2>5. Grows(st.k, r.k)
    BY <1>1, <1>3, <2>2, <2>3, <2>4, GrowsTransitive
  <2> QED
    BY <1>1, <1>5, <2>2, <2>3, <2>5
<1>6. CASE c.s.initEmitted /\ c.s.samples # <<>> /\ ~ due
  <2>1. r = Buffer(c, f)
    BY <1>2, <1>6
  <2>3. /\ StateOK(r, n + 1) /\ Grows(c.k, r.k) /\ r.k.segments = c.k.segments
        /\ r.s.startTS = c.s.startTS
    BY <1>1, <1>6, <2>1, BufferOK
  <2>4. r.k \in SinkShape
    BY <2>3 DEF StateOK, StateShape
  <2>5. Grows(st.k, r.k)
    BY <1>1, <1>3, <2>3, <2>4, GrowsTransitive
  <2> QED
    BY <1>1, <1>6, <2>3, <2>5
<1>7. CASE c.s.initEmitted /\ c.s.samples # <<>> /\ due
  <2>1. /\ StateOK(flushed, n) /\ Grows(c.k, flushed.k)
        /\ flushed.s.samples = <<>> /\ flushed.s.initEmitted = c.s.initEmitted
        /\ flushed.k.refusedSegments = c.k.refusedSegments
    BY <1>1, FlushOK
  <2> HIDE DEF flushed
  <2>2. c.k.refusedSegments \in Nat /\ flushed.k \in SinkShape
    BY <1>3, <2>1 DEF SinkShape, StateOK, StateShape
  <2>3. r = Buffer(next, f)
    BY <1>2, <1>7, <2>1, <2>2
  <2>4. /\ StateOK(next, n) /\ next.k = flushed.k
        /\ next.s.samples = <<>> /\ next.s.initEmitted = flushed.s.initEmitted
        /\ next.s.startTS = f.ts /\ next.s.partFrom = 0 /\ next.s.partIndex = 0
    <3>1. StateOK(flushed, n) /\ flushed.s.samples = <<>>
      BY <2>1
    <3> QED
      BY ONLY ZenonT(60), <3>1, RootedOK, n \in 0..MaxFrames, f \in VideoFrame
  <2> HIDE DEF next
  <2>5. /\ StateOK(r, n + 1) /\ Grows(next.k, r.k) /\ r.k.segments = next.k.segments
        /\ r.s.startTS = next.s.startTS
    BY ZenonT(60), <1>7, <2>1, <2>3, <2>4, BufferOK
  <2>6. r.k \in SinkShape
    BY <2>5 DEF StateOK, StateShape
  <2>7. Grows(st.k, flushed.k)
    BY <1>1, <1>3, <2>1, <2>2, GrowsTransitive
  <2>8. Grows(st.k, r.k)
    BY <1>3, <2>2, <2>4, <2>5, <2>6, <2>7, GrowsTransitive
  <2> QED
    BY <1>1, <1>7, <2>5, <2>8
<1> QED
  BY <1>4, <1>5, <1>6, <1>7

-----------------------------------------------------------------------------
(* The packets, and how long a closed segmenter's buffer can get. *)

LEMMA NextFramesOK ==
  ASSUME RtpOK, sent < MaxFrames, NEW f \in NextFrames
  PROVE  /\ f \in VideoFrame /\ f.id = sent + 1
         /\ \E d \in Step \cup {0} : f.ts = Plus(clock, d)
<1>0. PICK d \in Step \cup {0} :
        f \in {[id |-> sent + 1, ts |-> Plus(clock, d), key |-> c.key, params |-> c.params,
                gen |-> IF c.params # 0 THEN c.params ELSE gen] : c \in Carried(d)}
  BY DEF NextFrames
<1>1. PICK c \in Carried(d) :
        f = [id |-> sent + 1, ts |-> Plus(clock, d), key |-> c.key, params |-> c.params,
             gen |-> IF c.params # 0 THEN c.params ELSE gen]
  BY <1>0
<1>2. sent + 1 \in 1..MaxFrames /\ clock \in 0..Wrap - 1 /\ gen \in 1..MaxGen
  BY RtpAssumption DEF RtpOK
<1>3. d \in 0..Wrap - 1
  BY RtpAssumption
<1>4. Plus(clock, d) \in 0..Wrap - 1
  BY <1>2, <1>3, UintRange
<1>5. c.key \in BOOLEAN /\ c.params \in 0..MaxGen
  <2>1. CASE d # 0 \/ picture = "none"
    <3>1. {0} \cup ({gen, gen + 1} \cap (1..MaxGen)) \subseteq 0..MaxGen
      BY RtpAssumption
    <3>2. c \in [key : BOOLEAN, params : {0} \cup ({gen, gen + 1} \cap (1..MaxGen))]
      BY <2>1 DEF Carried
    <3> QED
      BY <3>1, <3>2
  <2>2. CASE ~ (d # 0 \/ picture = "none")
    <3>1. c = [key |-> picture # "slice", params |-> 0]
      BY <2>2 DEF Carried
    <3> QED
      BY <3>1, RtpAssumption
  <2> QED
    BY <2>1, <2>2
<1>6. (IF c.params # 0 THEN c.params ELSE gen) \in 1..MaxGen
  BY <1>2, <1>5, RtpAssumption
<1> QED
  BY <1>1, <1>2, <1>4, <1>5, <1>6 DEF VideoFrame

LEMMA SentKeepsRtp ==
  ASSUME RtpOK, NEW f \in NextFrames, Sent(f)
  PROVE  RtpOK' /\ sent' = sent + 1 /\ clock' = f.ts
<1>1. f \in VideoFrame /\ f.id = sent + 1
  BY NextFramesOK DEF Sent
<1>2. f.ts \in 0..Wrap - 1 /\ f.gen \in 1..MaxGen /\ f.id \in 0..MaxFrames
  BY <1>1 DEF VideoFrame
<1>3. picture' \in {"none", "params", "idr", "slice"}
  BY DEF Sent
<1> QED
  BY <1>1, <1>2, <1>3 DEF RtpOK, Sent

LEMMA LongestStepOK ==
  /\ LongestStep \in Nat
  /\ \A d \in Step \cup {0} : d \in 0..Wrap - 1 /\ d <= LongestStep
  /\ (MaxLate - 1) * LongestStep < SegmentTicks
<1> DEFINE P == Step \cup {0}
<1>1. P \subseteq 0..Wrap - 1 /\ P # {} /\ P \subseteq Int
  BY RtpAssumption
<1>2. IsFiniteSet(P)
  <2>1. IsFiniteSet(0..Wrap - 1)
    BY RtpAssumption, FS_Interval
  <2> QED
    BY <1>1, <2>1, FS_Subset
<1>3. \E d \in P : \A e \in P : e <= d
  <2> HIDE DEF P
  <2> QED
    BY <1>1, <1>2, FiniteMaximum
<1>4. LongestStep \in P /\ \A e \in P : e <= LongestStep
  BY <1>3 DEF LongestStep
<1> DEFINE D == LongestStep
<1>5. D \in Step \/ D = 0
  BY <1>4
<1>6. (MaxLate - 1) * D < SegmentTicks
  <2> HIDE DEF D
  <2>1. CASE D \in Step
    BY <2>1, SessionAssumption
  <2>2. CASE D = 0
    <3>1. MaxLate - 1 \in Int /\ SegmentTicks \in Int /\ 0 < SegmentTicks
      BY SessionAssumption, SegmenterAssumption, RtpAssumption
    <3>2. (MaxLate - 1) * 0 = 0
      BY <3>1
    <3> QED
      BY <2>2, <3>1, <3>2
  <2> QED
    BY <1>5, <2>1, <2>2
<1> QED
  BY <1>1, <1>4, <1>6, RtpAssumption

\* One packet more on a buffer that fits the packets read late: it still fits them,
\* and that is short of a segment.
LEMMA LateStaysShort ==
  ASSUME NEW c \in 0..Wrap - 1, NEW start \in 0..Wrap - 1, NEW d \in Step \cup {0},
         NEW l \in Nat, l >= 1, l < MaxLate, Minus(c, start) <= (l - 1) * LongestStep
  PROVE  /\ Minus(Plus(c, d), start) <= l * LongestStep
         /\ ~ (Minus(Plus(c, d), start) >= SegmentTicks)
<1> DEFINE D == LongestStep
           m == Minus(c, start)
           x == Minus(Plus(c, d), start)
<1>1. D \in Nat /\ d \in 0..Wrap - 1 /\ d <= D /\ (MaxLate - 1) * D < SegmentTicks
  BY LongestStepOK
<1>2. x <= m + d /\ m \in Nat /\ x \in Nat
  <2>1. Plus(c, d) \in 0..Wrap - 1
    BY <1>1, UintRange
  <2>2. x \in 0..Wrap - 1 /\ m \in 0..Wrap - 1
    BY <2>1, UintRange
  <2>3. x <= m + d
    BY <1>1, StepLengthens
  <2> HIDE DEF x, m
  <2> QED
    BY <2>2, <2>3, RtpAssumption
<1>3. m <= (l - 1) * D
  OBVIOUS
<1> HIDE DEF D, m, x
<1>4. MaxLate - 1 \in Nat /\ l <= MaxLate - 1 /\ l - 1 \in Nat /\ SegmentTicks \in Nat
  BY SessionAssumption, SegmenterAssumption, RtpAssumption
<1>5. (l - 1) * D + D = l * D
  BY <1>1, <1>4
<1>6. l * D <= (MaxLate - 1) * D
  BY <1>1, <1>4, ScaleMonotone
<1>7. (l - 1) * D \in Nat /\ l * D \in Nat /\ (MaxLate - 1) * D \in Nat
  BY <1>1, <1>4
<1> DEFINE u == (l - 1) * D
           v == l * D
           w == (MaxLate - 1) * D
<1>8. u \in Nat /\ v \in Nat /\ w \in Nat /\ u + D = v /\ v <= w /\ w < SegmentTicks /\ m <= u
  BY <1>1, <1>3, <1>5, <1>6, <1>7
<1> HIDE DEF u, v, w
<1>9. d \in Nat
  BY <1>1, RtpAssumption
<1>10. x <= v /\ x < SegmentTicks
  BY <1>1, <1>2, <1>4, <1>8, <1>9
<1>11. ~ (x >= SegmentTicks)
  BY <1>2, <1>4, <1>10
<1> QED
  BY <1>10, <1>11 DEF x, v, D

LEMMA ListedGrows ==
  ASSUME NEW k \in SinkShape, NEW m \in SinkShape, Grows(k, m),
         Len(k.segments) <= MaxFrames, NEW p, Listed(p, k)
  PROVE  Listed(p, m)
<1>1. k.segments \in Seq(Segment) /\ m.segments \in Seq(Segment)
  BY DEF SinkShape
<1>2. Len(k.segments) \in Nat /\ Len(m.segments) \in Nat /\ Len(k.segments) <= Len(m.segments)
  BY <1>1, PrefixPointwise DEF Grows
<1>3. p.count \in 0..MaxFrames
  BY <1>2, RtpAssumption DEF Listed
<1>4. k.parts[p.count] \in Seq(Part) /\ m.parts[p.count] \in Seq(Part)
      /\ IsPrefix(k.parts[p.count], m.parts[p.count])
  BY <1>3 DEF SinkShape, Grows
<1>5. Len(k.parts[p.count]) \in Nat /\ Len(m.parts[p.count]) \in Nat
      /\ Len(k.parts[p.count]) <= Len(m.parts[p.count])
  BY <1>4, PrefixPointwise
<1> QED
  BY SMTT(30), <1>2, <1>5 DEF Listed

-----------------------------------------------------------------------------
(* The invariant is inductive. *)

LEMMA LiveInitInv == LiveInit => LiveInv
<1> SUFFICES ASSUME LiveInit PROVE LiveInv
  OBVIOUS
<1>1. segmenter = EmptySegmenter /\ sink = EmptySink /\ sent = 0 /\ clock = FirstTS /\ gen = 1
      /\ picture = "none" /\ phase = "live" /\ late = 0 /\ request = Idle
      /\ playlist = [count |-> 0, parts |-> 0, ended |-> FALSE]
  BY Zenon DEF LiveInit, RtpInit
<1>2. RtpOK
  BY <1>1, RtpAssumption DEF RtpOK
<1>3. SessionOK
  BY <1>1, SessionAssumption DEF SessionOK, Idle, RequestType, PlaylistType
<1>4. \A S : <<>> \in Seq(S) /\ Len(<<>>) = 0
  BY EmptySeq
<1>5. segmenter \in SegmenterShape /\ segmenter.samples = <<>> /\ segmenter.durations = <<>>
      /\ segmenter.hasKey = FALSE /\ segmenter.next = 0 /\ segmenter.initEmitted = FALSE
  BY <1>1, <1>4, RtpAssumption DEF EmptySegmenter, SegmenterShape
<1>6. sink \in SinkShape /\ sink.segments = <<>> /\ sink.finalized = <<>> /\ sink.init = FALSE
      /\ sink.refusedSegments = 0 /\ \A i \in 0..MaxFrames : sink.parts[i] = <<>>
  BY <1>1, <1>4, RtpAssumption DEF EmptySink, SinkShape
<1>7. 0 \in 0..MaxFrames
  BY RtpAssumption
<1>8. Numbered(segmenter, sink, sent)
  BY <1>1, <1>4, <1>5, <1>6 DEF Numbered
<1>9. Timed(segmenter)
  BY <1>5 DEF Timed
<1>10. Spanned(sink)
  BY <1>6 DEF Spanned
<1>11. Sequenced(segmenter, sink, sent)
  <2>1. Samples(sink.segments) = <<>> /\ <<>> \o <<>> = <<>>
    BY <1>4, <1>6, SamplesEmpty, ConcatEmptySeq
  <2>2. <<>> \in Seq(VideoFrame) /\ DOMAIN <<>> = {}
    BY <1>4
  <2>3. Ordered(<<>>, sent)
    BY <2>2 DEF Ordered
  <2> QED
    BY <1>5, <2>1, <2>2, <2>3 DEF Sequenced
<1>12. Announced(segmenter, sink)
  BY <1>5, <1>6 DEF Announced
<1>13. Tiled(segmenter, sink)
  <2>1. DOMAIN sink.segments = {}
    BY <1>6
  <2> QED
    BY <1>5, <1>6, <1>7, <2>1 DEF Tiled, Building
<1>14. MediaOK(segmenter, sink, sent)
  BY <1>5, <1>6, <1>8, <1>9, <1>10, <1>11, <1>12, <1>13 DEF MediaOK
<1>15. AfterClose /\ Pinned
  BY <1>1, <1>6 DEF AfterClose, Pinned
<1>16. Listed(request, sink) /\ Listed(playlist, sink)
  <2>1. request.count = 0 /\ request.parts = 0 /\ playlist.count = 0 /\ playlist.parts = 0
    BY <1>1 DEF Idle
  <2>2. Len(sink.segments) = 0 /\ Len(sink.parts[0]) = 0
    BY <1>4, <1>6, <1>7
  <2> QED
    BY <2>1, <2>2 DEF Listed
<1> QED
  BY <1>2, <1>3, <1>14, <1>15, <1>16 DEF LiveInv

\* What LiveInv says of the media state, as a state of CmafSegmenter.
LEMMA CurrentOK ==
  ASSUME LiveInv
  PROVE  /\ StateOK(Current, sent) /\ Current.s = segmenter /\ Current.k = sink
         /\ segmenter \in SegmenterShape /\ sink \in SinkShape
         /\ Len(sink.segments) \in Nat /\ Len(sink.segments) <= MaxFrames
         /\ sent \in 0..MaxFrames
<1>1. MediaOK(segmenter, sink, sent) /\ sent \in 0..MaxFrames
  BY DEF LiveInv, RtpOK
<1>2. segmenter \in SegmenterShape /\ sink \in SinkShape /\ Numbered(segmenter, sink, sent)
  BY <1>1 DEF MediaOK
<1>3. Current.s = segmenter /\ Current.k = sink
  BY DEF Current
<1>4. Current \in StateShape
  BY <1>2 DEF Current, StateShape
<1>5. Len(sink.segments) \in Nat
  BY <1>2 DEF SinkShape
<1>6. Len(sink.segments) <= MaxFrames
  BY <1>1, <1>2, <1>5, RtpAssumption DEF Numbered
<1> QED
  BY <1>1, <1>2, <1>3, <1>4, <1>5, <1>6 DEF StateOK

\* A packet was read: late and the buffer's age.
LEMMA ReadKeeps ==
  ASSUME LiveInv, NEW f \in NextFrames, Sent(f), Read,
         segmenter'.samples # <<>> =>
           \/ segmenter.samples = <<>> /\ segmenter'.startTS = f.ts
           \/ /\ segmenter.samples # <<>>
              /\ segmenter'.startTS = segmenter.startTS
           \/ phase \in {"live", "done"}
  PROVE  SessionOK' /\ AfterClose' /\ phase' = phase
<1>1. SessionOK /\ RtpOK /\ AfterClose
  BY DEF LiveInv
<1>2. phase' = phase /\ request' = request /\ playlist' = playlist
  BY DEF Read, httpVars
<1>3. late \in 0..MaxLate /\ late' \in 0..MaxLate
      /\ (phase # "live" => (late < MaxLate /\ late' = late + 1))
  BY <1>1, SessionAssumption DEF Read, SessionOK
<1>4. SessionOK'
  BY <1>1, <1>2, <1>3 DEF SessionOK
<1>5. ASSUME phase \in {"flushed", "ended", "unpinned"}, segmenter'.samples # <<>>
      PROVE  late' >= 1 /\ Minus(clock', segmenter'.startTS) <= (late' - 1) * LongestStep
  <2>1. late' = late + 1 /\ late < MaxLate /\ late \in Nat
    BY <1>3, <1>5
  <2>2. f \in VideoFrame /\ clock' = f.ts /\ f.ts \in 0..Wrap - 1
    BY <1>1, SentKeepsRtp, NextFramesOK DEF Sent, VideoFrame
  <2>3. LongestStep \in Nat
    BY LongestStepOK
  <2> DEFINE D == LongestStep
  <2>4. (late' - 1) * D = late * D /\ late' >= 1
    <3>1. late' - 1 = late
      BY <2>1
    <3> QED
      BY <2>1, <3>1
  <2>5. CASE segmenter.samples = <<>>
    <3>1. segmenter'.startTS = f.ts
      BY <1>5, <2>5
    <3>2. Minus(f.ts, f.ts) = 0
      <4> DEFINE a == f.ts
      <4>1. a \in 0..Wrap - 1
        BY <2>2
      <4> HIDE DEF a
      <4>2. a - a = 0 /\ 0 % Wrap = 0
        BY <4>1, RtpAssumption
      <4>3. Minus(a, a) = 0
        BY <4>2 DEF Minus
      <4> QED
        BY <4>3 DEF a
    <3> HIDE DEF D
    <3>3. 0 <= late * D
      BY <2>1, <2>3 DEF D
    <3> QED
      BY <2>2, <2>4, <3>1, <3>2, <3>3 DEF D
  <2>6. CASE segmenter.samples # <<>>
    <3>1. segmenter'.startTS = segmenter.startTS
      BY <1>5, <2>6
    <3>2. late >= 1 /\ Minus(clock, segmenter.startTS) <= (late - 1) * LongestStep
      BY <1>1, <1>5, <2>6 DEF AfterClose
    <3>3. PICK d \in Step \cup {0} : f.ts = Plus(clock, d)
      BY <1>1, NextFramesOK DEF Sent
    <3>4. clock \in 0..Wrap - 1 /\ segmenter.startTS \in 0..Wrap - 1
      BY <1>1, CurrentOK DEF RtpOK, SegmenterShape
    <3>5. Minus(Plus(clock, d), segmenter.startTS) <= late * LongestStep
      BY <2>1, <3>2, <3>4, LateStaysShort
    <3> QED
      BY <2>2, <2>4, <3>1, <3>3, <3>5
  <2> QED
    BY <2>5, <2>6
<1>6. AfterClose'
  BY <1>2, <1>5 DEF AfterClose
<1> QED
  BY <1>2, <1>4, <1>6

\* No flush is due once the segmenter is closed.
LEMMA NoFlushAfterClose ==
  ASSUME LiveInv, NEW f \in NextFrames, Sent(f), Read,
         phase \in {"flushed", "ended", "unpinned"}, segmenter.samples # <<>>
  PROVE  ~ (Minus(f.ts, segmenter.startTS) >= SegmentTicks)
<1>1. SessionOK /\ RtpOK /\ AfterClose
  BY DEF LiveInv
<1>2. late \in Nat /\ late < MaxLate
  BY <1>1, SessionAssumption DEF Read, SessionOK
<1>3. late >= 1 /\ Minus(clock, segmenter.startTS) <= (late - 1) * LongestStep
  BY <1>1 DEF AfterClose
<1>4. PICK d \in Step \cup {0} : f.ts = Plus(clock, d)
  BY <1>1, NextFramesOK DEF Sent
<1>5. clock \in 0..Wrap - 1 /\ segmenter.startTS \in 0..Wrap - 1
  BY <1>1, CurrentOK DEF RtpOK, SegmenterShape
<1>6. ~ (Minus(Plus(clock, d), segmenter.startTS) >= SegmentTicks)
  BY <1>2, <1>3, <1>5, LateStaysShort
<1> QED
  BY <1>4, <1>6

LEMMA DeliverKeeps ==
  ASSUME LiveInv, NEW f \in NextFrames, Deliver(f)
  PROVE  LiveInv' /\ Grows(sink, sink')
<1>1. Sent(f) /\ Read /\ segmenter' = Ingest(Current, f).s /\ sink' = Ingest(Current, f).k
  BY DEF Deliver, OnVideoFrame, Became
<1>2. StateOK(Current, sent) /\ Current.s = segmenter /\ Current.k = sink
      /\ sink \in SinkShape /\ Len(sink.segments) <= MaxFrames /\ sent \in 0..MaxFrames
  BY CurrentOK
<1>3. RtpOK /\ sent < MaxFrames
  BY <1>1 DEF LiveInv, Sent
<1>4. f \in VideoFrame /\ f.id = sent + 1
  BY <1>3, NextFramesOK
<1>5. RtpOK' /\ sent' = sent + 1
  BY <1>1, <1>3, SentKeepsRtp
<1> DEFINE r == Ingest(Current, f)
<1> HIDE DEF Current
<1>6. /\ StateOK(r, sent + 1) /\ Grows(Current.k, r.k)
      /\ (Current.s.samples = <<>> \/ ~ (Minus(f.ts, Current.s.startTS) >= SegmentTicks))
            => /\ r.k.segments = Current.k.segments
               /\ r.s.samples # <<>> =>
                    r.s.startTS = IF Current.s.samples = <<>> THEN f.ts ELSE Current.s.startTS
  BY <1>2, <1>3, <1>4, IngestOK
<1> HIDE DEF r
<1>7. segmenter' = r.s /\ sink' = r.k
  BY <1>1 DEF r
<1>8. MediaOK(segmenter', sink', sent')
  BY <1>5, <1>6, <1>7 DEF StateOK
<1>9. Grows(sink, sink')
  BY <1>2, <1>6, <1>7
<1>10. phase \in {"flushed", "ended", "unpinned"} =>
         /\ sink'.segments = sink.segments
         /\ segmenter'.samples # <<>> =>
              segmenter'.startTS = IF segmenter.samples = <<>> THEN f.ts ELSE segmenter.startTS
  <2> SUFFICES ASSUME phase \in {"flushed", "ended", "unpinned"}
               PROVE  segmenter.samples = <<>>
                      \/ ~ (Minus(f.ts, segmenter.startTS) >= SegmentTicks)
    BY <1>2, <1>6, <1>7
  <2> QED
    BY <1>1, NoFlushAfterClose
<1>11. phase \in {"live", "done", "flushed", "ended", "unpinned"}
  BY DEF LiveInv, SessionOK
<1>12. SessionOK' /\ AfterClose' /\ phase' = phase
  BY <1>1, <1>10, <1>11, ReadKeeps
<1>13. Pinned'
  <2>1. Pinned /\ sink'.finalized = sink.finalized
    BY <1>9 DEF LiveInv, Grows
  <2> QED
    BY <1>10, <1>12, <2>1 DEF Pinned
<1>14. request' = request /\ playlist' = playlist /\ sink' \in SinkShape
  BY <1>1, <1>8 DEF Read, httpVars, MediaOK
<1>15. Listed(request, sink) /\ Listed(playlist, sink)
  BY DEF LiveInv
<1>16. Listed(request', sink') /\ Listed(playlist', sink')
  BY <1>2, <1>9, <1>14, <1>15, ListedGrows
<1> QED
  BY <1>5, <1>8, <1>9, <1>12, <1>13, <1>16 DEF LiveInv

LEMMA SinkGrowsBy ==
  ASSUME LiveInv, sink' = sink
  PROVE  Grows(sink, sink')
BY CurrentOK, GrowsReflexive

LEMMA LoseKeeps ==
  ASSUME LiveInv, NEW f \in NextFrames, Lose(f)
  PROVE  LiveInv' /\ Grows(sink, sink')
<1>1. Sent(f) /\ Read /\ segmenter' = segmenter /\ sink' = sink
  BY DEF Lose, mediaVars
<1>2. StateOK(Current, sent) /\ Current.s = segmenter /\ Current.k = sink
      /\ sent \in 0..MaxFrames
  BY CurrentOK
<1>3. RtpOK
  BY DEF LiveInv
<1>4. RtpOK' /\ sent' = sent + 1
  BY <1>1, <1>3, SentKeepsRtp
<1> HIDE DEF Current
<1>5. StateOK(Current, sent + 1)
  BY <1>2, StateLater
<1>6. MediaOK(segmenter', sink', sent')
  BY <1>1, <1>2, <1>4, <1>5 DEF StateOK
<1>7. SessionOK' /\ AfterClose' /\ phase' = phase
  BY <1>1, ReadKeeps
<1>8. Pinned' /\ Listed(request, sink)' /\ Listed(playlist, sink)'
  <2>1. request' = request /\ playlist' = playlist
    BY <1>1 DEF Read, httpVars
  <2> QED
    BY <1>1, <1>7, <2>1 DEF LiveInv, Pinned
<1> QED
  BY <1>1, <1>4, <1>6, <1>7, <1>8, SinkGrowsBy DEF LiveInv

\* Steps that leave the media alone, and what they must keep.
LEMMA OtherKeeps ==
  ASSUME LiveInv, UNCHANGED <<rtpVars, mediaVars, late>>, SessionOK',
         Pinned', Listed(request', sink), Listed(playlist', sink),
         (phase' \in {"flushed", "ended", "unpinned"} /\ phase' # phase) => phase = "flushed"
  PROVE  LiveInv' /\ Grows(sink, sink')
<1>1. clock' = clock /\ sent' = sent /\ gen' = gen /\ picture' = picture
      /\ segmenter' = segmenter /\ sink' = sink /\ late' = late
  BY DEF rtpVars, mediaVars
<1>2. RtpOK' /\ MediaOK(segmenter', sink', sent')
  BY <1>1 DEF LiveInv, RtpOK
<1>3. AfterClose'
  <2>1. AfterClose
    BY DEF LiveInv
  <2>2. phase' \in {"flushed", "ended", "unpinned"} => phase \in {"flushed", "ended", "unpinned"}
    OBVIOUS
  <2> QED
    BY <1>1, <2>1, <2>2 DEF AfterClose
<1>4. Listed(request', sink') /\ Listed(playlist', sink')
  BY <1>1
<1> QED
  BY <1>1, <1>2, <1>3, <1>4, SinkGrowsBy DEF LiveInv

LEMMA CloseKeeps ==
  ASSUME LiveInv, CloseSegmenter
  PROVE  LiveInv' /\ Grows(sink, sink')
<1>1. phase = "done" /\ phase' = "flushed" /\ segmenter' = Flush(Current).s
      /\ sink' = Flush(Current).k /\ UNCHANGED <<rtpVars, late, httpVars>>
  BY DEF CloseSegmenter, Close, Became
<1>2. StateOK(Current, sent) /\ Current.s = segmenter /\ Current.k = sink
      /\ sink \in SinkShape /\ Len(sink.segments) <= MaxFrames /\ sent \in 0..MaxFrames
  BY CurrentOK
<1> HIDE DEF Current
<1> DEFINE r == Flush(Current)
<1>3. /\ StateOK(r, sent) /\ Grows(Current.k, r.k)
      /\ r.s.samples = <<>> /\ r.s.initEmitted = Current.s.initEmitted
      /\ r.k.refusedSegments = Current.k.refusedSegments
  BY <1>2, FlushOK
<1> HIDE DEF r
<1>4. segmenter' = r.s /\ sink' = r.k
  BY <1>1 DEF r
<1>5. clock' = clock /\ sent' = sent /\ gen' = gen /\ picture' = picture /\ late' = late
      /\ request' = request /\ playlist' = playlist
  BY <1>1 DEF rtpVars, httpVars
<1>6. MediaOK(segmenter', sink', sent') /\ Grows(sink, sink') /\ sink' \in SinkShape
  BY <1>2, <1>3, <1>4, <1>5 DEF StateOK, MediaOK
<1>7. RtpOK' /\ SessionOK'
  BY <1>1, <1>5 DEF LiveInv, RtpOK, SessionOK
<1>8. AfterClose'
  BY <1>3, <1>4 DEF AfterClose
<1>9. Pinned'
  <2>1. sink.finalized = <<>>
    BY <1>1 DEF LiveInv, Pinned
  <2> QED
    BY <1>6, <2>1 DEF Pinned, Grows
<1>10. Listed(request', sink') /\ Listed(playlist', sink')
  <2>1. Listed(request, sink) /\ Listed(playlist, sink)
    BY DEF LiveInv
  <2> QED
    BY <1>2, <1>5, <1>6, <2>1, ListedGrows
<1> QED
  BY <1>6, <1>7, <1>8, <1>9, <1>10 DEF LiveInv

LEMMA PinKeeps ==
  ASSUME LiveInv, PinManifest
  PROVE  /\ LiveInv' /\ sink'.segments = sink.segments /\ sink'.parts = sink.parts
         /\ sink'.init = sink.init /\ sink.finalized = <<>>
<1>1. phase = "flushed" /\ phase' = "ended"
      /\ sink' = (IF Role = "origin" THEN Finalize(sink) ELSE sink)
      /\ UNCHANGED <<rtpVars, segmenter, late, httpVars>>
  BY DEF PinManifest
<1>2. segmenter \in SegmenterShape /\ sink \in SinkShape /\ MediaOK(segmenter, sink, sent)
  BY CurrentOK DEF LiveInv
<1>3. sink.finalized = <<>>
  BY <1>1 DEF LiveInv, Pinned
<1>4. /\ sink' \in SinkShape /\ sink'.segments = sink.segments /\ sink'.parts = sink.parts
      /\ sink'.init = sink.init /\ sink'.refusedSegments = sink.refusedSegments
      /\ sink'.finalized = sink.segments \/ sink'.finalized = <<>>
  <2>1. CASE sink' = sink
    BY <1>2, <1>3, <2>1
  <2>2. CASE sink' = Finalize(sink)
    <3>1. sink' = [sink EXCEPT !.finalized = sink.segments]
      BY <1>3, <2>2 DEF Finalize
    <3> QED
      BY <1>2, <3>1 DEF SinkShape
  <2> QED
    BY <1>1, <2>1, <2>2
<1>5. clock' = clock /\ sent' = sent /\ gen' = gen /\ picture' = picture /\ late' = late
      /\ request' = request /\ playlist' = playlist /\ segmenter' = segmenter
  BY <1>1 DEF rtpVars, httpVars
<1>6. MediaOK(segmenter, sink', sent)
  <2>1. Numbered(segmenter, sink', sent) /\ Spanned(sink') /\ Sequenced(segmenter, sink', sent)
        /\ Timed(segmenter)
    BY <1>2, <1>4 DEF MediaOK, Numbered, Spanned, Sequenced
  <2>2. Announced(segmenter, sink')
    BY <1>2, <1>4 DEF MediaOK, Announced
  <2>3. Tiled(segmenter, sink')
    BY <1>2, <1>4 DEF MediaOK, Tiled, Building
  <2> QED
    BY <1>2, <1>4, <2>1, <2>2, <2>3 DEF MediaOK
<1>7. RtpOK' /\ SessionOK'
  BY <1>1, <1>5 DEF LiveInv, RtpOK, SessionOK
<1>8. AfterClose'
  BY <1>1, <1>5 DEF LiveInv, AfterClose
<1>9. Pinned'
  BY <1>1, <1>4 DEF Pinned
<1>10. Listed(request', sink') /\ Listed(playlist', sink')
  <2>1. Listed(request, sink) /\ Listed(playlist, sink)
    BY DEF LiveInv
  <2> QED
    BY <1>4, <1>5, <2>1 DEF Listed
<1> QED
  BY <1>3, <1>4, <1>5, <1>6, <1>7, <1>8, <1>9, <1>10 DEF LiveInv

LEMMA TakeSnapshotKeeps ==
  ASSUME LiveInv, TakeSnapshot
  PROVE  LiveInv' /\ Grows(sink, sink')
<1>1. request' = [at |-> "snapshot", count |-> SegmentCount(sink), parts |-> 0]
      /\ UNCHANGED <<rtpVars, mediaVars, phase, late, playlist>>
  BY DEF TakeSnapshot
<1>2. sink \in SinkShape /\ Len(sink.segments) \in Nat /\ Len(sink.segments) <= MaxFrames
  BY CurrentOK
<1>3. Len(sink.parts[Len(sink.segments)]) \in Nat
  <2>1. Len(sink.segments) \in 0..MaxFrames
    BY <1>2, RtpAssumption
  <2>2. sink.parts[Len(sink.segments)] \in Seq(Part)
    BY <1>2, <2>1 DEF SinkShape
  <2> QED
    BY <2>2
<1>4. request' \in RequestType /\ request'.count = Len(sink.segments) /\ request'.parts = 0
  BY <1>1, <1>2 DEF SegmentCount, RequestType
<1>5. Listed(request', sink)
  BY <1>2, <1>3, <1>4 DEF Listed
<1>6. SessionOK' /\ Pinned' /\ Listed(playlist', sink)
  BY <1>1, <1>4 DEF LiveInv, SessionOK, Pinned, mediaVars
<1> QED
  BY <1>1, <1>5, <1>6, OtherKeeps

LEMMA ReadPartsKeeps ==
  ASSUME LiveInv, ReadParts
  PROVE  LiveInv' /\ Grows(sink, sink')
<1> DEFINE n == PartCount(sink, request.count)
<1>1. request' = [request EXCEPT !.at = "parts", !.parts = n]
      /\ UNCHANGED <<rtpVars, mediaVars, phase, late, playlist>>
  BY DEF ReadParts
<1>2. sink \in SinkShape /\ Len(sink.segments) \in Nat /\ Len(sink.segments) <= MaxFrames
  BY CurrentOK
<1>3. request \in RequestType /\ Listed(request, sink)
  BY DEF LiveInv, SessionOK
<1>4. n \in Nat /\ n = Len(sink.parts[request.count])
  <2>1. request.count \in 0..MaxFrames
    BY <1>2, <1>3, RtpAssumption DEF Listed
  <2>2. sink.parts[request.count] \in Seq(Part)
    BY <1>2, <2>1 DEF SinkShape
  <2> QED
    BY <2>2 DEF PartCount
<1> HIDE DEF n
<1>5. request' \in RequestType /\ request'.count = request.count /\ request'.parts = n
  BY <1>1, <1>3, <1>4 DEF RequestType
<1>6. Listed(request', sink)
  BY <1>3, <1>4, <1>5 DEF Listed
<1>7. SessionOK' /\ Pinned' /\ Listed(playlist', sink)
  BY <1>1, <1>5 DEF LiveInv, SessionOK, Pinned, mediaVars
<1> QED
  BY <1>1, <1>6, <1>7, OtherKeeps

LEMMA SendPlaylistKeeps ==
  ASSUME LiveInv, SendPlaylist
  PROVE  LiveInv' /\ Grows(sink, sink')
<1>1. playlist' = [count |-> request.count, parts |-> request.parts,
                   ended |-> sink.finalized # <<>>]
      /\ request' = Idle /\ UNCHANGED <<rtpVars, mediaVars, phase, late>>
  BY DEF SendPlaylist
<1>2. sink \in SinkShape /\ Len(sink.segments) \in Nat
  BY CurrentOK
<1>3. request \in RequestType /\ Listed(request, sink)
  BY DEF LiveInv, SessionOK
<1>4. playlist' \in PlaylistType /\ playlist'.count = request.count
      /\ playlist'.parts = request.parts
  BY <1>1, <1>3 DEF PlaylistType, RequestType
<1>5. Listed(playlist', sink)
  BY <1>3, <1>4 DEF Listed
<1>6. request' \in RequestType /\ request'.count = 0 /\ request'.parts = 0
  BY <1>1 DEF Idle, RequestType
<1>7. Listed(request', sink)
  <2>1. sink.parts[0] \in Seq(Part)
    BY <1>2, RtpAssumption DEF SinkShape
  <2>2. Len(sink.parts[0]) \in Nat
    BY <2>1
  <2> QED
    BY <1>2, <1>6, <2>2 DEF Listed
<1>8. SessionOK' /\ Pinned'
  BY <1>1, <1>4, <1>6 DEF LiveInv, SessionOK, Pinned, mediaVars
<1> QED
  BY <1>1, <1>5, <1>7, <1>8, OtherKeeps

\* Every step keeps the invariant, and what the sink holds: it only grows, except
\* that the manifest is pinned once.
LEMMA LiveStep ==
  ASSUME LiveInv, [LiveNext]_liveVars
  PROVE  /\ LiveInv'
         /\ \/ Grows(sink, sink')
            \/ /\ sink'.segments = sink.segments /\ sink'.parts = sink.parts
               /\ sink'.init = sink.init /\ sink.finalized = <<>>
<1>1. ASSUME NEW f \in NextFrames, Deliver(f) \/ Lose(f) PROVE LiveInv' /\ Grows(sink, sink')
  BY <1>1, DeliverKeeps, LoseKeeps
<1>2. CASE EndSession
  <2>1. SessionOK' /\ Pinned'
    BY <1>2 DEF EndSession, LiveInv, SessionOK, Pinned, mediaVars, httpVars
  <2>2. Listed(request', sink) /\ Listed(playlist', sink)
    BY <1>2 DEF EndSession, LiveInv, httpVars
  <2>3. UNCHANGED <<rtpVars, mediaVars, late>> /\ phase' = "done"
    BY <1>2 DEF EndSession
  <2> QED
    BY <2>1, <2>2, <2>3, OtherKeeps
<1>3. CASE PinFails
  <2>1. SessionOK' /\ Pinned'
    BY <1>3 DEF PinFails, LiveInv, SessionOK, Pinned, mediaVars, httpVars
  <2>2. Listed(request', sink) /\ Listed(playlist', sink)
    BY <1>3 DEF PinFails, LiveInv, httpVars
  <2>3. UNCHANGED <<rtpVars, mediaVars, late>> /\ phase = "flushed"
    BY <1>3 DEF PinFails
  <2> QED
    BY <2>1, <2>2, <2>3, OtherKeeps
<1>4. CASE UNCHANGED liveVars
  <2>1. UNCHANGED <<rtpVars, mediaVars, late>> /\ phase' = phase /\ UNCHANGED httpVars
    BY <1>4 DEF liveVars
  <2>2. SessionOK' /\ Pinned'
    BY <2>1 DEF LiveInv, SessionOK, Pinned, mediaVars, httpVars
  <2>3. Listed(request', sink) /\ Listed(playlist', sink)
    BY <2>1 DEF LiveInv, httpVars
  <2> QED
    BY <2>1, <2>2, <2>3, OtherKeeps
<1> QED
  BY <1>1, <1>2, <1>3, <1>4, CloseKeeps, PinKeeps, TakeSnapshotKeeps, ReadPartsKeeps,
     SendPlaylistKeeps
     DEF LiveNext, Teardown, ServePlaylist

LEMMA LiveInvariance == LiveSpec => []LiveInv
<1>1. LiveInit => LiveInv
  BY LiveInitInv
<1>2. LiveInv /\ [LiveNext]_liveVars => LiveInv'
  BY LiveStep
<1> QED
  BY <1>1, <1>2, PTL DEF LiveSpec

LEMMA FaithfulFromInv == LiveInv => SegmentsFaithful
<1> SUFFICES ASSUME LiveInv PROVE SegmentsFaithful
  OBVIOUS
<1>1. segmenter \in SegmenterShape /\ sink \in SinkShape /\ Numbered(segmenter, sink, sent)
      /\ Timed(segmenter) /\ Spanned(sink) /\ Sequenced(segmenter, sink, sent)
  BY DEF LiveInv, MediaOK
<1>2. phase \in {"live", "done", "flushed", "ended", "unpinned"} /\ playlist.count \in Nat
  BY DEF LiveInv, SessionOK, Listed
<1>3. segmenter.samples \in Seq(VideoFrame) /\ segmenter.durations \in Seq(0..Wrap - 1)
      /\ segmenter.partFrom \in Nat
  BY <1>1 DEF SegmenterShape
<1>4. sink.segments \in Seq(Segment) /\ sink.finalized \in Seq(Segment)
      /\ \A i \in DOMAIN sink.parts : sink.parts[i] \in Seq(Part)
  BY <1>1 DEF SinkShape
<1>5. Len(segmenter.samples) = Len(segmenter.durations)
      /\ (segmenter.partFrom \in 0..Len(segmenter.samples) \/ segmenter.samples = <<>>)
  <2>1. CASE segmenter.samples = <<>>
    BY <1>1, <2>1 DEF Timed
  <2>2. CASE segmenter.samples # <<>>
    BY <1>1, <1>3, <2>2 DEF Timed
  <2> QED
    BY <2>1, <2>2
<1>6. LiveTypeOK
  BY <1>2, <1>3, <1>4, <1>5 DEF LiveTypeOK
<1>7. FramesOnceInOrder
  <2>1. Media = Samples(sink.segments)
    BY DEF Media, Samples
  <2> QED
    BY <1>1, <2>1 DEF Sequenced, Ordered, FramesOnceInOrder
<1>8. TicksSpanSegment
  <2> SUFFICES ASSUME NEW i \in DOMAIN sink.segments
               PROVE  sink.segments[i].ticks =
                        Plus(Minus(Last(sink.segments[i].samples).ts,
                                   Head(sink.segments[i].samples).ts), FrameTicks)
    BY DEF TicksSpanSegment
  <2>0. sink.segments[i] \in Segment
    BY <1>4
  <2>1. Spans(sink.segments[i]) /\ sink.segments[i].samples \in Seq(VideoFrame)
    BY <1>1, <2>0 DEF Spanned, Segment
  <2>2. Head(sink.segments[i].samples) = sink.segments[i].samples[1]
    BY <2>1 DEF Spans
  <2> QED
    BY <2>1, <2>2 DEF Spans, Last
<1>9. NumbersInStep
  BY <1>1 DEF NumbersInStep, Numbered
<1> QED
  BY <1>6, <1>7, <1>8, <1>9 DEF SegmentsFaithful

LEMMA TilesFromInv == LiveInv => PartsTileSegments
<1> SUFFICES ASSUME LiveInv, segmenter.discarded = {}
             PROVE  /\ \A i \in DOMAIN sink.segments :
                         IsPrefix(PartsOf(i - 1), sink.segments[i].samples)
                    /\ segmenter.samples # <<>> =>
                         PartsOf(segmenter.next) = SubSeq(segmenter.samples, 1, segmenter.partFrom)
  BY DEF PartsTileSegments
<1>1. Tiled(segmenter, sink)
  BY DEF LiveInv, MediaOK
<1>2. \A i : PartsOf(i) = Samples(sink.parts[i])
  BY DEF PartsOf, Samples
<1> QED
  BY <1>1, <1>2 DEF Tiled, Building

LEMMA HonestFromInv == LiveInv => ServedHonestly
<1> SUFFICES ASSUME LiveInv PROVE ServedHonestly
  OBVIOUS
<1>1. sink \in SinkShape /\ Announced(segmenter, sink) /\ Listed(playlist, sink) /\ Pinned
      /\ Len(sink.segments) \in Nat /\ Len(sink.segments) <= MaxFrames
  BY CurrentOK DEF LiveInv, MediaOK
<1> DEFINE c == playlist.count
           p == playlist.parts
<1>2. c \in Nat /\ p \in Nat /\ c <= Len(sink.segments) /\ p <= Len(sink.parts[c])
  BY <1>1 DEF Listed
<1> HIDE DEF c, p
<1>3. c \in 0..MaxFrames
  BY <1>1, <1>2, RtpAssumption
<1>4. sink.parts[c] \in Seq(Part) /\ Len(sink.parts[c]) \in Nat
  <2>1. sink.parts[c] \in Seq(Part)
    BY <1>1, <1>3 DEF SinkShape
  <2> QED
    BY <2>1
<1>5. \A i \in 0..c - 1 : SegmentServable(sink, i)
  BY <1>1, <1>2 DEF SegmentServable
<1>6. \A i \in 0..p - 1 : PartServable(sink, c, i)
  BY <1>2, <1>4 DEF PartServable
<1>7. ASSUME c + p > 0 PROVE sink.init
  <2>1. CASE c > 0
    <3>1. sink.segments # <<>>
      BY <1>1, <1>2, <2>1
    <3> QED
      BY <1>1, <3>1 DEF Announced
  <2>2. CASE p > 0
    <3>1. sink.parts[c] # <<>>
      BY <1>2, <1>4, <2>2
    <3> QED
      BY <1>1, <1>3, <3>1 DEF Announced
  <2> QED
    BY <1>2, <1>7, <2>1, <2>2
<1>8. ListedIsServable
  BY <1>5, <1>6, <1>7 DEF ListedIsServable, c, p
<1>9. PinnedIsServed
  BY <1>1 DEF PinnedIsServed, Pinned
<1> QED
  BY <1>8, <1>9 DEF ServedHonestly

(***************************************************************************)
(* The segments of a live session are its stream (segmenter.go:110-286):   *)
(* every frame in at most one segment and in order, each segment as long   *)
(* as the time its frames span across any wrap of the clock, and numbered  *)
(* as the sink expects it, so that the sink never refuses one.             *)
(***************************************************************************)
THEOREM SegmentsAreTheStream == LiveSpec => []SegmentsFaithful
BY LiveInvariance, FaithfulFromInv, PTL

(***************************************************************************)
(* Unless frames were discarded, the parts of a segment (parts.go) are its *)
(* first frames in order, each once, whatever the order of parts and       *)
(* flushes.                                                                *)
(***************************************************************************)
THEOREM PartsAreTheSegment == LiveSpec => []PartsTileSegments
BY LiveInvariance, TilesFromInv, PTL

(***************************************************************************)
(* However servePlaylist's three reads of the sink fall between frames,    *)
(* flushes and teardown, what the playlist lists can be fetched, and the   *)
(* manifest that was pinned is what was served (live_http.go:177-219,      *)
(* livepin.go:190-212).                                                    *)
(***************************************************************************)
THEOREM ServingIsHonest == LiveSpec => []ServedHonestly
BY LiveInvariance, HonestFromInv, PTL

(***************************************************************************)
(* What was published under a URI is never published differently           *)
(* (livepin.go:75-155): segments and parts are only ever appended, the     *)
(* manifest is pinned once, the init segment stays.                        *)
(***************************************************************************)
THEOREM PublishedStays == LiveSpec => PublishedIsFinal
<1> DEFINE A == /\ IsPrefix(sink.segments, sink'.segments)
                /\ \A i \in DOMAIN sink.parts : IsPrefix(sink.parts[i], sink'.parts[i])
                /\ sink.finalized # <<>> => sink'.finalized = sink.finalized
                /\ sink.init => sink'.init
<1>1. ASSUME LiveInv, [LiveNext]_liveVars PROVE A
  <2>1. sink \in SinkShape
    BY <1>1, CurrentOK
  <2>2. sink.segments \in Seq(Segment) /\ DOMAIN sink.parts = 0..MaxFrames
        /\ \A i \in 0..MaxFrames : sink.parts[i] \in Seq(Part)
    BY <2>1 DEF SinkShape
  <2>3. CASE Grows(sink, sink')
    BY <2>2, <2>3 DEF Grows
  <2>4. CASE /\ sink'.segments = sink.segments /\ sink'.parts = sink.parts
             /\ sink'.init = sink.init /\ sink.finalized = <<>>
    <3>1. IsPrefix(sink.segments, sink.segments)
          /\ \A i \in 0..MaxFrames : IsPrefix(sink.parts[i], sink.parts[i])
      BY <2>2, PrefixReflexive
    <3> QED
      BY <2>2, <2>4, <3>1
  <2> QED
    BY <1>1, <2>3, <2>4, LiveStep
<1>2. LiveInv /\ [LiveNext]_liveVars => [A]_liveVars
  BY <1>1
<1> HIDE DEF A
<1>3. LiveSpec => [][A]_liveVars
  BY <1>2, LiveInvariance, PTL DEF LiveSpec
<1> QED
  BY <1>3 DEF PublishedIsFinal, A

-----------------------------------------------------------------------------
(* The HLS muxer, which reads the same packets. *)

AU == [frames : Seq(VideoFrame), params : 0..MaxGen,
       pts : -(Wrap \div 2) .. Wrap \div 2 - 1]

Frames(w) == FlattenSeq([i \in DOMAIN w |-> w[i].frames])

Indexed(q) == q \in Seq(VideoFrame) /\ \A i \in DOMAIN q : q[i].id = i

SameTime(q) == \A k, l \in DOMAIN q : q[k].ts = q[l].ts

\* Nothing was lost or repeated between the packets sent and those gathered.
NothingLost ==
  /\ Indexed(Frames(written))
  /\ ~ closed => Indexed(Frames(written) \o currentAU)
                 /\ Len(Frames(written) \o currentAU) = sent

\* The access unit being gathered has one timestamp, and the last one written
\* another.
OnePicture ==
  /\ currentAU # <<>> => firstPTSSet
  /\ \A k \in DOMAIN currentAU : currentAU[k].ts = currentPTS
  /\ ~ closed /\ written # <<>> =>
       /\ currentAU # <<>>
       /\ Last(written[Len(written)].frames).ts # currentPTS

WholeUnits(w) ==
  /\ \A i \in DOMAIN w : w[i].frames # <<>> /\ SameTime(w[i].frames)
  /\ \A i \in 1..Len(w) - 1 : Last(w[i].frames).ts # Head(w[i + 1].frames).ts

\* Parameter sets that were written are in the cache.
Cached == (\E i \in DOMAIN written : Inline(written[i].frames) # {}) => paramsCache # 0

MuxInv ==
  /\ RtpOK
  /\ MuxTypeOK
  /\ NothingLost
  /\ OnePicture
  /\ WholeUnits(written)
  /\ Cached
  /\ IdrHasParams

LEMMA FramesEmpty == Frames(<<>>) = <<>>
<1>1. [i \in DOMAIN <<>> |-> <<>>[i].frames] = <<>>
  OBVIOUS
<1> QED
  BY <1>1, FlattenEmpty DEF Frames

LEMMA FramesAppend ==
  ASSUME NEW q \in Seq(AU), NEW x \in AU
  PROVE  Frames(Append(q, x)) = Frames(q) \o x.frames
<1> DEFINE w == Append(q, x)
           n == Len(q)
           m == [i \in 1..n |-> q[i].frames]
           u == [i \in 1..n + 1 |-> w[i].frames]
           v == Append(m, x.frames)
<1>0. \A r \in AU : r.frames \in Seq(VideoFrame)
  BY DEF AU
<1>1. n \in Nat /\ DOMAIN q = 1..n /\ \A i \in 1..n : q[i] \in AU
  OBVIOUS
<1>2. w \in Seq(AU) /\ DOMAIN w = 1..n + 1 /\ w[n + 1] = x /\ \A i \in 1..n : w[i] = q[i]
  BY <1>1, AppendProperties
<1> HIDE DEF w, n
<1>3. \A i \in 1..n : q[i].frames \in Seq(VideoFrame)
  BY <1>0, <1>1
<1>4. m \in Seq(Seq(VideoFrame)) /\ Len(m) = n /\ \A i \in 1..n : m[i] = q[i].frames
  BY <1>1, <1>3
<1>5. x.frames \in Seq(VideoFrame)
  BY <1>0
<1>6. v \in Seq(Seq(VideoFrame)) /\ Len(v) = n + 1 /\ v[n + 1] = x.frames
      /\ \A i \in 1..n : v[i] = m[i]
  <2> HIDE DEF m
  <2> QED
    BY <1>4, <1>5, AppendProperties
<1>7. \A i \in 1..n + 1 : u[i] = v[i]
  <2>1. \A i \in 1..n : u[i] = q[i].frames
    BY <1>1, <1>2
  <2>2. u[n + 1] = x.frames
    BY <1>1, <1>2
  <2>3. \A i \in 1..n + 1 : i \in 1..n \/ i = n + 1
    BY <1>1
  <2> HIDE DEF u, v, m
  <2> QED
    BY <1>4, <1>6, <2>1, <2>2, <2>3
<1>8. u = v
  <2>1. u = [i \in 1..n + 1 |-> u[i]]
    OBVIOUS
  <2>2. v = [i \in 1..n + 1 |-> v[i]]
    <3> HIDE DEF v
    <3> QED
      BY <1>6
  <2> HIDE DEF u, v
  <2> QED
    BY <1>7, <2>1, <2>2
<1>9. FlattenSeq(v) = FlattenSeq(m) \o x.frames
  <2> HIDE DEF m
  <2> QED
    BY <1>4, <1>5, FlattenAppend
<1>10. Frames(w) = FlattenSeq(u) /\ Frames(q) = FlattenSeq(m)
  BY <1>1, <1>2 DEF Frames
<1> QED
  BY <1>8, <1>9, <1>10 DEF w

LEMMA WholeAppend ==
  ASSUME NEW w \in Seq(AU), WholeUnits(w), NEW u \in AU, u.frames # <<>>, SameTime(u.frames),
         w # <<>> => Last(w[Len(w)].frames).ts # Head(u.frames).ts
  PROVE  WholeUnits(Append(w, u))
<1> DEFINE x == Append(w, u)
           n == Len(w)
<1>1. n \in Nat /\ DOMAIN w = 1..n
  OBVIOUS
<1>2. Len(x) = n + 1 /\ DOMAIN x = 1..n + 1 /\ x[n + 1] = u /\ \A i \in 1..n : x[i] = w[i]
  BY <1>1, AppendProperties
<1>3. n # 0 => w # <<>>
  OBVIOUS
<1> HIDE DEF x, n
<1>4. \A i \in DOMAIN x : x[i].frames # <<>> /\ SameTime(x[i].frames)
  <2>1. \A i \in 1..n + 1 : i \in 1..n \/ i = n + 1
    BY <1>1
  <2> QED
    BY <1>1, <1>2, <2>1 DEF WholeUnits
<1>5. ASSUME NEW i \in 1..Len(x) - 1
      PROVE  Last(x[i].frames).ts # Head(x[i + 1].frames).ts
  <2>1. i \in 1..n
    BY <1>1, <1>2
  <2>2. CASE i = n
    <3>1. w # <<>> /\ x[i] = w[n] /\ x[i + 1] = u
      BY <1>1, <1>2, <1>3, <2>1, <2>2
    <3> QED
      BY <3>1 DEF n
  <2>3. CASE i # n
    <3>1. i \in 1..n - 1 /\ i + 1 \in 1..n
      BY <1>1, <2>1, <2>3
    <3>2. Last(w[i].frames).ts # Head(w[i + 1].frames).ts
      BY <3>1 DEF WholeUnits, n
    <3> QED
      BY <1>2, <2>1, <3>1, <3>2
  <2> QED
    BY <2>2, <2>3
<1>6. WholeUnits(x)
  BY <1>4, <1>5 DEF WholeUnits
<1> QED
  BY <1>6 DEF x

LEMMA InlineParams ==
  ASSUME NEW au \in Seq(VideoFrame), Inline(au) # {}
  PROVE  /\ au[Min(Inline(au))].params \in 1..MaxGen
         /\ au[Max(Inline(au))].params \in 1..MaxGen
<1> DEFINE s == Inline(au)
           n == Len(au)
<1>1. n \in Nat /\ DOMAIN au = 1..n /\ s \subseteq 1..n
  BY DEF Inline
<1>2. \A i \in s : au[i].params \in 1..MaxGen
  <2> SUFFICES ASSUME NEW i \in s PROVE au[i].params \in 1..MaxGen
    OBVIOUS
  <2>1. au[i] \in VideoFrame /\ au[i].params # 0
    BY DEF Inline
  <2>2. au[i].params \in 0..MaxGen
    BY <2>1 DEF VideoFrame
  <2> QED
    BY <2>1, <2>2, RtpAssumption
<1> HIDE DEF s, n
<1>3. IsFiniteSet(s) /\ s \subseteq Int /\ s # {}
  <2>1. IsFiniteSet(1..n)
    BY <1>1, FS_Interval
  <2> QED
    BY <1>1, <2>1, FS_Subset DEF s
<1>4. Max(s) \in s
  BY <1>3, MaxMember
<1>5. Min(s) \in s
  <2> DEFINE P == {-x : x \in s}
  <2>1. P \subseteq (-n)..(-1) /\ P \subseteq Int /\ P # {}
    <3>1. \A x \in 1..n : -x \in (-n)..(-1)
      BY <1>1
    <3>2. P \subseteq (-n)..(-1)
      BY <1>1, <3>1
    <3>3. (-n)..(-1) \subseteq Int
      BY <1>1
    <3>4. P # {}
      BY <1>3
    <3> HIDE DEF P
    <3> QED
      BY <3>2, <3>3, <3>4
  <2>2. IsFiniteSet((-n)..(-1))
    BY <1>1, FS_Interval
  <2>3. IsFiniteSet(P)
    BY <2>1, <2>2, FS_Subset
  <2>4. PICK i \in P : \A j \in P : j <= i
    <3> HIDE DEF P
    <3> QED
      BY <2>1, <2>3, FiniteMaximum
  <2>5. PICK x \in s : i = -x
    OBVIOUS
  <2>6. \A y \in s : x <= y
    <3> TAKE y \in s
    <3>1. -y \in P /\ y \in Int /\ x \in Int
      BY <1>1
    <3>2. -y <= -x
      BY <2>4, <2>5, <3>1
    <3> QED
      BY <3>1, <3>2
  <2>7. \E a \in s : \A b \in s : a =< b
    BY <2>6
  <2> QED
    BY <2>7 DEF Min
<1> QED
  BY <1>2, <1>4, <1>5 DEF s

LEMMA RelPTSOK ==
  ASSUME MuxTypeOK
  PROVE  RelPTS \in -(Wrap \div 2) .. Wrap \div 2 - 1
<1> DEFINE n == Minus(currentPTS, firstPTS)
           h == Wrap \div 2
<1>1. n \in 0..Wrap - 1
  BY UintRange DEF MuxTypeOK
<1>2. h \in Nat /\ Wrap = 2 * h
  BY RtpAssumption, WrapAssumption
<1>3. RelPTS = IF n < h THEN n ELSE n - Wrap
  BY DEF RelPTS
<1> HIDE DEF n, h
<1>4. RelPTS \in -h .. h - 1
  BY <1>1, <1>2, <1>3, RtpAssumption
<1> QED
  BY <1>4 DEF h

LEMMA MuxInitInv == MuxInit => MuxInv
<1> SUFFICES ASSUME MuxInit PROVE MuxInv
  OBVIOUS
<1>1. sent = 0 /\ clock = FirstTS /\ gen = 1 /\ picture = "none" /\ paramsCache \in {0, 1}
      /\ currentAU = <<>> /\ currentPTS = 0 /\ firstPTS = 0 /\ firstPTSSet = FALSE
      /\ closed = FALSE /\ written = <<>>
  BY Zenon DEF MuxInit, RtpInit
<1>2. RtpOK
  BY <1>1, RtpAssumption DEF RtpOK
<1>3. \A S : <<>> \in Seq(S) /\ Len(<<>>) = 0
  BY EmptySeq
<1>4. MuxTypeOK
  <2>1. paramsCache \in 0..MaxGen /\ 0 \in 0..Wrap - 1
    BY <1>1, RtpAssumption
  <2>2. currentAU \in Seq(VideoFrame) /\ written \in Seq(AU)
    BY <1>1, <1>3
  <2> QED
    BY <1>1, <2>1, <2>2 DEF MuxTypeOK, AU
<1>5. NothingLost
  <2>1. Frames(written) = <<>> /\ <<>> \o <<>> = <<>>
    BY <1>1, <1>3, FramesEmpty, ConcatEmptySeq
  <2>2. Indexed(<<>>)
    BY <1>3 DEF Indexed
  <2> QED
    BY <1>1, <1>3, <2>1, <2>2 DEF NothingLost
<1>6. DOMAIN written = {} /\ DOMAIN currentAU = {} /\ Len(written) = 0
  BY <1>1
<1>7. OnePicture
  BY <1>1, <1>6 DEF OnePicture
<1>8. WholeUnits(written)
  BY <1>6 DEF WholeUnits
<1>9. Cached /\ IdrHasParams
  BY <1>6 DEF Cached, IdrHasParams
<1> QED
  BY <1>2, <1>4, <1>5, <1>7, <1>8, <1>9 DEF MuxInv

\* flushCurrentAULocked: what the write of the access unit does.
LEMMA WriteKeeps ==
  ASSUME MuxInv, currentAU # <<>>, Write(currentAU)
  PROVE  /\ paramsCache' \in 0..MaxGen
         /\ written' \in Seq(AU)
         /\ WholeUnits(written')
         /\ Indexed(Frames(written'))
         /\ closed => written' = written
         /\ ~ closed => /\ Frames(written') = Frames(written) \o currentAU
                        /\ written' # <<>>
                        /\ Last(written'[Len(written')].frames).ts = currentPTS
         /\ Cached' /\ IdrHasParams'
<1> DEFINE au == currentAU
           u == AccessUnit(au)
<1>1. paramsCache \in 0..MaxGen /\ au \in Seq(VideoFrame) /\ written \in Seq(AU)
      /\ closed \in BOOLEAN
  BY DEF MuxInv, MuxTypeOK, AU
<1>2. paramsCache' = Captured(au)
      /\ written' = (IF closed THEN written ELSE Append(written, u))
  BY DEF Write
<1>3. Inline(au) # {} => au[Min(Inline(au))].params \in 1..MaxGen
                         /\ au[Max(Inline(au))].params \in 1..MaxGen
  BY <1>1, InlineParams
<1>4. paramsCache' \in 0..MaxGen /\ (Inline(au) # {} => paramsCache' # 0)
      /\ (paramsCache # 0 => paramsCache' = paramsCache)
  <2>1. CASE paramsCache = 0 /\ Inline(au) # {}
    <3>1. paramsCache' = au[Min(Inline(au))].params
      BY <1>2, <2>1 DEF Captured
    <3> QED
      BY <1>3, <2>1, <3>1, RtpAssumption
  <2>2. CASE ~ (paramsCache = 0 /\ Inline(au) # {})
    <3>1. paramsCache' = paramsCache
      BY <1>2, <2>2 DEF Captured
    <3> QED
      BY <1>1, <2>2, <3>1
  <2> QED
    BY <2>1, <2>2
<1>5. ParamsWritten(au) \in 0..MaxGen
      /\ (Inline(au) # {} => ParamsWritten(au) # 0)
      /\ (HasIDR(au) /\ paramsCache # 0 => ParamsWritten(au) # 0)
  <2>1. CASE Inline(au) # {}
    <3>1. ParamsWritten(au) = au[Max(Inline(au))].params
      BY <2>1 DEF ParamsWritten
    <3> QED
      BY <1>3, <2>1, <3>1, RtpAssumption
  <2>2. CASE Inline(au) = {}
    <3>1. ParamsWritten(au) = IF HasIDR(au) THEN paramsCache ELSE 0
      BY <2>2 DEF ParamsWritten
    <3>2. 0 \in 0..MaxGen
      BY RtpAssumption
    <3> QED
      BY <1>1, <2>2, <3>1, <3>2
  <2> QED
    BY <2>1, <2>2
<1>6. u \in AU /\ u.frames = au /\ u.params = ParamsWritten(au)
  <2>1. RelPTS \in -(Wrap \div 2) .. Wrap \div 2 - 1
    BY RelPTSOK DEF MuxInv
  <2>2. u = [frames |-> au, params |-> ParamsWritten(au), pts |-> RelPTS]
    BY DEF AccessUnit
  <2> HIDE DEF u, au
  <2> QED
    BY <1>1, <1>5, <2>1, <2>2 DEF AU
<1> HIDE DEF u, au
<1>7. WholeUnits(written) /\ Cached /\ IdrHasParams /\ NothingLost /\ OnePicture
  BY DEF MuxInv
<1>8. CASE closed
  <2>1. written' = written
    BY <1>2, <1>8
  <2>2. Cached'
    BY <1>4, <1>7, <2>1 DEF Cached
  <2>3. IdrHasParams'
    BY <1>7, <2>1 DEF IdrHasParams
  <2>4. Indexed(Frames(written'))
    BY <1>7, <2>1 DEF NothingLost
  <2> QED
    BY <1>1, <1>4, <1>7, <1>8, <2>1, <2>2, <2>3, <2>4
<1>9. CASE ~ closed
  <2> DEFINE n == Len(written)
  <2>1. written' = Append(written, u)
    BY <1>2, <1>9
  <2>2. n \in Nat /\ DOMAIN written = 1..n
    BY <1>1
  <2>3. written' \in Seq(AU) /\ written' # <<>> /\ Len(written') = n + 1
        /\ DOMAIN written' = 1..n + 1 /\ written'[n + 1] = u
        /\ \A i \in 1..n : written'[i] = written[i]
    <3>1. Append(written, u) \in Seq(AU) /\ Append(written, u) # <<>>
          /\ Len(Append(written, u)) = n + 1 /\ Append(written, u)[n + 1] = u
          /\ \A i \in 1..n : Append(written, u)[i] = written[i]
      BY <1>1, <1>6, AppendProperties
    <3>2. DOMAIN Append(written, u) = 1..n + 1
      BY <3>1
    <3> QED
      BY <2>1, <3>1, <3>2
  <2>4. Frames(written') = Frames(written) \o au
    BY <1>1, <1>6, <2>1, FramesAppend
  <2>5. Indexed(Frames(written'))
    BY <1>7, <1>9, <2>4 DEF NothingLost, au
  <2>6. \A k \in DOMAIN au : au[k].ts = currentPTS
    BY <1>7 DEF OnePicture, au
  <2>7. Len(au) \in Nat /\ Len(au) # 0 /\ DOMAIN au = 1..Len(au) /\ au # <<>>
    <3>1. au # <<>>
      BY DEF au
    <3> QED
      BY <1>1, <3>1, EmptySeq
  <2>8. Last(au).ts = currentPTS /\ Head(au).ts = currentPTS
    <3>1. Len(au) \in DOMAIN au /\ 1 \in DOMAIN au
      BY <2>7
    <3>2. Head(au) = au[1]
      BY <1>1, <2>7
    <3> QED
      BY <2>6, <3>1, <3>2 DEF Last
  <2>9. WholeUnits(written')
    <3>1. SameTime(au)
      BY <2>6 DEF SameTime
    <3>2. written # <<>> => Last(written[n].frames).ts # currentPTS
      BY <1>7, <1>9 DEF OnePicture
    <3>3. WholeUnits(Append(written, u))
      BY <1>1, <1>6, <1>7, <2>7, <2>8, <3>1, <3>2, WholeAppend
    <3> QED
      BY <2>1, <3>3
  <2>10. Last(written'[Len(written')].frames).ts = currentPTS
    BY <1>6, <2>3, <2>8
  <2> HIDE DEF n
  <2>11. \A i \in 1..n + 1 : i \in 1..n \/ i = n + 1
    BY <2>2
  <2>12. Cached'
    <3> SUFFICES ASSUME NEW i \in DOMAIN written', Inline(written'[i].frames) # {}
                 PROVE  paramsCache' # 0
      BY DEF Cached
    <3>1. CASE i \in 1..n
      <4>1. paramsCache # 0
        BY <1>7, <2>2, <2>3, <3>1 DEF Cached
      <4> QED
        BY <1>4, <4>1
    <3>2. CASE i = n + 1
      BY <1>4, <1>6, <2>3, <3>2
    <3> QED
      BY <2>3, <2>11, <3>1, <3>2
  <2>13. IdrHasParams'
    <3> SUFFICES ASSUME NEW i \in DOMAIN written', NEW j \in 1..i,
                        HasIDR(written'[i].frames), Inline(written'[j].frames) # {}
                 PROVE  written'[i].params # 0
      BY DEF IdrHasParams
    <3>1. CASE i \in 1..n
      <4>1. j \in 1..n
        BY <2>2, <3>1
      <4>2. written'[i] = written[i] /\ written'[j] = written[j] /\ i \in DOMAIN written
        BY <2>2, <2>3, <3>1, <4>1
      <4> QED
        BY <1>7, <4>2 DEF IdrHasParams
    <3>2. CASE i = n + 1
      <4>1. written'[i] = u
        BY <2>3, <3>2
      <4>2. CASE j = i
        BY <1>5, <1>6, <4>1, <4>2
      <4>3. CASE j # i
        <5>1. j \in 1..n
          BY <2>2, <3>2, <4>3
        <5>2. Inline(written[j].frames) # {} /\ j \in DOMAIN written
          BY <2>2, <2>3, <5>1
        <5>3. paramsCache # 0
          BY <1>7, <5>2 DEF Cached
        <5> QED
          BY <1>5, <1>6, <4>1, <5>3
      <4> QED
        BY <4>2, <4>3
    <3> QED
      BY <2>3, <2>11, <3>1, <3>2
  <2> QED
    BY <1>4, <1>9, <2>3, <2>4, <2>5, <2>9, <2>10, <2>12, <2>13 DEF au
<1> QED
  BY <1>1, <1>8, <1>9

LEMMA IndexedAppend ==
  ASSUME NEW q, Indexed(q), NEW f \in VideoFrame, f.id = Len(q) + 1
  PROVE  Indexed(Append(q, f)) /\ Len(Append(q, f)) = Len(q) + 1
<1> DEFINE u == Append(q, f)
           m == Len(q)
<1>1. q \in Seq(VideoFrame) /\ m \in Nat /\ DOMAIN q = 1..m
  BY DEF Indexed
<1>2. u \in Seq(VideoFrame) /\ Len(u) = m + 1 /\ DOMAIN u = 1..m + 1 /\ u[m + 1] = f
      /\ \A i \in 1..m : u[i] = q[i]
  BY <1>1, AppendProperties
<1>3. \A i \in 1..m : q[i].id = i
  BY <1>1 DEF Indexed
<1>4. f.id = m + 1
  OBVIOUS
<1> HIDE DEF u, m
<1>5. \A i \in 1..m + 1 : i \in 1..m \/ i = m + 1
  BY <1>1
<1>6. \A i \in DOMAIN u : u[i].id = i
  BY <1>2, <1>3, <1>4, <1>5
<1> QED
  BY <1>2, <1>6 DEF Indexed, u, m

LEMMA MuxFrameKeeps ==
  ASSUME MuxInv, NEW f \in NextFrames, Sent(f), MuxVideoFrame(f)
  PROVE  MuxInv'
<1>1. RtpOK /\ MuxTypeOK /\ NothingLost /\ OnePicture /\ WholeUnits(written) /\ Cached
      /\ IdrHasParams
  BY DEF MuxInv
<1>2. f \in VideoFrame /\ f.id = sent + 1
  BY <1>1, NextFramesOK DEF Sent
<1>3. f.ts \in 0..Wrap - 1
  BY <1>2 DEF VideoFrame
<1>4. RtpOK' /\ sent' = sent + 1
  BY <1>1, SentKeepsRtp
<1>5. currentPTS' = f.ts /\ firstPTSSet' = TRUE /\ closed' = closed
      /\ firstPTS' \in 0..Wrap - 1
  BY <1>1, <1>3 DEF MuxVideoFrame, MuxTypeOK
<1>6. currentAU \in Seq(VideoFrame) /\ written \in Seq(AU) /\ closed \in BOOLEAN
      /\ paramsCache \in 0..MaxGen
  BY <1>1 DEF MuxTypeOK, AU
<1> DEFINE a == Frames(written)
<1>7. a \in Seq(VideoFrame)
  BY <1>1 DEF NothingLost, Indexed
<1>8. CASE NewPicture(f)
  <2>1. Write(currentAU) /\ currentAU' = <<f>> /\ currentAU # <<>> /\ f.ts # currentPTS
    BY <1>8 DEF MuxVideoFrame, NewPicture
  <2>2. /\ paramsCache' \in 0..MaxGen
        /\ written' \in Seq(AU)
        /\ WholeUnits(written')
        /\ Indexed(Frames(written'))
        /\ closed => written' = written
        /\ ~ closed => /\ Frames(written') = Frames(written) \o currentAU
                       /\ written' # <<>>
                       /\ Last(written'[Len(written')].frames).ts = currentPTS
        /\ Cached' /\ IdrHasParams'
    BY <2>1, WriteKeeps
  <2>3. <<f>> \in Seq(VideoFrame) /\ <<f>> # <<>> /\ DOMAIN <<f>> = {1} /\ <<f>>[1] = f
    BY <1>2
  <2>4. MuxTypeOK'
    BY <1>3, <1>5, <1>6, <2>1, <2>2, <2>3 DEF MuxTypeOK, AU
  <2>5. NothingLost'
    <3>1. ASSUME ~ closed
          PROVE  Indexed(Frames(written') \o <<f>>) /\ Len(Frames(written') \o <<f>>) = sent + 1
      <4> DEFINE q == Frames(written')
      <4>1. Indexed(q) /\ Len(q) = sent
        BY <1>1, <2>2, <3>1 DEF NothingLost
      <4> HIDE DEF q
      <4>2. q \in Seq(VideoFrame)
        BY <4>1 DEF Indexed
      <4>3. q \o <<f>> = Append(q, f)
        BY <1>2, <4>2, AppendIsConcat
      <4>4. Indexed(Append(q, f)) /\ Len(Append(q, f)) = sent + 1
        BY <1>2, <4>1, IndexedAppend
      <4> QED
        BY <4>3, <4>4 DEF q
    <3> QED
      BY <1>4, <1>5, <2>1, <2>2, <3>1 DEF NothingLost
  <2>6. OnePicture'
    <3>1. \A k \in DOMAIN currentAU' : currentAU'[k].ts = currentPTS'
      BY <1>5, <2>1, <2>3
    <3>2. ~ closed => Last(written'[Len(written')].frames).ts # currentPTS'
      BY <1>5, <2>1, <2>2
    <3> QED
      BY <1>5, <2>1, <2>3, <3>1, <3>2 DEF OnePicture
  <2> QED
    BY <1>4, <2>2, <2>4, <2>5, <2>6 DEF MuxInv
<1>9. CASE ~ NewPicture(f)
  <2>1. paramsCache' = paramsCache /\ written' = written /\ currentAU' = Append(currentAU, f)
    BY <1>9 DEF MuxVideoFrame
  <2> DEFINE q == Append(currentAU, f)
             n == Len(currentAU)
  <2>2. q \in Seq(VideoFrame) /\ n \in Nat /\ DOMAIN q = 1..n + 1 /\ q[n + 1] = f /\ q # <<>>
        /\ \A i \in 1..n : q[i] = currentAU[i]
    BY <1>2, <1>6, AppendProperties
  <2>3. DOMAIN currentAU = 1..n /\ (n # 0 => currentAU # <<>>)
    BY <1>6
  <2>4. MuxTypeOK'
    BY <1>3, <1>5, <1>6, <2>1, <2>2 DEF MuxTypeOK, AU
  <2>5. NothingLost'
    <3>1. ASSUME ~ closed
          PROVE  Indexed(a \o q) /\ Len(a \o q) = sent + 1
      <4> DEFINE b == a \o currentAU
      <4>1. Indexed(b) /\ Len(b) = sent
        BY <1>1, <3>1 DEF NothingLost
      <4>2. a \o q = Append(b, f)
        <5> HIDE DEF a
        <5> QED
          BY ONLY <1>2, <1>6, <1>7, ConcatAppend DEF b, q
      <4> HIDE DEF b
      <4>3. Indexed(Append(b, f)) /\ Len(Append(b, f)) = sent + 1
        BY <1>2, <4>1, IndexedAppend
      <4> QED
        BY <4>2, <4>3
    <3> QED
      BY <1>1, <1>4, <1>5, <2>1, <3>1 DEF NothingLost
  <2>6. n # 0 => f.ts = currentPTS
    BY <1>1, <1>9, <2>3 DEF NewPicture, OnePicture
  <2>7. \A k \in DOMAIN q : q[k].ts = f.ts
    <3>1. \A k \in 1..n : currentAU[k].ts = currentPTS
      BY <1>1, <2>3 DEF OnePicture
    <3> HIDE DEF q, n
    <3>2. \A k \in 1..n + 1 : (k \in 1..n /\ n # 0) \/ k = n + 1
      BY <2>2
    <3> QED
      BY <2>2, <2>6, <3>1, <3>2
  <2>8. ASSUME ~ closed, written # <<>>
        PROVE  Last(written[Len(written)].frames).ts # f.ts
    <3>1. currentAU # <<>> /\ Last(written[Len(written)].frames).ts # currentPTS
      BY <1>1, <2>8 DEF OnePicture
    <3>2. n # 0
      BY <1>6, <3>1, EmptySeq
    <3> QED
      BY <2>6, <3>1, <3>2
  <2>9. OnePicture'
    BY <1>5, <2>1, <2>2, <2>7, <2>8 DEF OnePicture
  <2>10. WholeUnits(written') /\ Cached' /\ IdrHasParams'
    BY <1>1, <2>1 DEF Cached, IdrHasParams
  <2> QED
    BY <1>4, <2>4, <2>5, <2>9, <2>10 DEF MuxInv
<1> QED
  BY <1>8, <1>9

LEMMA MuxCloseKeeps ==
  ASSUME MuxInv, MuxClose, UNCHANGED rtpVars
  PROVE  MuxInv'
<1>1. RtpOK /\ MuxTypeOK /\ NothingLost /\ OnePicture /\ WholeUnits(written) /\ Cached
      /\ IdrHasParams
  BY DEF MuxInv
<1>2. currentAU' = <<>> /\ closed' = TRUE /\ currentPTS' = currentPTS /\ firstPTS' = firstPTS
      /\ firstPTSSet' = firstPTSSet
  BY DEF MuxClose
<1>3. RtpOK'
  BY <1>1 DEF RtpOK, rtpVars
<1>4. <<>> \in Seq(VideoFrame) /\ DOMAIN currentAU' = {}
  BY <1>2, EmptySeq
<1>5. /\ paramsCache' \in 0..MaxGen
      /\ written' \in Seq(AU)
      /\ WholeUnits(written')
      /\ Indexed(Frames(written'))
      /\ Cached' /\ IdrHasParams'
  <2>1. CASE currentAU = <<>>
    <3>1. paramsCache' = paramsCache /\ written' = written
      BY <2>1 DEF MuxClose
    <3>2. Cached' /\ IdrHasParams'
      BY <1>1, <3>1 DEF Cached, IdrHasParams
    <3> QED
      BY <1>1, <3>1, <3>2 DEF MuxTypeOK, NothingLost, AU
  <2>2. CASE currentAU # <<>>
    <3>1. Write(currentAU)
      BY <2>2 DEF MuxClose
    <3> QED
      BY <2>2, <3>1, WriteKeeps
  <2> QED
    BY <2>1, <2>2
<1>6. MuxTypeOK'
  BY <1>1, <1>2, <1>4, <1>5 DEF MuxTypeOK, AU
<1>7. NothingLost' /\ OnePicture'
  BY <1>2, <1>4, <1>5 DEF NothingLost, OnePicture
<1> QED
  BY <1>3, <1>5, <1>6, <1>7 DEF MuxInv

LEMMA MuxInvariance == MuxSpec => []MuxInv
<1>1. MuxInit => MuxInv
  BY MuxInitInv
<1>2. MuxInv /\ [MuxNext]_muxVars => MuxInv'
  <2> SUFFICES ASSUME MuxInv, [MuxNext]_muxVars PROVE MuxInv'
    OBVIOUS
  <2>1. CASE \E f \in NextFrames : Sent(f) /\ MuxVideoFrame(f)
    BY <2>1, MuxFrameKeeps
  <2>2. CASE MuxClose /\ UNCHANGED rtpVars
    BY <2>2, MuxCloseKeeps
  <2>3. CASE UNCHANGED muxVars
    <3>1. RtpOK' /\ MuxTypeOK' /\ WholeUnits(written')
      BY <2>3 DEF MuxInv, RtpOK, MuxTypeOK, muxVars, rtpVars, auVars
    <3>2. NothingLost' /\ OnePicture'
      BY <2>3 DEF MuxInv, NothingLost, OnePicture, muxVars, rtpVars, auVars
    <3>3. Cached' /\ IdrHasParams'
      BY <2>3 DEF MuxInv, Cached, IdrHasParams, muxVars
    <3> QED
      BY <3>1, <3>2, <3>3 DEF MuxInv
  <2> QED
    BY <2>1, <2>2, <2>3 DEF MuxNext
<1> QED
  BY <1>1, <1>2, PTL DEF MuxSpec

(***************************************************************************)
(* What reaches gohlslib can be played (hls_muxer.go:149-230): every       *)
(* packet once and in order, in access units of one timestamp each that    *)
(* follow one of another; no IDR without parameter sets once some were     *)
(* written; and presentation times that fit an int32.                      *)
(***************************************************************************)
THEOREM MuxedStreamPlays == MuxSpec => []StreamPlayable
<1>1. MuxInv => StreamPlayable
  <2> SUFFICES ASSUME MuxInv PROVE StreamPlayable
    OBVIOUS
  <2>1. Delivered = Frames(written)
    BY DEF Delivered, Frames
  <2>2. \A i \in DOMAIN Delivered : Delivered[i].id = i
    BY <2>1 DEF MuxInv, NothingLost, Indexed
  <2>3. PicturesWhole
    BY <2>2 DEF MuxInv, WholeUnits, SameTime, PicturesWhole
  <2> QED
    BY <2>3 DEF MuxInv, StreamPlayable
<1> QED
  BY <1>1, MuxInvariance, PTL

=============================================================================
