---------------------------- MODULE SumTheorems ----------------------------
(***************************************************************************)
(* Facts about SumFunctionOnSet (community module Functions), the operator *)
(* in which the ledgers of this project are stated.  The operator is a     *)
(* fold, that is a recursive function on the subsets of its index set, so  *)
(* every fact rests on an induction over finite sets.  The induction       *)
(* theorems of the library quantify over operators; here the induction     *)
(* predicate is a SET instead, and the principle is derived from the       *)
(* well-foundedness of strict inclusion between finite subsets.  At the    *)
(* end, what the proofs need of integer products and of sequences.         *)
(***************************************************************************)
EXTENDS Integers, Sequences, Functions, FiniteSetTheorems, TLAPS

(***************************************************************************)
(* h is the fold of f over every subset of A: the recursion equation that  *)
(* the definition of SumFunctionOnSet gives to its local function.         *)
(***************************************************************************)
IsPartialSum(h, f, A) ==
  h = [s \in SUBSET A |->
         IF s = {} THEN 0
         ELSE f[CHOOSE x \in s : TRUE] + h[s \ {CHOOSE x \in s : TRUE}]]

(***************************************************************************)
(* Induction on the subsets of a finite set: if a family G contains every  *)
(* subset T of A all of whose strict subsets it contains, it contains A.   *)
(***************************************************************************)
LEMMA FiniteSubsetInduction ==
  ASSUME NEW A, IsFiniteSet(A), NEW G,
         ASSUME NEW T \in SUBSET A,
                \A U \in SUBSET T : U # T => U \in G
         PROVE  T \in G
  PROVE  A \in G
<1> DEFINE Bad == {T \in SUBSET A : T \notin G}
<1>1. Bad \subseteq FiniteSubsetsOf(A)
  BY FS_Subset DEF FiniteSubsetsOf
<1>2. SUFFICES ASSUME Bad # {} PROVE FALSE
  OBVIOUS
<1>3. PICK T \in Bad : \A U \in Bad : ~ (<<U, T>> \in StrictSubsetOrdering(A))
  <2>1. IsWellFoundedOn(StrictSubsetOrdering(A), FiniteSubsetsOf(A))
    BY FS_StrictSubsetOrderingWellFounded
  <2> HIDE DEF Bad
  <2> QED
    BY <1>1, <1>2, <2>1, WFMin
<1>4. \A U \in SUBSET T : U # T => U \in G
  BY <1>3 DEF StrictSubsetOrdering
<1>5. T \in G
  BY <1>4
<1> QED
  BY <1>3, <1>5

(***************************************************************************)
(* A nonempty finite set of integers has a greatest element.               *)
(***************************************************************************)
LEMMA FiniteMaximum ==
  ASSUME NEW P, IsFiniteSet(P), P \subseteq Int, P # {}
  PROVE  \E i \in P : \A j \in P : j <= i
<1> DEFINE G == {T \in SUBSET P : T # {} => \E i \in T : \A j \in T : j <= i}
<1>1. ASSUME NEW T \in SUBSET P, \A U \in SUBSET T : U # T => U \in G
      PROVE  T \in G
  <2>1. SUFFICES ASSUME T # {} PROVE \E i \in T : \A j \in T : j <= i
    OBVIOUS
  <2>2. PICK c \in T : TRUE
    BY <2>1
  <2>3. CASE T \ {c} = {}
    <3>1. c \in Int /\ \A j \in T : j = c
      BY <2>2, <2>3
    <3>2. \A j \in T : j <= c
      BY <3>1
    <3> QED
      BY <2>2, <3>2
  <2>4. CASE T \ {c} # {}
    <3>1. T \ {c} \in G
      BY <1>1, <2>2
    <3>2. PICK i \in T \ {c} : \A j \in T \ {c} : j <= i
      BY <2>4, <3>1
    <3>3. i \in Int /\ c \in Int
      BY <2>2
    <3>4. CASE c <= i
      BY <3>2, <3>4
    <3>5. CASE ~(c <= i)
      <4>1. \A j \in T : j <= c
        BY <3>2, <3>3, <3>5
      <4> QED
        BY <2>2, <4>1
    <3> QED
      BY <3>4, <3>5
  <2> QED
    BY <2>3, <2>4
<1> HIDE DEF G
<1>2. P \in G
  BY <1>1, FiniteSubsetInduction
<1> QED
  BY <1>2 DEF G

(***************************************************************************)
(* Two partial sums of the same function agree wherever both are defined.  *)
(***************************************************************************)
LEMMA PartialSumUnique ==
  ASSUME NEW f, NEW A, NEW B, NEW g, NEW h,
         IsPartialSum(g, f, A), IsPartialSum(h, f, B),
         NEW S, IsFiniteSet(S), S \subseteq A, S \subseteq B
  PROVE  g[S] = h[S]
<1> DEFINE G == {T \in SUBSET S : g[T] = h[T]}
<1>1. ASSUME NEW T \in SUBSET S, \A U \in SUBSET T : U # T => U \in G
      PROVE  T \in G
  <2>1. CASE T = {}
    BY <2>1 DEF IsPartialSum
  <2>2. CASE T # {}
    <3> DEFINE c == CHOOSE x \in T : TRUE
    <3>1. c \in T
      BY <2>2
    <3> HIDE DEF c
    <3>2. T \ {c} \in SUBSET T /\ T \ {c} # T
      BY <3>1
    <3>3. g[T \ {c}] = h[T \ {c}]
      BY <1>1, <3>2
    <3>4. g[T] = f[c] + g[T \ {c}]
      BY <2>2 DEF IsPartialSum, c
    <3>5. h[T] = f[c] + h[T \ {c}]
      BY <2>2 DEF IsPartialSum, c
    <3> QED
      BY <3>3, <3>4, <3>5
  <2> QED
    BY <2>1, <2>2
<1> HIDE DEF G
<1>2. S \in G
  BY <1>1, FiniteSubsetInduction
<1> QED
  BY <1>2 DEF G

(***************************************************************************)
(* Every function has a partial sum over every finite set.                 *)
(***************************************************************************)
LEMMA PartialSumExists ==
  ASSUME NEW f, NEW S, IsFiniteSet(S)
  PROVE  \E h : IsPartialSum(h, f, S)
<1> DEFINE G == {T \in SUBSET S : \E h : IsPartialSum(h, f, T)}
           H(T) == CHOOSE h : IsPartialSum(h, f, T)
<1>1. ASSUME NEW T \in SUBSET S, \A U \in SUBSET T : U # T => U \in G
      PROVE  T \in G
  <2>1. \A U \in SUBSET T : U # T => IsPartialSum(H(U), f, U)
    BY <1>1
  <2> HIDE DEF H
  <2> DEFINE val(s) == IF s = T THEN f[CHOOSE x \in s : TRUE]
                                      + H(s \ {CHOOSE x \in s : TRUE})[s \ {CHOOSE x \in s : TRUE}]
                       ELSE H(s)[s]
             g == [s \in SUBSET T |-> IF s = {} THEN 0 ELSE val(s)]
  <2>2. ASSUME NEW s \in SUBSET T, s # {}
        PROVE  g[s] = f[CHOOSE x \in s : TRUE] + g[s \ {CHOOSE x \in s : TRUE}]
    <3> DEFINE c == CHOOSE x \in s : TRUE
               r == s \ {c}
    <3>1. c \in s
      BY <2>2
    <3> HIDE DEF c
    <3>2. r \in SUBSET T /\ r # T /\ r # s /\ r \in SUBSET s
      BY <3>1
    <3>3. IsPartialSum(H(r), f, r)
      BY <2>1, <3>2
    <3>4. g[r] = H(r)[r]
      <4>1. CASE r = {}
        BY <4>1, <3>3, <3>2 DEF IsPartialSum
      <4>2. CASE r # {}
        BY <4>2, <3>2
      <4> QED
        BY <4>1, <4>2
    <3>5. g[s] = f[c] + H(r)[r]
      <4>1. CASE s = T
        BY <4>1, <2>2 DEF c
      <4>2. CASE s # T
        <5>1. IsPartialSum(H(s), f, s)
          BY <2>1, <4>2
        <5>2. g[s] = H(s)[s]
          BY <4>2, <2>2
        <5>3. H(s)[s] = f[c] + H(s)[r]
          <6>1. ASSUME NEW h, IsPartialSum(h, f, s)
                PROVE  h[s] = f[c] + h[r]
            BY <2>2, <6>1 DEF IsPartialSum, c
          <6> QED
            BY <5>1, <6>1
        <5>4. IsFiniteSet(r)
          BY <3>2, FS_Subset
        <5>5. H(s)[r] = H(r)[r]
          BY <5>1, <3>3, <3>2, <5>4, PartialSumUnique
        <5> QED
          BY <5>2, <5>3, <5>5
      <4> QED
        BY <4>1, <4>2
    <3> HIDE DEF g, r
    <3>6. g[s] = f[c] + g[r]
      BY <3>4, <3>5
    <3> QED
      BY <3>6 DEF c, r
  <2>3. g[{}] = 0
    OBVIOUS
  <2>4. IsPartialSum(g, f, T)
    <3>1. g = [s \in SUBSET T |-> g[s]]
      OBVIOUS
    <3> HIDE DEF g
    <3>2. \A s \in SUBSET T : g[s] = IF s = {} THEN 0
              ELSE f[CHOOSE x \in s : TRUE] + g[s \ {CHOOSE x \in s : TRUE}]
      BY <2>2, <2>3
    <3> QED
      BY <3>1, <3>2 DEF IsPartialSum
  <2> QED
    BY <2>4
<1> HIDE DEF G
<1>2. S \in G
  BY <1>1, FiniteSubsetInduction
<1> QED
  BY <1>2 DEF G

(***************************************************************************)
(* The sum over the empty set is 0; over any other finite set it is the    *)
(* value at the chosen index plus the sum over the rest.                   *)
(***************************************************************************)
LEMMA SumUnfold ==
  ASSUME NEW f, NEW S, IsFiniteSet(S)
  PROVE  \E h : /\ IsPartialSum(h, f, S)
                /\ SumFunctionOnSet(f, S) = h[S]
<1> DEFINE h == CHOOSE h : IsPartialSum(h, f, S)
<1>1. SumFunctionOnSet(f, S) = h[S]
  BY DEF SumFunctionOnSet, FoldFunctionOnSet, MapThenFoldSet, IsPartialSum
<1>2. IsPartialSum(h, f, S)
  BY PartialSumExists
<1> QED
  BY <1>1, <1>2

LEMMA SumEmpty ==
  ASSUME NEW f
  PROVE  SumFunctionOnSet(f, {}) = 0
<1>1. IsFiniteSet({})
  BY FS_EmptySet
<1>2. PICK h : IsPartialSum(h, f, {}) /\ SumFunctionOnSet(f, {}) = h[{}]
  BY <1>1, SumUnfold
<1> QED
  BY <1>2 DEF IsPartialSum

LEMMA SumChosen ==
  ASSUME NEW f, NEW S, IsFiniteSet(S), S # {}
  PROVE  \E c \in S : SumFunctionOnSet(f, S) = f[c] + SumFunctionOnSet(f, S \ {c})
<1> DEFINE c == CHOOSE x \in S : TRUE
           r == S \ {c}
<1>1. c \in S
  OBVIOUS
<1>2. PICK h : IsPartialSum(h, f, S) /\ SumFunctionOnSet(f, S) = h[S]
  BY SumUnfold
<1>3. h[S] = f[c] + h[r]
  BY <1>2 DEF IsPartialSum
<1> HIDE DEF c
<1>4. IsFiniteSet(r)
  BY FS_Subset
<1>5. PICK g : IsPartialSum(g, f, r) /\ SumFunctionOnSet(f, r) = g[r]
  BY <1>4, SumUnfold
<1>6. h[r] = g[r]
  BY <1>2, <1>5, <1>4, PartialSumUnique
<1> QED
  BY <1>1, <1>2, <1>3, <1>5, <1>6

(***************************************************************************)
(* A sum of naturals is a natural.                                         *)
(***************************************************************************)
LEMMA SumNat ==
  ASSUME NEW S, IsFiniteSet(S), NEW f, \A x \in S : f[x] \in Nat
  PROVE  SumFunctionOnSet(f, S) \in Nat
<1> DEFINE G == {T \in SUBSET S : SumFunctionOnSet(f, T) \in Nat}
<1>1. ASSUME NEW T \in SUBSET S, \A U \in SUBSET T : U # T => U \in G
      PROVE  T \in G
  <2>1. CASE T = {}
    BY <2>1, SumEmpty
  <2>2. CASE T # {}
    <3>1. PICK c \in T : SumFunctionOnSet(f, T) = f[c] + SumFunctionOnSet(f, T \ {c})
      BY <2>2, FS_Subset, SumChosen
    <3>2. SumFunctionOnSet(f, T \ {c}) \in Nat
      BY <1>1
    <3> QED
      BY <3>1, <3>2
  <2> QED
    BY <2>1, <2>2
<1> HIDE DEF G
<1>2. S \in G
  BY <1>1, FiniteSubsetInduction
<1> QED
  BY <1>2 DEF G

(***************************************************************************)
(* Any index can be taken out of a sum first: the order does not matter.   *)
(***************************************************************************)
LEMMA SumRemove ==
  ASSUME NEW S, IsFiniteSet(S), NEW f, \A x \in S : f[x] \in Nat, NEW e \in S
  PROVE  SumFunctionOnSet(f, S) = f[e] + SumFunctionOnSet(f, S \ {e})
<1> DEFINE G == {T \in SUBSET S : \A x \in T :
                   SumFunctionOnSet(f, T) = f[x] + SumFunctionOnSet(f, T \ {x})}
<1>1. ASSUME NEW T \in SUBSET S, \A U \in SUBSET T : U # T => U \in G
      PROVE  T \in G
  <2>1. SUFFICES ASSUME NEW x \in T
                 PROVE  SumFunctionOnSet(f, T) = f[x] + SumFunctionOnSet(f, T \ {x})
    OBVIOUS
  <2>2. IsFiniteSet(T)
    BY FS_Subset
  <2>3. PICK c \in T : SumFunctionOnSet(f, T) = f[c] + SumFunctionOnSet(f, T \ {c})
    BY <2>1, <2>2, SumChosen
  <2>4. CASE x = c
    BY <2>3, <2>4
  <2>5. CASE x # c
    <3>1. T \ {c} \in G /\ T \ {x} \in G
      BY <1>1, <2>1, <2>3
    <3>2. SumFunctionOnSet(f, T \ {c}) = f[x] + SumFunctionOnSet(f, (T \ {c}) \ {x})
      BY <3>1, <2>5, <2>1
    <3>3. SumFunctionOnSet(f, T \ {x}) = f[c] + SumFunctionOnSet(f, (T \ {x}) \ {c})
      BY <3>1, <2>5, <2>3
    <3>4. (T \ {c}) \ {x} = (T \ {x}) \ {c}
      OBVIOUS
    <3>5. SumFunctionOnSet(f, (T \ {x}) \ {c}) \in Nat
      <4>1. IsFiniteSet((T \ {x}) \ {c})
        BY <2>2, FS_Subset
      <4> QED
        BY <4>1, SumNat
    <3>6. f[x] \in Nat /\ f[c] \in Nat
      BY <2>1, <2>3
    <3> HIDE DEF G
    <3> QED
      BY <2>3, <3>2, <3>3, <3>4, <3>5, <3>6
  <2> QED
    BY <2>4, <2>5
<1> HIDE DEF G
<1>2. S \in G
  BY <1>1, FiniteSubsetInduction
<1> QED
  BY <1>2 DEF G

(***************************************************************************)
(* The sum depends only on the values at the indices, and is monotone.     *)
(***************************************************************************)
LEMMA SumMonotone ==
  ASSUME NEW S, IsFiniteSet(S), NEW f, NEW g,
         \A x \in S : f[x] \in Nat /\ g[x] \in Nat /\ f[x] <= g[x]
  PROVE  SumFunctionOnSet(f, S) <= SumFunctionOnSet(g, S)
<1> DEFINE G == {T \in SUBSET S : SumFunctionOnSet(f, T) <= SumFunctionOnSet(g, T)}
<1>1. ASSUME NEW T \in SUBSET S, \A U \in SUBSET T : U # T => U \in G
      PROVE  T \in G
  <2>1. CASE T = {}
    BY <2>1, SumEmpty
  <2>2. CASE T # {}
    <3>1. IsFiniteSet(T)
      BY FS_Subset
    <3>2. PICK c \in T : TRUE
      BY <2>2
    <3>3. SumFunctionOnSet(f, T) = f[c] + SumFunctionOnSet(f, T \ {c})
      BY <3>1, <3>2, SumRemove
    <3>4. SumFunctionOnSet(g, T) = g[c] + SumFunctionOnSet(g, T \ {c})
      BY <3>1, <3>2, SumRemove
    <3>5. SumFunctionOnSet(f, T \ {c}) <= SumFunctionOnSet(g, T \ {c})
      BY <1>1, <3>2
    <3>6. IsFiniteSet(T \ {c})
      BY <3>1, FS_Subset
    <3>7. SumFunctionOnSet(f, T \ {c}) \in Nat /\ SumFunctionOnSet(g, T \ {c}) \in Nat
      BY <3>6, SumNat
    <3> QED
      BY <3>2, <3>3, <3>4, <3>5, <3>7
  <2> QED
    BY <2>1, <2>2
<1> HIDE DEF G
<1>2. S \in G
  BY <1>1, FiniteSubsetInduction
<1> QED
  BY <1>2 DEF G

LEMMA SumSame ==
  ASSUME NEW S, IsFiniteSet(S), NEW f, NEW g,
         \A x \in S : f[x] \in Nat /\ f[x] = g[x]
  PROVE  SumFunctionOnSet(f, S) = SumFunctionOnSet(g, S)
<1>1. SumFunctionOnSet(f, S) <= SumFunctionOnSet(g, S)
  BY SumMonotone
<1>2. SumFunctionOnSet(g, S) <= SumFunctionOnSet(f, S)
  BY SumMonotone
<1>3. SumFunctionOnSet(f, S) \in Nat /\ SumFunctionOnSet(g, S) \in Nat
  BY SumNat
<1> QED
  BY <1>1, <1>2, <1>3

(***************************************************************************)
(* A new index adds its value.                                             *)
(***************************************************************************)
LEMMA SumAdd ==
  ASSUME NEW S, IsFiniteSet(S), NEW e, e \notin S, NEW f,
         \A x \in S \cup {e} : f[x] \in Nat
  PROVE  SumFunctionOnSet(f, S \cup {e}) = SumFunctionOnSet(f, S) + f[e]
<1>1. IsFiniteSet(S \cup {e})
  BY FS_AddElement
<1>2. SumFunctionOnSet(f, S \cup {e}) = f[e] + SumFunctionOnSet(f, (S \cup {e}) \ {e})
  BY <1>1, SumRemove
<1>3. (S \cup {e}) \ {e} = S
  OBVIOUS
<1>4. SumFunctionOnSet(f, S \cup {e}) = f[e] + SumFunctionOnSet(f, S)
  BY <1>2, <1>3
<1>5. SumFunctionOnSet(f, S) \in Nat /\ f[e] \in Nat
  BY SumNat
<1> QED
  BY <1>4, <1>5

LEMMA SumZero ==
  ASSUME NEW S, IsFiniteSet(S), NEW f, \A x \in S : f[x] = 0
  PROVE  SumFunctionOnSet(f, S) = 0
<1> DEFINE G == {T \in SUBSET S : SumFunctionOnSet(f, T) = 0}
<1>1. ASSUME NEW T \in SUBSET S, \A U \in SUBSET T : U # T => U \in G
      PROVE  T \in G
  <2>1. CASE T = {}
    BY <2>1, SumEmpty
  <2>2. CASE T # {}
    <3>1. PICK c \in T : SumFunctionOnSet(f, T) = f[c] + SumFunctionOnSet(f, T \ {c})
      BY <2>2, FS_Subset, SumChosen
    <3>2. SumFunctionOnSet(f, T \ {c}) = 0
      BY <1>1
    <3> QED
      BY <3>1, <3>2
  <2> QED
    BY <2>1, <2>2
<1> HIDE DEF G
<1>2. S \in G
  BY <1>1, FiniteSubsetInduction
<1> QED
  BY <1>2 DEF G

(***************************************************************************)
(* The sum over a disjoint union, and hence over a subset.                 *)
(***************************************************************************)
LEMMA SumDisjointUnion ==
  ASSUME NEW A, IsFiniteSet(A), NEW S, IsFiniteSet(S), A \cap S = {}, NEW f,
         \A x \in A \cup S : f[x] \in Nat
  PROVE  SumFunctionOnSet(f, A \cup S) = SumFunctionOnSet(f, A) + SumFunctionOnSet(f, S)
<1> DEFINE G == {T \in SUBSET S :
                   SumFunctionOnSet(f, A \cup T) = SumFunctionOnSet(f, A) + SumFunctionOnSet(f, T)}
<1>0. SumFunctionOnSet(f, A) \in Nat
  BY SumNat
<1>1. ASSUME NEW T \in SUBSET S, \A U \in SUBSET T : U # T => U \in G
      PROVE  T \in G
  <2>1. CASE T = {}
    <3>1. A \cup T = A
      BY <2>1
    <3>2. SumFunctionOnSet(f, T) = 0
      BY <2>1, SumEmpty
    <3> QED
      BY <1>0, <3>1, <3>2
  <2>2. CASE T # {}
    <3>1. PICK c \in T : TRUE
      BY <2>2
    <3>2. IsFiniteSet(T) /\ IsFiniteSet(T \ {c}) /\ IsFiniteSet(A \cup T)
      BY FS_Subset, FS_Union
    <3>3. SumFunctionOnSet(f, T) = f[c] + SumFunctionOnSet(f, T \ {c})
      BY <3>1, <3>2, SumRemove
    <3>4. SumFunctionOnSet(f, A \cup T) = f[c] + SumFunctionOnSet(f, (A \cup T) \ {c})
      BY <3>1, <3>2, SumRemove
    <3>5. (A \cup T) \ {c} = A \cup (T \ {c})
      BY <3>1
    <3>6. SumFunctionOnSet(f, A \cup (T \ {c}))
            = SumFunctionOnSet(f, A) + SumFunctionOnSet(f, T \ {c})
      BY <1>1, <3>1
    <3>7. SumFunctionOnSet(f, T \ {c}) \in Nat /\ f[c] \in Nat
      BY <3>1, <3>2, SumNat
    <3>8. SumFunctionOnSet(f, A \cup T)
            = f[c] + (SumFunctionOnSet(f, A) + SumFunctionOnSet(f, T \ {c}))
      BY <3>4, <3>5, <3>6
    <3>9. SumFunctionOnSet(f, A \cup T) = SumFunctionOnSet(f, A) + SumFunctionOnSet(f, T)
      BY <1>0, <3>3, <3>7, <3>8
    <3> QED
      BY <3>9
  <2> QED
    BY <2>1, <2>2
<1> HIDE DEF G
<1>2. S \in G
  BY <1>1, FiniteSubsetInduction
<1> QED
  BY <1>2 DEF G

LEMMA SumSubset ==
  ASSUME NEW S, IsFiniteSet(S), NEW T \in SUBSET S, NEW f, \A x \in S : f[x] \in Nat
  PROVE  SumFunctionOnSet(f, T) <= SumFunctionOnSet(f, S)
<1>1. IsFiniteSet(T) /\ IsFiniteSet(S \ T)
  BY FS_Subset
<1>2. S = T \cup (S \ T) /\ T \cap (S \ T) = {}
  OBVIOUS
<1>3. SumFunctionOnSet(f, T \cup (S \ T))
        = SumFunctionOnSet(f, T) + SumFunctionOnSet(f, S \ T)
  BY <1>1, <1>2, SumDisjointUnion
<1>4. SumFunctionOnSet(f, T) \in Nat /\ SumFunctionOnSet(f, S \ T) \in Nat
  BY <1>1, SumNat
<1>5. SumFunctionOnSet(f, S) = SumFunctionOnSet(f, T) + SumFunctionOnSet(f, S \ T)
  BY <1>2, <1>3
<1> QED
  BY <1>4, <1>5

LEMMA SumMember ==
  ASSUME NEW S, IsFiniteSet(S), NEW e \in S, NEW f, \A x \in S : f[x] \in Nat
  PROVE  f[e] <= SumFunctionOnSet(f, S)
<1>1. SumFunctionOnSet(f, S) = f[e] + SumFunctionOnSet(f, S \ {e})
  BY SumRemove
<1>2. IsFiniteSet(S \ {e})
  BY FS_Subset
<1>3. SumFunctionOnSet(f, S \ {e}) \in Nat
  BY <1>2, SumNat
<1> QED
  BY <1>1, <1>3

(***************************************************************************)
(* How a sum changes when one entry is added to, or changed in, what is    *)
(* summed, and the sum of a pointwise sum.                                 *)
(***************************************************************************)
LEMMA SumExtend ==
  ASSUME NEW S, IsFiniteSet(S), NEW e, e \notin S, NEW f, NEW g,
         \A x \in S : f[x] \in Nat /\ g[x] = f[x], g[e] \in Nat
  PROVE  SumFunctionOnSet(g, S \cup {e}) = SumFunctionOnSet(f, S) + g[e]
<1>1. \A x \in S \cup {e} : g[x] \in Nat
  OBVIOUS
<1>2. SumFunctionOnSet(g, S \cup {e}) = SumFunctionOnSet(g, S) + g[e]
  BY <1>1, SumAdd
<1>3. SumFunctionOnSet(f, S) = SumFunctionOnSet(g, S)
  BY SumSame
<1> QED
  BY <1>2, <1>3

LEMMA SumUpdate ==
  ASSUME NEW S, IsFiniteSet(S), NEW e \in S, NEW f, NEW g,
         \A x \in S : f[x] \in Nat /\ g[x] \in Nat,
         \A x \in S \ {e} : g[x] = f[x]
  PROVE  SumFunctionOnSet(f, S) + g[e] = SumFunctionOnSet(g, S) + f[e]
<1>1. IsFiniteSet(S \ {e})
  BY FS_Subset
<1>2. SumFunctionOnSet(f, S) = f[e] + SumFunctionOnSet(f, S \ {e})
  BY SumRemove
<1>3. SumFunctionOnSet(g, S) = g[e] + SumFunctionOnSet(g, S \ {e})
  BY SumRemove
<1>4. SumFunctionOnSet(f, S \ {e}) = SumFunctionOnSet(g, S \ {e})
  BY <1>1, SumSame
<1>5. SumFunctionOnSet(f, S \ {e}) \in Nat
  BY <1>1, SumNat
<1> QED
  BY <1>2, <1>3, <1>4, <1>5

LEMMA SumPlus ==
  ASSUME NEW S, IsFiniteSet(S), NEW f, NEW g, NEW h,
         \A x \in S : f[x] \in Nat /\ g[x] \in Nat /\ h[x] = f[x] + g[x]
  PROVE  SumFunctionOnSet(h, S) = SumFunctionOnSet(f, S) + SumFunctionOnSet(g, S)
<1> DEFINE G == {T \in SUBSET S :
                   SumFunctionOnSet(h, T) = SumFunctionOnSet(f, T) + SumFunctionOnSet(g, T)}
<1>1. ASSUME NEW T \in SUBSET S, \A U \in SUBSET T : U # T => U \in G
      PROVE  T \in G
  <2>1. CASE T = {}
    BY <2>1, SumEmpty
  <2>2. CASE T # {}
    <3>1. PICK c \in T : TRUE
      BY <2>2
    <3> DEFINE R == T \ {c}
    <3>2. IsFiniteSet(T) /\ IsFiniteSet(R)
      BY FS_Subset
    <3>3. \A x \in T : f[x] \in Nat /\ g[x] \in Nat /\ h[x] \in Nat
      OBVIOUS
    <3>4. /\ SumFunctionOnSet(f, T) = f[c] + SumFunctionOnSet(f, R)
          /\ SumFunctionOnSet(g, T) = g[c] + SumFunctionOnSet(g, R)
          /\ SumFunctionOnSet(h, T) = h[c] + SumFunctionOnSet(h, R)
      BY <3>1, <3>2, <3>3, SumRemove
    <3>5. SumFunctionOnSet(f, R) \in Nat /\ SumFunctionOnSet(g, R) \in Nat
      BY <3>2, <3>3, SumNat
    <3>6. SumFunctionOnSet(h, R) = SumFunctionOnSet(f, R) + SumFunctionOnSet(g, R)
      BY <1>1, <3>1
    <3>7. h[c] = f[c] + g[c] /\ f[c] \in Nat /\ g[c] \in Nat
      BY <3>1
    <3> HIDE DEF R
    <3>8. SumFunctionOnSet(h, T) = SumFunctionOnSet(f, T) + SumFunctionOnSet(g, T)
      BY <3>4, <3>5, <3>6, <3>7
    <3> QED
      BY <3>8
  <2> QED
    BY <2>1, <2>2
<1> HIDE DEF G
<1>2. S \in G
  BY <1>1, FiniteSubsetInduction
<1> QED
  BY <1>2 DEF G

(***************************************************************************)
(* Arithmetic of proportional shares.                                      *)
(***************************************************************************)

\* Integer division rounds down.
LEMMA DivisionRoundsDown ==
  ASSUME NEW a \in Nat, NEW b \in Nat, b # 0
  PROVE  (a \div b) \in Nat /\ (a \div b) * b <= a
OBVIOUS

LEMMA CancelFactor ==
  ASSUME NEW x \in Nat, NEW t \in Nat, NEW b \in Nat, b # 0, x * b <= t * b
  PROVE  x <= t
OBVIOUS

LEMMA ScaleMonotone ==
  ASSUME NEW x \in Nat, NEW y \in Nat, NEW t \in Nat, x <= y
  PROVE  t * x \in Nat /\ t * y \in Nat /\ t * x <= t * y
OBVIOUS

LEMMA Distribute ==
  ASSUME NEW x \in Nat, NEW y \in Nat, NEW t \in Nat
  PROVE  t * (x + y) = t * x + t * y /\ (x + y) * t = x * t + y * t
OBVIOUS

(***************************************************************************)
(* Elements, extension and update of a sequence.                           *)
(***************************************************************************)
LEMMA SeqElement ==
  ASSUME NEW S, NEW s \in Seq(S), NEW i \in DOMAIN s
  PROVE  s[i] \in S /\ DOMAIN s = 1..Len(s) /\ Len(s) \in Nat
OBVIOUS

LEMMA SeqAppend ==
  ASSUME NEW S, NEW s \in Seq(S), NEW x \in S
  PROVE  /\ Append(s, x) \in Seq(S)
         /\ Len(Append(s, x)) = Len(s) + 1
         /\ DOMAIN Append(s, x) = (DOMAIN s) \cup {Len(s) + 1}
         /\ Len(s) + 1 \notin DOMAIN s
         /\ \A i \in DOMAIN s : Append(s, x)[i] = s[i]
         /\ Append(s, x)[Len(s) + 1] = x
         /\ IsFiniteSet(DOMAIN s)
<1>1. Len(s) \in Nat /\ DOMAIN s = 1..Len(s)
  OBVIOUS
<1>2. IsFiniteSet(1..Len(s))
  BY <1>1, FS_Interval
<1>3. 1..(Len(s) + 1) = (1..Len(s)) \cup {Len(s) + 1}
  BY <1>1
<1>4. Append(s, x) \in Seq(S) /\ Len(Append(s, x)) = Len(s) + 1
  OBVIOUS
<1>5. DOMAIN Append(s, x) = 1..(Len(s) + 1)
  BY <1>4
<1>6. \A i \in 1..Len(s) : Append(s, x)[i] = s[i]
  OBVIOUS
<1>7. Append(s, x)[Len(s) + 1] = x
  OBVIOUS
<1> QED
  BY <1>1, <1>2, <1>3, <1>4, <1>5, <1>6, <1>7

LEMMA SeqUpdate ==
  ASSUME NEW S, NEW s \in Seq(S), NEW i \in DOMAIN s, NEW x \in S
  PROVE  /\ [s EXCEPT ![i] = x] \in Seq(S)
         /\ Len([s EXCEPT ![i] = x]) = Len(s)
         /\ DOMAIN [s EXCEPT ![i] = x] = DOMAIN s
         /\ [s EXCEPT ![i] = x][i] = x
         /\ \A j \in DOMAIN s \ {i} : [s EXCEPT ![i] = x][j] = s[j]
OBVIOUS
=============================================================================
