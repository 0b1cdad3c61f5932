---------------------------- MODULE SumTheorems ----------------------------
(***************************************************************************)
(* What the sum of a function over a finite set is: MapThenSumSet of the   *)
(* community modules takes the elements in the order in which CHOOSE gives *)
(* them, by a recursive function on the subsets.  That function exists,    *)
(* any element may be taken first, and so a sum changes with its set and   *)
(* with its terms as one expects.                                          *)
(*                                                                         *)
(* The induction principles of the library have an operator as parameter;  *)
(* here induction is on a set that is shown to have every subset.          *)
(***************************************************************************)
EXTENDS Integers, FiniteSets, FiniteSetTheorems, WellFoundedInduction, TLAPS

\* The element that is taken first.
Pick(T) == CHOOSE x \in T : TRUE

\* G adds up the terms w of every subset of S, as MapThenSumSet does.
IsSum(G, w, S) ==
    G = [T \in SUBSET S |-> IF T = {} THEN 0 ELSE w[Pick(T)] + G[T \ {Pick(T)}]]

Sum(w, S) == (CHOOSE G : IsSum(G, w, S))[S]

Terms(w, S) == \A x \in S : w[x] \in Int

-----------------------------------------------------------------------------
LEMMA Picked == ASSUME NEW T, T # {} PROVE Pick(T) \in T
  BY DEF Pick

(* Induction on the natural numbers. *)
LEMMA CountingInduction ==
    ASSUME NEW Levels, 0 \in Levels, \A n \in Levels : n + 1 \in Levels
    PROVE  Nat \subseteq Levels
<1> DEFINE Missing == Nat \ Levels
           R == OpToRel(<, Nat)
<1> SUFFICES ASSUME Missing # {} PROVE FALSE
  OBVIOUS
<1>1. IsWellFoundedOn(R, Nat)
  BY NatLessThanWellFounded
<1>2. \A k, m \in Nat : k < m => <<k, m>> \in R
  BY DEF OpToRel
<1>3. Missing \subseteq Nat
  OBVIOUS
<1> HIDE DEF R
<1>4. \E m \in Missing : \A k \in Missing : ~(<<k, m>> \in R)
  <2> HIDE DEF Missing
  <2> QED
    BY <1>1, <1>3, WFMin
<1>5. PICK m \in Missing : \A k \in Missing : <<k, m>> \notin R
  BY <1>4
<1>6. m # 0 /\ m - 1 \in Nat /\ m - 1 < m
  BY <1>5
<1>7. m - 1 \in Levels
  BY <1>2, <1>5, <1>6
<1>8. (m - 1) + 1 \in Levels
  BY <1>7
<1> QED
  BY <1>5, <1>8

(* Induction on the subsets of a finite set: what holds of a set when it   *)
(* holds of the sets with one element less, and of the empty set, holds of *)
(* all.                                                                    *)
LEMMA SubsetInduction ==
    ASSUME NEW S, IsFiniteSet(S), NEW Good,
           {} \in Good,
           \A T \in SUBSET S : T # {} /\ (\A x \in T : T \ {x} \in Good) => T \in Good
    PROVE  SUBSET S \subseteq Good
<1> DEFINE Bad == (SUBSET S) \ Good
           R == StrictSubsetOrdering(S)
<1> SUFFICES ASSUME Bad # {} PROVE FALSE
  OBVIOUS
<1>1. IsWellFoundedOn(R, SUBSET S)
  BY FS_StrictSubsetOrderingWellFounded, FS_FiniteSubsetsOfFinite
<1> HIDE DEF R
<1>2. Bad \subseteq SUBSET S
  OBVIOUS
<1>3. \E T \in Bad : \A U \in Bad : ~(<<U, T>> \in R)
  <2> HIDE DEF Bad
  <2> QED
    BY <1>1, <1>2, WFMin
<1>4. PICK T \in Bad : \A U \in Bad : <<U, T>> \notin R
  BY <1>3
<1>5. T # {} /\ \A x \in T : T \ {x} \in SUBSET S /\ T \ {x} # T
  BY <1>4
<1>6. \A x \in T : <<T \ {x}, T>> \in R
  BY <1>4, <1>5 DEF R, StrictSubsetOrdering
<1>7. \A x \in T : T \ {x} \in Good
  BY <1>4, <1>5, <1>6
<1> QED
  BY <1>4, <1>5, <1>7

-----------------------------------------------------------------------------
(* The recursive function exists.                                          *)

(* On the subsets of at most n elements, it is the one below.              *)
Small(S, n) == {T \in SUBSET S : Cardinality(T) <= n}
SumUpTo(G, w, S, n) ==
    G = [T \in Small(S, n) |-> IF T = {} THEN 0 ELSE w[Pick(T)] + G[T \ {Pick(T)}]]

LEMMA SmallFacts ==
    ASSUME NEW S, IsFiniteSet(S), NEW n \in Nat
    PROVE  /\ Small(S, n) \subseteq Small(S, n + 1)
           /\ \A T \in Small(S, n + 1) : T # {} => T \ {Pick(T)} \in Small(S, n)
           /\ \A T \in Small(S, 0) : T = {}
<1>1. ASSUME NEW T \in SUBSET S
      PROVE  /\ IsFiniteSet(T) /\ Cardinality(T) \in Nat
             /\ Cardinality(T) = 0 <=> T = {}
             /\ \A x \in T : Cardinality(T \ {x}) = Cardinality(T) - 1
  BY FS_Subset, FS_CardinalityType, FS_EmptySet, FS_RemoveElement
<1>2. ASSUME NEW T \in Small(S, n + 1), T # {} PROVE T \ {Pick(T)} \in Small(S, n)
  BY <1>1, <1>2, Picked DEF Small
<1> QED
  BY <1>1, <1>2 DEF Small

LEMMA SumExists ==
    ASSUME NEW S, IsFiniteSet(S), NEW w
    PROVE  \E G : IsSum(G, w, S)
<1> DEFINE Levels == {n \in Nat : \E G : SumUpTo(G, w, S, n)}
<1>1. 0 \in Levels
  <2> DEFINE G == [T \in Small(S, 0) |-> 0]
  <2>1. SumUpTo(G, w, S, 0)
    BY SmallFacts DEF SumUpTo
  <2> QED
    BY <2>1
<1>2. ASSUME NEW n \in Levels PROVE n + 1 \in Levels
  <2>1. PICK G : SumUpTo(G, w, S, n)
    OBVIOUS
  <2> DEFINE H == [T \in Small(S, n + 1) |-> IF T = {} THEN 0 ELSE w[Pick(T)] + G[T \ {Pick(T)}]]
  <2>2. \A T \in Small(S, n) : H[T] = G[T]
    BY <2>1, SmallFacts DEF SumUpTo
  <2>3. \A T \in Small(S, n + 1) : T # {} => H[T \ {Pick(T)}] = G[T \ {Pick(T)}]
    <3> HIDE DEF H
    <3> QED
      BY <2>2, SmallFacts
  <2>4. SumUpTo(H, w, S, n + 1)
    BY <2>3 DEF SumUpTo
  <2> QED
    BY <2>4
<1>3. Cardinality(S) \in Levels
  <2> HIDE DEF Levels
  <2>1. Nat \subseteq Levels
    BY <1>1, <1>2, CountingInduction
  <2> QED
    BY <2>1, FS_CardinalityType
<1>4. PICK G : SumUpTo(G, w, S, Cardinality(S))
  BY <1>3
<1>5. Small(S, Cardinality(S)) = SUBSET S
  BY FS_Subset DEF Small
<1> QED
  BY <1>4, <1>5 DEF IsSum, SumUpTo
-----------------------------------------------------------------------------
(* Any element may be taken first, and nothing else adds up so.            *)

Additive(G, w, S) ==
    /\ G[{}] = 0
    /\ \A T \in SUBSET S : G[T] \in Int /\ \A x \in T : G[T] = w[x] + G[T \ {x}]

LEMMA SumIsAdditive ==
    ASSUME NEW S, IsFiniteSet(S), NEW w, Terms(w, S), NEW G, IsSum(G, w, S)
    PROVE  Additive(G, w, S)
<1>1. G[{}] = 0
  BY DEF IsSum
<1>2. ASSUME NEW T \in SUBSET S, T # {}
      PROVE  /\ Pick(T) \in T /\ w[Pick(T)] \in Int
             /\ G[T] = w[Pick(T)] + G[T \ {Pick(T)}]
  BY <1>2, Picked DEF IsSum, Terms
<1>3. \A T \in SUBSET S : G[T] \in Int
  <2> DEFINE Good == {T \in SUBSET S : G[T] \in Int}
  <2>1. SUBSET S \subseteq Good
    <3>1. {} \in Good
      BY <1>1
    <3>2. ASSUME NEW T \in SUBSET S, T # {}, \A x \in T : T \ {x} \in Good
          PROVE  T \in Good
      <4>1. Pick(T) \in T /\ w[Pick(T)] \in Int /\ G[T] = w[Pick(T)] + G[T \ {Pick(T)}]
        BY <1>2, <3>2
      <4>2. G[T \ {Pick(T)}] \in Int
        BY <3>2, <4>1
      <4> QED
        BY <4>1, <4>2
    <3> HIDE DEF Good
    <3> QED
      BY <3>1, <3>2, SubsetInduction
  <2> QED
    BY <2>1
<1> DEFINE Good == {T \in SUBSET S : \A x \in T : G[T] = w[x] + G[T \ {x}]}
<1>4. {} \in Good
  OBVIOUS
<1>5. ASSUME NEW T \in SUBSET S, T # {}, \A x \in T : T \ {x} \in Good
      PROVE  T \in Good
  <2> DEFINE c == Pick(T)
  <2>1. c \in T /\ w[c] \in Int /\ G[T] = w[c] + G[T \ {c}]
    BY <1>2, <1>5
  <2> HIDE DEF c
  <2>2. ASSUME NEW x \in T, x # c PROVE G[T] = w[x] + G[T \ {x}]
    <3> DEFINE U == (T \ {c}) \ {x}
    <3>1. U = (T \ {x}) \ {c} /\ x \in T \ {c} /\ c \in T \ {x}
      BY <2>1, <2>2
    <3>2. G[T \ {c}] = w[x] + G[U]
      BY <1>5, <2>1, <3>1
    <3>3. G[T \ {x}] = w[c] + G[U]
      BY <1>5, <2>2, <3>1
    <3>4. w[x] \in Int /\ G[U] \in Int
      BY <1>3 DEF Terms
    <3> HIDE DEF U
    <3> QED
      BY <2>1, <3>2, <3>3, <3>4
  <2> QED
    BY <2>1, <2>2
<1>6. SUBSET S \subseteq Good
  <2> HIDE DEF Good
  <2> QED
    BY <1>4, <1>5, SubsetInduction
<1> QED
  BY <1>1, <1>3, <1>6 DEF Additive

LEMMA AdditiveIsUnique ==
    ASSUME NEW S, IsFiniteSet(S), NEW w, NEW v, Terms(w, S), \A x \in S : w[x] = v[x],
           NEW G, Additive(G, w, S), NEW H, Additive(H, v, S)
    PROVE  G[S] = H[S]
<1> DEFINE Good == {T \in SUBSET S : G[T] = H[T]}
<1>1. {} \in Good
  BY DEF Additive
<1>2. ASSUME NEW T \in SUBSET S, T # {}, \A x \in T : T \ {x} \in Good
      PROVE  T \in Good
  <2>1. PICK x \in T : TRUE
    BY <1>2
  <2>2. G[T] = w[x] + G[T \ {x}] /\ H[T] = v[x] + H[T \ {x}]
    BY <2>1 DEF Additive
  <2>3. G[T \ {x}] = H[T \ {x}] /\ w[x] = v[x]
    BY <1>2, <2>1
  <2> QED
    BY <2>2, <2>3
<1> HIDE DEF Good
<1>3. SUBSET S \subseteq Good
  BY <1>1, <1>2, SubsetInduction
<1> QED
  BY <1>3 DEF Good

(* Whatever adds up the terms gives their sum. *)
THEOREM SumIs ==
    ASSUME NEW S, IsFiniteSet(S), NEW w, Terms(w, S), NEW G, Additive(G, w, S)
    PROVE  Sum(w, S) = G[S]
<1> DEFINE H == CHOOSE F : IsSum(F, w, S)
<1>1. IsSum(H, w, S)
  BY SumExists
<1>2. Sum(w, S) = H[S]
  BY DEF Sum
<1> HIDE DEF H
<1>3. Additive(H, w, S)
  BY <1>1, SumIsAdditive
<1>4. H[S] = G[S]
  BY <1>3, AdditiveIsUnique
<1> QED
  BY <1>2, <1>4

-----------------------------------------------------------------------------
(* What the proofs use.                                                    *)

(* The subsets of S have the sums that one function on them has. *)
LEMMA SumsOfSubsets ==
    ASSUME NEW S, IsFiniteSet(S), NEW w, Terms(w, S)
    PROVE  \E G : Additive(G, w, S) /\ \A T \in SUBSET S : Sum(w, T) = G[T]
<1>1. PICK G : IsSum(G, w, S)
  BY SumExists
<1>2. Additive(G, w, S)
  BY <1>1, SumIsAdditive
<1>3. ASSUME NEW T \in SUBSET S PROVE Sum(w, T) = G[T]
  <2>1. IsFiniteSet(T) /\ Terms(w, T) /\ Additive(G, w, T)
    BY <1>2, FS_Subset DEF Terms, Additive
  <2> QED
    BY <2>1, SumIs
<1> QED
  BY <1>2, <1>3

(* The empty sum is zero, and any term may be split off. *)
THEOREM SumFacts ==
    ASSUME NEW S, IsFiniteSet(S), NEW w, Terms(w, S)
    PROVE  /\ Sum(w, {}) = 0
           /\ Sum(w, S) \in Int
           /\ \A x \in S : Sum(w, S) = w[x] + Sum(w, S \ {x})
<1>1. PICK G : Additive(G, w, S) /\ \A T \in SUBSET S : Sum(w, T) = G[T]
  BY SumsOfSubsets
<1> QED
  BY <1>1 DEF Additive

THEOREM SumWithOneMore ==
    ASSUME NEW S, IsFiniteSet(S), NEW w, NEW x, x \notin S, Terms(w, S \union {x})
    PROVE  Sum(w, S \union {x}) = w[x] + Sum(w, S)
<1>1. IsFiniteSet(S \union {x}) /\ (S \union {x}) \ {x} = S /\ x \in S \union {x}
  BY FS_AddElement
<1> QED
  BY <1>1, SumFacts

THEOREM SumOfSameTerms ==
    ASSUME NEW S, IsFiniteSet(S), NEW w, NEW v, Terms(w, S), \A x \in S : w[x] = v[x]
    PROVE  Sum(w, S) = Sum(v, S)
<1>1. Terms(v, S)
  BY DEF Terms
<1>2. PICK G : Additive(G, w, S) /\ \A T \in SUBSET S : Sum(w, T) = G[T]
  BY SumsOfSubsets
<1>3. PICK H : Additive(H, v, S) /\ \A T \in SUBSET S : Sum(v, T) = H[T]
  BY <1>1, SumsOfSubsets
<1>4. G[S] = H[S]
  BY <1>2, <1>3, AdditiveIsUnique
<1> QED
  BY <1>2, <1>3, <1>4

(* The terms may be counted under other names. *)
THEOREM SumOverImage ==
    ASSUME NEW S, IsFiniteSet(S), NEW V, NEW f \in [S -> V],
           \A x, y \in S : f[x] = f[y] => x = y,
           NEW v, Terms(v, {f[x] : x \in S}),
           NEW w, \A x \in S : w[x] = v[f[x]]
    PROVE  Sum(v, {f[x] : x \in S}) = Sum(w, S)
<1> DEFINE Image(T) == {f[x] : x \in T}
<1>1. IsFiniteSet(Image(S))
  <2>1. f \in Surjection(S, Image(S))
    BY DEF Surjection
  <2> QED
    BY <2>1, FS_Surjection
<1>2. PICK G : Additive(G, v, Image(S)) /\ \A T \in SUBSET Image(S) : Sum(v, T) = G[T]
  <2>1. Terms(v, Image(S))
    OBVIOUS
  <2> HIDE DEF Image
  <2> QED
    BY <1>1, <2>1, SumsOfSubsets
<1> DEFINE H == [T \in SUBSET S |-> G[Image(T)]]
<1>3. Terms(w, S)
  BY DEF Terms
<1>4. Image({}) = {} /\ \A T \in SUBSET S : Image(T) \in SUBSET Image(S)
  OBVIOUS
<1>5. ASSUME NEW T \in SUBSET S, NEW x \in T
      PROVE  Image(T \ {x}) = Image(T) \ {f[x]} /\ f[x] \in Image(T)
  OBVIOUS
<1> HIDE DEF Image
<1>6. Additive(H, w, S)
  <2>1. H[{}] = 0
    BY <1>2, <1>4 DEF Additive
  <2>2. ASSUME NEW T \in SUBSET S PROVE H[T] \in Int
    BY <1>2, <1>4 DEF Additive
  <2>3. ASSUME NEW T \in SUBSET S, NEW x \in T PROVE H[T] = w[x] + H[T \ {x}]
    <3>1. f[x] \in Image(T) /\ Image(T) \in SUBSET Image(S)
      BY <1>4, <1>5
    <3>3. G[Image(T)] = v[f[x]] + G[Image(T) \ {f[x]}]
      BY <1>2, <3>1 DEF Additive
    <3>2. T \ {x} \in SUBSET S /\ w[x] = v[f[x]]
      OBVIOUS
    <3> QED
      BY <1>5, <3>2, <3>3
  <2> HIDE DEF H
  <2> QED
    BY <2>1, <2>2, <2>3 DEF Additive
<1>7. Sum(w, S) = H[S]
  <2> HIDE DEF H
  <2> QED
    BY <1>3, <1>6, SumIs
<1>8. H[S] = G[Image(S)]
  OBVIOUS
<1> QED
  BY <1>2, <1>4, <1>7, <1>8 DEF Image

-------------------------------------------------------------------------------
\* Sums of two sets that do not meet, and of non-negative terms.
LEMMA SumOfUnion ==
    ASSUME NEW A, NEW More, IsFiniteSet(A), IsFiniteSet(More), A \intersect More = {},
           NEW w, Terms(w, A \union More)
    PROVE  Sum(w, A \union More) = Sum(w, A) + Sum(w, More)
<1> DEFINE Good == {T \in SUBSET More : Sum(w, A \union T) = Sum(w, A) + Sum(w, T)}
<1>1. /\ \A T \in SUBSET More : IsFiniteSet(T) /\ IsFiniteSet(A \union T) /\ Terms(w, T) /\ Terms(w, A \union T)
      /\ Terms(w, A) /\ Sum(w, A) \in Int
  <2>1. \A T \in SUBSET More : IsFiniteSet(T) /\ IsFiniteSet(A \union T)
    BY FS_Subset, FS_Union
  <2>2. Terms(w, A) /\ \A T \in SUBSET More : Terms(w, T) /\ Terms(w, A \union T)
    BY DEF Terms
  <2> QED
    BY <2>1, <2>2, SumFacts
<1>2. {} \in Good
  <2>1. Sum(w, {}) = 0 /\ A \union {} = A
    BY <1>1, SumFacts
  <2> QED
    BY <1>1, <2>1
<1>3. ASSUME NEW T \in SUBSET More, T # {}, \A x \in T : T \ {x} \in Good PROVE T \in Good
  <2>1. PICK x \in T : TRUE
    BY <1>3
  <2> DEFINE less == T \ {x}
  <2>2. /\ less \in SUBSET More /\ (A \union T) \ {x} = A \union less /\ x \in A \union T
        /\ Sum(w, A \union less) = Sum(w, A) + Sum(w, less)
    BY <1>3
  <2>3. Sum(w, T) = w[x] + Sum(w, less) /\ Sum(w, less) \in Int
    BY <1>1, <2>2, SumFacts
  <2>4. Sum(w, A \union T) = w[x] + Sum(w, (A \union T) \ {x})
    <3>1. IsFiniteSet(A \union T) /\ Terms(w, A \union T) /\ x \in A \union T
      BY <1>1, <2>1
    <3> QED
      BY <3>1, SumFacts
  <2>5. w[x] \in Int
    BY <1>1 DEF Terms
  <2>6. Sum(w, (A \union T) \ {x}) = Sum(w, A) + Sum(w, less) /\ Sum(w, A) \in Int
    BY <1>1, <2>2
  <2> HIDE DEF less
  <2>7. Sum(w, A \union T) = Sum(w, A) + Sum(w, T)
    BY <2>3, <2>4, <2>5, <2>6
  <2> QED
    BY <2>7
<1>4. SUBSET More \subseteq Good
  <2> HIDE DEF Good
  <2> QED
    BY <1>2, <1>3, SubsetInduction
<1> QED
  BY <1>4

LEMMA SumIsNatural ==
    ASSUME NEW A, IsFiniteSet(A), NEW w, \A x \in A : w[x] \in Nat
    PROVE  Terms(w, A) /\ Sum(w, A) \in Nat
<1> DEFINE Good == {T \in SUBSET A : Sum(w, T) \in Nat}
<1>1. \A T \in SUBSET A : IsFiniteSet(T) /\ Terms(w, T)
  BY FS_Subset DEF Terms
<1>2. {} \in Good
  BY <1>1, SumFacts
<1>3. ASSUME NEW T \in SUBSET A, T # {}, \A x \in T : T \ {x} \in Good PROVE T \in Good
  <2>1. PICK x \in T : TRUE
    BY <1>3
  <2>2. Sum(w, T) = w[x] + Sum(w, T \ {x}) /\ Sum(w, T \ {x}) \in Nat /\ w[x] \in Nat
    BY <1>1, <1>3, <2>1, SumFacts
  <2> QED
    BY <2>2
<1>4. SUBSET A \subseteq Good
  <2> HIDE DEF Good
  <2> QED
    BY <1>2, <1>3, SubsetInduction
<1> QED
  BY <1>1, <1>4

LEMMA SumGrows ==
    ASSUME NEW A, IsFiniteSet(A), NEW w, \A x \in A : w[x] \in Nat, NEW T \in SUBSET A
    PROVE  Sum(w, T) <= Sum(w, A) /\ Sum(w, T) \in Nat /\ Sum(w, A) \in Nat
<1>1. IsFiniteSet(T) /\ IsFiniteSet(A \ T) /\ T \union (A \ T) = A /\ T \intersect (A \ T) = {}
  BY FS_Subset
<1>2. Terms(w, A) /\ Sum(w, A) \in Nat /\ Sum(w, T) \in Nat /\ Sum(w, A \ T) \in Nat
  BY <1>1, SumIsNatural
<1>3. Sum(w, A) = Sum(w, T) + Sum(w, A \ T)
  BY <1>1, <1>2, SumOfUnion
<1> QED
  BY <1>2, <1>3

LEMMA SumUnderOtherNames ==
    ASSUME NEW A, IsFiniteSet(A), NEW T, NEW f \in [A -> T], \A y \in T : \E x \in A : f[x] = y,
           \A x, y \in A : f[x] = f[y] => x = y,
           NEW v, Terms(v, T), NEW w, \A x \in A : w[x] = v[f[x]]
    PROVE  Sum(v, T) = Sum(w, A)
<1>1. T = {f[x] : x \in A}
  OBVIOUS
<1>2. Terms(v, {f[x] : x \in A})
  BY <1>1
<1>3. Sum(v, {f[x] : x \in A}) = Sum(w, A)
  BY <1>2, SumOverImage
<1> QED
  BY <1>1, <1>3

LEMMA LeastNatural ==
    ASSUME NEW Some \in SUBSET Nat, Some # {}
    PROVE  \E m \in Some : \A k \in Some : m <= k
<1> DEFINE Levels == {n \in Nat : (\E m \in Some : m <= n) => \E m \in Some : \A k \in Some : m <= k}
<1>1. 0 \in Levels
  OBVIOUS
<1>2. ASSUME NEW n \in Levels PROVE n + 1 \in Levels
  <2>1. CASE \E m \in Some : m <= n
    BY <2>1
  <2>2. CASE ~ \E m \in Some : m <= n
    BY <2>2
  <2> QED
    BY <2>1, <2>2
<1>3. Nat \subseteq Levels
  <2> HIDE DEF Levels
  <2> QED
    BY <1>1, <1>2, CountingInduction
<1>4. PICK n \in Some : n \in Levels
  BY <1>3
<1> QED
  BY <1>4
===============================================================================
