----------------------------- MODULE Induction -----------------------------
(***************************************************************************)
(* Induction over natural numbers and finite sets in the form of sets, and *)
(* what SumFunctionOnSet of the community modules computes: the lemmas     *)
(* about data that the proofs of several components need.                  *)
(***************************************************************************)
EXTENDS Integers, Functions, FiniteSetTheorems, TLAPS

-----------------------------------------------------------------------------
(* Induction *)

\* A set of natural numbers that is not empty has a least element.
LEMMA Least ==
  ASSUME NEW T, T \subseteq Nat, T # {}
  PROVE  \E x \in T : \A y \in T : x <= y
  <1> DEFINE R == OpToRel(<, Nat)
  <1>1. IsWellFoundedOn(R, Nat)
    BY NatLessThanWellFounded
  <1>2. \A x, y \in Nat : <<y, x>> \in R <=> y < x
    BY DEF OpToRel
  <1> HIDE DEF R
  <1>3. PICK x \in T : \A y \in T : ~(<<y, x>> \in R)
    BY <1>1, WFMin
  <1>4. \A y \in T : ~(y < x)
    BY <1>2, <1>3
  <1>5. QED
    BY <1>4

\* A set that holds 0, and with a number its successor, holds all of them.
LEMMA NatInductionSet ==
  ASSUME NEW S, 0 \in S, \A n \in Nat : n \in S => n + 1 \in S
  PROVE  Nat \subseteq S
  <1> SUFFICES ASSUME Nat \ S # {} PROVE FALSE
    OBVIOUS
  <1>1. PICK x \in Nat \ S : \A y \in Nat \ S : x <= y
    BY Least
  <1>2. x - 1 \in Nat /\ x - 1 \notin Nat \ S
    BY <1>1
  <1>3. QED
    BY <1>1, <1>2

\* A set that holds a subset of S whenever it holds it less any one of its elements
\* holds all subsets of a finite S.
LEMMA SubsetInduction ==
  ASSUME NEW S, IsFiniteSet(S), NEW P,
         \A T \in SUBSET S : (\A x \in T : T \ {x} \in P) => T \in P
  PROVE  SUBSET S \subseteq P
  <1> SUFFICES ASSUME NEW B \in SUBSET S, B \notin P PROVE FALSE
    OBVIOUS
  <1> DEFINE Bad == {T \in SUBSET S : T \notin P}
             Sizes == {Cardinality(T) : T \in Bad}
  <1>1. \A T \in SUBSET S : IsFiniteSet(T) /\ Cardinality(T) \in Nat
    BY FS_Subset, FS_CardinalityType
  <1>2. PICK n \in Sizes : \A m \in Sizes : n <= m
    <2>1. Sizes \subseteq Nat /\ Sizes # {}
      BY <1>1
    <2> HIDE DEF Sizes
    <2>2. QED
      BY <2>1, Least
  <1>3. PICK T \in Bad : n = Cardinality(T)
    OBVIOUS
  <1>4. PICK x \in T : T \ {x} \notin P
    BY <1>3
  <1>5. Cardinality(T \ {x}) = n - 1
    BY <1>1, <1>3, <1>4, FS_RemoveElement
  <1>6. n - 1 \in Sizes /\ n \in Nat
    BY <1>1, <1>3, <1>4, <1>5
  <1>7. n <= n - 1
    BY <1>2, <1>6
  <1>8. QED
    BY <1>6, <1>7

-----------------------------------------------------------------------------
(* Extremes *)

\* A finite set of integers that is not empty has a greatest and a least element.
LEMMA Extremes ==
  ASSUME NEW S, IsFiniteSet(S), S \subseteq Int, S # {}
  PROVE  /\ \E x \in S : \A y \in S : y <= x
         /\ \E x \in S : \A y \in S : x <= y
  <1> DEFINE Has(T) == /\ \E x \in T : \A y \in T : y <= x
                       /\ \E x \in T : \A y \in T : x <= y
             P == {T \in SUBSET S : T # {} => Has(T)}
  <1>1. ASSUME NEW T \in SUBSET S, \A x \in T : T \ {x} \in P
        PROVE  T \in P
    <2> SUFFICES ASSUME NEW z \in T PROVE Has(T)
      OBVIOUS
    <2>1. CASE T = {z}
      BY <2>1
    <2>2. CASE T # {z}
      <3>1. Has(T \ {z})
        <4>1. T \ {z} # {} /\ T \ {z} \in P
          BY <1>1, <2>2
        <4> HIDE DEF Has
        <4>2. QED
          BY <4>1
      <3>2. PICK a \in T \ {z} : \A y \in T \ {z} : y <= a
        BY <3>1
      <3>3. PICK b \in T \ {z} : \A y \in T \ {z} : b <= y
        BY <3>1
      <3>4. a \in Int /\ b \in Int /\ z \in Int
        OBVIOUS
      <3>5. \E x \in T : \A y \in T : y <= x
        BY <3>2, <3>4
      <3>6. \E x \in T : \A y \in T : x <= y
        BY <3>3, <3>4
      <3>7. QED
        BY <3>5, <3>6
    <2>3. QED
      BY <2>1, <2>2
  <1>2. S \in P
    <2> HIDE DEF P
    <2>1. QED
      BY <1>1, SubsetInduction
  <1>3. QED
    BY <1>2

\* The values of a sequence, or of anything else that is indexed 1 .. n, are a
\* finite set.
LEMMA ValuesFinite ==
  ASSUME NEW n \in Nat, NEW f, f = [i \in 1 .. n |-> f[i]]
  PROVE  IsFiniteSet({f[i] : i \in 1 .. n})
  <1> DEFINE T == {f[i] : i \in 1 .. n}
  <1>1. f \in Surjection(1 .. n, T)
    BY DEF Surjection
  <1>2. IsFiniteSet(1 .. n)
    BY FS_Interval
  <1>3. QED
    BY <1>1, <1>2, FS_Surjection

\* The values of a function on a finite set are a finite set.
LEMMA ImageFinite ==
  ASSUME NEW S, IsFiniteSet(S), NEW f
  PROVE  IsFiniteSet({f[x] : x \in S})
  <1> DEFINE g == [x \in S |-> f[x]]
  <1>1. g \in Surjection(S, {f[x] : x \in S})
    BY DEF Surjection
  <1> QED BY <1>1, FS_Surjection

-----------------------------------------------------------------------------
(* Sums *)

\* The element of a set that the fold takes first.
First(T) == CHOOSE x \in T : TRUE

\* F is the recursive function that the sum of f over subsets of S is.
SumsOf(F, f, D) ==
    F = [T \in D |-> IF T = {} THEN 0 ELSE f[First(T)] + F[T \ {First(T)}]]

LEMMA SumsExist ==
  ASSUME NEW S, IsFiniteSet(S), NEW f
  PROVE  \E F : SumsOf(F, f, SUBSET S)
  <1> DEFINE D(n) == {T \in SUBSET S : Cardinality(T) <= n}
             N == {n \in Nat : \E F : SumsOf(F, f, D(n))}
  <1>1. \A T \in SUBSET S : IsFiniteSet(T) /\ Cardinality(T) \in Nat
    BY FS_Subset, FS_CardinalityType
  <1>2. \A T \in SUBSET S : T # {} =>
          First(T) \in T /\ Cardinality(T \ {First(T)}) = Cardinality(T) - 1
    BY <1>1, FS_RemoveElement DEF First
  <1>3. 0 \in N
    <2>1. \A T \in D(0) : T = {}
      BY <1>1, FS_EmptySet
    <2>2. SumsOf([T \in D(0) |-> 0], f, D(0))
      BY <2>1 DEF SumsOf
    <2>3. QED
      BY <2>2
  <1>4. ASSUME NEW n \in Nat, n \in N PROVE n + 1 \in N
    <2>1. PICK F : SumsOf(F, f, D(n))
      BY <1>4
    <2> DEFINE G == [T \in D(n + 1) |->
                        IF T = {} THEN 0 ELSE f[First(T)] + F[T \ {First(T)}]]
    <2>2. ASSUME NEW T \in D(n + 1), T # {}
          PROVE  F[T \ {First(T)}] = G[T \ {First(T)}]
      <3>1. T \ {First(T)} \in D(n) /\ T \ {First(T)} \in D(n + 1)
        BY <1>1, <1>2, <2>2
      <3> HIDE DEF D
      <3>2. QED
        BY <2>1, <3>1 DEF SumsOf
    <2>3. G = [T \in D(n + 1) |-> IF T = {} THEN 0 ELSE f[First(T)] + G[T \ {First(T)}]]
      <3> HIDE DEF D
      <3>1. \A T \in D(n + 1) : G[T] = IF T = {} THEN 0 ELSE f[First(T)] + G[T \ {First(T)}]
        BY <2>2
      <3> DEFINE H == [T \in D(n + 1) |->
                          IF T = {} THEN 0 ELSE f[First(T)] + G[T \ {First(T)}]]
      <3>2. \A T \in D(n + 1) : G[T] = H[T]
        BY <3>1
      <3>3. QED
        BY <3>2
    <2>4. SumsOf(G, f, D(n + 1))
      BY <2>3 DEF SumsOf
    <2>5. QED
      <3> HIDE DEF G, D
      <3>1. QED
        BY <2>4
  <1>5. Cardinality(S) \in N
    <2>1. Nat \subseteq N
      <3> HIDE DEF N
      <3>1. QED
        BY <1>3, <1>4, NatInductionSet
    <2>2. QED
      BY <1>1, <2>1
  <1>6. D(Cardinality(S)) = SUBSET S
    BY <1>1, FS_Subset
  <1>7. QED
    BY <1>5, <1>6

\* F adds f up over the subsets of S, one element at a time.
Adds(F, f, S) ==
    /\ F[{}] = 0
    /\ \A T \in SUBSET S : T # {} =>
          First(T) \in T /\ F[T] = f[First(T)] + F[T \ {First(T)}]

\* SumFunctionOnSet is the value of such a function.
LEMMA SumIsFold ==
  ASSUME NEW S, IsFiniteSet(S), NEW f
  PROVE  \E F : Adds(F, f, S) /\ SumFunctionOnSet(f, S) = F[S]
  <1> DEFINE F == CHOOSE F : F = [T \in SUBSET S |->
                     IF T = {} THEN 0
                     ELSE f[CHOOSE x \in T : TRUE] + F[T \ {CHOOSE x \in T : TRUE}]]
  <1>1. SumFunctionOnSet(f, S) = F[S]
    BY DEF SumFunctionOnSet, FoldFunctionOnSet, MapThenFoldSet
  <1>2. \E G : G = [T \in SUBSET S |->
                     IF T = {} THEN 0
                     ELSE f[CHOOSE x \in T : TRUE] + G[T \ {CHOOSE x \in T : TRUE}]]
    <2>1. PICK G : SumsOf(G, f, SUBSET S)
      BY SumsExist
    <2>2. QED
      BY <2>1 DEF SumsOf, First
  <1>3. F = [T \in SUBSET S |->
                     IF T = {} THEN 0
                     ELSE f[CHOOSE x \in T : TRUE] + F[T \ {CHOOSE x \in T : TRUE}]]
    BY <1>2
  <1>4. SumsOf(F, f, SUBSET S)
    BY <1>3 DEF SumsOf, First
  <1> HIDE DEF F
  <1>5. \A T \in SUBSET S : F[T] = IF T = {} THEN 0 ELSE f[First(T)] + F[T \ {First(T)}]
    BY <1>4 DEF SumsOf
  <1>6. \A T \in SUBSET S : T # {} => First(T) \in T
    BY DEF First
  <1>7. Adds(F, f, S)
    BY <1>5, <1>6 DEF Adds
  <1>8. QED
    BY <1>1, <1>7

\* Functions that agree on a set have the same sum over it.
LEMMA SumSame ==
  ASSUME NEW S, IsFiniteSet(S), NEW f, NEW g, \A x \in S : f[x] = g[x]
  PROVE  SumFunctionOnSet(f, S) = SumFunctionOnSet(g, S)
  <1>1. PICK F : Adds(F, f, S) /\ SumFunctionOnSet(f, S) = F[S]
    BY SumIsFold
  <1>2. PICK G : Adds(G, g, S) /\ SumFunctionOnSet(g, S) = G[S]
    BY SumIsFold
  <1> DEFINE P == {T \in SUBSET S : F[T] = G[T]}
  <1>3. ASSUME NEW T \in SUBSET S, \A x \in T : T \ {x} \in P
        PROVE  T \in P
    <2>1. /\ T # {} => First(T) \in T /\ First(T) \in S
          /\ F[{}] = 0 /\ (T # {} => F[T] = f[First(T)] + F[T \ {First(T)}])
          /\ G[{}] = 0 /\ (T # {} => G[T] = g[First(T)] + G[T \ {First(T)}])
      BY <1>1, <1>2 DEF Adds
    <2>2. T # {} => T \ {First(T)} \in P
      BY <1>3, <2>1
    <2>3. CASE T = {}
      BY <2>1, <2>3
    <2>4. CASE T # {}
      <3>1. F[T \ {First(T)}] = G[T \ {First(T)}]
        BY <2>2, <2>4
      <3>2. QED
        BY <1>3, <2>1, <2>4, <3>1
    <2>5. QED
      BY <2>3, <2>4
  <1>4. S \in P
    <2> HIDE DEF P
    <2>1. QED
      BY <1>3, SubsetInduction
  <1>5. QED
    BY <1>1, <1>2, <1>4

\* Integers have an integer sum, and zeros the sum 0.
LEMMA SumType ==
  ASSUME NEW S, IsFiniteSet(S), NEW f, \A x \in S : f[x] \in Int
  PROVE  /\ SumFunctionOnSet(f, S) \in Int
         /\ (\A x \in S : f[x] = 0) => SumFunctionOnSet(f, S) = 0
  <1>1. PICK F : Adds(F, f, S) /\ SumFunctionOnSet(f, S) = F[S]
    BY SumIsFold
  <1> DEFINE P == {T \in SUBSET S : F[T] \in Int /\ ((\A x \in S : f[x] = 0) => F[T] = 0)}
  <1>2. ASSUME NEW T \in SUBSET S, \A x \in T : T \ {x} \in P
        PROVE  T \in P
    <2>1. /\ T # {} => First(T) \in T /\ First(T) \in S
          /\ F[{}] = 0 /\ (T # {} => F[T] = f[First(T)] + F[T \ {First(T)}])
      BY <1>1 DEF Adds
    <2>2. T # {} => T \ {First(T)} \in P
      BY <1>2, <2>1
    <2>3. CASE T = {}
      BY <2>1, <2>3
    <2>4. CASE T # {}
      <3> DEFINE rest == F[T \ {First(T)}]
      <3>1. rest \in Int /\ ((\A x \in S : f[x] = 0) => rest = 0)
        BY <2>2, <2>4
      <3>2. F[T] = f[First(T)] + rest /\ First(T) \in S
        BY <2>1, <2>4
      <3> HIDE DEF rest
      <3>3. QED
        BY <3>1, <3>2
    <2>5. QED
      BY <2>3, <2>4
  <1>3. S \in P
    <2> HIDE DEF P
    <2>1. QED
      BY <1>2, SubsetInduction
  <1>4. QED
    BY <1>1, <1>3

\* The sum of h, where h adds f and g up, adds their sums up.
LEMMA SumAdds ==
  ASSUME NEW S, IsFiniteSet(S), NEW f, NEW g, NEW h,
         \A x \in S : f[x] \in Int /\ g[x] \in Int /\ h[x] = f[x] + g[x]
  PROVE  SumFunctionOnSet(h, S) = SumFunctionOnSet(f, S) + SumFunctionOnSet(g, S)
  <1>1. PICK F : Adds(F, f, S) /\ SumFunctionOnSet(f, S) = F[S]
    BY SumIsFold
  <1>2. PICK G : Adds(G, g, S) /\ SumFunctionOnSet(g, S) = G[S]
    BY SumIsFold
  <1>3. PICK H : Adds(H, h, S) /\ SumFunctionOnSet(h, S) = H[S]
    BY SumIsFold
  <1> DEFINE P == {T \in SUBSET S : F[T] \in Int /\ G[T] \in Int /\ H[T] = F[T] + G[T]}
  <1>4. ASSUME NEW T \in SUBSET S, \A x \in T : T \ {x} \in P
        PROVE  T \in P
    <2>a. /\ T # {} => First(T) \in T /\ First(T) \in S
          /\ F[{}] = 0 /\ (T # {} => F[T] = f[First(T)] + F[T \ {First(T)}])
      BY <1>1 DEF Adds
    <2>b. G[{}] = 0 /\ (T # {} => G[T] = g[First(T)] + G[T \ {First(T)}])
      BY <1>2 DEF Adds
    <2>c. H[{}] = 0 /\ (T # {} => H[T] = h[First(T)] + H[T \ {First(T)}])
      BY <1>3 DEF Adds
    <2>1. T # {} => First(T) \in T /\ First(T) \in S
      BY <2>a
    <2>2. T # {} => T \ {First(T)} \in P
      BY <1>4, <2>1
    <2>3. CASE T = {}
      BY <2>a, <2>b, <2>c, <2>3
    <2>4. CASE T # {}
      <3>1. PICK F1, G1, H1 : /\ F1 = F[T \ {First(T)}] /\ G1 = G[T \ {First(T)}]
                              /\ H1 = H[T \ {First(T)}]
        OBVIOUS
      <3>2. F1 \in Int /\ G1 \in Int /\ H1 = F1 + G1
        BY <2>2, <2>4, <3>1
      <3>3. /\ F[T] = f[First(T)] + F1 /\ G[T] = g[First(T)] + G1
            /\ H[T] = h[First(T)] + H1 /\ First(T) \in S
        BY <2>a, <2>b, <2>c, <2>4, <3>1
      <3>4. QED
        BY <3>2, <3>3
    <2>5. QED
      BY <2>3, <2>4
  <1>5. S \in P
    <2> HIDE DEF P
    <2>1. QED
      BY <1>4, SubsetInduction
  <1>6. QED
    BY <1>1, <1>2, <1>3, <1>5

\* The sum of h, where h is a times f, is a times the sum of f.
LEMMA SumScales ==
  ASSUME NEW S, IsFiniteSet(S), NEW f, NEW h, NEW a \in Int,
         \A x \in S : f[x] \in Int /\ h[x] = a * f[x]
  PROVE  SumFunctionOnSet(h, S) = a * SumFunctionOnSet(f, S)
  <1>1. PICK F : Adds(F, f, S) /\ SumFunctionOnSet(f, S) = F[S]
    BY SumIsFold
  <1>2. PICK H : Adds(H, h, S) /\ SumFunctionOnSet(h, S) = H[S]
    BY SumIsFold
  <1> DEFINE P == {T \in SUBSET S : F[T] \in Int /\ H[T] = a * F[T]}
  <1>3. ASSUME NEW T \in SUBSET S, \A x \in T : T \ {x} \in P
        PROVE  T \in P
    <2>a. /\ T # {} => First(T) \in T /\ First(T) \in S
          /\ F[{}] = 0 /\ (T # {} => F[T] = f[First(T)] + F[T \ {First(T)}])
      BY <1>1 DEF Adds
    <2>b. H[{}] = 0 /\ (T # {} => H[T] = h[First(T)] + H[T \ {First(T)}])
      BY <1>2 DEF Adds
    <2>1. T # {} => First(T) \in T /\ First(T) \in S
      BY <2>a
    <2>2. T # {} => T \ {First(T)} \in P
      BY <1>3, <2>1
    <2>3. CASE T = {}
      BY <2>a, <2>b, <2>3
    <2>4. CASE T # {}
      <3>1. PICK F1, H1 : F1 = F[T \ {First(T)}] /\ H1 = H[T \ {First(T)}]
        OBVIOUS
      <3>2. F1 \in Int /\ H1 = a * F1
        BY <2>2, <2>4, <3>1
      <3>3. F[T] = f[First(T)] + F1 /\ H[T] = h[First(T)] + H1 /\ First(T) \in S
        BY <2>a, <2>b, <2>4, <3>1
      <3>4. PICK z : z = f[First(T)]
        OBVIOUS
      <3>5. z \in Int /\ F[T] = z + F1 /\ H[T] = a * z + a * F1
        BY <3>2, <3>3, <3>4
      <3>6. a * (z + F1) = a * z + a * F1
        BY <3>2, <3>5
      <3>7. F[T] \in Int /\ H[T] = a * F[T]
        BY <3>2, <3>5, <3>6
      <3>8. QED
        BY <3>7
    <2>5. QED
      BY <2>3, <2>4
  <1>4. S \in P
    <2> HIDE DEF P
    <2>1. QED
      BY <1>3, SubsetInduction
  <1>5. QED
    BY <1>1, <1>2, <1>4


\* A linear combination of the terms is one of the sums.
LEMMA SumLinear ==
  ASSUME NEW S, IsFiniteSet(S), NEW f, NEW g, NEW h, NEW a \in Int, NEW b \in Int, NEW c \in Int,
         \A x \in S : f[x] \in Int /\ g[x] \in Int /\ h[x] \in Int
                       /\ a * h[x] = b * f[x] + c * g[x]
  PROVE  a * SumFunctionOnSet(h, S) = b * SumFunctionOnSet(f, S) + c * SumFunctionOnSet(g, S)
  <1> DEFINE fb == [x \in S |-> b * f[x]]
             gc == [x \in S |-> c * g[x]]
             ha == [x \in S |-> a * h[x]]
  <1>1. SumFunctionOnSet(ha, S) = SumFunctionOnSet(fb, S) + SumFunctionOnSet(gc, S)
    <2>1. \A x \in S : fb[x] \in Int /\ gc[x] \in Int /\ ha[x] = fb[x] + gc[x]
      OBVIOUS
    <2> HIDE DEF fb, gc, ha
    <2>2. QED
      BY <2>1, SumAdds
  <1>2. SumFunctionOnSet(ha, S) = a * SumFunctionOnSet(h, S)
    <2>1. \A x \in S : h[x] \in Int /\ ha[x] = a * h[x]
      OBVIOUS
    <2> HIDE DEF ha
    <2>2. QED
      BY <2>1, SumScales
  <1>3. SumFunctionOnSet(fb, S) = b * SumFunctionOnSet(f, S)
    <2>1. \A x \in S : f[x] \in Int /\ fb[x] = b * f[x]
      OBVIOUS
    <2> HIDE DEF fb
    <2>2. QED
      BY <2>1, SumScales
  <1>4. SumFunctionOnSet(gc, S) = c * SumFunctionOnSet(g, S)
    <2>1. \A x \in S : g[x] \in Int /\ gc[x] = c * g[x]
      OBVIOUS
    <2> HIDE DEF gc
    <2>2. QED
      BY <2>1, SumScales
  <1> HIDE DEF fb, gc, ha
  <1>5. QED
    BY <1>1, <1>2, <1>3, <1>4

\* What is zero but for one element sums up to it.
LEMMA SumSingle ==
  ASSUME NEW S, IsFiniteSet(S), NEW f, NEW x \in S, f[x] \in Int, \A y \in S : y # x => f[y] = 0
  PROVE  SumFunctionOnSet(f, S) = f[x]
  <1>1. PICK F : Adds(F, f, S) /\ SumFunctionOnSet(f, S) = F[S]
    BY SumIsFold
  <1> DEFINE P == {T \in SUBSET S : F[T] = IF x \in T THEN f[x] ELSE 0}
  <1>2. ASSUME NEW T \in SUBSET S, \A y \in T : T \ {y} \in P
        PROVE  T \in P
    <2>1. /\ T # {} => First(T) \in T /\ First(T) \in S
          /\ F[{}] = 0 /\ (T # {} => F[T] = f[First(T)] + F[T \ {First(T)}])
      BY <1>1 DEF Adds
    <2>2. CASE T = {}
      BY <2>1, <2>2
    <2>3. CASE T # {}
      <3>1. PICK y \in T : y = First(T)
        BY <2>1, <2>3
      <3>2. PICK v : v = F[T \ {y}]
        OBVIOUS
      <3>3. v = IF x \in T \ {y} THEN f[x] ELSE 0
        BY <1>2, <3>2
      <3>4. F[T] = f[y] + v
        BY <2>1, <2>3, <3>1, <3>2
      <3>5. CASE y = x
        BY <3>3, <3>4, <3>5
      <3>6. CASE y # x
        <4>1. f[y] = 0
          BY <3>6
        <4> QED BY <3>3, <3>4, <3>6, <4>1
      <3> QED BY <3>5, <3>6
    <2> QED BY <2>2, <2>3
  <1>3. S \in P
    <2> HIDE DEF P
    <2> QED BY <1>2, SubsetInduction
  <1> QED BY <1>1, <1>3

\* What is nowhere negative has a sum that is not.
LEMMA SumNonNegative ==
  ASSUME NEW S, IsFiniteSet(S), NEW f, \A x \in S : f[x] \in Nat
  PROVE  SumFunctionOnSet(f, S) \in Nat
  <1>1. PICK F : Adds(F, f, S) /\ SumFunctionOnSet(f, S) = F[S]
    BY SumIsFold
  <1> DEFINE P == {T \in SUBSET S : F[T] \in Nat}
  <1>2. ASSUME NEW T \in SUBSET S, \A y \in T : T \ {y} \in P
        PROVE  T \in P
    <2>1. /\ T # {} => First(T) \in T /\ First(T) \in S
          /\ F[{}] = 0 /\ (T # {} => F[T] = f[First(T)] + F[T \ {First(T)}])
      BY <1>1 DEF Adds
    <2>2. CASE T = {}
      BY <2>1, <2>2
    <2>3. CASE T # {}
      <3>1. F[T \ {First(T)}] \in Nat
        BY <1>2, <2>1, <2>3
      <3> QED BY <1>2, <2>1, <2>3, <3>1
    <2> QED BY <2>2, <2>3
  <1>3. S \in P
    <2> HIDE DEF P
    <2> QED BY <1>2, SubsetInduction
  <1> QED BY <1>1, <1>3

\* Any element of a set can be the one that is added last.
LEMMA SumRemoves ==
  ASSUME NEW S, IsFiniteSet(S), NEW f, \A x \in S : f[x] \in Int, NEW F, Adds(F, f, S)
  PROVE  \A T \in SUBSET S : F[T] \in Int /\ \A x \in T : F[T] = f[x] + F[T \ {x}]
  <1>1. \A T \in SUBSET S : T # {} =>
          First(T) \in T /\ First(T) \in S /\ F[T] = f[First(T)] + F[T \ {First(T)}]
    BY DEF Adds
  <1> DEFINE N == {T \in SUBSET S : F[T] \in Int}
             P == {T \in SUBSET S : \A x \in T : F[T] = f[x] + F[T \ {x}]}
  <1>2. SUBSET S \subseteq N
    <2>1. ASSUME NEW T \in SUBSET S, \A x \in T : T \ {x} \in N
          PROVE  T \in N
      <3>1. CASE T = {}
        BY <3>1 DEF Adds
      <3>2. CASE T # {}
        <4>1. F[T \ {First(T)}] \in Int
          BY <1>1, <2>1, <3>2
        <4> QED BY <1>1, <3>2, <4>1
      <3> QED BY <3>1, <3>2
    <2> HIDE DEF N
    <2> QED BY <2>1, SubsetInduction
  <1>3. ASSUME NEW T \in SUBSET S, \A x \in T : T \ {x} \in P
        PROVE  T \in P
    <2> SUFFICES ASSUME NEW x \in T PROVE F[T] = f[x] + F[T \ {x}]
      OBVIOUS
    <2>1. PICK y : y = First(T)
      OBVIOUS
    <2>2. y \in T /\ F[T] = f[y] + F[T \ {y}]
      BY <1>1, <2>1
    <2>3. CASE x = y
      BY <2>2, <2>3
    <2>4. CASE x # y
      <3>1. PICK U \in SUBSET S : U = T \ {x, y}
        OBVIOUS
      <3>2. T \ {x} \in P /\ T \ {y} \in P
        BY <1>3, <2>2
      <3>3. /\ x \in T \ {y} /\ (T \ {y}) \ {x} = U
            /\ y \in T \ {x} /\ (T \ {x}) \ {y} = U
        BY <2>2, <2>4, <3>1
      <3>4. F[T \ {y}] = f[x] + F[U]
        BY <3>2, <3>3
      <3>5. F[T \ {x}] = f[y] + F[U]
        BY <3>2, <3>3
      <3>6. F[U] \in Int /\ f[x] \in Int /\ f[y] \in Int
        BY <1>2, <2>2
      <3> QED BY <2>2, <3>4, <3>5, <3>6
    <2> QED BY <2>3, <2>4
  <1>4. SUBSET S \subseteq P
    <2> HIDE DEF P
    <2> QED BY <1>3, SubsetInduction
  <1> QED BY <1>2, <1>4

\* A sum over an interval is that of the same terms one place further on.
LEMMA SumShifts ==
  ASSUME NEW lo \in Int, NEW hi \in Int, NEW f, NEW g,
         \A i \in lo .. hi : f[i] \in Int /\ g[i + 1] = f[i]
  PROVE  SumFunctionOnSet(g, lo + 1 .. hi + 1) = SumFunctionOnSet(f, lo .. hi)
  <1>b. PICK S, R : S = lo .. hi /\ R = lo + 1 .. hi + 1
    OBVIOUS
  <1> DEFINE Moved(T) == {i \in R : i - 1 \in T}
  <1>1. IsFiniteSet(S) /\ IsFiniteSet(R)
    BY <1>b, FS_Interval
  <1>2. \A i \in R : i - 1 \in S /\ g[i] = f[i - 1] /\ g[i] \in Int
    <2> TAKE i \in R
    <2>1. PICK j \in S : i = j + 1 /\ j = i - 1
      <3>1. i - 1 \in S /\ i = (i - 1) + 1
        BY <1>b
      <3> QED BY <3>1
    <2> QED BY <1>b, <2>1
  <1>3. PICK F : Adds(F, f, S) /\ SumFunctionOnSet(f, S) = F[S]
    BY <1>1, SumIsFold
  <1>4. PICK G : Adds(G, g, R) /\ SumFunctionOnSet(g, R) = G[R]
    BY <1>1, SumIsFold
  <1>a. \A x \in S : f[x] \in Int
    BY <1>b
  <1>5. \A T \in SUBSET S : F[T] \in Int /\ \A x \in T : F[T] = f[x] + F[T \ {x}]
    BY <1>1, <1>3, <1>a, SumRemoves
  <1>6. \A T \in SUBSET R : G[T] \in Int /\ \A x \in T : G[T] = g[x] + G[T \ {x}]
    BY <1>1, <1>2, <1>4, SumRemoves
  <1> DEFINE Q == {T \in SUBSET S : G[Moved(T)] = F[T]}
  <1>7. ASSUME NEW T \in SUBSET S, \A x \in T : T \ {x} \in Q
        PROVE  T \in Q
    <2>1. CASE T = {}
      <3>1. Moved(T) = {}
        BY <2>1
      <3> QED BY <1>3, <1>4, <2>1, <3>1 DEF Adds
    <2>2. CASE T # {}
      <3>1. PICK x \in T : TRUE
        BY <2>2
      <3>2. x \in Int /\ x + 1 \in Moved(T) /\ g[x + 1] = f[x]
        BY <1>b
      <3>3. Moved(T) \ {x + 1} = Moved(T \ {x})
        <4>1. \A i \in R : i # x + 1 <=> i - 1 # x
          BY <1>b, <3>2
        <4> QED BY <4>1
      <3>4. G[Moved(T)] = g[x + 1] + G[Moved(T) \ {x + 1}]
        <4>1. Moved(T) \in SUBSET R
          OBVIOUS
        <4> HIDE DEF Moved
        <4> QED BY <1>6, <3>2, <4>1
      <3>5. G[Moved(T \ {x})] = F[T \ {x}]
        BY <1>7
      <3>6. F[T] = f[x] + F[T \ {x}]
        BY <1>5
      <3> HIDE DEF Moved
      <3> QED BY <3>2, <3>3, <3>4, <3>5, <3>6
    <2> QED BY <2>1, <2>2
  <1>8. S \in Q
    <2> HIDE DEF Q
    <2> QED BY <1>1, <1>7, SubsetInduction
  <1>9. Moved(S) = R
    BY <1>2
  <1> QED BY <1>b, <1>3, <1>4, <1>8, <1>9
=============================================================================
