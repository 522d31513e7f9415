----------------------------- MODULE SumProofs -----------------------------
(***************************************************************************)
(* Facts about sums over finite sets.  The accounting properties compare   *)
(* balances with sums over investors, invoices, verifiers or instants,     *)
(* written with SumFunctionOnSet.                                          *)
(*                                                                         *)
(* The induction is carried out on sets of sets, which the provers handle  *)
(* as first-order objects: FiniteClosure below takes the set of the index  *)
(* sets a fact holds for.                                                  *)
(***************************************************************************)
EXTENDS Functions, FiniteSets, TLAPS, FiniteSetTheorems, WellFoundedInduction

\* A set of naturals that is not empty has a least element.
LEMMA LeastNatural ==
  ASSUME NEW T, T \subseteq Nat, T # {}
  PROVE  \E x \in T : \A y \in T : x <= y
  <1>1. \E x \in T : \A y \in T : ~(<<y, x>> \in OpToRel(<, Nat))
    BY WFMin, NatLessThanWellFounded
  <1>2. \A x, y \in Nat : y < x => <<y, x>> \in OpToRel(<, Nat)
    BY DEF OpToRel
  <1>3. PICK x \in T : \A y \in T : ~(<<y, x>> \in OpToRel(<, Nat))
    BY <1>1
  <1>4. \A y \in T : ~(y < x)
    BY <1>2, <1>3
  <1> QED  BY <1>4

\* Induction over the naturals, for the set of numbers a fact holds for.
LEMMA NaturalClosure ==
  ASSUME NEW Good, 0 \in Good, \A n \in Nat : n \in Good => n + 1 \in Good
  PROVE  \A n \in Nat : n \in Good
  <1> SUFFICES ASSUME NEW m \in Nat, m \notin Good PROVE FALSE
    OBVIOUS
  <1> DEFINE Bad == {n \in Nat : n \notin Good}
  <1>1. PICK n \in Bad : \A k \in Bad : n <= k
    <2>1. m \in Bad /\ Bad \subseteq Nat
      OBVIOUS
    <2> HIDE DEF Bad
    <2> QED  BY <2>1, LeastNatural
  <1>2. n # 0 /\ n - 1 \in Nat
    BY <1>1
  <1>3. n - 1 \in Bad
    BY <1>1, <1>2
  <1>4. n <= n - 1
    BY <1>1, <1>3
  <1> QED  BY <1>1, <1>4

\* Induction over the subsets of a finite set: what holds of the empty set, and of
\* a set once it holds of what is left of it without any one element, holds of all.
LEMMA FiniteClosure ==
  ASSUME NEW U, IsFiniteSet(U), NEW Good,
         {} \in Good,
         \A s \in SUBSET U : s # {} /\ (\A x \in s : s \ {x} \in Good) => s \in Good
  PROVE  \A s \in SUBSET U : s \in Good
  <1> SUFFICES ASSUME NEW s0 \in SUBSET U, s0 \notin Good PROVE FALSE
    OBVIOUS
  <1> DEFINE Sizes == {n \in Nat : \E s \in SUBSET U : s \notin Good /\ Cardinality(s) = n}
  <1>1. \A s \in SUBSET U : IsFiniteSet(s) /\ Cardinality(s) \in Nat
    BY FS_Subset, FS_CardinalityType
  <1>2. Cardinality(s0) \in Sizes
    BY <1>1
  <1>3. PICK n \in Sizes : \A k \in Sizes : n <= k
    BY <1>2, LeastNatural
  <1>4. PICK s \in SUBSET U : s \notin Good /\ Cardinality(s) = n
    BY <1>3
  <1>5. PICK x \in s : s \ {x} \notin Good
    BY <1>4
  <1>6. s \ {x} \in SUBSET U /\ s \ {x} \notin Good
    BY <1>4, <1>5
  <1>7. Cardinality(s \ {x}) = n - 1
    BY <1>1, <1>4, <1>5, FS_RemoveElement
  <1>8. Cardinality(s \ {x}) \in Sizes
    BY <1>1, <1>6
  <1>9. n \in Nat /\ n <= n - 1
    BY <1>3, <1>7, <1>8
  <1> QED  BY <1>9

-----------------------------------------------------------------------------
(* The recursion behind SumFunctionOnSet is well defined.                   *)

Pick(s) == CHOOSE x \in s : TRUE
OneMore(f, g, s) == IF s = {} THEN 0 ELSE f[Pick(s)] + g[s \ {Pick(s)}]
IsPartialSum(f, S, g) == g = [s \in SUBSET S |-> OneMore(f, g, s)]

\* The operator of the library, unfolded.
LEMMA SumUnfolded ==
  ASSUME NEW f, NEW S
  PROVE  SumFunctionOnSet(f, S) = (CHOOSE g : IsPartialSum(f, S, g))[S]
  BY DEF SumFunctionOnSet, FoldFunctionOnSet, MapThenFoldSet, IsPartialSum, OneMore, Pick

\* An integer-valued function has partial sums over the subsets of a finite set.
LEMMA PartialSumExists ==
  ASSUME NEW S, IsFiniteSet(S), NEW f, \A x \in S : f[x] \in Int
  PROVE  \E g \in [SUBSET S -> Int] : IsPartialSum(f, S, g)
  <1> DEFINE UpTo(n, g) == \A s \in SUBSET S : Cardinality(s) <= n => g[s] = OneMore(f, g, s)
             Good == {n \in Nat : \E g \in [SUBSET S -> Int] : UpTo(n, g)}
  <1>1. \A s \in SUBSET S : IsFiniteSet(s) /\ Cardinality(s) \in Nat
                               /\ Cardinality(s) <= Cardinality(S)
    BY FS_Subset, FS_CardinalityType
  <1>2. \A s \in SUBSET S : s # {} => /\ Pick(s) \in s
                                       /\ s \ {Pick(s)} \in SUBSET S
                                       /\ Cardinality(s \ {Pick(s)}) = Cardinality(s) - 1
    BY <1>1, FS_RemoveElement DEF Pick
  <1>3. 0 \in Good
    <2> DEFINE g == [s \in SUBSET S |-> 0]
    <2>1. ASSUME NEW s \in SUBSET S, Cardinality(s) <= 0 PROVE g[s] = OneMore(f, g, s)
      BY <1>1, <2>1, FS_EmptySet DEF OneMore
    <2>2. g \in [SUBSET S -> Int] /\ UpTo(0, g)
      BY <2>1
    <2> QED  BY <2>2
  <1>4. ASSUME NEW n \in Nat, n \in Good PROVE n + 1 \in Good
    <2>1. PICK g \in [SUBSET S -> Int] : UpTo(n, g)
      BY <1>4
    <2> DEFINE h == [s \in SUBSET S |-> IF Cardinality(s) <= n THEN g[s] ELSE OneMore(f, g, s)]
    <2>2. ASSUME NEW s \in SUBSET S PROVE OneMore(f, g, s) \in Int
      <3>1. CASE s = {}
        BY <3>1 DEF OneMore
      <3>2. CASE s # {}
        <4>1. Pick(s) \in S /\ s \ {Pick(s)} \in SUBSET S
          BY <1>2, <3>2
        <4>2. f[Pick(s)] \in Int /\ g[s \ {Pick(s)}] \in Int
          BY <4>1
        <4> QED  BY <3>2, <4>2 DEF OneMore
      <3> QED  BY <3>1, <3>2
    <2>3. h \in [SUBSET S -> Int]
      BY <2>2
    <2>4. ASSUME NEW s \in SUBSET S, Cardinality(s) <= n + 1 PROVE h[s] = OneMore(f, h, s)
      <3>1. h[s] = OneMore(f, g, s)
        BY <2>1
      <3>2. CASE s = {}
        BY <3>1, <3>2 DEF OneMore
      <3>3. CASE s # {}
        <4>1. h[s \ {Pick(s)}] = g[s \ {Pick(s)}]
          BY <1>1, <1>2, <2>4, <3>3
        <4> HIDE DEF h
        <4> QED  BY <3>1, <3>3, <4>1 DEF OneMore
      <3> QED  BY <3>2, <3>3
    <2> HIDE DEF h
    <2> QED  BY <2>3, <2>4
  <1>5. \A n \in Nat : n \in Good
    <2> HIDE DEF Good
    <2> QED  BY <1>3, <1>4, NaturalClosure
  <1>6. PICK g \in [SUBSET S -> Int] : UpTo(Cardinality(S), g)
    BY <1>1, <1>5
  <1>7. g = [s \in SUBSET S |-> OneMore(f, g, s)]
    BY <1>1, <1>6
  <1> QED  BY <1>7 DEF IsPartialSum

\* Two partial sums agree wherever both are defined.
LEMMA PartialSumUnique ==
  ASSUME NEW S, IsFiniteSet(S), NEW f, NEW R, NEW g, NEW h,
         IsPartialSum(f, S, g), IsPartialSum(f, R, h)
  PROVE  \A s \in SUBSET (S \cap R) : g[s] = h[s]
  <1> DEFINE U == S \cap R
             Small(n) == \A s \in SUBSET U : Cardinality(s) <= n => g[s] = h[s]
             GoodSizes == {n \in Nat : Small(n)}
  <1>1. \A s \in SUBSET U : /\ IsFiniteSet(s) /\ Cardinality(s) \in Nat
                              /\ g[s] = OneMore(f, g, s) /\ h[s] = OneMore(f, h, s)
    BY FS_Subset, FS_CardinalityType DEF IsPartialSum
  <1>2. \A s \in SUBSET U : s # {} => /\ s \ {Pick(s)} \in SUBSET U
                                       /\ Cardinality(s \ {Pick(s)}) = Cardinality(s) - 1
    BY <1>1, FS_RemoveElement DEF Pick
  <1>3. 0 \in GoodSizes
    <2>1. ASSUME NEW s \in SUBSET U, Cardinality(s) <= 0 PROVE g[s] = h[s]
      <3>1. s = {}
        BY <1>1, <2>1, FS_EmptySet
      <3> QED  BY <1>1, <3>1 DEF OneMore
    <2> QED  BY <2>1
  <1>4. ASSUME NEW n \in Nat, n \in GoodSizes PROVE n + 1 \in GoodSizes
    <2>1. ASSUME NEW s \in SUBSET U, Cardinality(s) <= n + 1 PROVE g[s] = h[s]
      <3>1. CASE s = {}
        BY <1>1, <3>1 DEF OneMore
      <3>2. CASE s # {}
        <4> DEFINE rest == s \ {Pick(s)}
        <4>1. rest \in SUBSET U /\ Cardinality(rest) <= n
          BY <1>1, <1>2, <2>1, <3>2
        <4>2. Small(n)
          BY <1>4
        <4>3. g[rest] = h[rest]
          <5> HIDE DEF rest, U
          <5> QED  BY <4>1, <4>2
        <4> QED  BY <1>1, <3>2, <4>3 DEF OneMore
      <3> QED  BY <3>1, <3>2
    <2> QED  BY <2>1
  <1>5. \A n \in Nat : n \in GoodSizes
    <2> HIDE DEF GoodSizes
    <2> QED  BY <1>3, <1>4, NaturalClosure
  <1> QED  BY <1>1, <1>5

\* The sum over a set, in terms of any partial sum that covers it.
LEMMA SumIsPartialSum ==
  ASSUME NEW S, IsFiniteSet(S), NEW f, \A x \in S : f[x] \in Int,
         NEW g, IsPartialSum(f, S, g), NEW R \in SUBSET S
  PROVE  SumFunctionOnSet(f, R) = g[R]
  <1>1. IsFiniteSet(R)
    BY FS_Subset
  <1> DEFINE h == CHOOSE k : IsPartialSum(f, R, k)
  <1>2. IsPartialSum(f, R, h)
    <2>1. \E k : IsPartialSum(f, R, k)
      BY <1>1, PartialSumExists
    <2> QED  BY <2>1
  <1>3. SumFunctionOnSet(f, R) = h[R]
    BY SumUnfolded
  <1> HIDE DEF h
  <1>4. R \in SUBSET (S \cap R)
    OBVIOUS
  <1> QED  BY <1>2, <1>3, <1>4, PartialSumUnique

-----------------------------------------------------------------------------
(* Sums.                                                                    *)

\* Nothing adds up to nothing.
LEMMA SumEmpty ==
  ASSUME NEW f
  PROVE  SumFunctionOnSet(f, {}) = 0
  <1>1. PICK g : IsPartialSum(f, {}, g)
    BY FS_EmptySet, PartialSumExists
  <1>2. SumFunctionOnSet(f, {}) = g[{}]
    <2>1. IsFiniteSet({}) /\ (\A x \in {} : f[x] \in Int) /\ {} \in SUBSET {}
      BY FS_EmptySet
    <2> QED  BY <1>1, <2>1, SumIsPartialSum
  <1> QED  BY <1>1, <1>2 DEF IsPartialSum, OneMore

\* The element the recursion takes first.
LEMMA SumPicked ==
  ASSUME NEW S, IsFiniteSet(S), S # {}, NEW f, \A x \in S : f[x] \in Int
  PROVE  SumFunctionOnSet(f, S) = f[Pick(S)] + SumFunctionOnSet(f, S \ {Pick(S)})
  <1>1. PICK g : IsPartialSum(f, S, g)
    BY PartialSumExists
  <1>2. g[S] = f[Pick(S)] + g[S \ {Pick(S)}]
    BY <1>1 DEF IsPartialSum, OneMore
  <1>3. SumFunctionOnSet(f, S) = g[S]
    BY <1>1, SumIsPartialSum
  <1>4. SumFunctionOnSet(f, S \ {Pick(S)}) = g[S \ {Pick(S)}]
    BY <1>1, SumIsPartialSum
  <1> QED  BY <1>2, <1>3, <1>4

\* A sum of integers is an integer.
LEMMA SumType ==
  ASSUME NEW S, IsFiniteSet(S), NEW f, \A x \in S : f[x] \in Int
  PROVE  SumFunctionOnSet(f, S) \in Int
  <1>1. PICK g \in [SUBSET S -> Int] : IsPartialSum(f, S, g)
    BY PartialSumExists
  <1>2. SumFunctionOnSet(f, S) = g[S]
    BY <1>1, SumIsPartialSum
  <1> QED  BY <1>1, <1>2

\* Any element may be taken out first.
LEMMA SumRemove ==
  ASSUME NEW S, IsFiniteSet(S), NEW f, \A x \in S : f[x] \in Int, NEW y \in S
  PROVE  SumFunctionOnSet(f, S) = f[y] + SumFunctionOnSet(f, S \ {y})
  <1> DEFINE Sum(s) == SumFunctionOnSet(f, s)
             Good == {s \in SUBSET S : \A x \in s : Sum(s) = f[x] + Sum(s \ {x})}
  <1>1. ASSUME NEW s \in SUBSET S
        PROVE  /\ IsFiniteSet(s)
               /\ Sum(s) \in Int
               /\ s # {} => Pick(s) \in s /\ Sum(s) = f[Pick(s)] + Sum(s \ {Pick(s)})
    <2>1. IsFiniteSet(s) /\ \A x \in s : f[x] \in Int
      BY FS_Subset
    <2>2. Sum(s) \in Int
      BY <2>1, SumType
    <2>3. s # {} => Pick(s) \in s
      BY DEF Pick
    <2>4. s # {} => Sum(s) = f[Pick(s)] + Sum(s \ {Pick(s)})
      BY <2>1, SumPicked
    <2> QED  BY <2>1, <2>2, <2>3, <2>4
  <1>2. {} \in Good
    OBVIOUS
  <1>3. ASSUME NEW s \in SUBSET S, \A r \in s : s \ {r} \in Good, NEW x \in s
        PROVE  Sum(s) = f[x] + Sum(s \ {x})
    <2> DEFINE p == Pick(s)
    <2>1. p \in s /\ Sum(s) = f[p] + Sum(s \ {p})
      BY <1>1
    <2>2. CASE x = p
      BY <2>1, <2>2
    <2>3. CASE x # p
      <3>1. s \ {p} \in Good /\ s \ {x} \in Good
        BY <1>3, <2>1
      <3>2. Sum(s \ {p}) = f[x] + Sum((s \ {p}) \ {x})
        BY <2>1, <2>3, <3>1
      <3>3. Sum(s \ {x}) = f[p] + Sum((s \ {x}) \ {p})
        BY <2>1, <2>3, <3>1
      <3>4. (s \ {p}) \ {x} = (s \ {x}) \ {p}
        OBVIOUS
      <3>5. f[x] \in Int /\ f[p] \in Int /\ Sum((s \ {x}) \ {p}) \in Int
        <4>1. (s \ {x}) \ {p} \in SUBSET S
          OBVIOUS
        <4> QED  BY <1>1, <2>1, <4>1
      <3> DEFINE rest == Sum((s \ {x}) \ {p})
      <3>6. Sum(s) = f[p] + (f[x] + rest) /\ Sum(s \ {x}) = f[p] + rest
        BY <2>1, <3>2, <3>3, <3>4
      <3>7. rest \in Int
        BY <3>5
      <3> HIDE DEF Sum, p, rest
      <3> QED  BY <3>5, <3>6, <3>7
    <2> QED  BY <2>2, <2>3
  <1>4. \A s \in SUBSET S : s # {} /\ (\A x \in s : s \ {x} \in Good) => s \in Good
    BY <1>3
  <1>5. S \in Good
    <2> HIDE DEF Good
    <2>1. \A s \in SUBSET S : s \in Good
      BY <1>2, <1>4, FiniteClosure, Zenon
    <2> QED  BY <2>1
  <1> QED  BY <1>5

\* If every term of one sum is in some proportion to its counterpart in another,
\* so are the sums.
LEMMA SumProportion ==
  ASSUME NEW S, IsFiniteSet(S), NEW f, NEW g,
         \A x \in S : f[x] \in Int /\ g[x] \in Int,
         NEW a \in Int, NEW b \in Int, \A x \in S : a * f[x] <= b * g[x]
  PROVE  a * SumFunctionOnSet(f, S) <= b * SumFunctionOnSet(g, S)
  <1> DEFINE F(s) == SumFunctionOnSet(f, s)
             G(s) == SumFunctionOnSet(g, s)
             Good == {s \in SUBSET S : a * F(s) <= b * G(s)}
  <1>1. {} \in Good
    BY SumEmpty
  <1>2. ASSUME NEW s \in SUBSET S, NEW x \in s, s \ {x} \in Good PROVE s \in Good
    <2>1. IsFiniteSet(s) /\ IsFiniteSet(s \ {x})
      BY FS_Subset
    <2>2. F(s) = f[x] + F(s \ {x}) /\ G(s) = g[x] + G(s \ {x})
      BY <2>1, SumRemove
    <2>3. F(s \ {x}) \in Int /\ G(s \ {x}) \in Int
      BY <2>1, SumType
    <2>4. a * F(s \ {x}) <= b * G(s \ {x})
      BY <1>2
    <2>5. f[x] \in Int /\ g[x] \in Int /\ a * f[x] <= b * g[x]
      OBVIOUS
    <2>6. \A u, v, w \in Int : w * (u + v) = w * u + w * v
      OBVIOUS
    <2> HIDE DEF F, G
    <2>7. a * F(s) = a * f[x] + a * F(s \ {x}) /\ b * G(s) = b * g[x] + b * G(s \ {x})
      BY <2>2, <2>3, <2>5, <2>6
    <2>8. a * f[x] \in Int /\ a * F(s \ {x}) \in Int /\ b * g[x] \in Int /\ b * G(s \ {x}) \in Int
      BY <2>3, <2>5
    <2>9. \A i, j, k, l \in Int : i <= j /\ k <= l => i + k <= j + l
      OBVIOUS
    <2>10. a * F(s) <= b * G(s)
      BY <2>4, <2>5, <2>7, <2>8, <2>9
    <2> QED  BY <2>10
  <1>3. \A s \in SUBSET S : s # {} /\ (\A x \in s : s \ {x} \in Good) => s \in Good
    BY <1>2
  <1>4. S \in Good
    <2> HIDE DEF Good
    <2>1. \A s \in SUBSET S : s \in Good
      BY <1>1, <1>3, FiniteClosure, Zenon
    <2> QED  BY <2>1
  <1> QED  BY <1>4

\* Greater terms, greater sum.
LEMMA SumMonotone ==
  ASSUME NEW S, IsFiniteSet(S), NEW f, NEW g,
         \A x \in S : f[x] \in Int /\ g[x] \in Int /\ f[x] <= g[x]
  PROVE  SumFunctionOnSet(f, S) <= SumFunctionOnSet(g, S)
  <1>1. 1 \in Int /\ \A x \in S : f[x] \in Int /\ g[x] \in Int /\ 1 * f[x] <= 1 * g[x]
    OBVIOUS
  <1>2. 1 * SumFunctionOnSet(f, S) <= 1 * SumFunctionOnSet(g, S)
    BY <1>1, SumProportion, Zenon
  <1>3. SumFunctionOnSet(f, S) \in Int /\ SumFunctionOnSet(g, S) \in Int
    BY SumType
  <1> QED  BY <1>2, <1>3

\* Equal terms, equal sum.
LEMMA SumAgree ==
  ASSUME NEW S, IsFiniteSet(S), NEW f, NEW g,
         \A x \in S : f[x] \in Int /\ g[x] = f[x]
  PROVE  SumFunctionOnSet(g, S) = SumFunctionOnSet(f, S)
  <1>1. SumFunctionOnSet(f, S) <= SumFunctionOnSet(g, S)
    BY SumMonotone
  <1>2. SumFunctionOnSet(g, S) <= SumFunctionOnSet(f, S)
    BY SumMonotone
  <1>3. SumFunctionOnSet(f, S) \in Int /\ SumFunctionOnSet(g, S) \in Int
    BY SumType
  <1> QED  BY <1>1, <1>2, <1>3

\* A sum of naturals is a natural.
LEMMA SumNat ==
  ASSUME NEW S, IsFiniteSet(S), NEW f, \A x \in S : f[x] \in Nat
  PROVE  SumFunctionOnSet(f, S) \in Nat
  <1>1. \A x \in S : f[x] \in Int /\ 0 * f[x] <= 1 * f[x]
    OBVIOUS
  <1>2. 0 * SumFunctionOnSet(f, S) <= 1 * SumFunctionOnSet(f, S)
    BY <1>1, SumProportion
  <1>3. SumFunctionOnSet(f, S) \in Int
    BY SumType
  <1> QED  BY <1>2, <1>3

\* A sum of zeros is zero.
LEMMA SumZero ==
  ASSUME NEW S, IsFiniteSet(S), NEW f, \A x \in S : f[x] = 0
  PROVE  SumFunctionOnSet(f, S) = 0
  <1>1. 0 \in Int /\ 1 \in Int /\ \A x \in S : f[x] \in Int /\ 1 * f[x] <= 0 * f[x]
    OBVIOUS
  <1>2. 1 * SumFunctionOnSet(f, S) <= 0 * SumFunctionOnSet(f, S)
    BY <1>1, SumProportion, Zenon
  <1>3. SumFunctionOnSet(f, S) \in Nat
    BY SumNat
  <1> QED  BY <1>2, <1>3

\* One term changes, the sum changes by as much.
LEMMA SumOneChanged ==
  ASSUME NEW S, IsFiniteSet(S), NEW f, NEW g,
         \A x \in S : f[x] \in Int /\ g[x] \in Int,
         NEW y \in S, \A x \in S \ {y} : g[x] = f[x]
  PROVE  SumFunctionOnSet(g, S) = SumFunctionOnSet(f, S) - f[y] + g[y]
  <1>1. IsFiniteSet(S \ {y})
    BY FS_Subset
  <1>2. SumFunctionOnSet(g, S \ {y}) = SumFunctionOnSet(f, S \ {y})
    BY <1>1, SumAgree
  <1>3. /\ SumFunctionOnSet(f, S) = f[y] + SumFunctionOnSet(f, S \ {y})
        /\ SumFunctionOnSet(g, S) = g[y] + SumFunctionOnSet(g, S \ {y})
    BY SumRemove
  <1>4. SumFunctionOnSet(f, S \ {y}) \in Int
    BY <1>1, SumType
  <1> QED  BY <1>2, <1>3, <1>4

\* Sums over two sets that have nothing in common.
LEMMA SumDisjoint ==
  ASSUME NEW R, NEW T, IsFiniteSet(R), IsFiniteSet(T), R \cap T = {},
         NEW f, \A x \in R \cup T : f[x] \in Int
  PROVE  SumFunctionOnSet(f, R \cup T) = SumFunctionOnSet(f, R) + SumFunctionOnSet(f, T)
  <1> DEFINE Sum(s) == SumFunctionOnSet(f, s)
             Good == {s \in SUBSET T : Sum(R \cup s) = Sum(R) + Sum(s)}
  <1>1. Sum(R) \in Int
    BY SumType
  <1>2. {} \in Good
    <2>1. R \cup {} = R
      OBVIOUS
    <2>2. Sum({}) = 0
      BY SumEmpty
    <2> QED  BY <1>1, <2>1, <2>2
  <1>3. ASSUME NEW s \in SUBSET T, NEW x \in s, s \ {x} \in Good PROVE s \in Good
    <2>1. IsFiniteSet(s) /\ IsFiniteSet(s \ {x}) /\ IsFiniteSet(R \cup s)
      BY FS_Subset, FS_Union
    <2>2. (R \cup s) \ {x} = R \cup (s \ {x})
      OBVIOUS
    <2>3. Sum(R \cup s) = f[x] + Sum(R \cup (s \ {x}))
      BY <2>1, <2>2, SumRemove
    <2>4. Sum(s) = f[x] + Sum(s \ {x})
      BY <2>1, SumRemove
    <2>5. Sum(s \ {x}) \in Int /\ f[x] \in Int
      BY <2>1, SumType
    <2>6. Sum(R \cup (s \ {x})) = Sum(R) + Sum(s \ {x})
      BY <1>3
    <2> HIDE DEF Sum
    <2>7. Sum(R \cup s) = Sum(R) + Sum(s)
      BY <1>1, <2>3, <2>4, <2>5, <2>6
    <2> QED  BY <2>7
  <1>4. \A s \in SUBSET T : s # {} /\ (\A x \in s : s \ {x} \in Good) => s \in Good
    BY <1>3
  <1>5. T \in Good
    <2> HIDE DEF Good
    <2>1. \A s \in SUBSET T : s \in Good
      BY <1>2, <1>4, FiniteClosure, Zenon
    <2> QED  BY <2>1
  <1> QED  BY <1>5

\* A part of a sum of naturals is at most the whole.
LEMMA SumPart ==
  ASSUME NEW S, IsFiniteSet(S), NEW R \in SUBSET S, NEW f, \A x \in S : f[x] \in Nat
  PROVE  SumFunctionOnSet(f, R) <= SumFunctionOnSet(f, S)
  <1>1. IsFiniteSet(R) /\ IsFiniteSet(S \ R)
    BY FS_Subset
  <1>2. S = R \cup (S \ R) /\ R \cap (S \ R) = {}
    OBVIOUS
  <1>3. SumFunctionOnSet(f, S) = SumFunctionOnSet(f, R) + SumFunctionOnSet(f, S \ R)
    BY <1>1, <1>2, SumDisjoint
  <1>4. SumFunctionOnSet(f, R) \in Nat /\ SumFunctionOnSet(f, S \ R) \in Nat
    BY <1>1, SumNat
  <1> QED  BY <1>3, <1>4

\* No summand is more than the sum of natural numbers.
LEMMA SumAtLeast ==
  ASSUME NEW S, IsFiniteSet(S), NEW f, \A x \in S : f[x] \in Nat, NEW y \in S
  PROVE  f[y] <= SumFunctionOnSet(f, S)
  <1>1. \A x \in S : f[x] \in Int
    OBVIOUS
  <1>2. SumFunctionOnSet(f, S) = f[y] + SumFunctionOnSet(f, S \ {y})
    BY <1>1, SumRemove
  <1>3. IsFiniteSet(S \ {y}) /\ \A x \in S \ {y} : f[x] \in Nat
    BY FS_Subset
  <1>4. SumFunctionOnSet(f, S \ {y}) \in Nat
    BY <1>3, SumNat
  <1> QED  BY <1>2, <1>4
=============================================================================
