------------------------------ MODULE FoldTheorems ------------------------------
(***************************************************************************)
(* Facts about the folds the specifications use, for all arguments.       *)
(*                                                                         *)
(* The induction theorems of the library take the induction hypothesis as *)
(* an operator.  Here it is a set: the set of the numbers, or of the      *)
(* subsets, of which the statement holds.  The least element that is not  *)
(* in it comes from WFMin, which needs no operator.                       *)
(***************************************************************************)
EXTENDS Integers, FiniteSets, FiniteSetsExt, FiniteSetTheorems, WellFoundedInduction, TLAPS

-----------------------------------------------------------------------------
(* Induction.                                                             *)

LEMMA LeastElement ==
    ASSUME NEW T, T \subseteq Nat, T # {}
    PROVE  \E n \in T : \A m \in T : n <= m
<1> DEFINE R == {pair \in Nat \X Nat : pair[1] < pair[2]}
<1>1. IsWellFoundedOn(R, Nat)
  BY NatLessThanWellFounded DEF OpToRel
<1>2. PICK n \in T : \A m \in T : ~(<<m, n>> \in R)
  <2> HIDE DEF R
  <2> QED BY <1>1, WFMin
<1>3. \A m \in T : n <= m
  <2> SUFFICES ASSUME NEW m \in T PROVE n <= m
    OBVIOUS
  <2>1. m \in Nat /\ n \in Nat /\ ~(<<m, n>> \in R)
    BY <1>2
  <2>2. ~(m < n)
    BY <2>1
  <2> QED BY <2>1, <2>2
<1> QED BY <1>3

LEMMA NaturalInduction ==
    ASSUME NEW Good, 0 \in Good, \A n \in Nat : n \in Good => n + 1 \in Good
    PROVE  Nat \subseteq Good
<1> SUFFICES ASSUME Nat \ Good # {} PROVE FALSE
  OBVIOUS
<1>1. PICK n \in Nat \ Good : \A m \in Nat \ Good : n <= m
  BY LeastElement
<1>2. n # 0 /\ n - 1 \in Nat
  OBVIOUS
<1>3. n - 1 \in Good
  BY <1>1, <1>2
<1> QED BY <1>2, <1>3

(* What holds of a subset when it holds of all smaller ones holds of all. *)
LEMMA SubsetInduction ==
    ASSUME NEW S, IsFiniteSet(S), NEW Good,
           \A s \in SUBSET S : (\A t \in SUBSET s : t # s => t \in Good) => s \in Good
    PROVE  SUBSET S \subseteq Good
<1> SUFFICES ASSUME (SUBSET S) \ Good # {} PROVE FALSE
  OBVIOUS
<1> DEFINE Sizes == {n \in Nat : \E s \in (SUBSET S) \ Good : Cardinality(s) = n}
<1>1. \A s \in SUBSET S : IsFiniteSet(s) /\ Cardinality(s) \in Nat
  BY FS_Subset, FS_CardinalityType
<1>2. PICK n \in Sizes : \A m \in Sizes : n <= m
  <2>1. Sizes \subseteq Nat /\ Sizes # {}
    BY <1>1
  <2> HIDE DEF Sizes
  <2> QED BY <2>1, LeastElement
<1>3. PICK s \in (SUBSET S) \ Good : Cardinality(s) = n
  BY <1>2
<1>4. ASSUME NEW t \in SUBSET s, t # s
      PROVE  t \in Good
  <2>1. Cardinality(t) < Cardinality(s) /\ t \in SUBSET S
    BY <1>1, <1>4, FS_Subset
  <2>2. Cardinality(t) \notin Sizes
    BY <1>1, <1>2, <1>3, <2>1
  <2> QED BY <1>1, <2>1, <2>2
<1>5. s \in Good
  <2>1. s \in SUBSET S
    BY <1>3
  <2> QED BY <1>4, <2>1
<1> QED BY <1>3, <1>5

-----------------------------------------------------------------------------
(***************************************************************************)
(* Sums: SumFunctionOnSet(f, S) is the sum of f[x] for x in S.            *)
(***************************************************************************)
Some(s) == CHOOSE x \in s : TRUE

(* The function that computes the sums of the subsets of S.               *)
IsSumOf(g, f, S) ==
    g = [s \in SUBSET S |->
            IF s = {} THEN 0 ELSE f[Some(s)] + g[s \ {Some(s)}]]

LEMMA SumDef ==
    ASSUME NEW f, NEW S
    PROVE  SumFunctionOnSet(f, S) = (CHOOSE g : IsSumOf(g, f, S))[S]
BY DEF SumFunctionOnSet, FoldFunctionOnSet, MapThenFoldSet, IsSumOf, Some

LEMMA SumUnique ==
    ASSUME NEW f, NEW S, NEW T, IsFiniteSet(S), NEW g, NEW h, IsSumOf(g, f, S), IsSumOf(h, f, T)
    PROVE  \A s \in SUBSET (S \cap T) : g[s] = h[s]
<1> DEFINE Both == S \cap T
           Good == {s \in SUBSET Both : g[s] = h[s]}
<1>1. ASSUME NEW s \in SUBSET Both, \A t \in SUBSET s : t # s => t \in Good
      PROVE  s \in Good
  <2>1. CASE s = {}
    BY <2>1 DEF IsSumOf
  <2>2. CASE s # {}
    <3> DEFINE x == Some(s)
    <3>1. x \in s
      BY <2>2 DEF Some
    <3> HIDE DEF x
    <3>2. s \ {x} \in SUBSET s /\ s \ {x} # s
      BY <3>1
    <3>3. g[s \ {x}] = h[s \ {x}]
      BY <1>1, <3>2
    <3>4. g[s] = f[x] + g[s \ {x}] /\ h[s] = f[x] + h[s \ {x}]
      BY <2>2 DEF IsSumOf, x
    <3> QED BY <3>3, <3>4
  <2> QED BY <2>1, <2>2
<1>2. IsFiniteSet(Both)
  <2>1. Both \in SUBSET S
    OBVIOUS
  <2> QED BY <2>1, FS_Subset
<1> HIDE DEF Good, Both
<1>3. SUBSET Both \subseteq Good
  BY <1>1, <1>2, SubsetInduction
<1> QED BY <1>3 DEF Good, Both

LEMMA SumExists ==
    ASSUME NEW f, NEW S, IsFiniteSet(S)
    PROVE  \A s \in SUBSET S : \E g : IsSumOf(g, f, s)
<1> DEFINE Good == {s \in SUBSET S : \E g : IsSumOf(g, f, s)}
           Sum(s) == SumFunctionOnSet(f, s)
<1>1. ASSUME NEW s \in SUBSET S, \A t \in SUBSET s : t # s => t \in Good
      PROVE  s \in Good
  <2> DEFINE g == [t \in SUBSET s |-> IF t = {} THEN 0 ELSE f[Some(t)] + Sum(t \ {Some(t)})]
  <2>1. ASSUME NEW t \in SUBSET s, t # s
        PROVE  /\ \A u \in SUBSET t : \E h : IsSumOf(h, f, u)
               /\ IsSumOf(CHOOSE h : IsSumOf(h, f, t), f, t)
               /\ Sum(t) = (CHOOSE h : IsSumOf(h, f, t))[t]
    <3>1. \A u \in SUBSET t : u \in Good
      BY <1>1, <2>1
    <3> QED BY <3>1, SumDef
  <2>2. ASSUME NEW t \in SUBSET s, t # s
        PROVE  g[t] = Sum(t)
    <3> DEFINE h == CHOOSE h : IsSumOf(h, f, t)
    <3>1. IsSumOf(h, f, t) /\ Sum(t) = h[t]
      BY <2>1, <2>2
    <3>2. CASE t = {}
      BY <3>1, <3>2 DEF IsSumOf
    <3>3. CASE t # {}
      <4> DEFINE x == Some(t)
                 u == t \ {x}
                 k == CHOOSE k : IsSumOf(k, f, u)
      <4>1. x \in t /\ u \in SUBSET t /\ u \in SUBSET s /\ u # s
        BY <3>3 DEF Some
      <4>2. IsSumOf(k, f, u) /\ Sum(u) = k[u]
        BY <2>1, <4>1
      <4>3. IsFiniteSet(u)
        BY FS_Subset
      <4>4. k[u] = h[u]
        <5> HIDE DEF h, k, u
        <5> QED BY <3>1, <4>1, <4>2, <4>3, SumUnique
      <4>5. h[t] = f[x] + h[u]
        <5> HIDE DEF h
        <5> QED BY <3>1, <3>3 DEF IsSumOf
      <4>6. g[t] = f[x] + Sum(u)
        BY <3>3
      <4> HIDE DEF g, h, k, u, x
      <4> QED BY <3>1, <4>2, <4>4, <4>5, <4>6
    <3> QED BY <3>2, <3>3
  <2>3. ASSUME NEW t \in SUBSET s, t # {}
        PROVE  Sum(t \ {Some(t)}) = g[t \ {Some(t)}]
    <3>1. Some(t) \in t
      BY <2>3 DEF Some
    <3> QED BY <2>2, <3>1
  <2>4. IsSumOf(g, f, s)
    <3>1. \A t \in SUBSET s : g[t] = IF t = {} THEN 0 ELSE f[Some(t)] + g[t \ {Some(t)}]
      BY <2>3
    <3> HIDE DEF Sum
    <3> QED BY <3>1 DEF IsSumOf
  <2> QED BY <2>4
<1> HIDE DEF Good
<1>2. SUBSET S \subseteq Good
  BY <1>1, SubsetInduction
<1> QED BY <1>2 DEF Good

LEMMA SumEmpty ==
    ASSUME NEW f
    PROVE  SumFunctionOnSet(f, {}) = 0
<1> DEFINE g == CHOOSE g : IsSumOf(g, f, {})
<1>1. IsSumOf(g, f, {})
  <2>1. IsFiniteSet({}) /\ {} \in SUBSET {}
    BY FS_EmptySet
  <2>2. \E h : IsSumOf(h, f, {})
    BY <2>1, SumExists
  <2> QED BY <2>2
<1>2. SumFunctionOnSet(f, {}) = g[{}]
  BY SumDef
<1> HIDE DEF g
<1> QED BY <1>1, <1>2 DEF IsSumOf

LEMMA SumChoose ==
    ASSUME NEW f, NEW S, IsFiniteSet(S), S # {}
    PROVE  SumFunctionOnSet(f, S) = f[Some(S)] + SumFunctionOnSet(f, S \ {Some(S)})
<1> DEFINE x == Some(S)
           T == S \ {x}
           g == CHOOSE g : IsSumOf(g, f, S)
           h == CHOOSE h : IsSumOf(h, f, T)
<1>1. IsSumOf(g, f, S) /\ IsSumOf(h, f, T)
  <2> HIDE DEF T
  <2>1. S \in SUBSET S /\ T \in SUBSET S
    BY DEF T
  <2>2. (\E k : IsSumOf(k, f, S)) /\ (\E k : IsSumOf(k, f, T))
    BY <2>1, SumExists
  <2> QED BY <2>2
<1>2. SumFunctionOnSet(f, S) = g[S] /\ SumFunctionOnSet(f, T) = h[T]
  <2> HIDE DEF T
  <2> QED BY SumDef
<1>3. T \in SUBSET S /\ T \in SUBSET (S \cap T)
  OBVIOUS
<1> HIDE DEF g, h, T
<1>4. g[T] = h[T]
  BY <1>1, <1>3, SumUnique
<1>5. g[S] = f[x] + g[T]
  BY <1>1 DEF IsSumOf, T
<1> QED BY <1>2, <1>4, <1>5 DEF T

LEMMA SumInt ==
    ASSUME NEW f, NEW S, IsFiniteSet(S), \A x \in S : f[x] \in Int
    PROVE  SumFunctionOnSet(f, S) \in Int
<1> DEFINE Good == {s \in SUBSET S : SumFunctionOnSet(f, s) \in Int}
<1>1. ASSUME NEW s \in SUBSET S, \A t \in SUBSET s : t # s => t \in Good
      PROVE  s \in Good
  <2>1. CASE s = {}
    BY <2>1, SumEmpty
  <2>2. CASE s # {}
    <3>1. Some(s) \in s /\ IsFiniteSet(s)
      BY <2>2, FS_Subset DEF Some
    <3>2. SumFunctionOnSet(f, s \ {Some(s)}) \in Int
      BY <1>1, <3>1
    <3> QED BY <2>2, <3>1, <3>2, SumChoose
  <2> QED BY <2>1, <2>2
<1> HIDE DEF Good
<1>2. SUBSET S \subseteq Good
  BY <1>1, SubsetInduction
<1> QED BY <1>2 DEF Good

LEMMA SumNat ==
    ASSUME NEW f, NEW S, IsFiniteSet(S), \A x \in S : f[x] \in Nat
    PROVE  SumFunctionOnSet(f, S) \in Nat
<1> DEFINE Good == {s \in SUBSET S : SumFunctionOnSet(f, s) \in Nat}
<1>1. ASSUME NEW s \in SUBSET S, \A t \in SUBSET s : t # s => t \in Good
      PROVE  s \in Good
  <2>1. CASE s = {}
    BY <2>1, SumEmpty
  <2>2. CASE s # {}
    <3>1. Some(s) \in s /\ IsFiniteSet(s)
      BY <2>2, FS_Subset DEF Some
    <3>2. SumFunctionOnSet(f, s \ {Some(s)}) \in Nat
      BY <1>1, <3>1
    <3> QED BY <2>2, <3>1, <3>2, SumChoose
  <2> QED BY <2>1, <2>2
<1> HIDE DEF Good
<1>2. SUBSET S \subseteq Good
  BY <1>1, SubsetInduction
<1> QED BY <1>2 DEF Good

(* The order in which the terms are added does not matter.                *)
LEMMA SumRemove ==
    ASSUME NEW f, NEW S, IsFiniteSet(S), \A x \in S : f[x] \in Int, NEW x \in S
    PROVE  SumFunctionOnSet(f, S) = f[x] + SumFunctionOnSet(f, S \ {x})
<1> DEFINE Sum(s) == SumFunctionOnSet(f, s)
           Good == {s \in SUBSET S : \A y \in s : Sum(s) = f[y] + Sum(s \ {y})}
<1>1. ASSUME NEW s \in SUBSET S, \A t \in SUBSET s : t # s => t \in Good
      PROVE  s \in Good
  <2> SUFFICES ASSUME NEW y \in s PROVE Sum(s) = f[y] + Sum(s \ {y})
    OBVIOUS
  <2> DEFINE z == Some(s)
  <2>1. z \in s /\ IsFiniteSet(s)
    BY FS_Subset DEF Some
  <2>2. Sum(s) = f[z] + Sum(s \ {z})
    BY <2>1, SumChoose
  <2> HIDE DEF z
  <2>3. CASE y # z
    <3>1. Sum(s \ {z}) = f[y] + Sum((s \ {z}) \ {y})
      BY <1>1, <2>1, <2>3
    <3>2. Sum(s \ {y}) = f[z] + Sum((s \ {y}) \ {z})
      BY <1>1, <2>1, <2>3
    <3>3. Sum((s \ {z}) \ {y}) = Sum((s \ {y}) \ {z})
      <4>1. (s \ {z}) \ {y} = (s \ {y}) \ {z}
        OBVIOUS
      <4> QED BY ONLY <4>1, Zenon
    <3>4. f[y] \in Int /\ f[z] \in Int /\ Sum((s \ {z}) \ {y}) \in Int
      <4> DEFINE u == (s \ {z}) \ {y}
      <4>1. u \in SUBSET S /\ \A w \in u : f[w] \in Int
        OBVIOUS
      <4>2. IsFiniteSet(u)
        <5> HIDE DEF u
        <5> QED BY <4>1, FS_Subset
      <4> HIDE DEF u
      <4>3. SumFunctionOnSet(f, u) \in Int
        BY <4>1, <4>2, SumInt
      <4> QED BY <2>1, <4>3 DEF u
    <3> HIDE DEF Sum
    <3> QED BY <2>2, <3>1, <3>2, <3>3, <3>4
  <2> QED BY <2>2, <2>3
<1> HIDE DEF Good
<1>2. SUBSET S \subseteq Good
  BY <1>1, SubsetInduction
<1> QED BY <1>2 DEF Good

LEMMA SumAdd ==
    ASSUME NEW f, NEW S, IsFiniteSet(S), NEW x, x \notin S,
           \A y \in S \cup {x} : f[y] \in Int
    PROVE  SumFunctionOnSet(f, S \cup {x}) = f[x] + SumFunctionOnSet(f, S)
<1> DEFINE T == S \cup {x}
<1>1. IsFiniteSet(T) /\ x \in T /\ T \ {x} = S /\ \A y \in T : f[y] \in Int
  BY FS_AddElement
<1> HIDE DEF T
<1>2. SumFunctionOnSet(f, T) = f[x] + SumFunctionOnSet(f, T \ {x})
  BY <1>1, SumRemove
<1> QED BY <1>1, <1>2 DEF T

LEMMA SumSame ==
    ASSUME NEW f, NEW g, NEW S, IsFiniteSet(S), \A x \in S : f[x] = g[x]
    PROVE  SumFunctionOnSet(f, S) = SumFunctionOnSet(g, S)
<1> DEFINE Good == {s \in SUBSET S : SumFunctionOnSet(f, s) = SumFunctionOnSet(g, s)}
<1>1. ASSUME NEW s \in SUBSET S, \A t \in SUBSET s : t # s => t \in Good
      PROVE  s \in Good
  <2>1. CASE s = {}
    BY <2>1, SumEmpty
  <2>2. CASE s # {}
    <3>1. Some(s) \in s /\ IsFiniteSet(s)
      BY <2>2, FS_Subset DEF Some
    <3>2. SumFunctionOnSet(f, s \ {Some(s)}) = SumFunctionOnSet(g, s \ {Some(s)})
      BY <1>1, <3>1
    <3> QED BY <2>2, <3>1, <3>2, SumChoose
  <2> QED BY <2>1, <2>2
<1> HIDE DEF Good
<1>2. SUBSET S \subseteq Good
  BY <1>1, SubsetInduction
<1> QED BY <1>2 DEF Good

LEMMA SumUnion ==
    ASSUME NEW f, NEW S, NEW T, IsFiniteSet(S), IsFiniteSet(T), S \cap T = {},
           \A x \in S \cup T : f[x] \in Int
    PROVE  SumFunctionOnSet(f, S \cup T) = SumFunctionOnSet(f, S) + SumFunctionOnSet(f, T)
<1> DEFINE Sum(s) == SumFunctionOnSet(f, s)
           Good == {t \in SUBSET T : Sum(S \cup t) = Sum(S) + Sum(t)}
<1>1. ASSUME NEW t \in SUBSET T, \A u \in SUBSET t : u # t => u \in Good
      PROVE  t \in Good
  <2>1. Sum(S) \in Int
    BY SumInt
  <2>2. CASE t = {}
    <3>1. S \cup t = S
      BY <2>2
    <3> QED BY <2>1, <2>2, <3>1, SumEmpty
  <2>3. CASE t # {}
    <3> DEFINE x == Some(t)
               u == t \ {x}
               V == S \cup u
    <3>1. x \in t
      BY <2>3 DEF Some
    <3> HIDE DEF x
    <3>2. /\ u \in SUBSET T /\ x \notin u /\ x \notin V /\ f[x] \in Int
          /\ t = u \cup {x} /\ S \cup t = V \cup {x}
          /\ \A y \in u \cup {x} : f[y] \in Int
          /\ \A y \in V \cup {x} : f[y] \in Int
      BY <3>1
    <3>3. Sum(V) = Sum(S) + Sum(u)
      BY <1>1, <3>1
    <3> HIDE DEF u
    <3>4. IsFiniteSet(u) /\ IsFiniteSet(V)
      BY <3>2, FS_Subset, FS_Union
    <3> HIDE DEF V
    <3>5. SumFunctionOnSet(f, u \cup {x}) = f[x] + SumFunctionOnSet(f, u)
      BY <3>2, <3>4, SumAdd
    <3>6. SumFunctionOnSet(f, V \cup {x}) = f[x] + SumFunctionOnSet(f, V)
      BY <3>2, <3>4, SumAdd
    <3>7. Sum(u) \in Int
      BY <3>2, <3>4, SumInt
    <3>8. Sum(S \cup t) = f[x] + Sum(V) /\ Sum(t) = f[x] + Sum(u)
      BY <3>2, <3>5, <3>6
    <3>9. f[x] \in Int
      BY <3>2
    <3> HIDE DEF Sum
    <3>10. Sum(S \cup t) = Sum(S) + Sum(t)
      BY <2>1, <3>3, <3>7, <3>8, <3>9
    <3> QED BY <3>10
  <2> QED BY <2>2, <2>3
<1> HIDE DEF Good
<1>2. SUBSET T \subseteq Good
  BY <1>1, SubsetInduction
<1> QED BY <1>2 DEF Good

LEMMA SumSubset ==
    ASSUME NEW f, NEW S, IsFiniteSet(S), NEW T \in SUBSET S, \A x \in S : f[x] \in Nat
    PROVE  /\ IsFiniteSet(T) /\ IsFiniteSet(S \ T)
           /\ SumFunctionOnSet(f, S) = SumFunctionOnSet(f, T) + SumFunctionOnSet(f, S \ T)
           /\ SumFunctionOnSet(f, T) \in Nat /\ SumFunctionOnSet(f, S \ T) \in Nat
           /\ SumFunctionOnSet(f, T) <= SumFunctionOnSet(f, S)
<1> DEFINE U == S \ T
<1>1. U \in SUBSET S /\ T \cup U = S /\ T \cap U = {}
      /\ (\A x \in T \cup U : f[x] \in Int) /\ (\A x \in T : f[x] \in Nat) /\ (\A x \in U : f[x] \in Nat)
  OBVIOUS
<1> HIDE DEF U
<1>2. IsFiniteSet(T) /\ IsFiniteSet(U)
  BY <1>1, FS_Subset
<1>3. SumFunctionOnSet(f, T \cup U) = SumFunctionOnSet(f, T) + SumFunctionOnSet(f, U)
  BY <1>1, <1>2, SumUnion
<1>4. SumFunctionOnSet(f, T) \in Nat /\ SumFunctionOnSet(f, U) \in Nat
  BY <1>1, <1>2, SumNat
<1>5. SumFunctionOnSet(f, S) = SumFunctionOnSet(f, T) + SumFunctionOnSet(f, U)
  BY <1>1, <1>3
<1>6. SumFunctionOnSet(f, T) <= SumFunctionOnSet(f, S)
  BY <1>4, <1>5
<1> QED BY <1>2, <1>4, <1>5, <1>6 DEF U

-----------------------------------------------------------------------------
(* Recursion over an initial segment of the naturals.                     *)

Iterates(f, step, first, last, V) ==
    /\ f \in [0 .. last -> V] /\ f[0] = first
    /\ \A n \in 1 .. last : f[n] = step[n][f[n - 1]]

(* Steps that stay in V, iterated from a value in V, yield a function.    *)
LEMMA RecursionExists ==
    ASSUME NEW V, NEW first \in V, NEW last \in Nat, NEW step,
           \A n \in 1 .. last, v \in V : step[n][v] \in V
    PROVE  \E f : Iterates(f, step, first, last, V)
<1> DEFINE Upto(m, f) == /\ f \in [0 .. m -> V] /\ f[0] = first
                         /\ \A n \in 1 .. m : f[n] = step[n][f[n - 1]]
           Good == {m \in Nat : m <= last => \E f : Upto(m, f)}
<1>1. 0 \in Good
  <2> DEFINE f == [n \in 0 .. 0 |-> first]
  <2>1. Upto(0, f)
    OBVIOUS
  <2> QED BY <2>1
<1>2. ASSUME NEW m \in Nat, m \in Good
      PROVE  m + 1 \in Good
  <2> SUFFICES ASSUME m + 1 <= last PROVE \E f : Upto(m + 1, f)
    OBVIOUS
  <2>1. PICK f : Upto(m, f)
    BY <1>2
  <2> DEFINE g == [n \in 0 .. m + 1 |-> IF n = m + 1 THEN step[m + 1][f[m]] ELSE f[n]]
  <2>2. step[m + 1][f[m]] \in V
    BY <2>1
  <2>3. g \in [0 .. m + 1 -> V] /\ g[0] = first
    BY <2>1, <2>2
  <2>4. ASSUME NEW n \in 1 .. m + 1
        PROVE  g[n] = step[n][g[n - 1]]
    <3>1. g[n - 1] = f[n - 1]
      OBVIOUS
    <3>2. CASE n = m + 1
      <4>1. g[m + 1] = step[m + 1][f[m]] /\ (m + 1) - 1 = m
        OBVIOUS
      <4> HIDE DEF g
      <4> QED BY <3>1, <3>2, <4>1
    <3>3. CASE n \in 1 .. m
      <4>1. g[n] = f[n]
        BY <3>3
      <4> HIDE DEF g
      <4> QED BY <2>1, <3>1, <3>3, <4>1
    <3> QED BY <3>2, <3>3
  <2> HIDE DEF g
  <2>5. Upto(m + 1, g)
    BY <2>3, <2>4
  <2> QED BY <2>5
<1> HIDE DEF Good
<1>3. last \in Good
  <2>1. Nat \subseteq Good
    BY <1>1, <1>2, NaturalInduction
  <2> QED BY <2>1
<1> QED BY <1>3 DEF Good, Iterates

(* A sum of n terms, none above a bound, is at most n times the bound.    *)
LEMMA SumBound ==
    ASSUME NEW f, NEW S, IsFiniteSet(S), NEW bound \in Nat, \A x \in S : f[x] \in 0 .. bound
    PROVE  SumFunctionOnSet(f, S) <= Cardinality(S) * bound
<1> DEFINE Good == {s \in SUBSET S : SumFunctionOnSet(f, s) <= Cardinality(s) * bound}
<1>1. ASSUME NEW s \in SUBSET S, \A t \in SUBSET s : t # s => t \in Good
      PROVE  s \in Good
  <2>0. IsFiniteSet(s)
    BY FS_Subset
  <2>1. CASE s = {}
    <3>1. SumFunctionOnSet(f, s) = 0 /\ Cardinality(s) = 0
      BY <2>1, SumEmpty, FS_EmptySet
    <3> QED BY <3>1
  <2>2. CASE s # {}
    <3> DEFINE x == Some(s)
    <3>1. x \in s
      BY <2>2 DEF Some
    <3> HIDE DEF x
    <3>2. SumFunctionOnSet(f, s) = f[x] + SumFunctionOnSet(f, s \ {x})
      BY <2>0, <2>2, SumChoose DEF x
    <3>3. SumFunctionOnSet(f, s \ {x}) <= Cardinality(s \ {x}) * bound
      BY <1>1, <3>1
    <3>4. /\ IsFiniteSet(s \ {x}) /\ Cardinality(s \ {x}) = Cardinality(s) - 1
          /\ Cardinality(s) \in Nat
      BY <2>0, <3>1, FS_RemoveElement, FS_CardinalityType
    <3>5. SumFunctionOnSet(f, s \ {x}) \in Int
      BY <3>4, SumInt
    <3>6. (Cardinality(s) - 1) * bound + bound = Cardinality(s) * bound
      BY <3>4
    <3>7. f[x] \in 0 .. bound /\ (Cardinality(s) - 1) * bound \in Int /\ Cardinality(s) * bound \in Int
      BY <3>1, <3>4
    <3> HIDE DEF Good
    <3>8. SumFunctionOnSet(f, s) <= Cardinality(s) * bound
      BY <3>2, <3>3, <3>4, <3>5, <3>6, <3>7
    <3> QED BY <3>8 DEF Good
  <2> QED BY <2>1, <2>2
<1> HIDE DEF Good
<1>2. S \in Good
  BY <1>1, SubsetInduction
<1> QED BY <1>2 DEF Good

(* Terms that are zero add nothing.                                       *)
LEMMA SumZero ==
    ASSUME NEW f, NEW S, IsFiniteSet(S), \A x \in S : f[x] = 0
    PROVE  SumFunctionOnSet(f, S) = 0
<1>1. SumFunctionOnSet(f, S) \in Nat
  BY SumNat
<1>2. SumFunctionOnSet(f, S) <= Cardinality(S) * 0
  BY SumBound
<1> QED BY <1>1, <1>2, FS_CardinalityType

=================================================================================
