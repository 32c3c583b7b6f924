-------------------------------- MODULE Sums --------------------------------
(***************************************************************************)
(* Sums over finite sets.  SumFunctionOnSet(f, S) of the community modules *)
(* folds a recursive function over the subsets of S; here is what it       *)
(* computes: it is additive, in whatever order the fold takes the elements.*)
(*                                                                         *)
(* Everything is by induction on finite sets, stated for a set of subsets  *)
(* and not for a predicate, which the provers could not instantiate.       *)
(***************************************************************************)
EXTENDS Integers, FiniteSets, FiniteSetsExt, Functions,
        FiniteSetTheorems, WellFoundedInduction, TLAPS

-----------------------------------------------------------------------------
(* Induction.                                                              *)

(* A set of naturals has a smallest one.                                   *)
LEMMA SmallestIn ==
    ASSUME NEW T \in SUBSET Nat, T # {}
    PROVE  \E n \in T : \A m \in T : n <= m
<1> DEFINE R == OpToRel(<, Nat)
<1>1. IsWellFoundedOn(R, Nat)
  BY NatLessThanWellFounded
<1>2. \A x, y \in Nat : x < y => <<x, y>> \in R
  BY DEF OpToRel
<1> HIDE DEF R
<1>3. PICK n \in T : \A m \in T : ~ (<<m, n>> \in R)
  BY <1>1, WFMin
<1>4. \A m \in T : ~ (m < n) /\ m \in Nat /\ n \in Nat
  BY <1>2, <1>3
<1> QED BY <1>4

(* A set of naturals that has zero and each successor is all of them.      *)
LEMMA NatSteps ==
    ASSUME NEW Good \in SUBSET Nat, 0 \in Good, \A n \in Good : n + 1 \in Good
    PROVE  Good = Nat
<1> DEFINE Bad == Nat \ Good
<1>1. ASSUME Bad # {} PROVE FALSE
  <2>1. PICK n \in Bad : \A m \in Bad : n <= m
    BY <1>1, SmallestIn
  <2>2. n \in Nat /\ n # 0
    OBVIOUS
  <2>3. n - 1 \in Nat /\ n - 1 \notin Bad /\ n = (n - 1) + 1
    BY <2>1, <2>2
  <2> QED BY <2>1, <2>3
<1> QED BY <1>1

(* A set of subsets of S that has one as soon as it has all that lack an   *)
(* element of it has all of them.                                          *)
LEMMA ShrinkingSets ==
    ASSUME NEW S, IsFiniteSet(S), NEW Good,
           \A T \in SUBSET S : (\A x \in T : T \ {x} \in Good) => T \in Good
    PROVE  SUBSET S \subseteq Good
<1> DEFINE Bad == (SUBSET S) \ Good
           Sizes == {n \in Nat : \E T \in Bad : Cardinality(T) = n}
<1>1. ASSUME Bad # {} PROVE FALSE
  <2>1. \A T \in Bad : IsFiniteSet(T) /\ Cardinality(T) \in Nat
    BY FS_Subset, FS_CardinalityType
  <2>2. Sizes \in SUBSET Nat /\ Sizes # {}
    BY <1>1, <2>1
  <2> HIDE DEF Sizes
  <2>3. PICK n \in Sizes : \A m \in Sizes : n <= m
    BY <2>2, SmallestIn
  <2>4. PICK T \in Bad : Cardinality(T) = n
    BY <2>3 DEF Sizes
  <2>5. ASSUME NEW x \in T PROVE T \ {x} \in Good
    <3> DEFINE R == T \ {x}
    <3>1. /\ Cardinality(R) = n - 1 /\ n \in Nat /\ n - 1 \in Nat
      <4>1. IsFiniteSet(R) /\ Cardinality(R) = Cardinality(T) - 1
        BY <2>1, <2>4, <2>5, FS_RemoveElement
      <4>2. Cardinality(R) \in Nat
        BY <4>1, FS_CardinalityType
      <4> QED BY <2>1, <2>4, <4>1, <4>2
    <3>2. CASE T \ {x} \in Bad
      <4>1. n - 1 \in Sizes
        BY <3>1, <3>2 DEF Sizes
      <4> QED BY <2>3, <3>1, <4>1
    <3> QED BY <2>4, <3>2
  <2> QED BY <2>4, <2>5
<1> QED BY <1>1

(* The same from below: it has the empty set and, with a set, that set     *)
(* with one more element.                                                  *)
LEMMA GrowingSets ==
    ASSUME NEW S, IsFiniteSet(S), NEW Good,
           {} \in Good, \A T \in Good : \A x \in S \ T : T \cup {x} \in Good
    PROVE  SUBSET S \subseteq Good
<1>1. ASSUME NEW T \in SUBSET S, \A x \in T : T \ {x} \in Good PROVE T \in Good
  <2>1. CASE T # {}
    <3>1. PICK x : x \in T
      BY <2>1
    <3>2. T = (T \ {x}) \cup {x} /\ x \in S \ (T \ {x})
      BY <3>1
    <3> QED BY <1>1, <3>1, <3>2
  <2> QED BY <2>1
<1> QED BY <1>1, ShrinkingSets

-----------------------------------------------------------------------------
(* The recursive function that a sum unfolds to.                           *)

Pick(T) == CHOOSE x \in T : TRUE

IsFold(g, f, S) ==
    g = [T \in SUBSET S |-> IF T = {} THEN 0 ELSE f[Pick(T)] + g[T \ {Pick(T)}]]

LEMMA PickIn == \A T : T # {} => Pick(T) \in T
BY DEF Pick

(* What it is worth at one set.                                            *)
LEMMA FoldAt ==
    ASSUME NEW g, NEW f, NEW S, IsFold(g, f, S), NEW T \in SUBSET S
    PROVE  g[T] = IF T = {} THEN 0 ELSE f[Pick(T)] + g[T \ {Pick(T)}]
BY DEF IsFold

(* There is one: it is built for the sets of one element more and more, ...*)
LEMMA FoldExists ==
    ASSUME NEW f, NEW S, IsFiniteSet(S)
    PROVE  \E g : IsFold(g, f, S)
<1> DEFINE Small(n) == {T \in SUBSET S : Cardinality(T) <= n}
           Value(g, T) == IF T = {} THEN 0 ELSE f[Pick(T)] + g[T \ {Pick(T)}]
           Good == {n \in Nat : \E g : g = [T \in Small(n) |-> Value(g, T)]}
<1>0. \A T \in SUBSET S : IsFiniteSet(T) /\ Cardinality(T) \in Nat
  BY FS_Subset, FS_CardinalityType
<1>1. 0 \in Good
  <2>1. \A T \in Small(0) : T = {}
    BY <1>0, FS_EmptySet
  <2> DEFINE g == [T \in Small(0) |-> 0]
  <2>2. g = [T \in Small(0) |-> Value(g, T)]
    BY <2>1
  <2> QED BY <2>2
<1>2. ASSUME NEW n \in Good PROVE n + 1 \in Good
  <2>1. PICK g : g = [T \in Small(n) |-> Value(g, T)]
    OBVIOUS
  <2> DEFINE h == [T \in Small(n + 1) |-> Value(g, T)]
  <2>2. ASSUME NEW T \in Small(n + 1) PROVE Value(h, T) = Value(g, T)
    <3>1. CASE T = {}
      BY <3>1
    <3>2. CASE T # {}
      <4>1. Pick(T) \in T
        BY <3>2, PickIn
      <4>2. T \ {Pick(T)} \in Small(n)
        BY <1>0, <4>1, FS_RemoveElement
      <4>3. T \ {Pick(T)} \in Small(n + 1)
        BY <1>0, <4>2
      <4>4. h[T \ {Pick(T)}] = g[T \ {Pick(T)}]
        BY <2>1, <4>2, <4>3
      <4> QED BY <4>4
    <3> QED BY <3>1, <3>2
  <2>3. h = [T \in Small(n + 1) |-> Value(h, T)]
    BY <2>2
  <2>4. n + 1 \in Nat
    OBVIOUS
  <2>5. \E k : k = [T \in Small(n + 1) |-> Value(k, T)]
    <3> HIDE DEF h, Small, Value
    <3> QED BY <2>3
  <2> HIDE DEF Small, Value
  <2> QED BY <2>4, <2>5
<1>3. Good = Nat
  <2> HIDE DEF Good
  <2> QED BY <1>1, <1>2, NatSteps DEF Good
<1>4. Cardinality(S) \in Good
  BY <1>3, FS_CardinalityType
<1>5. Small(Cardinality(S)) = SUBSET S
  BY FS_Subset
<1> QED BY <1>4, <1>5 DEF IsFold

(* ... and one only: folds of functions that agree agree.                  *)
LEMMA FoldsAgree ==
    ASSUME NEW S, IsFiniteSet(S), NEW R, NEW f, NEW g, NEW F, NEW G, S \subseteq R,
           IsFold(F, f, S), IsFold(G, g, R), \A x \in S : f[x] = g[x]
    PROVE  \A T \in SUBSET S : F[T] = G[T]
<1> DEFINE Good == {T \in SUBSET S : F[T] = G[T]}
<1>1. ASSUME NEW T \in SUBSET S, \A x \in T : T \ {x} \in Good PROVE T \in Good
  <2>1. CASE T = {}
    BY <2>1, FoldAt
  <2>2. CASE T # {}
    <3>1. Pick(T) \in T
      BY <2>2, PickIn
    <3>2. F[T] = f[Pick(T)] + F[T \ {Pick(T)}] /\ G[T] = g[Pick(T)] + G[T \ {Pick(T)}]
      BY <2>2, FoldAt
    <3> QED BY <1>1, <3>1, <3>2
  <2> QED BY <2>1, <2>2
<1>2. SUBSET S \subseteq Good
  <2> HIDE DEF Good
  <2> QED BY <1>1, ShrinkingSets
<1> QED BY <1>2

(* A function that satisfies the equation gives the sum.                   *)
LEMMA SumIsFold ==
    ASSUME NEW S, IsFiniteSet(S), NEW f, NEW g, IsFold(g, f, S)
    PROVE  g[S] = SumFunctionOnSet(f, S)
<1> DEFINE h == CHOOSE k : IsFold(k, f, S)
<1>1. IsFold(h, f, S)
  BY FoldExists
<1>2. SumFunctionOnSet(f, S) = h[S]
  BY DEF SumFunctionOnSet, FoldFunctionOnSet, MapThenFoldSet, IsFold, Pick
<1> HIDE DEF h
<1> QED BY <1>1, <1>2, FoldsAgree

-----------------------------------------------------------------------------
(* What a sum is.                                                          *)

(* Nothing adds up to zero.                                                *)
LEMMA SumEmpty ==
    ASSUME NEW f
    PROVE  SumFunctionOnSet(f, {}) = 0
<1>1. PICK g : IsFold(g, f, {})
  BY FoldExists, FS_EmptySet
<1> QED BY <1>1, FoldAt, SumIsFold, FS_EmptySet

(* A sum takes the element that the fold picks, and then the others.       *)
LEMMA SumPicks ==
    ASSUME NEW f, NEW S, IsFiniteSet(S), S # {}
    PROVE  SumFunctionOnSet(f, S) = f[Pick(S)] + SumFunctionOnSet(f, S \ {Pick(S)})
<1> DEFINE R == S \ {Pick(S)}
<1>1. PICK g : IsFold(g, f, S)
  BY FoldExists
<1>2. IsFiniteSet(R) /\ R \in SUBSET S
  BY FS_Subset
<1>3. PICK h : IsFold(h, f, R)
  BY <1>2, FoldExists
<1> HIDE DEF R
<1>4. h[R] = g[R]
  BY <1>1, <1>2, <1>3, FoldsAgree
<1>5. g[S] = f[Pick(S)] + g[R]
  BY <1>1, FoldAt DEF R
<1>6. g[S] = SumFunctionOnSet(f, S) /\ h[R] = SumFunctionOnSet(f, R)
  BY <1>1, <1>2, <1>3, SumIsFold
<1> QED BY <1>4, <1>5, <1>6 DEF R

(* A sum of integers is one.                                               *)
LEMMA SumInt ==
    ASSUME NEW f, NEW S, IsFiniteSet(S), \A x \in S : f[x] \in Int
    PROVE  SumFunctionOnSet(f, S) \in Int
<1> DEFINE Good == {T \in SUBSET S : SumFunctionOnSet(f, T) \in Int}
<1>1. ASSUME NEW T \in SUBSET S, \A x \in T : T \ {x} \in Good PROVE T \in Good
  <2>1. CASE T = {}
    BY <2>1, SumEmpty
  <2>2. CASE T # {}
    <3>1. Pick(T) \in T /\ IsFiniteSet(T)
      BY <2>2, PickIn, FS_Subset
    <3>2. SumFunctionOnSet(f, T) = f[Pick(T)] + SumFunctionOnSet(f, T \ {Pick(T)})
      BY <2>2, <3>1, SumPicks
    <3>3. SumFunctionOnSet(f, T \ {Pick(T)}) \in Int /\ f[Pick(T)] \in Int
      BY <1>1, <3>1
    <3> QED BY <3>2, <3>3
  <2> QED BY <2>1, <2>2
<1>2. SUBSET S \subseteq Good
  <2> HIDE DEF Good
  <2> QED BY <1>1, ShrinkingSets
<1> QED BY <1>2

(* The order is of no matter: any element can be taken out, ...            *)
LEMMA SumRemove ==
    ASSUME NEW f, NEW S, IsFiniteSet(S), \A x \in S : f[x] \in Int, NEW y \in S
    PROVE  SumFunctionOnSet(f, S) = f[y] + SumFunctionOnSet(f, S \ {y})
<1> DEFINE Taken(T, x) == SumFunctionOnSet(f, T) = f[x] + SumFunctionOnSet(f, T \ {x})
           Good == {T \in SUBSET S : \A x \in T : Taken(T, x)}
<1>1. ASSUME NEW T \in SUBSET S, \A x \in T : T \ {x} \in Good, NEW x \in T
      PROVE  Taken(T, x)
  <2> DEFINE z == Pick(T)
             R == T \ {z}
  <2>1. z \in T /\ Taken(T, z)
    BY PickIn, SumPicks, FS_Subset
  <2> HIDE DEF z
  <2>2. CASE x # z
    <3>1. T \ {x} \in Good /\ R \in Good
      BY <1>1, <2>1
    <3>2. Taken(R, x) /\ Taken(T \ {x}, z)
      <4>1. x \in R /\ z \in T \ {x}
        BY <2>1, <2>2
      <4> HIDE DEF Taken, R
      <4> QED BY <3>1, <4>1
    <3>3. R \ {x} = (T \ {x}) \ {z}
      OBVIOUS
    <3>4. IsFiniteSet(R \ {x}) /\ (\A k \in R \ {x} : f[k] \in Int) /\ f[x] \in Int /\ f[z] \in Int
      BY <2>1, FS_Subset
    <3>5. SumFunctionOnSet(f, R \ {x}) \in Int
      BY <3>4, SumInt
    <3> DEFINE both == SumFunctionOnSet(f, R \ {x})
    <3>6. /\ SumFunctionOnSet(f, T) = f[z] + (f[x] + both)
          /\ SumFunctionOnSet(f, T \ {x}) = f[z] + both
      BY <2>1, <3>2, <3>3
    <3>7. both \in Int
      BY <3>5
    <3> HIDE DEF both, R
    <3> QED BY <3>4, <3>6, <3>7
  <2> QED BY <2>1, <2>2
<1>2. ASSUME NEW T \in SUBSET S, \A x \in T : T \ {x} \in Good PROVE T \in Good
  <2> HIDE DEF Taken
  <2> QED BY <1>1, <1>2
<1>3. SUBSET S \subseteq Good
  <2> HIDE DEF Good
  <2> QED BY <1>2, ShrinkingSets
<1> QED BY <1>3

(* ... and any put in.                                                     *)
LEMMA SumAdd ==
    ASSUME NEW f, NEW S, IsFiniteSet(S), NEW y, y \notin S, \A x \in S \cup {y} : f[x] \in Int
    PROVE  SumFunctionOnSet(f, S \cup {y}) = f[y] + SumFunctionOnSet(f, S)
<1>1. IsFiniteSet(S \cup {y}) /\ (S \cup {y}) \ {y} = S /\ y \in S \cup {y}
  BY FS_AddElement
<1> QED BY <1>1, SumRemove

-----------------------------------------------------------------------------
(* The laws of sums.                                                       *)

(* Functions that agree have the same sum.                                 *)
LEMMA SumEqual ==
    ASSUME NEW f, NEW g, NEW S, IsFiniteSet(S), \A x \in S : f[x] = g[x]
    PROVE  SumFunctionOnSet(f, S) = SumFunctionOnSet(g, S)
<1>1. PICK F : IsFold(F, f, S)
  BY FoldExists
<1>2. PICK G : IsFold(G, g, S)
  BY FoldExists
<1> QED BY <1>1, <1>2, FoldsAgree, SumIsFold

(* Zeros add up to zero.                                                   *)
LEMMA SumZero ==
    ASSUME NEW f, NEW S, IsFiniteSet(S), \A x \in S : f[x] = 0
    PROVE  SumFunctionOnSet(f, S) = 0
<1> DEFINE Good == {T \in SUBSET S : SumFunctionOnSet(f, T) = 0}
<1>1. {} \in Good
  BY SumEmpty
<1>2. ASSUME NEW T \in Good, NEW x \in S \ T PROVE T \cup {x} \in Good
  BY SumAdd, FS_Subset
<1>3. SUBSET S \subseteq Good
  <2> HIDE DEF Good
  <2> QED BY <1>1, <1>2, GrowingSets
<1> QED BY <1>3

(* A sum is no more than another whose terms are no less.                  *)
LEMMA SumBelow ==
    ASSUME NEW f, NEW g, NEW S, IsFiniteSet(S),
           \A x \in S : f[x] \in Int /\ g[x] \in Int /\ f[x] <= g[x]
    PROVE  SumFunctionOnSet(f, S) <= SumFunctionOnSet(g, S)
<1> DEFINE Good == {T \in SUBSET S : SumFunctionOnSet(f, T) <= SumFunctionOnSet(g, T)}
<1>1. {} \in Good
  BY SumEmpty
<1>2. ASSUME NEW T \in Good, NEW x \in S \ T PROVE T \cup {x} \in Good
  <2>1. IsFiniteSet(T) /\ T \subseteq S /\ T \cup {x} \in SUBSET S
    BY FS_Subset
  <2>2. SumFunctionOnSet(f, T) \in Int /\ SumFunctionOnSet(g, T) \in Int
    BY <2>1, SumInt
  <2>3. /\ SumFunctionOnSet(f, T \cup {x}) = f[x] + SumFunctionOnSet(f, T)
        /\ SumFunctionOnSet(g, T \cup {x}) = g[x] + SumFunctionOnSet(g, T)
    BY <2>1, SumAdd
  <2> QED BY <2>1, <2>2, <2>3
<1>3. SUBSET S \subseteq Good
  <2> HIDE DEF Good
  <2> QED BY <1>1, <1>2, GrowingSets
<1> QED BY <1>3

(* Terms of no positive value with one below zero add up to less than zero. *)
LEMMA SumNegative ==
    ASSUME NEW f, NEW S, IsFiniteSet(S), \A x \in S : f[x] \in Int /\ f[x] <= 0,
           NEW y \in S, f[y] < 0
    PROVE  SumFunctionOnSet(f, S) < 0
<1> DEFINE R == S \ {y}
           zero == [x \in R |-> 0]
<1>1. IsFiniteSet(R) /\ (\A x \in R : f[x] \in Int)
  BY FS_Subset
<1>2. SumFunctionOnSet(f, S) = f[y] + SumFunctionOnSet(f, R)
  BY SumRemove
<1>3. \A x \in R : zero[x] = 0
  OBVIOUS
<1>4. SumFunctionOnSet(zero, R) = 0
  <2> HIDE DEF zero, R
  <2> QED BY <1>1, <1>3, SumZero
<1>5. \A x \in R : f[x] \in Int /\ zero[x] \in Int /\ f[x] <= zero[x]
  OBVIOUS
<1>6. SumFunctionOnSet(f, R) <= SumFunctionOnSet(zero, R)
  <2> HIDE DEF zero, R
  <2> QED BY <1>1, <1>5, SumBelow
<1>7. SumFunctionOnSet(f, R) \in Int
  <2> HIDE DEF R
  <2> QED BY <1>1, SumInt
<1> HIDE DEF zero, R
<1> QED BY <1>2, <1>4, <1>6, <1>7

(* Term by term: the sum of sums is the sum of the two.                    *)
LEMMA SumPlus ==
    ASSUME NEW f, NEW g, NEW h, NEW S, IsFiniteSet(S),
           \A x \in S : f[x] \in Int /\ g[x] \in Int /\ h[x] = f[x] + g[x]
    PROVE  SumFunctionOnSet(h, S) = SumFunctionOnSet(f, S) + SumFunctionOnSet(g, S)
<1> DEFINE Good == {T \in SUBSET S :
              SumFunctionOnSet(h, T) = SumFunctionOnSet(f, T) + SumFunctionOnSet(g, T)}
<1>1. {} \in Good
  BY SumEmpty
<1>2. ASSUME NEW T \in Good, NEW x \in S \ T PROVE T \cup {x} \in Good
  <2>1. IsFiniteSet(T) /\ T \subseteq S /\ T \cup {x} \in SUBSET S
    BY FS_Subset
  <2>2. SumFunctionOnSet(f, T) \in Int /\ SumFunctionOnSet(g, T) \in Int
    BY <2>1, SumInt
  <2>3. /\ SumFunctionOnSet(f, T \cup {x}) = f[x] + SumFunctionOnSet(f, T)
        /\ SumFunctionOnSet(g, T \cup {x}) = g[x] + SumFunctionOnSet(g, T)
        /\ SumFunctionOnSet(h, T \cup {x}) = h[x] + SumFunctionOnSet(h, T)
    BY <2>1, SumAdd
  <2> QED BY <2>1, <2>2, <2>3
<1>3. SUBSET S \subseteq Good
  <2> HIDE DEF Good
  <2> QED BY <1>1, <1>2, GrowingSets
<1> QED BY <1>3

(* A sum is no more than its number of terms times a bound on each.        *)
LEMMA SumAtMost ==
    ASSUME NEW f, NEW S, IsFiniteSet(S), NEW m \in Int,
           \A x \in S : f[x] \in Int /\ f[x] <= m
    PROVE  SumFunctionOnSet(f, S) <= Cardinality(S) * m
<1> DEFINE Good == {T \in SUBSET S : SumFunctionOnSet(f, T) <= Cardinality(T) * m}
<1>1. {} \in Good
  <2>1. Cardinality({}) * m = 0
    BY FS_EmptySet
  <2> QED BY <2>1, SumEmpty
<1>2. ASSUME NEW T \in Good, NEW x \in S \ T PROVE T \cup {x} \in Good
  <2>1. IsFiniteSet(T) /\ T \subseteq S /\ T \cup {x} \in SUBSET S
    BY FS_Subset
  <2>2. SumFunctionOnSet(f, T \cup {x}) = f[x] + SumFunctionOnSet(f, T)
    BY <2>1, SumAdd
  <2>3. SumFunctionOnSet(f, T) \in Int
    BY <2>1, SumInt
  <2>4. Cardinality(T \cup {x}) = Cardinality(T) + 1 /\ Cardinality(T) \in Nat
    BY <2>1, FS_AddElement, FS_CardinalityType
  <2>5. Cardinality(T \cup {x}) * m = Cardinality(T) * m + m /\ Cardinality(T) * m \in Int
    <3>1. \A n \in Nat : (n + 1) * m = n * m + m /\ n * m \in Int
      OBVIOUS
    <3> QED BY <2>4, <3>1
  <2>6. SumFunctionOnSet(f, T \cup {x}) <= Cardinality(T \cup {x}) * m
    BY <2>2, <2>3, <2>5
  <2> QED BY <2>1, <2>6
<1>3. SUBSET S \subseteq Good
  <2> HIDE DEF Good
  <2> QED BY <1>1, <1>2, GrowingSets
<1> QED BY <1>3

(* Over two sets that share nothing.                                       *)
LEMMA SumUnion ==
    ASSUME NEW f, NEW S, NEW R, IsFiniteSet(S), IsFiniteSet(R), S \cap R = {},
           \A x \in S \cup R : f[x] \in Int
    PROVE  SumFunctionOnSet(f, S \cup R) = SumFunctionOnSet(f, S) + SumFunctionOnSet(f, R)
<1> DEFINE Good == {T \in SUBSET S :
              SumFunctionOnSet(f, T \cup R) = SumFunctionOnSet(f, T) + SumFunctionOnSet(f, R)}
<1>0. SumFunctionOnSet(f, R) \in Int
  BY SumInt
<1>1. {} \in Good
  <2>1. {} \cup R = R
    OBVIOUS
  <2> QED BY <1>0, <2>1, SumEmpty
<1>2. ASSUME NEW T \in Good, NEW x \in S \ T PROVE T \cup {x} \in Good
  <2>1. IsFiniteSet(T) /\ IsFiniteSet(T \cup R) /\ T \cup {x} \in SUBSET S
    BY FS_Subset, FS_Union
  <2>2. SumFunctionOnSet(f, T) \in Int /\ f[x] \in Int
    BY <2>1, SumInt
  <2>3. SumFunctionOnSet(f, T \cup {x}) = f[x] + SumFunctionOnSet(f, T)
    BY <2>1, SumAdd
  <2>4. SumFunctionOnSet(f, (T \cup R) \cup {x}) = f[x] + SumFunctionOnSet(f, T \cup R)
    <3>1. x \notin T \cup R /\ \A k \in (T \cup R) \cup {x} : f[k] \in Int
      OBVIOUS
    <3> QED BY <2>1, <3>1, SumAdd
  <2>5. (T \cup R) \cup {x} = (T \cup {x}) \cup R
    OBVIOUS
  <2>6. SumFunctionOnSet(f, T \cup R) = SumFunctionOnSet(f, T) + SumFunctionOnSet(f, R)
    OBVIOUS
  <2>7. SumFunctionOnSet(f, (T \cup {x}) \cup R)
          = SumFunctionOnSet(f, T \cup {x}) + SumFunctionOnSet(f, R)
    <3>1. SumFunctionOnSet(f, (T \cup {x}) \cup R) = f[x] + SumFunctionOnSet(f, T \cup R)
      BY <2>4, <2>5, Zenon
    <3> QED BY <1>0, <2>2, <2>3, <2>6, <3>1
  <2> QED BY <2>1, <2>7
<1>3. SUBSET S \subseteq Good
  <2> HIDE DEF Good
  <2> QED BY <1>1, <1>2, GrowingSets
<1> QED BY <1>3

(* Through a renaming of the elements: there are no more names than        *)
(* elements, and the sum is the same.                                      *)
LEMMA ImageFinite ==
    ASSUME NEW S, IsFiniteSet(S), NEW e
    PROVE  IsFiniteSet({e[x] : x \in S})
<1> DEFINE Image(T) == {e[x] : x \in T}
           Good == {T \in SUBSET S : IsFiniteSet(Image(T))}
<1>1. {} \in Good
  <2>1. Image({}) = {}
    OBVIOUS
  <2> QED BY <2>1, FS_EmptySet
<1>2. ASSUME NEW T \in Good, NEW x \in S \ T PROVE T \cup {x} \in Good
  <2>1. Image(T \cup {x}) = Image(T) \cup {e[x]}
    OBVIOUS
  <2>2. IsFiniteSet(Image(T)) /\ T \cup {x} \in SUBSET S
    OBVIOUS
  <2>3. IsFiniteSet(Image(T) \cup {e[x]})
    BY <2>2, FS_AddElement
  <2>4. IsFiniteSet(Image(T \cup {x}))
    BY <2>1, <2>3, Zenon
  <2> QED BY <2>2, <2>4
<1>3. SUBSET S \subseteq Good
  <2> HIDE DEF Good
  <2> QED BY <1>1, <1>2, GrowingSets
<1> QED BY <1>3

LEMMA SumRenamed ==
    ASSUME NEW f, NEW g, NEW S, NEW R, IsFiniteSet(S), NEW e \in [S -> R],
           \A x, y \in S : e[x] = e[y] => x = y,
           \A x \in S : f[x] \in Int /\ g[e[x]] = f[x]
    PROVE  SumFunctionOnSet(f, S) = SumFunctionOnSet(g, {e[x] : x \in S})
<1> DEFINE Image(T) == {e[x] : x \in T}
           Good == {T \in SUBSET S :
                      SumFunctionOnSet(f, T) = SumFunctionOnSet(g, Image(T))}
<1>1. {} \in Good
  <2>1. Image({}) = {}
    OBVIOUS
  <2> QED BY <2>1, SumEmpty
<1>2. ASSUME NEW T \in Good, NEW x \in S \ T PROVE T \cup {x} \in Good
  <2>1. IsFiniteSet(T) /\ T \cup {x} \in SUBSET S
    BY FS_Subset
  <2>2. IsFiniteSet(Image(T))
    BY <2>1, ImageFinite
  <2>3. Image(T \cup {x}) = Image(T) \cup {e[x]} /\ e[x] \notin Image(T)
    OBVIOUS
  <2>4. \A y \in Image(T) \cup {e[x]} : g[y] \in Int
    OBVIOUS
  <2>5. SumFunctionOnSet(f, T \cup {x}) = f[x] + SumFunctionOnSet(f, T)
    BY <2>1, SumAdd
  <2>6. SumFunctionOnSet(g, Image(T) \cup {e[x]}) = g[e[x]] + SumFunctionOnSet(g, Image(T))
    <3> HIDE DEF Image
    <3> QED BY <2>2, <2>3, <2>4, SumAdd
  <2> QED BY <2>1, <2>3, <2>5, <2>6
<1>3. SUBSET S \subseteq Good
  <2> HIDE DEF Good
  <2> QED BY <1>1, <1>2, GrowingSets
<1> QED BY <1>3

(* Class by class: every element is in the class of its key.               *)
LEMMA SumByKey ==
    ASSUME NEW f, NEW key, NEW S, IsFiniteSet(S), NEW K, IsFiniteSet(K),
           \A x \in S : f[x] \in Int /\ key[x] \in K
    PROVE  SumFunctionOnSet(f, S) =
             SumFunctionOnSet([k \in K |-> SumFunctionOnSet(f, {x \in S : key[x] = k})], K)
<1> DEFINE Class(T, k) == {x \in T : key[x] = k}
           By(T) == [k \in K |-> SumFunctionOnSet(f, Class(T, k))]
           Good == {T \in SUBSET S :
                      SumFunctionOnSet(f, T) = SumFunctionOnSet(By(T), K)}
<1>1. {} \in Good
  <2>1. \A k \in K : By({})[k] = 0
    <3>1. \A k \in K : Class({}, k) = {}
      OBVIOUS
    <3> QED BY <3>1, SumEmpty
  <2> HIDE DEF By
  <2> QED BY <2>1, SumZero, SumEmpty
<1>2. ASSUME NEW T \in Good, NEW x \in S \ T PROVE T \cup {x} \in Good
  <2> DEFINE R == T \cup {x}
             rest == K \ {key[x]}
  <2>1. /\ IsFiniteSet(T) /\ IsFiniteSet(R) /\ R \in SUBSET S
        /\ \A k \in K : IsFiniteSet(Class(T, k)) /\ IsFiniteSet(Class(R, k))
    BY FS_Subset
  <2>2. SumFunctionOnSet(f, R) = f[x] + SumFunctionOnSet(f, T)
    BY <2>1, SumAdd
  <2>3. /\ \A k \in K : By(T)[k] \in Int /\ By(R)[k] \in Int
    BY <2>1, SumInt
  <2>4. By(R)[key[x]] = f[x] + By(T)[key[x]]
    <3>1. Class(R, key[x]) = Class(T, key[x]) \cup {x} /\ x \notin Class(T, key[x])
      OBVIOUS
    <3> DEFINE C == Class(T, key[x])
    <3>2. IsFiniteSet(C) /\ \A k \in C \cup {x} : f[k] \in Int
      BY <2>1
    <3> HIDE DEF C
    <3>3. SumFunctionOnSet(f, C \cup {x}) = f[x] + SumFunctionOnSet(f, C)
      BY <3>1, <3>2, SumAdd DEF C
    <3> QED BY <3>1, <3>3 DEF C
  <2>5. \A k \in rest : By(R)[k] = By(T)[k]
    <3>1. \A k \in rest : Class(R, k) = Class(T, k)
      OBVIOUS
    <3> QED BY <3>1
  <2>6. key[x] \in K /\ f[x] \in Int
    OBVIOUS
  <2> HIDE DEF By, R
  <2>7. IsFiniteSet(rest) /\ \A k \in rest : k \in K
    BY FS_Subset
  <2>8. /\ SumFunctionOnSet(By(R), K) = By(R)[key[x]] + SumFunctionOnSet(By(R), rest)
        /\ SumFunctionOnSet(By(T), K) = By(T)[key[x]] + SumFunctionOnSet(By(T), rest)
    BY <2>3, <2>6, SumRemove
  <2>9. SumFunctionOnSet(By(R), rest) = SumFunctionOnSet(By(T), rest)
    BY <2>5, <2>7, SumEqual
  <2>10. SumFunctionOnSet(By(T), rest) \in Int
    BY <2>3, <2>7, SumInt
  <2> QED BY <2>1, <2>2, <2>3, <2>4, <2>6, <2>8, <2>9, <2>10 DEF R
<1>3. SUBSET S \subseteq Good
  <2> HIDE DEF Good
  <2> QED BY <1>1, <1>2, GrowingSets
<1> QED BY <1>3

(* Row by row or column by column.                                         *)
LEMMA SumSwap ==
    ASSUME NEW F, NEW S, IsFiniteSet(S), NEW K, IsFiniteSet(K),
           \A k \in K : \A x \in S : F[k][x] \in Int
    PROVE  SumFunctionOnSet([k \in K |-> SumFunctionOnSet(F[k], S)], K) =
             SumFunctionOnSet([x \in S |-> SumFunctionOnSet([k \in K |-> F[k][x]], K)], S)
<1> DEFINE rows == [k \in K |-> SumFunctionOnSet(F[k], S)]
           Column(x) == [k \in K |-> F[k][x]]
           Columns(T) == [x \in S |-> SumFunctionOnSet(Column(x), T)]
           Good == {T \in SUBSET K :
                      SumFunctionOnSet(rows, T) = SumFunctionOnSet(Columns(T), S)}
<1>1. {} \in Good
  <2>1. \A x \in S : Columns({})[x] = 0
    <3> HIDE DEF Column
    <3> QED BY SumEmpty
  <2> HIDE DEF Columns
  <2> QED BY <2>1, SumZero, SumEmpty
<1>2. ASSUME NEW T \in Good, NEW y \in K \ T PROVE T \cup {y} \in Good
  <2> DEFINE R == T \cup {y}
             row == F[y]
  <2>1. IsFiniteSet(T) /\ R \in SUBSET K
    BY FS_Subset
  <2>2. \A k \in K : rows[k] \in Int
    BY SumInt
  <2>3. \A x \in S : \A k \in K : Column(x)[k] \in Int
    OBVIOUS
  <2>4. \A x \in S : Column(x)[y] = row[x]
    OBVIOUS
  <2>5. rows[y] = SumFunctionOnSet(row, S)
    OBVIOUS
  <2>6. \A x \in S : row[x] \in Int
    OBVIOUS
  <2> HIDE DEF rows, Column, row
  <2>7. SumFunctionOnSet(rows, R) = rows[y] + SumFunctionOnSet(rows, T)
    BY <2>1, <2>2, SumAdd
  <2>8. \A x \in S : /\ SumFunctionOnSet(Column(x), T) \in Int
                     /\ SumFunctionOnSet(Column(x), R)
                          = Column(x)[y] + SumFunctionOnSet(Column(x), T)
    <3> SUFFICES ASSUME NEW x \in S
                 PROVE  /\ SumFunctionOnSet(Column(x), T) \in Int
                        /\ SumFunctionOnSet(Column(x), R)
                             = Column(x)[y] + SumFunctionOnSet(Column(x), T)
      OBVIOUS
    <3> DEFINE c == Column(x)
    <3>1. \A k \in T \cup {y} : c[k] \in Int
      BY <2>3
    <3> HIDE DEF c
    <3>2. SumFunctionOnSet(c, T) \in Int
      BY <2>1, <3>1, SumInt
    <3>3. SumFunctionOnSet(c, T \cup {y}) = c[y] + SumFunctionOnSet(c, T)
      BY <2>1, <3>1, SumAdd
    <3> QED BY <3>2, <3>3 DEF c
  <2>9. \A x \in S : /\ Columns(T)[x] \in Int
                     /\ Columns(R)[x] = row[x] + Columns(T)[x]
    BY <2>4, <2>8
  <2>10. SumFunctionOnSet(rows, T) = SumFunctionOnSet(Columns(T), S)
    OBVIOUS
  <2> HIDE DEF Columns, R
  <2>11. SumFunctionOnSet(Columns(R), S)
           = SumFunctionOnSet(row, S) + SumFunctionOnSet(Columns(T), S)
    BY <2>6, <2>9, SumPlus
  <2> QED BY <2>1, <2>5, <2>7, <2>10, <2>11 DEF R
<1>3. SUBSET K \subseteq Good
  <2> HIDE DEF Good
  <2> QED BY <1>1, <1>2, GrowingSets
<1>4. \A k \in K : rows[k] = SumFunctionOnSet(F[k], S)
  OBVIOUS
<1>5. K \in Good
  BY <1>3
<1> QED BY <1>5

-----------------------------------------------------------------------------
(* The sum of a field of records, as MapThenSumSet writes it.              *)

(* The amounts of a set of rows.                                           *)
LEMMA AmountSum ==
    ASSUME NEW S, IsFiniteSet(S), NEW f, \A r \in S : f[r] = r.amount
    PROVE  MapThenSumSet(LAMBDA r : r.amount, S) = SumFunctionOnSet(f, S)
<1> DEFINE Eq(g) == g = [T \in SUBSET S |-> IF T = {} THEN 0
                                            ELSE Pick(T).amount + g[T \ {Pick(T)}]]
           h == CHOOSE g : Eq(g)
<1>1. MapThenSumSet(LAMBDA r : r.amount, S) = h[S]
  BY DEF MapThenSumSet, MapThenFoldSet, Pick
<1>2. \A T \in SUBSET S : T # {} => f[Pick(T)] = Pick(T).amount
  BY PickIn
<1>3. \A g : Eq(g) <=> IsFold(g, f, S)
  BY <1>2 DEF IsFold
<1>4. IsFold(h, f, S)
  BY <1>3, FoldExists
<1> HIDE DEF h
<1> QED BY <1>1, <1>4, SumIsFold

(* Their amounts in the original currency.                                 *)
LEMMA OriginalSum ==
    ASSUME NEW S, IsFiniteSet(S), NEW f, \A r \in S : f[r] = r.original
    PROVE  MapThenSumSet(LAMBDA r : r.original, S) = SumFunctionOnSet(f, S)
<1> DEFINE Eq(g) == g = [T \in SUBSET S |-> IF T = {} THEN 0
                                            ELSE Pick(T).original + g[T \ {Pick(T)}]]
           h == CHOOSE g : Eq(g)
<1>1. MapThenSumSet(LAMBDA r : r.original, S) = h[S]
  BY DEF MapThenSumSet, MapThenFoldSet, Pick
<1>2. \A T \in SUBSET S : T # {} => f[Pick(T)] = Pick(T).original
  BY PickIn
<1>3. \A g : Eq(g) <=> IsFold(g, f, S)
  BY <1>2 DEF IsFold
<1>4. IsFold(h, f, S)
  BY <1>3, FoldExists
<1> HIDE DEF h
<1> QED BY <1>1, <1>4, SumIsFold

=============================================================================
