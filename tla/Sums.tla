--------------------------------- MODULE Sums ---------------------------------
(***************************************************************************)
(* Sums of a function over a finite set (SumFunctionOnSet of the community *)
(* modules): what happens to a sum when an element comes, goes or changes  *)
(* its value, how sums compare, and their types.  The books of the server  *)
(* are such sums: drill power by asteroid, stake by wallet, credits by age *)
(* of issue, amounts by request.                                           *)
(*                                                                         *)
(* The library's sum takes the elements in the order of CHOOSE.  That the  *)
(* order does not matter is shown by induction over the subsets of the     *)
(* set, with the hypothesis a set of subsets (SubsetInduction), so that no *)
(* lemma takes an operator.                                                *)
(***************************************************************************)
EXTENDS Integers, FiniteSets, Functions, FiniteSetTheorems, WellFoundedInduction, TLAPS

(* Induction over the subsets of a finite set, stated with a set for the   *)
(* induction hypothesis.                                                   *)
LEMMA SubsetInduction ==
  ASSUME NEW S, IsFiniteSet(S), NEW P,
         \A T \in SUBSET S : (\A x \in T : T \ {x} \in P) => T \in P
  PROVE  \A T \in SUBSET S : T \in P
<1> DEFINE Bad == {T \in SUBSET S : T \notin P}
<1>1. IsWellFoundedOn(StrictSubsetOrdering(S), SUBSET S)
  BY FS_FiniteSubsetsOfFinite, FS_StrictSubsetOrderingWellFounded
<1>2. SUFFICES ASSUME Bad # {} PROVE FALSE
  OBVIOUS
<1>3. PICK T \in Bad : \A U \in Bad : ~(<<U, T>> \in StrictSubsetOrdering(S))
  BY <1>1, <1>2, WFMin
<1>4. \A x \in T : T \ {x} \in P
  <2> SUFFICES ASSUME NEW x \in T, T \ {x} \in Bad PROVE FALSE
    OBVIOUS
  <2>1. <<T \ {x}, T>> \in (SUBSET S) \X (SUBSET S)
    OBVIOUS
  <2>2. <<T \ {x}, T>> \in StrictSubsetOrdering(S)
    BY <2>1 DEF StrictSubsetOrdering
  <2> QED BY <2>2, <1>3
<1> QED BY <1>3, <1>4

(* A property of all sizes.                                                *)
LEMMA SizeInduction ==
  ASSUME NEW P, 0 \in P, \A n \in Nat : n \in P => n + 1 \in P
  PROVE  Nat \subseteq P
<1> DEFINE Bad == {n \in Nat : n \notin P}
<1>1. SUFFICES ASSUME Bad # {} PROVE FALSE
  <2>1. (\A n \in Nat : n \in P) => Nat \subseteq P
    OBVIOUS
  <2> QED BY <2>1
<1>2. PICK n \in Bad : \A m \in Bad : ~(<<m, n>> \in OpToRel(<, Nat))
  BY <1>1, NatLessThanWellFounded, WFMin
<1>3. n \in Nat \ {0} /\ n - 1 \in Nat /\ n - 1 < n /\ (n - 1) + 1 = n
  OBVIOUS
<1>4. n - 1 \notin P
  BY <1>3
<1>5. <<n - 1, n>> \in OpToRel(<, Nat)
  BY <1>3, Zenon DEF OpToRel
<1> QED BY <1>2, <1>3, <1>4, <1>5

(* The element a fold over T takes first, and what the fold adds.          *)
Pick(T) == CHOOSE x \in T : TRUE
SumStep(f, h, T) == IF T = {} THEN 0 ELSE f[Pick(T)] + h[T \ {Pick(T)}]
IsIter(f, S, h) == h = [T \in SUBSET S |-> SumStep(f, h, T)]

(* The library's sum is an iteration over the subsets of S.                *)
LEMMA SumIter ==
  ASSUME NEW f, NEW S
  PROVE SumFunctionOnSet(f, S) = (CHOOSE h : IsIter(f, S, h))[S]
BY DEF SumFunctionOnSet, FoldFunctionOnSet, MapThenFoldSet, IsIter, SumStep, Pick

(* Over a finite set there is such an iteration, built level by level.     *)
LEMMA IterExists ==
  ASSUME NEW f, NEW S, IsFiniteSet(S)
  PROVE  \E h : IsIter(f, S, h)
<1> DEFINE Level(n) == {T \in SUBSET S : Cardinality(T) <= n}
           P == {n \in Nat : \E h : h = [T \in Level(n) |-> SumStep(f, h, T)]}
<1>0. \A T \in SUBSET S : IsFiniteSet(T) /\ Cardinality(T) \in Nat /\ Cardinality(T) <= Cardinality(S)
  BY FS_Subset, FS_CardinalityType
<1>1. 0 \in P
  <2>1. \A T \in Level(0) : T = {}
    BY <1>0, FS_EmptySet
  <2> DEFINE h == [T \in Level(0) |-> 0]
  <2>2. h = [T \in Level(0) |-> SumStep(f, h, T)]
    BY <2>1 DEF SumStep
  <2> QED BY <2>2
<1>2. \A n \in Nat : n \in P => n + 1 \in P
  <2> SUFFICES ASSUME NEW n \in Nat, NEW h, h = [T \in Level(n) |-> SumStep(f, h, T)]
               PROVE \E g : g = [T \in Level(n + 1) |-> SumStep(f, g, T)]
    <3> HIDE DEF Level
    <3> QED OBVIOUS
  <2> DEFINE g == [T \in Level(n + 1) |-> SumStep(f, h, T)]
  <2>1. ASSUME NEW T \in Level(n + 1) PROVE SumStep(f, h, T) = SumStep(f, g, T)
    <3>1. CASE T = {}
      BY <3>1 DEF SumStep
    <3>2. CASE T # {}
      <4>1. Pick(T) \in T
        BY <3>2 DEF Pick
      <4> DEFINE U == T \ {Pick(T)}
      <4>2. U \in Level(n) /\ U \in Level(n + 1)
        BY <4>1, <1>0, FS_RemoveElement
      <4>3. h[U] = SumStep(f, h, U) /\ g[U] = SumStep(f, h, U)
        BY <4>2
      <4> QED BY <4>3 DEF SumStep
    <3> QED BY <3>1, <3>2
  <2>2. g = [T \in Level(n + 1) |-> SumStep(f, g, T)]
    BY <2>1
  <2> HIDE DEF g
  <2> QED BY <2>2
<1>3. Cardinality(S) \in P
  <2>1. Cardinality(S) \in Nat
    BY <1>0
  <2> HIDE DEF P
  <2>2. Nat \subseteq P
    BY <1>1, <1>2, SizeInduction
  <2> QED BY <2>1, <2>2
<1>4. Level(Cardinality(S)) = SUBSET S
  BY <1>0
<1> QED BY <1>3, <1>4 DEF IsIter

(* Iterations over two finite sets agree on the subsets they share.        *)
LEMMA IterUnique ==
  ASSUME NEW f, NEW S, IsFiniteSet(S), NEW T \in SUBSET S,
         NEW g, IsIter(f, T, g), NEW h, IsIter(f, S, h)
  PROVE  g[T] = h[T]
<1> DEFINE P == {U \in SUBSET T : g[U] = h[U]}
<1>1. IsFiniteSet(T)
  BY FS_Subset
<1>2. ASSUME NEW U \in SUBSET T, \A x \in U : U \ {x} \in P PROVE U \in P
  <2>1. g[U] = SumStep(f, g, U) /\ h[U] = SumStep(f, h, U)
    BY DEF IsIter
  <2>2. U # {} => Pick(U) \in U
    BY DEF Pick
  <2>3. SumStep(f, g, U) = SumStep(f, h, U)
    BY <2>2, <1>2 DEF SumStep
  <2> QED BY <2>1, <2>3
<1>3. \A U \in SUBSET T : U \in P
  BY <1>1, <1>2, SubsetInduction
<1> QED BY <1>3

(* The sum of a function over a set: of the empty set, and by its chosen   *)
(* element.                                                                *)
LEMMA SumUnfold ==
  ASSUME NEW f, NEW S, IsFiniteSet(S)
  PROVE  /\ SumFunctionOnSet(f, {}) = 0
         /\ S # {} => /\ Pick(S) \in S
                      /\ SumFunctionOnSet(f, S) =
                           f[Pick(S)] + SumFunctionOnSet(f, S \ {Pick(S)})
<1>1. ASSUME NEW T, IsFiniteSet(T)
      PROVE  IsIter(f, T, CHOOSE h : IsIter(f, T, h))
  BY <1>1, IterExists
<1>2. ASSUME NEW T, IsFiniteSet(T)
      PROVE  SumFunctionOnSet(f, T) = SumStep(f, CHOOSE h : IsIter(f, T, h), T)
  <2> DEFINE h == CHOOSE h : IsIter(f, T, h)
  <2>1. IsIter(f, T, h)
    BY <1>1, <1>2
  <2>2. h[T] = SumStep(f, h, T)
    <3> HIDE DEF h
    <3> QED BY <2>1 DEF IsIter
  <2> QED BY <2>2, SumIter
<1>3. SumFunctionOnSet(f, {}) = 0
  BY <1>2, FS_EmptySet DEF SumStep
<1>4. ASSUME S # {} PROVE /\ Pick(S) \in S
                      /\ SumFunctionOnSet(f, S) =
                           f[Pick(S)] + SumFunctionOnSet(f, S \ {Pick(S)})
  <2> DEFINE T == S \ {Pick(S)}
             h == CHOOSE h : IsIter(f, S, h)
             g == CHOOSE g : IsIter(f, T, g)
  <2>1. Pick(S) \in S
    BY <1>4 DEF Pick
  <2>2. IsFiniteSet(T)
    BY FS_RemoveElement
  <2>3. IsIter(f, S, h) /\ IsIter(f, T, g)
    BY <2>2, <1>1
  <2>4. SumFunctionOnSet(f, T) = g[T]
    BY SumIter
  <2>5. SumFunctionOnSet(f, S) = f[Pick(S)] + h[T]
    BY <1>4, <1>2 DEF SumStep
  <2>6. g[T] = h[T]
    <3> HIDE DEF g, h
    <3> QED BY <2>3, IterUnique
  <2> QED BY <2>1, <2>4, <2>5, <2>6
<1> QED BY <1>3, <1>4

(* Nothing sums to 0.                                                      *)
LEMMA SumEmpty == \A f : SumFunctionOnSet(f, {}) = 0
BY SumUnfold, FS_EmptySet

(* The chosen element apart from the rest.                                 *)
LEMMA SumChosen ==
  ASSUME NEW T, IsFiniteSet(T), T # {}
  PROVE  /\ Pick(T) \in T
         /\ \A f : SumFunctionOnSet(f, T) = f[Pick(T)] + SumFunctionOnSet(f, T \ {Pick(T)})
BY SumUnfold

(* A sum of integers is an integer.                                        *)
LEMMA SumInt ==
  ASSUME NEW f, NEW S, IsFiniteSet(S), \A x \in S : f[x] \in Int
  PROVE  SumFunctionOnSet(f, S) \in Int
<1> DEFINE P == {T \in SUBSET S : SumFunctionOnSet(f, T) \in Int}
<1>1. ASSUME NEW T \in SUBSET S, \A x \in T : T \ {x} \in P PROVE T \in P
  <2>1. IsFiniteSet(T)
    BY FS_Subset
  <2>2. CASE T = {}
    BY <2>2, SumEmpty
  <2>3. CASE T # {}
    <3>1. Pick(T) \in T /\ T \ {Pick(T)} \in P
      BY <1>1, <2>1, <2>3, SumChosen
    <3>2. SumFunctionOnSet(f, T) = f[Pick(T)] + SumFunctionOnSet(f, T \ {Pick(T)})
      BY <2>1, <2>3, SumChosen
    <3> QED BY <3>1, <3>2
  <2> QED BY <2>2, <2>3
<1> HIDE DEF P
<1>2. \A T \in SUBSET S : T \in P
  BY <1>1, SubsetInduction
<1> QED BY <1>2 DEF P

(* A sum of naturals is a natural number.                                  *)
LEMMA SumNat ==
  ASSUME NEW f, NEW S, IsFiniteSet(S), \A x \in S : f[x] \in Nat
  PROVE  SumFunctionOnSet(f, S) \in Nat
<1> DEFINE P == {T \in SUBSET S : SumFunctionOnSet(f, T) \in Nat}
<1>1. ASSUME NEW T \in SUBSET S, \A x \in T : T \ {x} \in P PROVE T \in P
  <2>1. IsFiniteSet(T)
    BY FS_Subset
  <2>2. CASE T = {}
    BY <2>2, SumEmpty
  <2>3. CASE T # {}
    <3>1. Pick(T) \in T /\ T \ {Pick(T)} \in P
      BY <1>1, <2>1, <2>3, SumChosen
    <3>2. SumFunctionOnSet(f, T) = f[Pick(T)] + SumFunctionOnSet(f, T \ {Pick(T)})
      BY <2>1, <2>3, SumChosen
    <3> QED BY <3>1, <3>2
  <2> QED BY <2>2, <2>3
<1> HIDE DEF P
<1>2. \A T \in SUBSET S : T \in P
  BY <1>1, SubsetInduction
<1> QED BY <1>2 DEF P

(* Only the values on the set matter.                                      *)
LEMMA SumSame ==
  ASSUME NEW f, NEW g, NEW S, IsFiniteSet(S), \A x \in S : f[x] = g[x]
  PROVE  SumFunctionOnSet(f, S) = SumFunctionOnSet(g, S)
<1> DEFINE P == {T \in SUBSET S : SumFunctionOnSet(f, T) = SumFunctionOnSet(g, T)}
<1>1. ASSUME NEW T \in SUBSET S, \A x \in T : T \ {x} \in P PROVE T \in P
  <2>1. IsFiniteSet(T)
    BY FS_Subset
  <2>2. CASE T = {}
    BY <2>2, SumEmpty
  <2>3. CASE T # {}
    <3>1. Pick(T) \in T /\ T \ {Pick(T)} \in P
      BY <1>1, <2>1, <2>3, SumChosen
    <3> QED BY <2>1, <2>3, <3>1, SumChosen
  <2> QED BY <2>2, <2>3
<1> HIDE DEF P
<1>2. \A T \in SUBSET S : T \in P
  BY <1>1, SubsetInduction
<1> QED BY <1>2 DEF P

(* Any element can be taken out of the sum, not only the chosen one.       *)
LEMMA SumRemove ==
  ASSUME NEW f, NEW S, IsFiniteSet(S), \A x \in S : f[x] \in Int, NEW x \in S
  PROVE  /\ SumFunctionOnSet(f, S) = f[x] + SumFunctionOnSet(f, S \ {x})
         /\ SumFunctionOnSet(f, S \ {x}) \in Int
<1> DEFINE P == {T \in SUBSET S : \A y \in T :
      SumFunctionOnSet(f, T) = f[y] + SumFunctionOnSet(f, T \ {y})}
<1>1. ASSUME NEW T \in SUBSET S, \A y \in T : T \ {y} \in P PROVE T \in P
  <2> SUFFICES ASSUME NEW y \in T
               PROVE SumFunctionOnSet(f, T) = f[y] + SumFunctionOnSet(f, T \ {y})
    OBVIOUS
  <2> DEFINE p == Pick(T)
             U == (T \ {y}) \ {p}
  <2>1. IsFiniteSet(T)
    BY FS_Subset
  <2>2. p \in T /\ SumFunctionOnSet(f, T) = f[p] + SumFunctionOnSet(f, T \ {p})
    BY <2>1, SumUnfold
  <2> HIDE DEF p
  <2>3. CASE p = y
    BY <2>2, <2>3
  <2>4. CASE p # y
    <3>1. /\ T \ {p} \in P /\ T \ {y} \in P
          /\ y \in T \ {p} /\ p \in T \ {y}
          /\ (T \ {p}) \ {y} = U
      BY <2>2, <2>4, <1>1
    <3>2. SumFunctionOnSet(f, T \ {p}) = f[y] + SumFunctionOnSet(f, U)
      BY <3>1
    <3>3. SumFunctionOnSet(f, T \ {y}) = f[p] + SumFunctionOnSet(f, U)
      BY <3>1
    <3>4. SumFunctionOnSet(f, U) \in Int /\ f[p] \in Int /\ f[y] \in Int
      <4>1. IsFiniteSet(U)
        BY <2>1, FS_RemoveElement
      <4>2. \A z \in U : f[z] \in Int
        OBVIOUS
      <4> HIDE DEF U
      <4> QED BY <4>1, <4>2, <2>2, SumInt
    <3> HIDE DEF U
    <3> QED BY <2>2, <3>2, <3>3, <3>4
  <2> QED BY <2>3, <2>4
<1> HIDE DEF P
<1>2. \A T \in SUBSET S : T \in P
  BY <1>1, SubsetInduction
<1>3. IsFiniteSet(S \ {x})
  BY FS_RemoveElement
<1> QED BY <1>2, <1>3, S \in SUBSET S, SumInt DEF P

(* One element more.                                                       *)
LEMMA SumAdd ==
  ASSUME NEW f, NEW S, IsFiniteSet(S), NEW x, x \notin S,
         \A y \in S \cup {x} : f[y] \in Int
  PROVE  SumFunctionOnSet(f, S \cup {x}) = SumFunctionOnSet(f, S) + f[x]
<1>1. IsFiniteSet(S \cup {x})
  BY FS_AddElement
<1>2. (S \cup {x}) \ {x} = S
  OBVIOUS
<1> QED BY <1>1, <1>2, SumRemove

(* One value changed: the sum changes by as much.                          *)
LEMMA SumChange ==
  ASSUME NEW f, NEW g, NEW S, IsFiniteSet(S),
         \A y \in S : f[y] \in Int /\ g[y] \in Int,
         NEW x \in S, \A y \in S \ {x} : g[y] = f[y]
  PROVE  SumFunctionOnSet(g, S) = SumFunctionOnSet(f, S) + (g[x] - f[x])
<1>1. IsFiniteSet(S \ {x})
  BY FS_RemoveElement
<1>2. SumFunctionOnSet(g, S \ {x}) = SumFunctionOnSet(f, S \ {x})
  BY <1>1, SumSame
<1>3. /\ SumFunctionOnSet(f, S) = f[x] + SumFunctionOnSet(f, S \ {x})
      /\ SumFunctionOnSet(f, S \ {x}) \in Int
  BY SumRemove
<1>4. SumFunctionOnSet(g, S) = g[x] + SumFunctionOnSet(g, S \ {x})
  BY SumRemove
<1> QED BY <1>2, <1>3, <1>4

(* A sum of zeros.                                                         *)
LEMMA SumZero ==
  ASSUME NEW f, NEW S, IsFiniteSet(S), \A x \in S : f[x] = 0
  PROVE  SumFunctionOnSet(f, S) = 0
<1> DEFINE P == {T \in SUBSET S : SumFunctionOnSet(f, T) = 0}
<1>1. ASSUME NEW T \in SUBSET S, \A x \in T : T \ {x} \in P PROVE T \in P
  <2>1. IsFiniteSet(T)
    BY FS_Subset
  <2>2. CASE T = {}
    BY <2>2, SumEmpty
  <2>3. CASE T # {}
    <3>1. Pick(T) \in T /\ T \ {Pick(T)} \in P
      BY <1>1, <2>1, <2>3, SumChosen
    <3> QED BY <2>1, <2>3, <3>1, SumChosen
  <2> QED BY <2>2, <2>3
<1> HIDE DEF P
<1>2. \A T \in SUBSET S : T \in P
  BY <1>1, SubsetInduction
<1> QED BY <1>2 DEF P

(* The sum of pointwise sums.                                              *)
LEMMA SumPlus ==
  ASSUME NEW f, NEW g, NEW h, NEW S, IsFiniteSet(S),
         \A x \in S : f[x] \in Int /\ g[x] \in Int /\ h[x] = f[x] + g[x]
  PROVE  SumFunctionOnSet(h, S) = SumFunctionOnSet(f, S) + SumFunctionOnSet(g, S)
<1> DEFINE P == {T \in SUBSET S :
      SumFunctionOnSet(h, T) = SumFunctionOnSet(f, T) + SumFunctionOnSet(g, T)}
<1>1. ASSUME NEW T \in SUBSET S, \A x \in T : T \ {x} \in P PROVE T \in P
  <2>1. IsFiniteSet(T)
    BY FS_Subset
  <2>2. CASE T = {}
    BY <2>2, SumEmpty
  <2>3. CASE T # {}
    <3> DEFINE p == Pick(T)  U == T \ {p}
    <3>1. /\ p \in T
          /\ SumFunctionOnSet(h, T) = h[p] + SumFunctionOnSet(h, U)
          /\ SumFunctionOnSet(f, T) = f[p] + SumFunctionOnSet(f, U)
          /\ SumFunctionOnSet(g, T) = g[p] + SumFunctionOnSet(g, U)
      BY <2>1, <2>3, SumChosen
    <3>2. SumFunctionOnSet(f, U) \in Int /\ SumFunctionOnSet(g, U) \in Int
      <4>1. IsFiniteSet(U)
        BY <2>1, FS_RemoveElement
      <4> QED BY <4>1, SumInt
    <3>3. SumFunctionOnSet(h, U) = SumFunctionOnSet(f, U) + SumFunctionOnSet(g, U)
      BY <1>1, <3>1
    <3> HIDE DEF p, U
    <3> QED BY <3>1, <3>2, <3>3
  <2> QED BY <2>2, <2>3
<1> HIDE DEF P
<1>2. \A T \in SUBSET S : T \in P
  BY <1>1, SubsetInduction
<1> QED BY <1>2 DEF P

(* m times one sum is at most n times another when that holds of each      *)
(* element.                                                                *)
LEMMA SumScaledBelow ==
  ASSUME NEW f, NEW g, NEW S, IsFiniteSet(S), NEW m \in Int, NEW n \in Int,
         \A x \in S : f[x] \in Int /\ g[x] \in Int /\ m * f[x] <= n * g[x]
  PROVE  m * SumFunctionOnSet(f, S) <= n * SumFunctionOnSet(g, S)
<1> DEFINE P == {T \in SUBSET S :
      m * SumFunctionOnSet(f, T) <= n * SumFunctionOnSet(g, T)}
<1>1. ASSUME NEW T \in SUBSET S, \A x \in T : T \ {x} \in P PROVE T \in P
  <2>1. IsFiniteSet(T)
    BY FS_Subset
  <2>2. CASE T = {}
    BY <2>2, SumEmpty
  <2>3. CASE T # {}
    <3> DEFINE p == Pick(T)  U == T \ {p}
               a == SumFunctionOnSet(f, U)  b == SumFunctionOnSet(g, U)
    <3>1. /\ p \in T
          /\ SumFunctionOnSet(f, T) = f[p] + a
          /\ SumFunctionOnSet(g, T) = g[p] + b
      BY <2>1, <2>3, SumChosen
    <3>2. a \in Int /\ b \in Int
      <4>1. IsFiniteSet(U)
        BY <2>1, FS_RemoveElement
      <4> QED BY <4>1, SumInt
    <3>3. m * a <= n * b
      BY <1>1, <3>1
    <3> HIDE DEF p, U, a, b
    <3>4. f[p] \in Int /\ g[p] \in Int /\ m * f[p] <= n * g[p]
      BY <3>1
    <3>5. m * (f[p] + a) = m * f[p] + m * a /\ n * (g[p] + b) = n * g[p] + n * b
      BY <3>2, <3>4
    <3>6. m * f[p] \in Int /\ m * a \in Int /\ n * g[p] \in Int /\ n * b \in Int
      BY <3>2, <3>4
    <3>7. m * (f[p] + a) <= n * (g[p] + b)
      BY <3>3, <3>4, <3>5, <3>6
    <3> QED BY <3>1, <3>7
  <2> QED BY <2>2, <2>3
<1> HIDE DEF P
<1>2. \A T \in SUBSET S : T \in P
  BY <1>1, SubsetInduction
<1> QED BY <1>2 DEF P

(* Sums of smaller summands are smaller.                                   *)
LEMMA SumBelow ==
  ASSUME NEW f, NEW g, NEW S, IsFiniteSet(S),
         \A x \in S : f[x] \in Int /\ g[x] \in Int /\ f[x] <= g[x]
  PROVE  SumFunctionOnSet(f, S) <= SumFunctionOnSet(g, S)
<1>1. \A x \in S : 1 * f[x] <= 1 * g[x]
  OBVIOUS
<1>2. 1 * SumFunctionOnSet(f, S) <= 1 * SumFunctionOnSet(g, S)
  BY <1>1, SumScaledBelow
<1> QED BY <1>2, SumInt

(* A summand is within a sum of naturals.                                  *)
LEMMA SumMember ==
  ASSUME NEW f, NEW S, IsFiniteSet(S), \A y \in S : f[y] \in Nat, NEW x \in S
  PROVE  f[x] <= SumFunctionOnSet(f, S)
<1>1. IsFiniteSet(S \ {x})
  BY FS_RemoveElement
<1>2. SumFunctionOnSet(f, S \ {x}) \in Nat
  BY <1>1, SumNat
<1>3. SumFunctionOnSet(f, S) = f[x] + SumFunctionOnSet(f, S \ {x})
  BY SumRemove
<1> QED BY <1>2, <1>3

(* A sum in two parts.                                                     *)
LEMMA SumSplit ==
  ASSUME NEW f, NEW S, IsFiniteSet(S), \A x \in S : f[x] \in Int, NEW T \in SUBSET S
  PROVE  SumFunctionOnSet(f, S) = SumFunctionOnSet(f, T) + SumFunctionOnSet(f, S \ T)
<1> DEFINE P == {U \in SUBSET S :
      SumFunctionOnSet(f, S) = SumFunctionOnSet(f, U) + SumFunctionOnSet(f, S \ U)}
<1>1. ASSUME NEW U \in SUBSET S, \A x \in U : U \ {x} \in P PROVE U \in P
  <2>1. IsFiniteSet(U) /\ IsFiniteSet(S \ U)
    BY FS_Subset
  <2>2. SumFunctionOnSet(f, S \ U) \in Int /\ SumFunctionOnSet(f, S) \in Int
    <3>1. \A x \in S \ U : f[x] \in Int
      OBVIOUS
    <3> QED BY <2>1, <3>1, SumInt
  <2>3. CASE U = {}
    <3>1. SumFunctionOnSet(f, U) = 0 /\ S \ U = S
      BY <2>3, SumEmpty
    <3>2. SumFunctionOnSet(f, S) = 0 + SumFunctionOnSet(f, S \ U)
      BY <2>2, <3>1
    <3> QED BY <3>1, <3>2
  <2>4. CASE U # {}
    <3> DEFINE p == Pick(U)  V == U \ {p}
    <3>1. p \in U /\ V \in P
      BY <1>1, <2>1, <2>4, SumChosen
    <3>2. SumFunctionOnSet(f, U) = f[p] + SumFunctionOnSet(f, V)
          /\ SumFunctionOnSet(f, V) \in Int
      <4>1. \A x \in U : f[x] \in Int
        OBVIOUS
      <4> QED BY <2>1, <3>1, <4>1, SumRemove
    <3>3. S \ V = (S \ U) \cup {p} /\ p \notin S \ U
      BY <3>1
    <3>4. SumFunctionOnSet(f, (S \ U) \cup {p}) = SumFunctionOnSet(f, S \ U) + f[p]
      <4>1. \A y \in (S \ U) \cup {p} : f[y] \in Int
        BY <3>1
      <4> HIDE DEF p, V
      <4> QED BY <2>1, <3>3, <4>1, SumAdd
    <3>5. SumFunctionOnSet(f, S) = SumFunctionOnSet(f, V) + SumFunctionOnSet(f, S \ V)
      BY <3>1
    <3>6. f[p] \in Int
      BY <3>1
    <3> HIDE DEF p, V
    <3>7. SumFunctionOnSet(f, S \ V) = SumFunctionOnSet(f, S \ U) + f[p]
      BY <3>3, <3>4, Zenon
    <3>8. SumFunctionOnSet(f, S) = SumFunctionOnSet(f, U) + SumFunctionOnSet(f, S \ U)
      BY <2>2, <3>2, <3>5, <3>6, <3>7
    <3> QED BY <3>8
  <2> QED BY <2>3, <2>4
<1> HIDE DEF P
<1>2. \A U \in SUBSET S : U \in P
  BY <1>1, SubsetInduction
<1> QED BY <1>2 DEF P

(* A part of a sum of naturals is within it.                               *)
LEMMA SumPart ==
  ASSUME NEW f, NEW S, IsFiniteSet(S), \A x \in S : f[x] \in Nat, NEW T \in SUBSET S
  PROVE  /\ SumFunctionOnSet(f, T) <= SumFunctionOnSet(f, S)
         /\ SumFunctionOnSet(f, T) \in Nat /\ SumFunctionOnSet(f, S) \in Nat
<1>1. IsFiniteSet(T) /\ IsFiniteSet(S \ T)
  BY FS_Subset
<1>2. /\ SumFunctionOnSet(f, T) \in Nat /\ SumFunctionOnSet(f, S) \in Nat
      /\ SumFunctionOnSet(f, S \ T) \in Nat
  <2>1. (\A x \in T : f[x] \in Nat) /\ (\A x \in S \ T : f[x] \in Nat)
    OBVIOUS
  <2> QED BY <1>1, <2>1, SumNat
<1>3. \A x \in S : f[x] \in Int
  OBVIOUS
<1>4. SumFunctionOnSet(f, S) = SumFunctionOnSet(f, T) + SumFunctionOnSet(f, S \ T)
  BY <1>3, SumSplit
<1> QED BY <1>2, <1>4

(* Only the members of U have a value, of at most c each.                  *)
LEMMA SumCounted ==
  ASSUME NEW f, NEW S, IsFiniteSet(S), NEW c \in Nat, NEW U,
         \A x \in S : f[x] \in Int /\ (x \in U => f[x] <= c) /\ (x \notin U => f[x] <= 0)
  PROVE  SumFunctionOnSet(f, S) <= c * Cardinality(S \cap U)
<1> DEFINE P == {T \in SUBSET S : SumFunctionOnSet(f, T) <= c * Cardinality(T \cap U)}
<1>1. ASSUME NEW T \in SUBSET S, \A x \in T : T \ {x} \in P PROVE T \in P
  <2>1. IsFiniteSet(T) /\ IsFiniteSet(T \cap U)
    BY FS_Subset
  <2>2. Cardinality(T \cap U) \in Nat /\ c * Cardinality(T \cap U) \in Nat
    BY <2>1, FS_CardinalityType
  <2>3. CASE T = {}
    BY <2>2, <2>3, SumEmpty
  <2>4. CASE T # {}
    <3> DEFINE p == Pick(T)  V == T \ {p}
    <3>1. p \in T /\ V \in P /\ V \in SUBSET S
      BY <1>1, <2>1, <2>4, SumChosen
    <3>2. IsFiniteSet(V \cap U) /\ IsFiniteSet(V)
      BY <2>1, FS_Subset
    <3>3. Cardinality(V \cap U) \in Nat
      BY <3>2, FS_CardinalityType
    <3>4. /\ SumFunctionOnSet(f, T) = f[p] + SumFunctionOnSet(f, V)
          /\ SumFunctionOnSet(f, V) \in Int
      <4>1. \A x \in T : f[x] \in Int
        OBVIOUS
      <4> QED BY <2>1, <3>1, <4>1, SumRemove
    <3>5. SumFunctionOnSet(f, V) <= c * Cardinality(V \cap U)
      BY <3>1
    <3>6. CASE p \in U
      <4>1. T \cap U = (V \cap U) \cup {p} /\ p \notin V \cap U
        BY <3>1, <3>6
      <4>2. Cardinality(T \cap U) = Cardinality(V \cap U) + 1
        BY <3>2, <4>1, FS_AddElement
      <4>3. f[p] \in Int /\ f[p] <= c
        BY <3>1, <3>6
      <4> DEFINE n == Cardinality(V \cap U)  s == SumFunctionOnSet(f, V)
      <4>4. s <= c * n /\ n \in Nat /\ s \in Int
        BY <3>3, <3>4, <3>5
      <4> HIDE DEF p, V, n, s
      <4>5. c * (n + 1) = c * n + c /\ c * n \in Int
        BY <4>4
      <4>6. f[p] + s <= c * n + c
        BY <4>3, <4>4, <4>5
      <4> QED BY <3>4, <4>2, <4>5, <4>6 DEF n, s
    <3>7. CASE p \notin U
      <4>1. T \cap U = V \cap U
        BY <3>7
      <4>2. f[p] \in Int /\ f[p] <= 0
        BY <3>1, <3>7
      <4> HIDE DEF p, V
      <4>3. c * Cardinality(V \cap U) \in Int
        BY <3>3
      <4> QED BY <3>4, <3>5, <4>1, <4>2, <4>3
    <3> QED BY <3>6, <3>7
  <2> QED BY <2>3, <2>4
<1> HIDE DEF P
<1>2. \A T \in SUBSET S : T \in P
  BY <1>1, SubsetInduction
<1> QED BY <1>2 DEF P

-----------------------------------------------------------------------------
(* Floored shares.                                                         *)

(* What floored division returns.                                          *)
LEMMA DivFacts ==
  ASSUME NEW n \in Nat, NEW d \in Nat \ {0}
  PROVE  /\ n \div d \in Nat
         /\ d * (n \div d) <= n
         /\ n < d * (n \div d) + d
OBVIOUS

(* Shares of a pool that are at most in proportion to their weights.       *)
LEMMA SharesBelow ==
  ASSUME NEW f, NEW g, NEW S, IsFiniteSet(S), NEW pool \in Nat, NEW whole \in Nat \ {0},
         \A x \in S : f[x] \in Nat /\ g[x] \in Nat /\ whole * g[x] <= pool * f[x],
         SumFunctionOnSet(f, S) = whole
  PROVE  SumFunctionOnSet(g, S) \in Nat /\ SumFunctionOnSet(g, S) <= pool
<1> DEFINE s == SumFunctionOnSet(g, S)
<1>1. s \in Nat
  BY SumNat
<1>2. whole * SumFunctionOnSet(g, S) <= pool * SumFunctionOnSet(f, S)
  <2>1. \A x \in S : g[x] \in Int /\ f[x] \in Int /\ whole * g[x] <= pool * f[x]
    OBVIOUS
  <2>2. whole \in Int /\ pool \in Int
    OBVIOUS
  <2> QED BY <2>1, <2>2, SumScaledBelow, Zenon
<1>3. whole * s <= whole * pool
  BY <1>2
<1> HIDE DEF s
<1>4. s > pool => whole * s > whole * pool
  BY <1>1
<1>5. whole * s \in Nat /\ whole * pool \in Nat
  BY <1>1
<1>6. s <= pool
  BY <1>1, <1>3, <1>4, <1>5
<1> QED BY <1>1, <1>6 DEF s

(* The floored shares of a pool, by weight, are within the pool.           *)
LEMMA SumShares ==
  ASSUME NEW f, NEW g, NEW S, IsFiniteSet(S), NEW pool \in Nat,
         \A x \in S : f[x] \in Nat, SumFunctionOnSet(f, S) # 0,
         \A x \in S : g[x] = (f[x] * pool) \div SumFunctionOnSet(f, S)
  PROVE  /\ \A x \in S : g[x] \in Nat
         /\ SumFunctionOnSet(g, S) \in Nat /\ SumFunctionOnSet(g, S) <= pool
<1> DEFINE W == SumFunctionOnSet(f, S)
<1>1. W \in Nat \ {0}
  BY SumNat
<1>2. \A x \in S : g[x] = (f[x] * pool) \div W
  OBVIOUS
<1>3. SumFunctionOnSet(f, S) = W
  OBVIOUS
<1> HIDE DEF W
<1>4. \A x \in S : f[x] \in Nat /\ g[x] \in Nat /\ W * g[x] <= pool * f[x]
  <2> SUFFICES ASSUME NEW x \in S PROVE g[x] \in Nat /\ W * g[x] <= pool * f[x]
    OBVIOUS
  <2>1. f[x] * pool \in Nat /\ f[x] * pool = pool * f[x]
    OBVIOUS
  <2> QED BY <1>1, <1>2, <2>1, DivFacts
<1> QED BY <1>1, <1>3, <1>4, SharesBelow
===============================================================================
