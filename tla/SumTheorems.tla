----------------------------- MODULE SumTheorems -----------------------------
(***************************************************************************)
(* What the proofs need of SumFunction, the fold that sums a function: the *)
(* sum of integers is an integer and of naturals a natural, it grows with  *)
(* its terms, and it moves by as much as one of them.                      *)
(*                                                                         *)
(* SumFunction takes the indices one by one.  Each fact is shown for all   *)
(* sets of indices at once: the least number of indices for which it       *)
(* failed would have a predecessor.                                        *)
(***************************************************************************)
EXTENDS Functions, Integers, FiniteSetTheorems, WellFoundedInduction, TLAPS

(* Every non-empty set of numbers has a least one.                         *)
LEMMA LeastNumber ==
  ASSUME NEW T, T \subseteq Nat, T # {}
  PROVE  \E n \in T : \A m \in T : n <= m
<1>1. IsWellFoundedOn(OpToRel(<, Nat), Nat)
  BY NatLessThanWellFounded
<1>2. PICK n \in T : \A m \in T : ~(<<m, n>> \in OpToRel(<, Nat))
  <2>. HIDE DEF IsWellFoundedOn, OpToRel
  <2>. QED BY <1>1, WFMin
<1>3. \A m \in T : ~(m < n)
  BY <1>2 DEF OpToRel
<1>. QED
  BY <1>3

(***************************************************************************)
(* SumFunction folds a function from the community modules: it is the      *)
(* value at DOMAIN f of a function iter that sums f over every set, taking *)
(* one element of a set after the other.                                   *)
(***************************************************************************)
Pick(T) == CHOOSE x \in T : TRUE

\* Sums over every set of indices, one more pick at a time.
SumsOf(f, iter) ==
  iter = [T \in SUBSET DOMAIN f |->
            IF T = {} THEN 0 ELSE f[Pick(T)] + iter[T \ {Pick(T)}]]

(* If such a function exists, SumFunction is its value at the domain of f. *)
LEMMA SumIsTheirs ==
  ASSUME NEW f, NEW it, SumsOf(f, it)
  PROVE  \E iter : SumsOf(f, iter) /\ SumFunction(f) = iter[DOMAIN f]
<1>. DEFINE ch == CHOOSE iter : SumsOf(f, iter)
<1>1. SumsOf(f, ch)
  OBVIOUS
<1>2. SumFunction(f) = ch[DOMAIN f]
  BY DEF SumFunction, SumFunctionOnSet, FoldFunctionOnSet, MapThenFoldSet, SumsOf, Pick
<1>. QED
  BY <1>1, <1>2

(* The same up to a size, by which it is built.                            *)
Small(S, n) == {T \in SUBSET S : Cardinality(T) <= n}

\* Sums over the sets of at most n indices.
SumsUpTo(f, n, g) ==
  g = [T \in Small(DOMAIN f, n) |->
         IF T = {} THEN 0 ELSE f[Pick(T)] + g[T \ {Pick(T)}]]

(* Without its pick a set is smaller by one.                               *)
LEMMA PickSmaller ==
  ASSUME NEW T, IsFiniteSet(T), T # {}
  PROVE  /\ Pick(T) \in T
         /\ Cardinality(T \ {Pick(T)}) = Cardinality(T) - 1
         /\ Cardinality(T) \in Nat
         /\ Cardinality(T) # 0
<1>1. Pick(T) \in T
  BY DEF Pick
<1>2. Cardinality(T) \in Nat
  BY FS_CardinalityType
<1>3. Cardinality(T) # 0
  BY FS_EmptySet
<1>4. Cardinality(T \ {Pick(T)}) = Cardinality(T) - 1
  BY <1>1, FS_RemoveElement
<1>. QED
  BY <1>1, <1>2, <1>3, <1>4

(* It exists: the least size at which it did not would have a smaller one. *)
LEMMA SumsExist ==
  ASSUME NEW f, IsFiniteSet(DOMAIN f)
  PROVE  \E iter : SumsOf(f, iter)
<1>. DEFINE S == DOMAIN f
            Bad == {n \in Nat : ~ \E g : SumsUpTo(f, n, g)}
<1>1. ASSUME NEW T \in SUBSET S
      PROVE  IsFiniteSet(T) /\ Cardinality(T) \in Nat /\ Cardinality(T) <= Cardinality(S)
  BY <1>1, FS_Subset, FS_CardinalityType
<1>2. Bad = {}
  <2>1. SUFFICES ASSUME Bad # {} PROVE FALSE
    OBVIOUS
  <2>2. PICK n \in Bad : \A m \in Bad : n <= m
    BY <2>1, LeastNumber
  <2>3. CASE n = 0
    <3>. DEFINE g == [T \in Small(S, 0) |-> 0]
    <3>1. \A T \in Small(S, 0) : T = {}
      BY <1>1, FS_EmptySet DEF Small
    <3>2. g = [T \in Small(S, 0) |-> IF T = {} THEN 0 ELSE f[Pick(T)] + g[T \ {Pick(T)}]]
      BY <3>1
    <3>3. SumsUpTo(f, 0, g)
      BY <3>2 DEF SumsUpTo
    <3>. QED
      BY <2>2, <2>3, <3>3
  <2>4. CASE n # 0
    <3>1. n - 1 \in Nat /\ n \in Nat /\ n - 1 \notin Bad
      BY <2>2, <2>4
    <3>2. PICK g : SumsUpTo(f, n - 1, g)
      BY <3>1
    <3>. DEFINE h == [T \in Small(S, n) |->
                        IF T = {} THEN 0 ELSE f[Pick(T)] + g[T \ {Pick(T)}]]
    <3>3. ASSUME NEW T \in Small(S, n - 1)
          PROVE  T \in Small(S, n) /\ h[T] = g[T]
      <4>1. T \in Small(S, n)
        BY <1>1, <3>1 DEF Small
      <4>. QED
        BY <4>1, <3>2 DEF SumsUpTo
    <3>4. ASSUME NEW T \in Small(S, n), T # {}
          PROVE  h[T \ {Pick(T)}] = g[T \ {Pick(T)}]
      <4>1. T \in SUBSET S /\ Cardinality(T) <= n
        BY DEF Small
      <4>2. Cardinality(T \ {Pick(T)}) <= n - 1
        BY <1>1, <3>1, <3>4, <4>1, PickSmaller
      <4>. QED
        BY <3>3, <4>1, <4>2 DEF Small
    <3>5. h = [T \in Small(S, n) |-> IF T = {} THEN 0 ELSE f[Pick(T)] + h[T \ {Pick(T)}]]
      BY <3>4
    <3>. HIDE DEF h
    <3>6. SumsUpTo(f, n, h)
      BY <3>5 DEF SumsUpTo
    <3>. QED
      BY <2>2, <3>6
  <2>. QED
    BY <2>3, <2>4
<1>3. Cardinality(S) \in Nat
  BY FS_CardinalityType
<1>4. PICK g : SumsUpTo(f, Cardinality(S), g)
  BY <1>2, <1>3
<1>5. Small(S, Cardinality(S)) = SUBSET S
  BY <1>1 DEF Small
<1>. QED
  BY <1>4, <1>5 DEF SumsUpTo, SumsOf

(* What holds of {} and of a set when it holds without its pick holds of   *)
(* every subset of a finite set.                                           *)
LEMMA PickInduction ==
  ASSUME NEW S, IsFiniteSet(S), NEW Good, {} \in Good,
         \A T \in SUBSET S : T # {} /\ T \ {Pick(T)} \in Good => T \in Good
  PROVE  \A T \in SUBSET S : T \in Good
<1>. DEFINE Sizes == {n \in Nat : \E T \in SUBSET S : T \notin Good /\ Cardinality(T) = n}
<1>1. SUFFICES ASSUME NEW U \in SUBSET S, U \notin Good PROVE FALSE
  OBVIOUS
<1>2. \A T \in SUBSET S : IsFiniteSet(T) /\ Cardinality(T) \in Nat
  BY FS_Subset, FS_CardinalityType
<1>3. Cardinality(U) \in Sizes
  BY <1>1, <1>2
<1>4. PICK n \in Sizes : \A m \in Sizes : n <= m
  <2>. HIDE DEF Sizes
  <2>1. Sizes \subseteq Nat
    BY DEF Sizes
  <2>. QED
    BY <1>3, <2>1, LeastNumber
<1>5. PICK T \in SUBSET S : T \notin Good /\ Cardinality(T) = n
  OBVIOUS
<1>6. T # {}
  BY <1>5
<1>7. Cardinality(T \ {Pick(T)}) = n - 1 /\ n \in Nat /\ n # 0
  BY <1>2, <1>5, <1>6, PickSmaller
<1>8. T \ {Pick(T)} \notin Good
  BY <1>5, <1>6
<1>9. n - 1 \in Sizes
  BY <1>7, <1>8
<1>. QED
  BY <1>4, <1>7, <1>9

(* What the lemmas below use of iter.                                      *)
PartialSums(S, f, iter) ==
  /\ SumFunction(f) = iter[S]
  /\ iter[{}] = 0
  /\ \A T \in SUBSET S : T # {} => iter[T] = f[Pick(T)] + iter[T \ {Pick(T)}]

(* SumFunction has its partial sums.                                       *)
LEMMA SumEquation ==
  ASSUME NEW S, IsFiniteSet(S), NEW f \in [S -> Int]
  PROVE  \E iter : PartialSums(S, f, iter)
<1>. DOMAIN f = S
  OBVIOUS
<1>1. PICK it : SumsOf(f, it)
  BY SumsExist
<1>2. PICK iter : SumsOf(f, iter) /\ SumFunction(f) = iter[DOMAIN f]
  BY <1>1, SumIsTheirs
<1>. QED
  BY <1>2 DEF SumsOf, PartialSums

(* A sum of integers is an integer.                                        *)
LEMMA SumType ==
  ASSUME NEW S, IsFiniteSet(S), NEW f \in [S -> Int]
  PROVE  SumFunction(f) \in Int
<1>1. PICK iter : PartialSums(S, f, iter)
  BY SumEquation
<1>. DEFINE Good == {T \in SUBSET S : iter[T] \in Int}
<1>2. {} \in Good
  BY <1>1 DEF PartialSums
<1>3. ASSUME NEW T \in SUBSET S, T # {}, T \ {Pick(T)} \in Good
      PROVE  T \in Good
  <2>1. Pick(T) \in S
    BY <1>3 DEF Pick
  <2>2. f[Pick(T)] \in Int /\ iter[T \ {Pick(T)}] \in Int
    BY <1>3, <2>1
  <2>3. iter[T] = f[Pick(T)] + iter[T \ {Pick(T)}]
    BY <1>1, <1>3 DEF PartialSums
  <2>. QED
    BY <2>2, <2>3
<1>. HIDE DEF Good
<1>4. S \in Good
  BY <1>2, <1>3, PickInduction
<1>. QED
  BY <1>1, <1>4 DEF Good, PartialSums

(* Greater terms, greater sum.                                             *)
LEMMA SumMonotone ==
  ASSUME NEW S, IsFiniteSet(S), NEW f \in [S -> Int], NEW g \in [S -> Int],
         \A x \in S : f[x] <= g[x]
  PROVE  SumFunction(f) <= SumFunction(g)
<1>1. PICK F : PartialSums(S, f, F)
  BY SumEquation
<1>2. PICK G : PartialSums(S, g, G)
  BY SumEquation
<1>. DEFINE Good == {T \in SUBSET S : F[T] \in Int /\ G[T] \in Int /\ F[T] <= G[T]}
<1>3. {} \in Good
  BY <1>1, <1>2 DEF PartialSums
<1>4. ASSUME NEW T \in SUBSET S, T # {}, T \ {Pick(T)} \in Good
      PROVE  T \in Good
  <2>1. Pick(T) \in S
    BY <1>4 DEF Pick
  <2>2. /\ F[T] = f[Pick(T)] + F[T \ {Pick(T)}]
        /\ G[T] = g[Pick(T)] + G[T \ {Pick(T)}]
    BY <1>1, <1>2, <1>4 DEF PartialSums
  <2>3. f[Pick(T)] \in Int /\ g[Pick(T)] \in Int /\ f[Pick(T)] <= g[Pick(T)]
    BY <2>1
  <2>4. F[T] \in Int /\ G[T] \in Int /\ F[T] <= G[T]
    BY <1>4, <2>2, <2>3
  <2>. QED
    BY <2>4
<1>. HIDE DEF Good
<1>5. S \in Good
  BY <1>3, <1>4, PickInduction
<1>. QED
  BY <1>1, <1>2, <1>5 DEF Good, PartialSums

(* Two functions that differ at x only have sums that differ by as much.   *)
LEMMA SumDifference ==
  ASSUME NEW S, IsFiniteSet(S), NEW f \in [S -> Int], NEW g \in [S -> Int], NEW x \in S,
         \A y \in S \ {x} : f[y] = g[y]
  PROVE  SumFunction(g) = SumFunction(f) + g[x] - f[x]
<1>1. PICK F : PartialSums(S, f, F)
  BY SumEquation
<1>2. PICK G : PartialSums(S, g, G)
  BY SumEquation
<1>. DEFINE Good == {T \in SUBSET S : /\ F[T] \in Int /\ G[T] \in Int
                                      /\ G[T] = IF x \in T THEN F[T] + g[x] - f[x] ELSE F[T]}
<1>3. {} \in Good
  BY <1>1, <1>2 DEF PartialSums
<1>4. ASSUME NEW T \in SUBSET S, T # {}, T \ {Pick(T)} \in Good
      PROVE  T \in Good
  <2>. DEFINE z == Pick(T)
              U == T \ {Pick(T)}
  <2>1. z \in T /\ z \in S
    BY <1>4 DEF Pick
  <2>2. F[T] = f[z] + F[U] /\ G[T] = g[z] + G[U]
    BY <1>1, <1>2, <1>4 DEF PartialSums
  <2>3. f[z] \in Int /\ g[z] \in Int /\ f[x] \in Int /\ g[x] \in Int
    BY <2>1
  <2>4. F[U] \in Int /\ G[U] \in Int
    BY <1>4
  <2>5. x \in U => G[U] = F[U] + g[x] - f[x]
    BY <1>4
  <2>6. x \notin U => G[U] = F[U]
    BY <1>4
  <2>7. z # x => f[z] = g[z]
    BY <2>1
  <2>8. x \in T <=> (x \in U \/ x = z)
    BY <2>1
  <2>9. x \in U => z # x
    OBVIOUS
  <2>. HIDE DEF z, U
  <2>10. F[T] \in Int /\ G[T] \in Int
    BY <2>2, <2>3, <2>4
  <2>11. CASE x \in U
    <3>1. G[T] = F[T] + g[x] - f[x]
      BY <2>2, <2>3, <2>4, <2>5, <2>7, <2>9, <2>11
    <3>. QED
      BY <2>8, <2>10, <2>11, <3>1
  <2>12. CASE x = z
    <3>1. G[T] = F[T] + g[x] - f[x]
      BY <2>2, <2>3, <2>4, <2>6, <2>9, <2>12
    <3>. QED
      BY <2>8, <2>10, <2>12, <3>1
  <2>13. CASE x \notin T
    <3>1. G[T] = F[T]
      BY <2>2, <2>3, <2>4, <2>6, <2>7, <2>8, <2>13
    <3>. QED
      BY <2>10, <2>13, <3>1
  <2>. QED
    BY <2>8, <2>11, <2>12, <2>13
<1>. HIDE DEF Good
<1>5. S \in Good
  BY <1>3, <1>4, PickInduction
<1>. QED
  BY <1>1, <1>2, <1>5 DEF Good, PartialSums

(* The sum of zeros is zero.                                               *)
LEMMA SumZero ==
  ASSUME NEW S, IsFiniteSet(S), NEW f \in [S -> Int], \A x \in S : f[x] = 0
  PROVE  SumFunction(f) = 0
<1>1. PICK iter : PartialSums(S, f, iter)
  BY SumEquation
<1>. DEFINE Good == {T \in SUBSET S : iter[T] = 0}
<1>2. {} \in Good
  BY <1>1 DEF PartialSums
<1>3. ASSUME NEW T \in SUBSET S, T # {}, T \ {Pick(T)} \in Good
      PROVE  T \in Good
  <2>1. f[Pick(T)] = 0
    BY <1>3 DEF Pick
  <2>2. iter[T \ {Pick(T)}] = 0
    BY <1>3
  <2>3. iter[T] = f[Pick(T)] + iter[T \ {Pick(T)}]
    BY <1>1, <1>3 DEF PartialSums
  <2>. QED
    BY <2>1, <2>2, <2>3
<1>. HIDE DEF Good
<1>4. S \in Good
  BY <1>2, <1>3, PickInduction
<1>. QED
  BY <1>1, <1>4 DEF Good, PartialSums

(* The sum of a function that is zero elsewhere is its value at x.         *)
LEMMA SumOfOne ==
  ASSUME NEW S, IsFiniteSet(S), NEW f \in [S -> Int], NEW x \in S,
         \A y \in S \ {x} : f[y] = 0
  PROVE  SumFunction(f) = f[x]
<1>. DEFINE zero == [y \in S |-> 0]
<1>1. zero \in [S -> Int] /\ \A y \in S : zero[y] = 0
  OBVIOUS
<1>2. SumFunction(zero) = 0
  BY <1>1, SumZero
<1>3. \A y \in S \ {x} : zero[y] = f[y]
  OBVIOUS
<1>. HIDE DEF zero
<1>4. SumFunction(f) = SumFunction(zero) + f[x] - zero[x]
  BY <1>1, <1>3, SumDifference
<1>5. f[x] \in Int
  OBVIOUS
<1>. QED
  BY <1>1, <1>2, <1>4, <1>5

(* A sum of naturals is a natural.                                         *)
LEMMA SumNatural ==
  ASSUME NEW S, IsFiniteSet(S), NEW f \in [S -> Nat]
  PROVE  SumFunction(f) \in Nat
<1>. DEFINE zero == [y \in S |-> 0]
<1>1. zero \in [S -> Int] /\ \A y \in S : zero[y] = 0 /\ zero[y] <= f[y]
  OBVIOUS
<1>2. f \in [S -> Int]
  OBVIOUS
<1>. HIDE DEF zero
<1>3. SumFunction(zero) = 0 /\ SumFunction(zero) <= SumFunction(f)
  BY <1>1, <1>2, SumZero, SumMonotone
<1>4. SumFunction(f) \in Int
  BY <1>2, SumType
<1>. QED
  BY <1>3, <1>4
=============================================================================
