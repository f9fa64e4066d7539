-------------------------------- MODULE NatSets --------------------------------
(***************************************************************************)
(* Facts that the proofs of several modules use.  About finite sets of     *)
(* natural numbers: least elements, induction, functions defined by        *)
(* recursion, loops, the element of a given rank, sums over a finite set.  *)
(* About tables with open addressing: walks round the table, walks with an *)
(* odd stride, and tables in which every key is where its walk ends.       *)
(***************************************************************************)
EXTENDS Integers, FiniteSets, FiniteSetsExt, TLAPS, FiniteSetTheorems, WellFoundedInduction

(* A non-empty set of natural numbers has a least element.  It replaces    *)
(* induction below.                                                        *)
LEMMA LeastNat ==
  ASSUME NEW T \in SUBSET Nat, T # {}
  PROVE  \E m \in T : \A n \in T : m <= n
<1> DEFINE R == OpToRel(<, Nat)
<1>1. IsWellFoundedOn(R, Nat)
  BY NatLessThanWellFounded
<1>2. \A a, b \in Nat : a < b => <<a, b>> \in R
  BY DEF OpToRel
<1> HIDE DEF R
<1>3. PICK m \in T : \A n \in T : ~(<<n, m>> \in R)
  BY <1>1, WFMin
<1>4. ASSUME NEW n \in T PROVE m <= n
  <2>1. m \in Nat /\ n \in Nat
    OBVIOUS
  <2>2. ~(n < m)
    BY <1>2, <1>3, <2>1
  <2> QED BY <2>1, <2>2
<1> QED BY <1>4

(* Induction, for a set of natural numbers instead of a predicate.         *)
LEMMA SetInduction ==
  ASSUME NEW T \in SUBSET Nat, 0 \in T, \A n \in T : n + 1 \in T
  PROVE  T = Nat
<1> SUFFICES ASSUME Nat \ T # {} PROVE FALSE
  OBVIOUS
<1>1. PICK m \in Nat \ T : \A n \in Nat \ T : m <= n
  <2>1. Nat \ T \in SUBSET Nat
    OBVIOUS
  <2> QED BY <2>1, LeastNat
<1>2. m - 1 \in Nat /\ ~(m <= m - 1)
  BY <1>1
<1>3. m - 1 \in T /\ (m - 1) + 1 = m
  BY <1>1, <1>2
<1>4. m \in T
  BY <1>3
<1> QED BY <1>1, <1>4

(* A function may be defined by recursion over the natural numbers, here   *)
(* with the step as a function of the number and the value before it.      *)
Recursive(S, base, step) ==
  \E f \in [Nat -> S] : f[0] = base /\ \A n \in Nat : f[n + 1] = step[n][f[n]]

LEMMA Recursion ==
  ASSUME NEW S, NEW base \in S, NEW step \in [Nat -> [S -> S]]
  PROVE  Recursive(S, base, step)
<1> DEFINE Upto(n, g) == /\ g \in [0 .. n -> S]
                         /\ g[0] = base
                         /\ \A i \in 0 .. n : i # n => g[i + 1] = step[i][g[i]]
           T == {n \in Nat : \E g : Upto(n, g)}
<1>1. 0 \in T
  <2> DEFINE g == [i \in 0 .. 0 |-> base]
  <2>1. Upto(0, g)
    OBVIOUS
  <2> QED BY <2>1
<1>2. ASSUME NEW n \in T PROVE n + 1 \in T
  <2>1. PICK g : Upto(n, g)
    OBVIOUS
  <2> DEFINE f == [i \in 0 .. n + 1 |-> IF i = n + 1 THEN step[n][g[n]] ELSE g[i]]
  <2>2. n \in Nat /\ n \in 0 .. n /\ g[n] \in S /\ step[n][g[n]] \in S
    BY <2>1
  <2>3. \A i \in 0 .. n + 1 : i = n + 1 \/ i \in 0 .. n
    BY <2>2
  <2>4. f \in [0 .. n + 1 -> S]
    BY <2>1, <2>2, <2>3
  <2>5. f[0] = base
    BY <2>1, <2>2
  <2>6. ASSUME NEW i \in 0 .. n + 1, i # n + 1 PROVE f[i + 1] = step[i][f[i]]
    <3>1. i \in 0 .. n /\ i + 1 \in 0 .. n + 1 /\ f[i] = g[i]
      BY <2>2, <2>6
    <3>2. CASE i = n
      BY <2>2, <3>1, <3>2
    <3>3. CASE i # n
      <4>1. i + 1 # n + 1 /\ f[i + 1] = g[i + 1]
        BY <2>2, <3>1, <3>3
      <4> QED BY <2>1, <3>1, <3>3, <4>1
    <3> QED BY <3>2, <3>3
  <2>7. Upto(n + 1, f)
    BY <2>4, <2>5, <2>6
  <2> HIDE DEF Upto, f
  <2> QED BY <2>2, <2>7
<1>3. T = Nat
  <2> HIDE DEF T
  <2>1. T \in SUBSET Nat
    BY DEF T
  <2> QED BY <1>1, <1>2, <2>1, SetInduction
<1> DEFINE value(n) == (CHOOSE g : Upto(n, g))[n]
           f == [n \in Nat |-> value(n)]
<1>4. \A n \in Nat : Upto(n, CHOOSE g : Upto(n, g))
  <2> HIDE DEF Upto
  <2> QED BY <1>3
(* Two such functions agree where both are defined.                        *)
<1>5. ASSUME NEW n \in Nat, NEW g, Upto(n, g), NEW h, Upto(n + 1, h)
      PROVE  g[n] = h[n]
  <2> DEFINE A == {i \in Nat : i <= n => g[i] = h[i]}
  <2>1. 0 \in A
    BY <1>5
  <2>2. ASSUME NEW i \in A PROVE i + 1 \in A
    <3> SUFFICES ASSUME i + 1 <= n PROVE g[i + 1] = h[i + 1]
      OBVIOUS
    <3>1. i \in 0 .. n /\ i # n /\ i \in 0 .. n + 1 /\ i # n + 1 /\ i <= n
      OBVIOUS
    <3>2. g[i + 1] = step[i][g[i]]
      BY <1>5, <3>1
    <3>3. h[i + 1] = step[i][h[i]]
      BY <1>5, <3>1
    <3> QED BY <3>1, <3>2, <3>3
  <2>3. A \in SUBSET Nat
    OBVIOUS
  <2>4. n \in A
    <3> HIDE DEF A
    <3> QED BY <2>1, <2>2, <2>3, SetInduction
  <2> QED BY <2>4
<1>6. ASSUME NEW n \in Nat
      PROVE  value(n) \in S /\ value(n + 1) = step[n][value(n)]
  <2> DEFINE g == CHOOSE g : Upto(n, g)
             h == CHOOSE h : Upto(n + 1, h)
  <2>1. Upto(n, g) /\ Upto(n + 1, h) /\ n \in Nat /\ n + 1 \in Nat
    <3>1. n \in Nat /\ n + 1 \in Nat
      OBVIOUS
    <3> HIDE DEF Upto
    <3> QED BY <1>4, <3>1
  <2>2. value(n) = g[n] /\ value(n + 1) = h[n + 1]
    OBVIOUS
  <2> HIDE DEF g, h, value
  <2>3. g[n] = h[n]
    BY <1>5, <2>1
  <2>4. g[n] \in S
    BY <2>1
  <2>5. h[n + 1] = step[n][h[n]]
    BY <2>1
  <2> QED BY <2>2, <2>3, <2>4, <2>5
<1>7. value(0) = base
  <2> DEFINE g == CHOOSE g : Upto(0, g)
  <2>1. Upto(0, g)
    BY <1>4
  <2>2. value(0) = g[0]
    OBVIOUS
  <2> HIDE DEF g, value
  <2> QED BY <2>1, <2>2
<1> HIDE DEF value
<1>8. f \in [Nat -> S] /\ f[0] = base /\ \A n \in Nat : f[n + 1] = step[n][f[n]]
  BY <1>6, <1>7
<1> QED BY <1>8 DEF Recursive

(* A finite set of more than k numbers has an element with exactly k       *)
(* smaller ones: select_nth_unstable(k) finds what rebuild asks for.       *)
HasKth(S, k) == \E h \in S : Cardinality({g \in S : g < h}) = k

LEMMA KthExists ==
  ASSUME NEW M \in Nat, NEW S \in SUBSET (0 .. M), NEW k \in Nat,
         Cardinality(S) > k
  PROVE  HasKth(S, k)
<1> DEFINE B(n) == {g \in S : g < n}
           T == {n \in Nat : Cardinality(B(n)) >= k + 1}
<1>a. \A g \in S : g \in Nat /\ g <= M
  OBVIOUS
<1>b. IsFiniteSet(S)
  <2>1. IsFiniteSet(0 .. M)
    BY FS_Interval
  <2> QED BY <2>1, FS_Subset
<1>0. Cardinality(S) \in Nat
  BY <1>b, FS_CardinalityType
<1>1. ASSUME NEW n \in Nat PROVE IsFiniteSet(B(n)) /\ Cardinality(B(n)) \in Nat
  <2>1. B(n) \in SUBSET S
    OBVIOUS
  <2> HIDE DEF B
  <2> QED BY <1>b, <2>1, FS_Subset, FS_CardinalityType
<1>2. B(M + 1) = S
  <2>1. \A g \in S : g < M + 1
    BY <1>a
  <2> QED BY <2>1
<1>3. M + 1 \in T
  BY <1>0, <1>2
<1>4. PICK m \in T : \A n \in T : m <= n
  <2>1. T \in SUBSET Nat /\ T # {}
    BY <1>3
  <2> HIDE DEF T
  <2> QED BY <2>1, LeastNat
<1>5. m # 0
  <2>1. B(0) = {}
    <3>1. \A g \in S : ~(g < 0)
      BY <1>a
    <3> QED BY <3>1
  <2>2. Cardinality(B(0)) = 0
    BY <2>1, FS_EmptySet
  <2>3. m = 0 => Cardinality(B(0)) >= k + 1
    BY <1>4
  <2> QED BY <2>2, <2>3
<1>6. m \in Nat /\ m - 1 \in Nat /\ m - 1 \notin T
  BY <1>4, <1>5
<1>7. /\ m - 1 \notin S => B(m) = B(m - 1)
      /\ m - 1 \in S => B(m) = B(m - 1) \cup {m - 1}
  <2>1. \A g \in S : g < m <=> (g < m - 1 \/ g = m - 1)
    BY <1>a, <1>6
  <2> QED BY <2>1
<1>8. Cardinality(B(m - 1)) <= k /\ Cardinality(B(m)) >= k + 1
  BY <1>4, <1>6, <1>1
<1>9. m - 1 \in S
  BY <1>1, <1>6, <1>7, <1>8
<1>10. Cardinality(B(m)) = Cardinality(B(m - 1)) + 1
  <2>1. B(m) = B(m - 1) \cup {m - 1}
    BY <1>7, <1>9
  <2>2. m - 1 \notin B(m - 1)
    BY <1>6
  <2>3. IsFiniteSet(B(m - 1))
    BY <1>1, <1>6
  <2> HIDE DEF B
  <2> QED BY <2>1, <2>2, <2>3, FS_AddElement
<1>11. Cardinality(B(m - 1)) = k
  <2>1. Cardinality(B(m - 1)) \in Nat /\ Cardinality(B(m)) \in Nat
    BY <1>1, <1>6
  <2> HIDE DEF B
  <2> QED BY <1>8, <1>10, <2>1
<1>12. \E h \in S : Cardinality(B(h)) = k
  BY <1>9, <1>11
<1> QED BY <1>12 DEF HasKth

(* Induction over the subsets of a finite set, from the ones with an       *)
(* element less.                                                           *)
LEMMA SubsetInduction ==
  ASSUME NEW U, IsFiniteSet(U), NEW P \in SUBSET SUBSET U, {} \in P,
         \A S \in SUBSET U : S # {} /\ (\A x \in S : S \ {x} \in P) => S \in P
  PROVE  P = SUBSET U
<1> DEFINE T == {n \in Nat : \A S \in SUBSET U : Cardinality(S) = n => S \in P}
<1>1. \A S \in SUBSET U : IsFiniteSet(S) /\ Cardinality(S) \in Nat
  BY FS_Subset, FS_CardinalityType
<1>2. 0 \in T
  BY <1>1, FS_EmptySet
<1>3. ASSUME NEW n \in T PROVE n + 1 \in T
  <2> SUFFICES ASSUME NEW S \in SUBSET U, Cardinality(S) = n + 1 PROVE S \in P
    OBVIOUS
  <2>1. n \in Nat /\ n + 1 # 0 /\ (n + 1) - 1 = n
    OBVIOUS
  <2>2. S # {}
    BY <2>1, FS_EmptySet
  <2>3. ASSUME NEW x \in S PROVE S \ {x} \in P
    <3>1. Cardinality(S \ {x}) = n
      BY <1>1, <2>1, FS_RemoveElement
    <3> QED BY <2>1, <3>1
  <2> QED BY <2>2, <2>3
<1>4. T = Nat
  <2>1. T \in SUBSET Nat
    OBVIOUS
  <2> HIDE DEF T
  <2> QED BY <1>2, <1>3, <2>1, SetInduction
<1> QED BY <1>1, <1>4

(* g gives the sum of f over each subset of U.                             *)
IsSum(U, f, g) ==
  /\ g \in [SUBSET U -> Nat]
  /\ g[{}] = 0
  /\ \A S \in SUBSET U : \A x \in U \ S : g[S \cup {x}] = g[S] + f[x]

(* The sum of the community modules is one, in whatever order it adds.     *)
LEMMA SumExists ==
  ASSUME NEW U, IsFiniteSet(U), NEW f \in [U -> Nat]
  PROVE  \E g : IsSum(U, f, g) /\ MapThenSumSet(LAMBDA x : f[x], U) = g[U]
<1> DEFINE first(S) == CHOOSE x \in S : TRUE
           Turn(S, g) == IF S = {} THEN 0 ELSE f[first(S)] + g[S \ {first(S)}]
           Iter(g) == g = [S \in SUBSET U |-> Turn(S, g)]
           iter == CHOOSE g : Iter(g)
<1>1. MapThenSumSet(LAMBDA x : f[x], U) = iter[U]
  BY DEF MapThenSumSet, MapThenFoldSet
<1>2. \A S \in SUBSET U : S # {} => first(S) \in S
  OBVIOUS
<1> HIDE DEF first
<1>3. \E g : Iter(g)
  <2> DEFINE Sums == [SUBSET U -> Nat]
             base == [S \in SUBSET U |-> 0]
             step == [n \in Nat |-> [g \in Sums |-> [S \in SUBSET U |-> Turn(S, g)]]]
  <2>1. base \in Sums
    OBVIOUS
  <2>2. ASSUME NEW g \in Sums PROVE [S \in SUBSET U |-> Turn(S, g)] \in Sums
    <3>1. ASSUME NEW S \in SUBSET U PROVE Turn(S, g) \in Nat
      <4>1. CASE S = {}
        BY <4>1
      <4>2. CASE S # {}
        <5>1. first(S) \in U /\ S \ {first(S)} \in SUBSET U
          BY <1>2, <4>2
        <5> QED BY <4>2, <5>1
      <4> QED BY <4>1, <4>2
    <3> QED BY <3>1
  <2>3. step \in [Nat -> [Sums -> Sums]]
    <3> HIDE DEF Sums, Turn
    <3> QED BY <2>2
  <2>4. Recursive(Sums, base, step)
    <3> HIDE DEF Sums, base, step
    <3> QED BY <2>1, <2>3, Recursion
  <2>5. PICK F \in [Nat -> Sums] :
          F[0] = base /\ \A n \in Nat : F[n + 1] = step[n][F[n]]
    <3> HIDE DEF Sums, base, step
    <3> QED BY <2>4 DEF Recursive
  <2> DEFINE g == [S \in SUBSET U |-> F[Cardinality(S)][S]]
  <2>6. ASSUME NEW S \in SUBSET U PROVE g[S] = Turn(S, g)
    <3>1. IsFiniteSet(S) /\ Cardinality(S) \in Nat
      BY FS_Subset, FS_CardinalityType
    <3>2. CASE S = {}
      <4>1. F[0][S] = 0
        BY <2>5
      <4> QED BY <3>2, <4>1, FS_EmptySet
    <3>3. CASE S # {}
      <4> DEFINE x == first(S)
                 R == S \ {x}
                 n == Cardinality(R)
      <4>1. x \in S /\ R \in SUBSET U
        BY <1>2, <3>3
      <4>2. n \in Nat /\ Cardinality(S) = n + 1
        <5>1. /\ IsFiniteSet(R) /\ Cardinality(R) = Cardinality(S) - 1
              /\ Cardinality(R) \in Nat
          BY <3>1, <4>1, FS_RemoveElement, FS_CardinalityType
        <5> QED BY <3>1, <5>1
      <4>3. F[n + 1] = [V \in SUBSET U |-> Turn(V, F[n])]
        <5>1. F[n] \in Sums /\ F[n + 1] = step[n][F[n]]
          BY <2>5, <4>2
        <5> HIDE DEF Turn, Sums, n, g
        <5> QED BY <4>2, <5>1
      <4>4. F[n + 1][S] = f[x] + F[n][R]
        <5> HIDE DEF n
        <5> QED BY <3>3, <4>3
      <4>5. g[S] = F[n + 1][S] /\ g[R] = F[n][R]
        <5>1. g[S] = F[Cardinality(S)][S] /\ g[R] = F[Cardinality(R)][R]
          BY <4>1
        <5> QED BY <4>2, <5>1
      <4> HIDE DEF g
      <4> QED BY <3>3, <4>4, <4>5
    <3> QED BY <3>2, <3>3
  <2>7. g = [S \in SUBSET U |-> Turn(S, g)]
    <3>1. g = [S \in SUBSET U |-> g[S]]
      OBVIOUS
    <3> HIDE DEF g, Turn
    <3> QED BY <2>6, <3>1
  <2> QED BY <2>7
<1>4. iter = [S \in SUBSET U |-> Turn(S, iter)]
  <2>1. Iter(iter)
    <3> HIDE DEF Iter
    <3> QED BY <1>3, Zenon
  <2> QED BY <2>1
<1> HIDE DEF iter
<1>5. /\ iter[{}] = 0
      /\ \A S \in SUBSET U : S # {} => iter[S] = f[first(S)] + iter[S \ {first(S)}]
  <2>1. \A S \in SUBSET U : iter[S] = Turn(S, iter)
    <3> HIDE DEF Turn
    <3> QED BY <1>4
  <2> QED BY <2>1
<1>6. iter \in [SUBSET U -> Nat]
  <2> DEFINE P == {S \in SUBSET U : iter[S] \in Nat}
  <2>1. {} \in P
    BY <1>5
  <2>2. ASSUME NEW S \in SUBSET U, S # {}, \A x \in S : S \ {x} \in P PROVE S \in P
    <3>1. first(S) \in S
      BY <1>2, <2>2
    <3>2. f[first(S)] \in Nat /\ iter[S \ {first(S)}] \in Nat
      BY <2>2, <3>1
    <3>3. iter[S] = f[first(S)] + iter[S \ {first(S)}]
      BY <1>5, <2>2
    <3>4. iter[S] \in Nat
      <4> HIDE DEF first
      <4> QED BY <3>2, <3>3
    <3> QED BY <3>4
  <2>3. P \in SUBSET SUBSET U
    OBVIOUS
  <2>4. P = SUBSET U
    <3> HIDE DEF P
    <3> QED BY <2>1, <2>2, <2>3, SubsetInduction
  <2>5. \A S \in SUBSET U : iter[S] \in Nat
    BY <2>4
  <2> QED BY <1>4, <2>5
<1>7. \A S \in SUBSET U : \A x \in U \ S : iter[S \cup {x}] = iter[S] + f[x]
  <2> DEFINE P == {S \in SUBSET U : \A x \in U \ S : iter[S \cup {x}] = iter[S] + f[x]}
  <2>1. {} \in P
    <3> SUFFICES ASSUME NEW x \in U PROVE iter[{} \cup {x}] = iter[{}] + f[x]
      OBVIOUS
    <3>1. {} \cup {x} = {x} /\ {x} # {} /\ first({x}) = x /\ {x} \ {x} = {}
      BY <1>2
    <3>2. iter[{x}] = f[x] + iter[{}] /\ f[x] \in Nat
      BY <1>5, <3>1
    <3> QED BY <1>5, <3>1, <3>2
  <2>2. ASSUME NEW S \in SUBSET U, S # {}, \A x \in S : S \ {x} \in P PROVE S \in P
    <3> SUFFICES ASSUME NEW x \in U \ S PROVE iter[S \cup {x}] = iter[S] + f[x]
      OBVIOUS
    <3> DEFINE y == first(S \cup {x})
    <3>1. y \in S \cup {x} /\ S \cup {x} \in SUBSET U /\ S \cup {x} # {}
      BY <1>2
    <3>2. iter[S \cup {x}] = f[y] + iter[(S \cup {x}) \ {y}]
      BY <1>5, <3>1
    <3> HIDE DEF y
    <3>3. f[x] \in Nat /\ iter[S] \in Nat
      BY <1>6
    <3>4. CASE y = x
      <4>1. (S \cup {x}) \ {y} = S
        BY <3>4
      <4>2. iter[(S \cup {x}) \ {y}] = iter[S] /\ f[y] = f[x]
        BY <3>4, <4>1
      <4> QED BY <3>2, <3>3, <4>2
    <3>5. CASE y # x
      <4> DEFINE R == S \ {y}
      <4>1. /\ y \in S /\ (S \cup {x}) \ {y} = R \cup {x} /\ S = R \cup {y}
            /\ x \in U \ R /\ y \in U \ R /\ R \in P
        BY <2>2, <3>1, <3>5
      <4>2. iter[R \cup {x}] = iter[R] + f[x] /\ iter[R \cup {y}] = iter[R] + f[y]
        BY <4>1
      <4>3. f[y] \in Nat /\ iter[R] \in Nat
        BY <1>6, <4>1
      <4> HIDE DEF R
      <4> QED BY <3>2, <3>3, <4>1, <4>2, <4>3
    <3> QED BY <3>4, <3>5
  <2>3. P \in SUBSET SUBSET U
    OBVIOUS
  <2>4. P = SUBSET U
    <3> HIDE DEF P
    <3> QED BY <2>1, <2>2, <2>3, SubsetInduction
  <2> QED BY <2>4
<1>8. IsSum(U, f, iter)
  BY <1>5, <1>6, <1>7 DEF IsSum
<1> QED BY <1>1, <1>8

(* A function on the subsets of U may be defined by recursion, from the    *)
(* set with the element that the folds of the community modules take first *)
(* left out.                                                               *)
First(S) == CHOOSE x \in S : TRUE

SetRecursive(U, A, base, step) ==
  \E g \in [SUBSET U -> A] :
    /\ g[{}] = base
    /\ \A S \in SUBSET U : S # {} => g[S] = step[First(S)][g[S \ {First(S)}]]

LEMMA SetRecursion ==
  ASSUME NEW U, IsFiniteSet(U), NEW A, NEW base \in A, NEW step \in [U -> [A -> A]]
  PROVE  SetRecursive(U, A, base, step)
<1> DEFINE Turn(S, g) == IF S = {} THEN base ELSE step[First(S)][g[S \ {First(S)}]]
           Folds == [SUBSET U -> A]
           start == [S \in SUBSET U |-> base]
           turn == [n \in Nat |-> [g \in Folds |-> [S \in SUBSET U |-> Turn(S, g)]]]
<1>1. \A S \in SUBSET U : S # {} => First(S) \in S
  BY DEF First
<1>2. start \in Folds
  OBVIOUS
<1>3. ASSUME NEW g \in Folds PROVE [S \in SUBSET U |-> Turn(S, g)] \in Folds
  <2>1. ASSUME NEW S \in SUBSET U PROVE Turn(S, g) \in A
    <3>1. CASE S = {}
      BY <3>1
    <3>2. CASE S # {}
      <4>1. First(S) \in U /\ S \ {First(S)} \in SUBSET U
        BY <1>1, <3>2
      <4>2. step[First(S)] \in [A -> A] /\ g[S \ {First(S)}] \in A
        BY <4>1
      <4> QED BY <3>2, <4>2
    <3> QED BY <3>1, <3>2
  <2> QED BY <2>1
<1>4. turn \in [Nat -> [Folds -> Folds]]
  <2> HIDE DEF Folds, Turn
  <2> QED BY <1>3
<1>5. Recursive(Folds, start, turn)
  <2> HIDE DEF Folds, start, turn
  <2> QED BY <1>2, <1>4, Recursion
<1>6. PICK F \in [Nat -> Folds] : F[0] = start /\ \A n \in Nat : F[n + 1] = turn[n][F[n]]
  <2> HIDE DEF Folds, start, turn
  <2> QED BY <1>5 DEF Recursive
<1> DEFINE g == [S \in SUBSET U |-> F[Cardinality(S)][S]]
<1>7. ASSUME NEW S \in SUBSET U PROVE IsFiniteSet(S) /\ Cardinality(S) \in Nat
  BY FS_Subset, FS_CardinalityType
<1>8. g[{}] = base
  <2>1. Cardinality({}) = 0 /\ {} \in SUBSET U
    BY FS_EmptySet
  <2>2. F[0][{}] = base
    BY <1>6
  <2> QED BY <2>1, <2>2
<1>9. ASSUME NEW S \in SUBSET U, S # {}
      PROVE  g[S] = step[First(S)][g[S \ {First(S)}]]
  <2> DEFINE x == First(S)
             R == S \ {x}
             n == Cardinality(R)
  <2>1. x \in S /\ R \in SUBSET U
    BY <1>1, <1>9
  <2>2. n \in Nat /\ Cardinality(S) = n + 1
    <3>1. /\ IsFiniteSet(R) /\ Cardinality(R) = Cardinality(S) - 1
          /\ Cardinality(R) \in Nat
      BY <1>7, <2>1, FS_RemoveElement, FS_CardinalityType
    <3> QED BY <1>7, <3>1
  <2>3. F[n + 1] = [V \in SUBSET U |-> Turn(V, F[n])]
    <3>1. F[n] \in Folds /\ F[n + 1] = turn[n][F[n]]
      BY <1>6, <2>2
    <3> HIDE DEF Turn, Folds, n, g
    <3> QED BY <2>2, <3>1
  <2>4. F[n + 1][S] = step[x][F[n][R]]
    <3>1. F[n + 1][S] = Turn(S, F[n])
      <4> HIDE DEF Turn, n
      <4> QED BY <2>3
    <3> HIDE DEF n
    <3> QED BY <1>9, <3>1
  <2>5. g[S] = F[n + 1][S] /\ g[R] = F[n][R]
    <3>1. g[S] = F[Cardinality(S)][S] /\ g[R] = F[Cardinality(R)][R]
      BY <2>1
    <3> QED BY <2>2, <3>1
  <2> HIDE DEF g
  <2> QED BY <2>4, <2>5
<1>10. g \in [SUBSET U -> A]
  <2>1. ASSUME NEW S \in SUBSET U PROVE F[Cardinality(S)][S] \in A
    <3>1. F[Cardinality(S)] \in Folds
      BY <1>6, <1>7
    <3> QED BY <3>1
  <2> QED BY <2>1
<1> HIDE DEF g
<1> QED BY <1>8, <1>9, <1>10 DEF SetRecursive

(* The sum of equal terms, and of terms of which one changes.              *)
LEMMA SumOfEqual ==
  ASSUME NEW U, IsFiniteSet(U), NEW c \in Nat, NEW f \in [U -> Nat],
         \A x \in U : f[x] = c, NEW g, IsSum(U, f, g)
  PROVE  g[U] = Cardinality(U) * c
<1> DEFINE P == {S \in SUBSET U : g[S] = Cardinality(S) * c}
<1>1. {} \in P
  BY FS_EmptySet DEF IsSum
<1>2. ASSUME NEW S \in SUBSET U, S # {}, \A x \in S : S \ {x} \in P PROVE S \in P
  <2>1. PICK x \in S : TRUE
    BY <1>2
  <2> DEFINE R == S \ {x}
             n == Cardinality(R)
  <2>2. R \in SUBSET U /\ x \in U \ R /\ S = R \cup {x} /\ IsFiniteSet(R) /\ R \in P
    BY <1>2, FS_Subset
  <2>3. n \in Nat /\ Cardinality(S) = n + 1
    <3>1. IsFiniteSet(R) /\ x \notin R
      BY <2>2
    <3> HIDE DEF R
    <3> QED BY <2>2, <3>1, FS_AddElement, FS_CardinalityType
  <2>4. g[S] = g[R] + c /\ g[R] = n * c
    <3> HIDE DEF R
    <3>1. g[R \cup {x}] = g[R] + f[x]
      BY <2>2 DEF IsSum
    <3> QED BY <2>2, <3>1
  <2> HIDE DEF n, R
  <2>5. n * c + c = (n + 1) * c
    BY <2>3
  <2> QED BY <2>3, <2>4, <2>5
<1>3. P \in SUBSET SUBSET U
  OBVIOUS
<1>4. P = SUBSET U
  <2> HIDE DEF P
  <2> QED BY <1>1, <1>2, <1>3, SubsetInduction
<1> QED BY <1>4

LEMMA SumOfChanged ==
  ASSUME NEW U, IsFiniteSet(U), NEW f \in [U -> Nat], NEW h \in [U -> Nat], NEW s \in U,
         \A x \in U \ {s} : h[x] = f[x], NEW a, IsSum(U, f, a), NEW b, IsSum(U, h, b)
  PROVE  b[U] = a[U] - f[s] + h[s]
<1> DEFINE V == U \ {s}
           P == {S \in SUBSET V : b[S] = a[S]}
<1>1. {} \in P
  BY DEF IsSum
<1>2. ASSUME NEW S \in SUBSET V, S # {}, \A x \in S : S \ {x} \in P PROVE S \in P
  <2>1. PICK x \in S : TRUE
    BY <1>2
  <2> DEFINE R == S \ {x}
  <2>2. R \in SUBSET U /\ x \in U \ R /\ S = R \cup {x} /\ R \in P /\ x # s
    BY <1>2
  <2> HIDE DEF R
  <2>3. a[R \cup {x}] = a[R] + f[x] /\ b[R \cup {x}] = b[R] + h[x]
    BY <2>2 DEF IsSum
  <2> QED BY <2>2, <2>3
<1>3. P \in SUBSET SUBSET V
  OBVIOUS
<1>4. IsFiniteSet(V)
  BY FS_Subset
<1>5. P = SUBSET V
  <2> HIDE DEF P, V
  <2> QED BY <1>1, <1>2, <1>3, <1>4, SubsetInduction
<1>6. b[V] = a[V]
  <2>1. V \in P
    BY <1>5
  <2> QED BY <2>1
<1>7. V \in SUBSET U /\ s \in U \ V /\ U = V \cup {s}
  OBVIOUS
<1> HIDE DEF V
<1>8. a[U] = a[V] + f[s] /\ b[U] = b[V] + h[s] /\ a[V] \in Nat
  BY <1>7 DEF IsSum
<1> QED BY <1>6, <1>8

(* Min picks the smaller of two numbers.                                    *)
LEMMA MinOfTwo ==
  ASSUME NEW a \in Int, NEW b \in Int
  PROVE  Min({a, b}) = IF a <= b THEN a ELSE b
<1> DEFINE r == IF a <= b THEN a ELSE b
<1>1. r \in {a, b} /\ \A y \in {a, b} : r <= y
  OBVIOUS
<1>2. \A x \in {a, b} : (\A y \in {a, b} : x <= y) => x = r
  OBVIOUS
<1> HIDE DEF r
<1>3. Min({a, b}) = r
  BY <1>1, <1>2 DEF Min
<1> QED BY <1>3 DEF r

-------------------------------------------------------------------------------
(***************************************************************************)
(* Walks through a table of a power of two slots.  An odd stride shares no *)
(* factor with the number of slots, so that a walk of that many steps      *)
(* meets every slot once.                                                  *)
(***************************************************************************)

LEMMA ModFacts ==
  ASSUME NEW x \in Nat, NEW n \in Nat \ {0}
  PROVE  /\ x % n \in 0 .. n - 1 /\ x \div n \in Nat
         /\ x = n * (x \div n) + (x % n)
OBVIOUS

LEMMA SmallMultiple ==
  ASSUME NEW n \in Nat \ {0}, NEW t \in Int, NEW a \in 0 .. n - 1, NEW b \in 0 .. n - 1,
         n * t = a - b
  PROVE  a = b
<1>1. CASE t >= 1
  <2>1. n * t >= n
    BY <1>1
  <2> QED BY <2>1
<1>2. CASE t <= -1
  <2>1. n * t <= -n
    BY <1>2
  <2> QED BY <2>1
<1>3. CASE t = 0
  BY <1>3
<1> QED BY <1>1, <1>2, <1>3

LEMMA ModAdds ==
  ASSUME NEW x \in Nat, NEW n \in Nat \ {0}, NEW q \in Nat
  PROVE  (x + n * q) % n = x % n
<1> DEFINE y == x + n * q
<1>1. y \in Nat
  OBVIOUS
<1>2. PICK a \in 0 .. n - 1, u \in Nat : a = x % n /\ x = n * u + a
  BY ModFacts
<1>3. PICK b \in 0 .. n - 1, v \in Nat : b = y % n /\ y = n * v + b
  <2> HIDE DEF y
  <2> QED BY <1>1, ModFacts
<1>4. n * (v - (u + q)) = a - b
  BY <1>2, <1>3
<1>5. v - (u + q) \in Int
  OBVIOUS
<1>6. a = b
  BY <1>4, <1>5, SmallMultiple
<1> QED BY <1>2, <1>3, <1>6

(* If 2^n divides i * d and d is odd, then 2^n divides i.                  *)
Odd == {2 * e + 1 : e \in Nat}
Cancels(N) ==
  \A d \in Odd, i \in Nat, q \in Nat : i * d = N * q => \E r \in Nat : i = N * r

LEMMA CancelsStride ==
  ASSUME NEW N, Cancels(N), NEW d \in Odd, NEW i \in Nat, NEW q \in Nat, i * d = N * q
  PROVE  \E r \in Nat : i = N * r
BY DEF Cancels

LEMMA OddCancels ==
  ASSUME NEW top \in Nat,
         \A n \in 0 .. top : 2 ^ n \in Nat \ {0} /\ 2 ^ (n + 1) = 2 * 2 ^ n
  PROVE  \A n \in 0 .. top : Cancels(2 ^ n)
<1> DEFINE T == {n \in Nat : n \in 0 .. top => Cancels(2 ^ n)}
<1>1. 0 \in T
  <2>1. 2 ^ 0 = 1 /\ \A i \in Nat : i = 1 * i
    OBVIOUS
  <2> QED BY <2>1 DEF Cancels
<1>2. ASSUME NEW n \in T PROVE n + 1 \in T
  <2> SUFFICES ASSUME n + 1 \in 0 .. top, NEW d \in Odd, NEW i \in Nat, NEW q \in Nat,
                      i * d = 2 ^ (n + 1) * q
               PROVE  \E r \in Nat : i = 2 ^ (n + 1) * r
    BY DEF Cancels
  <2>1. n \in 0 .. top /\ n \in Nat
    OBVIOUS
  <2> DEFINE N == 2 ^ n
  <2>2. N \in Nat \ {0} /\ 2 ^ (n + 1) = 2 * N
    BY <2>1
  <2>3. Cancels(N)
    BY <2>1
  <2> HIDE DEF N
  <2>4. 2 * q \in Nat /\ i * d = N * (2 * q)
    BY <2>2 DEF Odd
  <2>5. PICK r \in Nat : i = N * r
    BY <2>3, <2>4 DEF Cancels
  <2>6. PICK e \in Nat : d = 2 * e + 1
    BY DEF Odd
  <2>7. r * (2 * e + 1) = 2 * q
    <3>1. N * (r * (2 * e + 1)) = N * (2 * q)
      BY <2>2, <2>4, <2>5, <2>6
    <3> QED BY <2>2, <3>1
  <2>8. r = 2 * (q - r * e)
    BY <2>7
  <2>9. q - r * e \in Nat
    BY <2>8
  <2>10. i = (2 * N) * (q - r * e)
    BY <2>2, <2>5, <2>8
  <2> QED BY <2>2, <2>9, <2>10
<1>3. T = Nat
  <2>1. T \in SUBSET Nat
    OBVIOUS
  <2> HIDE DEF T
  <2> QED BY <1>1, <1>2, <2>1, SetInduction
<1>4. ASSUME NEW n \in 0 .. top PROVE Cancels(2 ^ n)
  <2>1. n \in Nat
    OBVIOUS
  <2>2. n \in T
    <3> HIDE DEF T
    <3> QED BY <1>3, <2>1
  <2> QED BY <2>2
<1> QED BY <1>4

(* Two steps of a walk that are less than a round apart differ.            *)
LEMMA StepsDistinct ==
  ASSUME NEW N \in Nat \ {0}, Cancels(N), NEW d \in Odd, NEW key \in Nat,
         NEW i \in Nat, NEW j \in Nat, i < j, j - i < N
  PROVE  (key + i * d) % N # (key + j * d) % N
<1> SUFFICES ASSUME (key + i * d) % N = (key + j * d) % N PROVE FALSE
  OBVIOUS
<1>1. d \in Nat /\ d > 0
  BY DEF Odd
<1>2. PICK a \in Nat, b \in Nat : a = key + i * d /\ b = key + j * d
  BY <1>1
<1>3. \E u, v, m \in Nat : a = N * u + m /\ b = N * v + m
  <2>1. a % N = b % N
    BY <1>2
  <2>2. a % N \in 0 .. N - 1 /\ a \div N \in Nat /\ a = N * (a \div N) + (a % N)
    BY ModFacts
  <2>3. b \div N \in Nat /\ b = N * (b \div N) + (b % N)
    BY ModFacts
  <2>4. a % N \in Nat
    BY <2>2
  <2> QED BY <2>1, <2>2, <2>3, <2>4
<1>4. PICK u \in Nat, v \in Nat, m \in Nat : a = N * u + m /\ b = N * v + m
  BY <1>3
<1>5. PICK k \in Nat : k = j - i /\ k > 0 /\ k < N
  OBVIOUS
<1>6. k * d = b - a /\ k * d > 0
  <2>1. k * d = b - a
    BY <1>1, <1>2, <1>5
  <2>2. k * d > 0
    BY <1>1, <1>5
  <2> QED BY <2>1, <2>2
<1>7. k * d = N * (v - u)
  BY <1>6, <1>4
<1>8. v - u \in Nat
  <2>1. N * (v - u) > 0
    BY <1>6, <1>7
  <2> QED BY <2>1
<1>9. PICK q \in Nat : q = v - u
  BY <1>8
<1>10. PICK r \in Nat : k = N * r
  <2>1. k * d = N * q
    BY <1>7, <1>9
  <2>2. \A x \in Nat, p \in Nat : x * d = N * p => \E y \in Nat : x = N * y
    BY Zenon DEF Cancels
  <2> QED BY <2>1, <2>2, Zenon
<1> QED BY <1>5, <1>10

(* A walk of N steps meets every slot.                                     *)
LEMMA StepsCover ==
  ASSUME NEW N \in Nat \ {0}, Cancels(N), NEW d \in Odd, NEW key \in Nat,
         NEW p \in 0 .. N - 1
  PROVE  \E j \in 0 .. N - 1 : (key + j * d) % N = p
<1> DEFINE D == 0 .. N - 1
           f == [j \in D |-> (key + j * d) % N]
<1>1. IsFiniteSet(D)
  BY FS_Interval
<1>2. f \in [D -> D]
  <2>1. ASSUME NEW j \in D PROVE (key + j * d) % N \in D
    <3>1. PICK a \in Nat : a = key + j * d
      BY DEF Odd
    <3> QED BY <3>1, ModFacts
  <2> HIDE DEF D
  <2> QED BY <2>1
<1>3. \A j, k \in D : f[j] = f[k] => j = k
  <2> SUFFICES ASSUME NEW j \in D, NEW k \in D, f[j] = f[k], j # k PROVE FALSE
    OBVIOUS
  <2>1. j \in Nat /\ k \in Nat /\ (j < k => k - j < N) /\ (k < j => j - k < N)
    OBVIOUS
  <2>2. (key + j * d) % N = (key + k * d) % N
    OBVIOUS
  <2>3. ~(j < k)
    BY <2>1, <2>2, StepsDistinct
  <2>4. ~(k < j)
    BY <2>1, <2>2, StepsDistinct
  <2> QED BY <2>1, <2>3, <2>4
<1>4. f \in Injection(D, D)
  <2> HIDE DEF D, f
  <2> QED BY <1>2, <1>3 DEF Injection, IsInjective
<1>5. f \in Surjection(D, D)
  <2> HIDE DEF D, f
  <2> QED BY <1>1, <1>4, FS_Injection
<1>6. \E j \in D : f[j] = p
  <2> HIDE DEF f
  <2> QED BY <1>5 DEF Surjection
<1> QED BY <1>6

-------------------------------------------------------------------------------
(***************************************************************************)
(* Open addressing, for any walks that meet every slot: hold[p] is the key *)
(* at slot p or free, and route[k][j] is the j-th slot of the walk of k.   *)
(***************************************************************************)

Routes(N, Keys) ==
  {r \in [Keys -> [0 .. N - 1 -> 0 .. N - 1]] :
     \A k \in Keys, p \in 0 .. N - 1 : \E j \in 0 .. N - 1 : r[k][j] = p}

Stops(hold, free, k, p) == hold[p] = free \/ hold[p] = k

(* The walk of k ends at its step j. *)
EndsAt(N, hold, free, route, k, j) ==
  /\ j \in 0 .. N - 1
  /\ Stops(hold, free, k, route[k][j])
  /\ \A i \in 0 .. j - 1 : ~Stops(hold, free, k, route[k][i])

(* Every key is where its walk ends. *)
EachEnds(N, hold, free, route) ==
  \A p \in 0 .. N - 1 :
    hold[p] # free =>
      \E j \in 0 .. N - 1 :
        EndsAt(N, hold, free, route, hold[p], j) /\ route[hold[p]][j] = p

LEMMA EndIsUnique ==
  ASSUME NEW N \in Nat, NEW hold, NEW free, NEW route, NEW k, NEW i, NEW j,
         EndsAt(N, hold, free, route, k, i), EndsAt(N, hold, free, route, k, j)
  PROVE  i = j
<1>1. i \in Nat /\ j \in Nat
  BY DEF EndsAt
<1>2. ~(i < j)
  <2> SUFFICES ASSUME i < j PROVE FALSE
    OBVIOUS
  <2>1. i \in 0 .. j - 1
    BY <1>1
  <2> QED BY <2>1 DEF EndsAt
<1>3. ~(j < i)
  <2> SUFFICES ASSUME j < i PROVE FALSE
    OBVIOUS
  <2>1. j \in 0 .. i - 1
    BY <1>1
  <2> QED BY <2>1 DEF EndsAt
<1> QED BY <1>1, <1>2, <1>3

(* In a table with a free slot every walk ends, and in a settled table it  *)
(* ends at the key if the key is there and at a free slot if it is not.    *)
WalkEnd(N, hold, free, route, k) ==
  \E j \in 0 .. N - 1 :
    /\ EndsAt(N, hold, free, route, k, j)
    /\ IF \E p \in 0 .. N - 1 : hold[p] = k THEN hold[route[k][j]] = k
                                            ELSE hold[route[k][j]] = free

LEMMA EveryWalkEnds ==
  ASSUME NEW N \in Nat \ {0}, NEW Keys, NEW free, free \notin Keys,
         NEW hold \in [0 .. N - 1 -> Keys \cup {free}],
         NEW route \in Routes(N, Keys), EachEnds(N, hold, free, route),
         NEW k \in Keys, NEW p \in 0 .. N - 1, hold[p] = free
  PROVE  WalkEnd(N, hold, free, route, k)
<1>1. route \in [Keys -> [0 .. N - 1 -> 0 .. N - 1]]
      /\ \E j \in 0 .. N - 1 : route[k][j] = p
  BY DEF Routes
<1>2. PICK m \in 0 .. N - 1 : route[k][m] = p
  BY <1>1
<1> DEFINE T == {j \in 0 .. N - 1 : Stops(hold, free, k, route[k][j])}
<1>3. PICK j \in T : \A i \in T : j <= i
  <2>1. T \in SUBSET Nat /\ m \in T
    BY <1>2 DEF Stops
  <2> HIDE DEF T
  <2> QED BY <2>1, LeastNat
<1>4. EndsAt(N, hold, free, route, k, j)
  <2>1. \A i \in 0 .. j - 1 : i \in 0 .. N - 1 /\ ~(j <= i)
    OBVIOUS
  <2> QED BY <1>3, <2>1 DEF EndsAt
<1>5. j \in 0 .. N - 1 /\ route[k][j] \in 0 .. N - 1
  <2>1. route[k] \in [0 .. N - 1 -> 0 .. N - 1] /\ j \in 0 .. N - 1
    BY <1>1, Zenon
  <2> QED BY <2>1, Zenon
<1>6. CASE \E q \in 0 .. N - 1 : hold[q] = k
  <2>1. PICK q \in 0 .. N - 1 : hold[q] = k
    BY <1>6
  <2>2. PICK i \in 0 .. N - 1 : EndsAt(N, hold, free, route, k, i) /\ route[k][i] = q
    BY <2>1 DEF EachEnds
  <2>3. i = j
    BY <1>4, <2>2, EndIsUnique
  <2> QED BY <1>4, <1>5, <1>6, <2>1, <2>2, <2>3 DEF WalkEnd
<1>7. CASE ~\E q \in 0 .. N - 1 : hold[q] = k
  <2>1. hold[route[k][j]] = free
    BY <1>3, <1>5, <1>7 DEF Stops
  <2> QED BY <1>4, <1>5, <1>7, <2>1 DEF WalkEnd
<1> QED BY <1>6, <1>7

(* No key is at two slots of a settled table.                              *)
LEMMA SettledOnce ==
  ASSUME NEW N \in Nat, NEW hold, NEW free, NEW route, EachEnds(N, hold, free, route),
         NEW p \in 0 .. N - 1, NEW q \in 0 .. N - 1, hold[p] = hold[q], hold[p] # free
  PROVE  p = q
<1>1. PICK i : EndsAt(N, hold, free, route, hold[p], i) /\ route[hold[p]][i] = p
  BY DEF EachEnds
<1>2. PICK j : EndsAt(N, hold, free, route, hold[q], j) /\ route[hold[q]][j] = q
  BY DEF EachEnds
<1>3. i = j
  BY <1>1, <1>2, EndIsUnique
<1> QED BY <1>1, <1>2, <1>3

(* Storing a key where its walk ends moves the end of no other walk.       *)
LEMMA StoreSettles ==
  ASSUME NEW N \in Nat \ {0}, NEW Keys, NEW free, free \notin Keys,
         NEW hold \in [0 .. N - 1 -> Keys \cup {free}],
         NEW route \in Routes(N, Keys), EachEnds(N, hold, free, route),
         NEW k \in Keys, NEW j, EndsAt(N, hold, free, route, k, j)
  PROVE  EachEnds(N, [hold EXCEPT ![route[k][j]] = k], free, route)
<1> DEFINE D == 0 .. N - 1
           p == route[k][j]
           next == [hold EXCEPT ![p] = k]
<1>1. route \in [Keys -> [D -> D]] /\ j \in D
  BY DEF Routes, EndsAt
<1>2. p \in D /\ next[p] = k /\ \A q \in D \ {p} : next[q] = hold[q]
  BY <1>1
<1>3. hold[p] = free \/ hold[p] = k
  BY DEF EndsAt, Stops
<1> HIDE DEF next, p
<1>4. ASSUME NEW q \in D, next[q] # free
      PROVE  \E m \in D : EndsAt(N, next, free, route, next[q], m) /\ route[next[q]][m] = q
  <2>1. CASE q = p
    <3>1. Stops(next, free, k, route[k][j])
      BY <1>2 DEF Stops, p
    <3>2. ASSUME NEW i \in 0 .. j - 1 PROVE ~Stops(next, free, k, route[k][i])
      <4>1. ~Stops(hold, free, k, route[k][i]) /\ route[k][i] \in D
        BY <1>1 DEF EndsAt
      <4>2. route[k][i] # p
        BY <1>3, <4>1 DEF Stops
      <4> QED BY <1>2, <4>1, <4>2 DEF Stops
    <3> QED BY <1>1, <1>2, <2>1, <3>1, <3>2 DEF EndsAt, p
  <2>2. CASE q # p
    <3> DEFINE x == hold[q]
    <3>1. next[q] = x /\ x # free /\ x \in Keys
      BY <1>2, <1>4, <2>2
    <3>2. PICK m \in D : EndsAt(N, hold, free, route, x, m) /\ route[x][m] = q
      BY <3>1 DEF EachEnds
    <3> HIDE DEF x
    <3>3. Stops(next, free, x, route[x][m])
      BY <3>1, <3>2 DEF Stops
    <3>4. ASSUME NEW i \in 0 .. m - 1 PROVE ~Stops(next, free, x, route[x][i])
      <4>0. i \in D
        BY <3>2 DEF EndsAt
      <4>1. ~Stops(hold, free, x, route[x][i]) /\ route[x][i] \in D
        <5>1. ~Stops(hold, free, x, route[x][i])
          BY <3>2 DEF EndsAt
        <5>2. route[x][i] \in D
          <6> HIDE DEF D
          <6>1. route[x] \in [D -> D]
            BY <1>1, <3>1, Zenon
          <6> QED BY <4>0, <6>1, Zenon
        <5> QED BY <5>1, <5>2
      <4>2. CASE route[x][i] # p
        BY <1>2, <4>1, <4>2 DEF Stops
      <4>3. CASE route[x][i] = p
        <5>1. hold[p] = k /\ k # x
          BY <1>3, <4>1, <4>3 DEF Stops
        <5> QED BY <1>2, <4>3, <5>1 DEF Stops
      <4> QED BY <4>2, <4>3
    <3> QED BY <3>1, <3>2, <3>3, <3>4 DEF EndsAt
  <2> QED BY <2>1, <2>2
<1>5. EachEnds(N, next, free, route)
  BY <1>4 DEF EachEnds
<1> QED BY <1>5 DEF next, p

(* A settled table whose keys are fewer than its slots has a free slot.    *)
LEMMA SlotIsFree ==
  ASSUME NEW N \in Nat \ {0}, NEW free, NEW hold, NEW route,
         EachEnds(N, hold, free, route),
         NEW S, IsFiniteSet(S), Cardinality(S) < N,
         \A p \in 0 .. N - 1 : hold[p] \in S \cup {free}
  PROVE  \E p \in 0 .. N - 1 : hold[p] = free
<1> SUFFICES ASSUME \A p \in 0 .. N - 1 : hold[p] # free PROVE FALSE
  OBVIOUS
<1> DEFINE D == 0 .. N - 1
           f == [p \in D |-> hold[p]]
<1>1. IsFiniteSet(D) /\ Cardinality(D) = N
  <2>1. 0 \in Int /\ N - 1 \in Int /\ ~(0 > N - 1) /\ (N - 1) - 0 + 1 = N
    OBVIOUS
  <2> QED BY <2>1, FS_Interval
<1>2. f \in [D -> S] /\ \A p, q \in D : f[p] = f[q] => p = q
  BY SettledOnce
<1>3. f \in Injection(D, S)
  <2> HIDE DEF f, D
  <2> QED BY <1>2 DEF Injection, IsInjective
<1>4. Cardinality(D) <= Cardinality(S)
  <2> HIDE DEF f, D
  <2> QED BY <1>3, FS_Injection
<1>5. Cardinality(S) \in Nat
  BY FS_CardinalityType
<1> QED BY <1>1, <1>4, <1>5

-------------------------------------------------------------------------------
(* Going round a table of n slots from slot f. *)
LEMMA ModShift ==
  ASSUME NEW a \in Nat, NEW b \in Nat, NEW n \in Nat \ {0}
  PROVE  ((a % n) + b) % n = (a + b) % n /\ a % n \in 0 .. n - 1
<1>1. PICK r \in 0 .. n - 1, q \in Nat : r = a % n /\ a = n * q + r
  BY ModFacts
<1>2. a + b = (r + b) + n * q /\ r + b \in Nat
  BY <1>1
<1>3. ((r + b) + n * q) % n = (r + b) % n
  BY <1>2, ModAdds
<1> QED BY <1>1, <1>2, <1>3

(* A number below n is its own remainder.                                  *)
LEMMA SmallMod ==
  ASSUME NEW n \in Nat \ {0}, NEW a \in 0 .. n - 1
  PROVE  a % n = a
<1>0. a \in Nat
  OBVIOUS
<1>1. PICK r \in 0 .. n - 1, q \in Nat : r = a % n /\ a = n * q + r
  BY <1>0, ModFacts
<1>2. n * q = a - r
  BY <1>1
<1>3. a = r
  BY <1>2, SmallMultiple
<1> QED BY <1>1, <1>3

(* Steps of less than a round lead to different slots.                     *)
LEMMA TurnsOnce ==
  ASSUME NEW n \in Nat \ {0}, NEW f \in Nat, NEW u \in 0 .. n - 1, NEW v \in 0 .. n - 1,
         (f + u) % n = (f + v) % n
  PROVE  u = v
<1>1. PICK a \in Nat, b \in Nat : a = f + u /\ b = f + v
  OBVIOUS
<1>2. PICK r \in 0 .. n - 1, q \in Nat : r = a % n /\ a = n * q + r
  <2>1. a % n \in 0 .. n - 1 /\ a \div n \in Nat /\ a = n * (a \div n) + (a % n)
    BY ModFacts
  <2> QED BY <2>1, Zenon
<1>3. PICK t \in 0 .. n - 1, w \in Nat : t = b % n /\ b = n * w + t
  <2>1. b % n \in 0 .. n - 1 /\ b \div n \in Nat /\ b = n * (b \div n) + (b % n)
    BY ModFacts
  <2> QED BY <2>1, Zenon
<1>4. n * (q - w) = u - v
  BY <1>1, <1>2, <1>3
<1>5. q - w \in Int
  OBVIOUS
<1> QED BY <1>4, <1>5, SmallMultiple

(* Every slot is met within a round.                                       *)
LEMMA TurnsAll ==
  ASSUME NEW n \in Nat \ {0}, NEW f \in Nat, NEW p \in 0 .. n - 1
  PROVE  \E u \in 0 .. n - 1 : (f + u) % n = p
<1>1. PICK g \in 0 .. n - 1 : g = f % n
  BY ModFacts
<1>2. CASE p >= g
  <2>1. PICK u \in 0 .. n - 1 : g + u = p
    <3>1. p - g \in 0 .. n - 1 /\ g + (p - g) = p
      BY <1>2
    <3> QED BY <3>1
  <2>2. (f + u) % n = (g + u) % n
    <3>1. u \in Nat
      OBVIOUS
    <3>2. ((f % n) + u) % n = (f + u) % n
      BY <3>1, ModShift
    <3> QED BY <1>1, <3>2
  <2>3. p % n = p
    BY SmallMod
  <2> QED BY <2>1, <2>2, <2>3
<1>3. CASE p < g
  <2>1. PICK u \in 0 .. n - 1 : g + u = p + n * 1
    <3>1. p - g + n \in 0 .. n - 1 /\ g + (p - g + n) = p + n * 1
      BY <1>3
    <3> QED BY <3>1
  <2>2. (f + u) % n = (g + u) % n
    <3>1. u \in Nat
      OBVIOUS
    <3>2. ((f % n) + u) % n = (f + u) % n
      BY <3>1, ModShift
    <3> QED BY <1>1, <3>2
  <2>3. p % n = p
    BY SmallMod
  <2>4. (p + n * 1) % n = p % n
    BY ModAdds
  <2> QED BY <2>1, <2>2, <2>3, <2>4
<1> QED BY <1>2, <1>3

(* Max picks the greatest of some numbers below N. *)
LEMMA MaxOfRange ==
  ASSUME NEW N \in Nat, NEW T \in SUBSET (0 .. N - 1), T # {}
  PROVE  Max(T) \in T /\ \A t \in T : t <= Max(T)
<1> DEFINE B == {b \in Nat : \A t \in T : t <= b}
<1>1. N \in B
  OBVIOUS
<1>2. PICK b \in B : \A c \in B : b <= c
  <2>1. B \in SUBSET Nat
    OBVIOUS
  <2> HIDE DEF B
  <2> QED BY <1>1, <2>1, LeastNat
<1>3. b \in Nat /\ \A t \in T : t <= b /\ t \in Nat
  BY <1>2
<1>4. b \in T
  <2> SUFFICES ASSUME b \notin T PROVE FALSE
    OBVIOUS
  <2>1. \A t \in T : t < b
    <3>1. \A t \in T : t # b
      OBVIOUS
    <3> QED BY <1>3, <3>1
  <2>2. PICK t \in T : TRUE
    OBVIOUS
  <2>3. b - 1 \in Nat /\ \A x \in T : x <= b - 1
    BY <1>3, <2>1, <2>2
  <2> QED BY <1>2, <1>3, <2>3
<1>5. \E x \in T : \A y \in T : x >= y
  BY <1>3, <1>4
<1>6. Max(T) \in T /\ \A y \in T : Max(T) >= y
  BY <1>5 DEF Max
<1>7. \A y \in T : y <= Max(T)
  BY <1>3, <1>6
<1> QED BY <1>6, <1>7

(* The first k of some numbers. *)
FirstOf(T, k) == {p \in T : Cardinality({q \in T : q < p}) < k}

(* There are k of them.                                                    *)
LEMMA FirstOnes ==
  ASSUME NEW M \in Nat, NEW T \in SUBSET (0 .. M), NEW k \in Nat, k <= Cardinality(T)
  PROVE  Cardinality(FirstOf(T, k)) = k /\ (k = Cardinality(T) => FirstOf(T, k) = T)
<1> DEFINE B(p) == {q \in T : q < p}
<1>1. IsFiniteSet(T) /\ Cardinality(T) \in Nat /\ \A p \in T : p \in Nat
  <2>1. IsFiniteSet(0 .. M)
    BY FS_Interval
  <2>2. IsFiniteSet(T) /\ Cardinality(T) \in Nat
    BY <2>1, FS_Subset, FS_CardinalityType
  <2>3. \A p \in T : p \in Nat
    OBVIOUS
  <2> QED BY <2>2, <2>3
<1>2. \A p \in T : IsFiniteSet(B(p)) /\ Cardinality(B(p)) \in Nat
                   /\ Cardinality(B(p)) < Cardinality(T)
  <2> SUFFICES ASSUME NEW p \in T
               PROVE  IsFiniteSet(B(p)) /\ Cardinality(B(p)) \in Nat
                      /\ Cardinality(B(p)) < Cardinality(T)
    OBVIOUS
  <2>1. B(p) \in SUBSET T /\ p \notin B(p)
    BY <1>1
  <2> HIDE DEF B
  <2>2. IsFiniteSet(B(p)) /\ Cardinality(B(p)) <= Cardinality(T)
        /\ (Cardinality(T) = Cardinality(B(p)) => T = B(p))
    BY <1>1, <2>1, FS_Subset
  <2>3. Cardinality(B(p)) \in Nat
    BY <2>2, FS_CardinalityType
  <2> QED BY <1>1, <2>1, <2>2, <2>3
<1>3. ASSUME k = Cardinality(T) PROVE FirstOf(T, k) = T
  BY <1>2, <1>3 DEF FirstOf
<1>4. ASSUME k # Cardinality(T) PROVE Cardinality(FirstOf(T, k)) = k
  <2>1. Cardinality(T) > k
    BY <1>1, <1>4
  <2>a. HasKth(T, k)
    BY <2>1, KthExists
  <2>2. PICK h \in T : Cardinality({g \in T : g < h}) = k
    BY <2>a DEF HasKth
  <2>3. ASSUME NEW p \in T PROVE Cardinality(B(p)) < k <=> p < h
    <3>1. CASE p < h
      <4>0. p \in Nat /\ h \in Nat /\ \A q \in T : q \in Nat
        BY <1>1
      <4>a. \A q \in T : q < p => q < h
        BY <3>1, <4>0
      <4>b. B(p) \in SUBSET B(h)
        BY <4>a
      <4>c. p \in B(h)
        BY <3>1
      <4>d. p \notin B(p)
        BY <4>0
      <4>1. B(p) \in SUBSET B(h) /\ p \in B(h) /\ p \notin B(p)
        BY <4>b, <4>c, <4>d
      <4>2. IsFiniteSet(B(h)) /\ Cardinality(B(h)) = k /\ Cardinality(B(p)) \in Nat
        BY <1>2, <2>2
      <4> HIDE DEF B
      <4>3. Cardinality(B(p)) <= Cardinality(B(h))
            /\ (Cardinality(B(h)) = Cardinality(B(p)) => B(h) = B(p))
        BY <4>1, <4>2, FS_Subset
      <4> QED BY <3>1, <4>1, <4>2, <4>3
    <3>2. CASE ~(p < h)
      <4>0. p \in Nat /\ h \in Nat /\ \A q \in T : q \in Nat
        BY <1>1
      <4>a. \A q \in T : q < h => q < p
        BY <3>2, <4>0
      <4>1. B(h) \in SUBSET B(p)
        BY <4>a
      <4>2. IsFiniteSet(B(p)) /\ Cardinality(B(h)) = k /\ Cardinality(B(p)) \in Nat
        BY <1>2, <2>2
      <4> HIDE DEF B
      <4>3. Cardinality(B(h)) <= Cardinality(B(p))
        BY <4>1, <4>2, FS_Subset
      <4> QED BY <3>2, <4>2, <4>3
    <3> QED BY <3>1, <3>2
  <2>4. FirstOf(T, k) = B(h)
    BY <2>3 DEF FirstOf
  <2> QED BY <2>2, <2>4
<1> QED BY <1>3, <1>4

(* A finite set of slots has one whose value is above no other's rank:     *)
(* the value that select_nth_unstable puts at the given rank.              *)
Ranked(S, val, rank, p) ==
  /\ Cardinality({q \in S : val[q] < val[p]}) <= rank
  /\ rank < Cardinality({q \in S : val[q] <= val[p]})

(* Some element has the given rank among the values.                       *)
LEMMA RankedValue ==
  ASSUME NEW S, IsFiniteSet(S), NEW val \in [S -> Nat], NEW rank \in Nat,
         rank < Cardinality(S)
  PROVE  \E p \in S : Ranked(S, val, rank, p)
<1> DEFINE Upto(v) == {q \in S : val[q] <= v}
           P == {U \in SUBSET S : \E b \in Nat : \A q \in U : val[q] <= b}
           T == {v \in Nat : rank < Cardinality(Upto(v))}
<1>1. P = SUBSET S
  <2>1. P \in SUBSET SUBSET S
    OBVIOUS
  <2>2. {} \in P
    <3>1. 0 \in Nat
      OBVIOUS
    <3> QED BY <3>1
  <2>3. ASSUME NEW U \in SUBSET S, U # {}, \A x \in U : U \ {x} \in P PROVE U \in P
    <3>1. PICK x \in U : TRUE
      BY <2>3
    <3>2. PICK b \in Nat : \A q \in U \ {x} : val[q] <= b
      BY <2>3, <3>1
    <3>3. \A q \in S : val[q] \in Nat
      OBVIOUS
    <3>4. b + val[x] \in Nat /\ \A q \in U : val[q] <= b + val[x]
      BY <3>2, <3>3
    <3> QED BY <3>4
  <2> HIDE DEF P
  <2> QED BY <2>1, <2>2, <2>3, SubsetInduction
<1>2. PICK b \in Nat : \A q \in S : val[q] <= b
  <2>1. S \in P
    BY <1>1
  <2> QED BY <2>1
<1>3. b \in T
  <2>1. Upto(b) = S
    BY <1>2
  <2> QED BY <2>1
<1>4. PICK v \in T : \A w \in T : v <= w
  <2>1. T \in SUBSET Nat
    OBVIOUS
  <2> HIDE DEF T
  <2> QED BY <1>3, <2>1, LeastNat
<1>5. \A w : IsFiniteSet(Upto(w)) /\ Cardinality(Upto(w)) \in Nat
  BY FS_Subset, FS_CardinalityType
<1> DEFINE Below == {q \in S : val[q] < v}
<1>6. Cardinality(Below) <= rank
  <2>1. CASE v = 0
    <3>1. Below = {}
      BY <2>1
    <3> HIDE DEF Below
    <3> QED BY <3>1, FS_EmptySet
  <2>2. CASE v # 0
    <3>1. v - 1 \in Nat /\ ~(v <= v - 1)
      BY <1>4, <2>2
    <3>2. v - 1 \notin T
      BY <1>4, <3>1
    <3>3. Below = Upto(v - 1)
      BY <1>4, <3>1
    <3>4. ~(rank < Cardinality(Upto(v - 1)))
      BY <3>1, <3>2
    <3> HIDE DEF Upto, Below
    <3> QED BY <1>5, <3>3, <3>4
  <2> QED BY <2>1, <2>2
<1>7. rank < Cardinality(Upto(v)) /\ v \in Nat
  BY <1>4
<1>8. \E p \in S : val[p] = v
  <2> SUFFICES ASSUME \A p \in S : val[p] # v PROVE FALSE
    OBVIOUS
  <2>1. Upto(v) = Below
    BY <1>7
  <2> HIDE DEF Upto, Below
  <2> QED BY <1>5, <1>6, <1>7, <2>1
<1>9. PICK p \in S : val[p] = v
  BY <1>8
<1> QED BY <1>6, <1>7, <1>9 DEF Ranked

(* Loops: what holds at each turn, and that the recursive function of a    *)
(* loop is defined.                                                        *)
LEMMA StaysOK ==
  ASSUME NEW M \in Nat, NEW g, NEW ok, g[0] \in ok[0],
         \A n \in 0 .. M - 1 : g[n] \in ok[n] => g[n + 1] \in ok[n + 1]
  PROVE  \A n \in 0 .. M : g[n] \in ok[n]
<1> DEFINE T == {n \in Nat : n \in 0 .. M => g[n] \in ok[n]}
<1>1. 0 \in T
  OBVIOUS
<1>2. ASSUME NEW n \in T PROVE n + 1 \in T
  <2> SUFFICES ASSUME n + 1 \in 0 .. M PROVE g[n + 1] \in ok[n + 1]
    OBVIOUS
  <2>1. n \in 0 .. M - 1 /\ n \in 0 .. M
    OBVIOUS
  <2> QED BY <2>1
<1>3. T = Nat
  <2>1. T \in SUBSET Nat
    OBVIOUS
  <2> HIDE DEF T
  <2> QED BY <1>1, <1>2, <2>1, SetInduction
<1>4. ASSUME NEW n \in 0 .. M PROVE g[n] \in ok[n]
  <2>1. n \in Nat
    OBVIOUS
  <2>2. n \in T
    <3> HIDE DEF T
    <3> QED BY <1>3, <2>1
  <2> QED BY <2>2
<1> QED BY <1>4

LoopRun(M, base, step, f) ==
  /\ f[0] = base
  /\ \A n \in 0 .. M - 1 : f[n + 1] = step[n][f[n]]

(* The recursive function of a loop is defined.                            *)
LEMMA RunExists ==
  ASSUME NEW M \in Nat, NEW S, NEW base \in S, NEW step \in [0 .. M - 1 -> [S -> S]]
  PROVE  \E f \in [0 .. M -> S] : LoopRun(M, base, step, f)
<1> DEFINE whole == [n \in Nat |-> IF n < M THEN step[n] ELSE [c \in S |-> c]]
<1>1. whole \in [Nat -> [S -> S]]
  <2>1. ASSUME NEW n \in Nat PROVE (IF n < M THEN step[n] ELSE [c \in S |-> c]) \in [S -> S]
    <3>1. CASE n < M
      <4>1. n \in 0 .. M - 1
        BY <3>1
      <4> QED BY <3>1, <4>1
    <3>2. CASE ~(n < M)
      <4>1. [c \in S |-> c] \in [S -> S]
        OBVIOUS
      <4> QED BY <3>2, <4>1
    <3> QED BY <3>1, <3>2
  <2> QED BY <2>1
<1>2. \A n \in 0 .. M - 1 : whole[n] = step[n] /\ n \in Nat
  OBVIOUS
<1> HIDE DEF whole
<1>3. Recursive(S, base, whole)
  BY <1>1, Recursion
<1>4. PICK f \in [Nat -> S] : f[0] = base /\ \A n \in Nat : f[n + 1] = whole[n][f[n]]
  BY <1>3 DEF Recursive
<1> DEFINE g == [n \in 0 .. M |-> f[n]]
<1>5. g \in [0 .. M -> S]
  BY <1>4
<1>6. g[0] = base
  BY <1>4
<1>7. ASSUME NEW n \in 0 .. M - 1 PROVE g[n + 1] = step[n][g[n]]
  <2>1. n \in 0 .. M /\ n + 1 \in 0 .. M /\ n \in Nat
    OBVIOUS
  <2>2. g[n + 1] = f[n + 1] /\ g[n] = f[n]
    BY <2>1
  <2>3. f[n + 1] = whole[n][f[n]] /\ whole[n] = step[n]
    BY <1>2, <1>4, <2>1
  <2> QED BY <2>2, <2>3
<1> HIDE DEF g
<1> QED BY <1>5, <1>6, <1>7 DEF LoopRun
===============================================================================
