-------------------------- MODULE BloomCountMinProofs --------------------------
(***************************************************************************)
(* Two sketches that hash every item into a few of their cells.            *)
(*                                                                         *)
(* Bloom filters have no false negatives and their cached bit count is     *)
(* exact, for every number of filters, every size, seed, hash function and *)
(* sequence of calls.  The two depend on each other: contains() is FALSE   *)
(* when the cached count is zero, and a reload of a filter with count zero *)
(* drops its bits.  The inductive invariant is the exact count together    *)
(* with "the bits of every required item are set".                         *)
(*                                                                         *)
(* With unsigned values a CountMin sketch never underestimates, for every  *)
(* number of rows and buckets, every hash function, every sequence of      *)
(* updates, merges, halvings and decays.  The inductive invariant says it  *)
(* of every counter of an item and not of the smallest one only, and       *)
(* bounds every counter, signed ones too, by the total weight, so that a   *)
(* sketch of total weight zero can be reloaded without its counters.  Each *)
(* operation preserves it because its rounding is monotone.                *)
(***************************************************************************)
EXTENDS BloomFilter, CountMin, NatSets

Recognised ==
  \A f \in Filters : \A x \in required[f] : BitsOf(f, x) \subseteq bits[f]

IInv == TypeOK /\ CountExact /\ Recognised

-------------------------------------------------------------------------------

LEMMA CapacityPositive ==
  ASSUME NEW f \in Filters
  PROVE  Capacity(f) \in Nat /\ Capacity(f) > 0
<1> DEFINE n == NumBits[f]
           w == WordBits
<1>1. n \in Nat /\ n > 0 /\ w \in Nat /\ w > 0
  BY SizeAssumption, WidthAssumption
<1> HIDE DEF n, w
<1>2. (n + w - 1) \div w \in Nat /\ (n + w - 1) \div w >= 1
  BY <1>1, Z3
<1> DEFINE q == (n + w - 1) \div w
<1> HIDE DEF q
<1>3. q \in Nat /\ q >= 1
  BY <1>2 DEF q
<1>4. q * w \in Nat /\ q * w > 0
  BY <1>1, <1>3, Z3
<1> QED BY <1>4 DEF Capacity, NumWords, q, n, w

LEMMA AllBitsFinite ==
  ASSUME NEW f \in Filters
  PROVE  IsFiniteSet(AllBits(f)) /\ Cardinality(AllBits(f)) = Capacity(f)
<1>1. Capacity(f) \in Nat /\ Capacity(f) > 0
  BY CapacityPositive
<1>2. 0 \in Int /\ Capacity(f) - 1 \in Int
  BY <1>1
<1>3. IsFiniteSet(0 .. Capacity(f) - 1)
        /\ Cardinality(0 .. Capacity(f) - 1) =
             IF 0 > Capacity(f) - 1 THEN 0 ELSE Capacity(f) - 1 - 0 + 1
  BY <1>2, FS_Interval
<1> QED BY <1>1, <1>3 DEF AllBits

LEMMA BitsOfInRange ==
  ASSUME NEW f \in Filters, NEW x \in Items
  PROVE  BitsOf(f, x) \subseteq AllBits(f) /\ BitsOf(f, x) # {}
<1> DEFINE c == Capacity(f)
           h == Hash0[Seed[f]][x]
           g == Hash1[Seed[f]][x]
           p == 2 ^ HashBits
<1>1. c \in Nat /\ c > 0
  BY CapacityPositive
<1>2. h \in Nat /\ g \in Nat /\ p \in Nat /\ p > 0
  BY SeedAssumption, HashAssumption, WidthAssumption
<1> HIDE DEF c, h, g, p
<1>3. ASSUME NEW i \in Nat
      PROVE  (((h + i * g) % p) \div 2) % c \in 0 .. c - 1
  <2>1. h + i * g \in Nat
    BY <1>2
  <2>2. (h + i * g) % p \in Nat
    BY <1>2, <2>1
  <2>3. ((h + i * g) % p) \div 2 \in Nat
    BY <2>2
  <2> QED BY <1>1, <2>3
<1>4. NumHashes[f] \in Nat /\ NumHashes[f] >= 1
  BY SizeAssumption
<1>5. \A i \in 1 .. NumHashes[f] : BitIndex(f, x, i) \in AllBits(f)
  BY <1>3, <1>4 DEF BitIndex, AllBits, c, h, g, p
<1> QED BY <1>4, <1>5 DEF BitsOf

LEMMA BitsFinite ==
  ASSUME TypeOK, NEW f \in Filters, NEW S \in SUBSET AllBits(f)
  PROVE  IsFiniteSet(S) /\ Cardinality(S) \in Nat
BY AllBitsFinite, FS_Subset, FS_CardinalityType

(* Compatible filters hash an item to the same bits of arrays of one size. *)
LEMMA CompatibleSame ==
  ASSUME NEW f \in Filters, NEW g \in Filters, IsCompatible(f, g)
  PROVE  AllBits(f) = AllBits(g) /\ \A x \in Items : BitsOf(f, x) = BitsOf(g, x)
BY DEF IsCompatible, AllBits, Capacity, BitsOf, BitIndex

-------------------------------------------------------------------------------

LEMMA InitOK == Init => IInv
BY FS_EmptySet DEF Init, IInv, TypeOK, CountExact, Recognised

(* A step that replaces the bits of one filter and counts them, and leaves *)
(* no item required whose bits are not set, preserves the invariant.       *)
Replaced(f, S, n, R) ==
  /\ S \in SUBSET AllBits(f)
  /\ n = Cardinality(S)
  /\ R \in SUBSET Items
  /\ \A x \in R : BitsOf(f, x) \subseteq S
  /\ bits' = [bits EXCEPT ![f] = S]
  /\ numBitsSet' = [numBitsSet EXCEPT ![f] = n]
  /\ required' = [required EXCEPT ![f] = R]

LEMMA Replace ==
  ASSUME IInv, NEW f \in Filters, NEW S, NEW n, NEW R, Replaced(f, S, n, R)
  PROVE  IInv'
<1> USE DEF Replaced
<1>1. TypeOK /\ CountExact /\ Recognised
  BY DEF IInv
<1>2. n \in Nat
  BY <1>1, BitsFinite
<1>3. AllBits(f) \subseteq Nat
  BY CapacityPositive DEF AllBits
<1>4. TypeOK'
  BY <1>1, <1>2, <1>3 DEF TypeOK
<1>5. CountExact'
  BY <1>1 DEF CountExact, TypeOK
<1>6. Recognised'
  BY <1>1 DEF Recognised, TypeOK
<1> QED BY <1>4, <1>5, <1>6 DEF IInv

LEMMA InsertPreserves ==
  ASSUME IInv, NEW f \in Filters, NEW x \in Items, Insert(f, x)
  PROVE  IInv'
<1> DEFINE B == BitsOf(f, x)
           S == bits[f] \cup B
           n == numBitsSet[f] + Cardinality(B \ bits[f])
           R == required[f] \cup {x}
<1>1. TypeOK /\ CountExact /\ Recognised
  BY DEF IInv
<1>2. bits[f] \in SUBSET AllBits(f) /\ B \in SUBSET AllBits(f) /\ S \in SUBSET AllBits(f)
  BY <1>1, BitsOfInRange DEF TypeOK
<1>3. n = Cardinality(S)
  <2> DEFINE N == B \ bits[f]
  <2>1. N \in SUBSET AllBits(f)
    BY <1>2
  <2>2. S = bits[f] \cup N /\ bits[f] \cap N = {}
    OBVIOUS
  <2>3. /\ IsFiniteSet(bits[f]) /\ IsFiniteSet(N)
        /\ Cardinality(bits[f]) \in Nat /\ Cardinality(N) \in Nat
    BY <1>1, <1>2, <2>1, BitsFinite
  <2>4. numBitsSet[f] = Cardinality(bits[f])
    BY <1>1 DEF CountExact
  <2> HIDE DEF N, S
  <2>5. Cardinality(bits[f] \cup N) =
          Cardinality(bits[f]) + Cardinality(N) - Cardinality(bits[f] \cap N)
    BY <2>3, FS_Union
  <2>6. Cardinality(bits[f] \cap N) = 0
    BY <2>2, FS_EmptySet
  <2>7. Cardinality(S) = numBitsSet[f] + Cardinality(N)
    BY <2>2, <2>3, <2>4, <2>5, <2>6
  <2> QED BY <2>7 DEF N
<1>4. R \in SUBSET Items /\ \A y \in R : BitsOf(f, y) \subseteq S
  BY <1>1 DEF TypeOK, Recognised
<1>5. /\ bits' = [bits EXCEPT ![f] = S]
      /\ numBitsSet' = [numBitsSet EXCEPT ![f] = n]
      /\ required' = [required EXCEPT ![f] = R]
  BY DEF Insert
<1> HIDE DEF S, n, R
<1>6. Replaced(f, S, n, R)
  BY <1>2, <1>3, <1>4, <1>5 DEF Replaced
<1> QED BY <1>6, Replace

LEMMA ResetPreserves ==
  ASSUME IInv, NEW f \in Filters, Reset(f)
  PROVE  IInv'
<1>1. {} \in SUBSET AllBits(f) /\ {} \in SUBSET Items /\ 0 = Cardinality({})
  BY FS_EmptySet
<1>2. /\ bits' = [bits EXCEPT ![f] = {}]
      /\ numBitsSet' = [numBitsSet EXCEPT ![f] = 0]
      /\ required' = [required EXCEPT ![f] = {}]
  BY DEF Reset
<1>3. \A x \in {} : BitsOf(f, x) \subseteq {}
  OBVIOUS
<1>4. Replaced(f, {}, 0, {})
  BY <1>1, <1>2, <1>3 DEF Replaced
<1> QED BY <1>4, Replace

LEMMA UnionPreserves ==
  ASSUME IInv, NEW f \in Filters, NEW g \in Filters, Union(f, g)
  PROVE  IInv'
<1> DEFINE S == bits[f] \cup bits[g]
           n == Cardinality(S)
           R == required[f] \cup required[g]
<1>1. TypeOK /\ Recognised /\ IsCompatible(f, g)
  BY DEF IInv, Union
<1>2. AllBits(f) = AllBits(g) /\ \A x \in Items : BitsOf(f, x) = BitsOf(g, x)
  BY <1>1, CompatibleSame
<1>3. S \in SUBSET AllBits(f)
  BY <1>1, <1>2 DEF TypeOK
<1>4. R \in SUBSET Items
  BY <1>1 DEF TypeOK
<1>5. \A x \in R : BitsOf(f, x) \subseteq S
  BY <1>1, <1>2, <1>4 DEF Recognised
<1>6. /\ bits' = [bits EXCEPT ![f] = S]
      /\ numBitsSet' = [numBitsSet EXCEPT ![f] = n]
      /\ required' = [required EXCEPT ![f] = R]
  BY DEF Union
<1>7. n = Cardinality(S)
  OBVIOUS
<1> HIDE DEF S, n, R
<1>8. Replaced(f, S, n, R)
  BY <1>3, <1>4, <1>5, <1>6, <1>7 DEF Replaced
<1> QED BY <1>8, Replace

LEMMA IntersectPreserves ==
  ASSUME IInv, NEW f \in Filters, NEW g \in Filters, Intersect(f, g)
  PROVE  IInv'
<1> DEFINE S == bits[f] \cap bits[g]
           n == Cardinality(S)
           R == required[f] \cap required[g]
<1>1. TypeOK /\ Recognised /\ IsCompatible(f, g)
  BY DEF IInv, Intersect
<1>2. \A x \in Items : BitsOf(f, x) = BitsOf(g, x)
  BY <1>1, CompatibleSame
<1>3. S \in SUBSET AllBits(f)
  BY <1>1 DEF TypeOK
<1>4. R \in SUBSET Items
  BY <1>1 DEF TypeOK
<1>5. \A x \in R : BitsOf(f, x) \subseteq S
  BY <1>1, <1>2, <1>4 DEF Recognised
<1>6. /\ bits' = [bits EXCEPT ![f] = S]
      /\ numBitsSet' = [numBitsSet EXCEPT ![f] = n]
      /\ required' = [required EXCEPT ![f] = R]
  BY DEF Intersect
<1>7. n = Cardinality(S)
  OBVIOUS
<1> HIDE DEF S, n, R
<1>8. Replaced(f, S, n, R)
  BY <1>3, <1>4, <1>5, <1>6, <1>7 DEF Replaced
<1> QED BY <1>8, Replace

LEMMA InvertPreserves ==
  ASSUME IInv, NEW f \in Filters, Invert(f)
  PROVE  IInv'
<1> DEFINE S == AllBits(f) \ bits[f]
           n == Capacity(f) - numBitsSet[f]
<1>1. TypeOK /\ CountExact
  BY DEF IInv
<1>2. S \in SUBSET AllBits(f) /\ bits[f] \subseteq AllBits(f)
  BY <1>1 DEF TypeOK
<1>3. n = Cardinality(S)
  <2>1. IsFiniteSet(AllBits(f)) /\ Cardinality(AllBits(f)) = Capacity(f)
    BY AllBitsFinite
  <2>2. AllBits(f) \cap bits[f] = bits[f]
    BY <1>2
  <2>3. Cardinality(AllBits(f) \ bits[f])
          = Cardinality(AllBits(f)) - Cardinality(AllBits(f) \cap bits[f])
    BY <2>1, FS_Difference
  <2> QED BY <1>1, <2>1, <2>2, <2>3 DEF CountExact
<1>4. /\ bits' = [bits EXCEPT ![f] = S]
      /\ numBitsSet' = [numBitsSet EXCEPT ![f] = n]
      /\ required' = [required EXCEPT ![f] = {}]
  BY DEF Invert
<1>5. {} \in SUBSET Items /\ \A x \in {} : BitsOf(f, x) \subseteq S
  OBVIOUS
<1> HIDE DEF S, n
<1>6. Replaced(f, S, n, {})
  BY <1>2, <1>3, <1>4, <1>5 DEF Replaced
<1> QED BY <1>6, Replace

(* A filter with cached count zero has no bit to lose. *)
LEMMA ReloadChangesNothing ==
  ASSUME IInv, NEW f \in Filters, Reload(f)
  PROVE  bits' = bits /\ numBitsSet' = numBitsSet
<1>1. TypeOK /\ CountExact
  BY DEF IInv
<1>2. bits[f] \in SUBSET AllBits(f)
  BY <1>1 DEF TypeOK
<1>3. IsFiniteSet(bits[f])
  BY <1>1, <1>2, BitsFinite
<1>4. IsEmpty(f) => bits[f] = {}
  BY <1>1, <1>3, FS_EmptySet DEF IsEmpty, CountExact
<1>5. (IF IsEmpty(f) THEN {} ELSE bits[f]) = bits[f]
  BY <1>4
<1>6. /\ bits' = [bits EXCEPT ![f] = bits[f]]
      /\ numBitsSet' = [numBitsSet EXCEPT ![f] = Cardinality(bits[f])]
  BY <1>5 DEF Reload
<1>7. Cardinality(bits[f]) = numBitsSet[f]
  BY <1>1 DEF CountExact
<1> QED BY <1>1, <1>6, <1>7 DEF TypeOK

LEMMA StepPreserves == IInv /\ [Next]_vars => IInv'
<1> SUFFICES ASSUME IInv, [Next]_vars PROVE IInv'
  OBVIOUS
<1>1. ASSUME NEW f \in Filters, Reload(f)
      PROVE  IInv'
  <2>1. bits' = bits /\ numBitsSet' = numBitsSet /\ required' = required
    BY <1>1, ReloadChangesNothing DEF Reload
  <2> QED BY <2>1 DEF IInv, TypeOK, CountExact, Recognised
<1>2. CASE UNCHANGED vars
  BY <1>2 DEF vars, IInv, TypeOK, CountExact, Recognised
<1> QED BY <1>1, <1>2, InsertPreserves, ResetPreserves, InvertPreserves,
           UnionPreserves, IntersectPreserves DEF Next

(* Every reachable state satisfies the inductive invariant. *)
THEOREM Invariance == Spec => []IInv
BY InitOK, StepPreserves, PTL DEF Spec

(* The cached bit count is the number of bits set. *)
THEOREM CountIsExact == Spec => []CountExact
<1>1. IInv => CountExact
  BY DEF IInv
<1> QED BY <1>1, Invariance, PTL

(* contains() is TRUE for every item a filter has to recognise. *)
THEOREM RecognisesInserted == Spec => []NoFalseNegatives
<1>1. IInv => NoFalseNegatives
  <2> SUFFICES ASSUME IInv, NEW f \in Filters, NEW x \in required[f]
               PROVE  Contains(f, x)
    BY DEF NoFalseNegatives
  <2>1. TypeOK /\ CountExact /\ Recognised
    BY DEF IInv
  <2>2. x \in Items
    BY <2>1 DEF TypeOK
  <2>3. BitsOf(f, x) # {} /\ BitsOf(f, x) \subseteq bits[f]
    BY <2>1, <2>2, BitsOfInRange DEF Recognised
  <2>4. bits[f] \in SUBSET AllBits(f)
    BY <2>1 DEF TypeOK
  <2>5. IsFiniteSet(bits[f])
    BY <2>1, <2>4, BitsFinite
  <2>6. Cardinality(bits[f]) # 0
    BY <2>3, <2>5, FS_EmptySet
  <2>7. numBitsSet[f] = Cardinality(bits[f])
    BY <2>1 DEF CountExact
  <2> QED BY <2>3, <2>6, <2>7 DEF Contains, IsEmpty, CheckBits
<1> QED BY <1>1, Invariance, PTL

(* serialize and deserialize give back the same filter. *)
THEOREM ReloadsLossless == Spec => ReloadLossless
<1>1. IInv /\ [Next]_vars =>
        [\A f \in Filters : Reload(f) => UNCHANGED <<bits, numBitsSet>>]_vars
  BY ReloadChangesNothing
<1> QED BY <1>1, Invariance, PTL DEF Spec, ReloadLossless

-------------------------------------------------------------------------------
(* The CountMin sketch.                                                    *)

USE BucketAssumption, MaxValueAssumption

Typed ==
  /\ unsigned \in BOOLEAN
  /\ counts \in [Sketches -> [Rows -> [Buckets -> Int]]]
  /\ total \in [Sketches -> Nat]
  /\ truth \in [Sketches -> [Elements -> Int]]

Cover ==
  unsigned =>
    \A s \in Sketches, i \in Elements, r \in Rows :
      0 <= truth[s][i] /\ truth[s][i] <= counts[s][r][Bucket[r][i]]

WithinTotal ==
  \A s \in Sketches, r \in Rows, b \in Buckets :
    /\ counts[s][r][b] <= total[s]
    /\ -total[s] <= counts[s][r][b]
    /\ unsigned => 0 <= counts[s][r][b]

CountInv == Typed /\ Cover /\ WithinTotal

(* Truncated multiplication by a decay factor is a monotone natural.       *)
LEMMA ScaleMonotone ==
  ASSUME NEW v \in Nat, NEW w \in Nat, v <= w, NEW d \in Decays
  PROVE  Scale(v, d) \in Nat /\ Scale(v, d) <= Scale(w, d)
<1>1. d[1] \in Nat /\ d[2] \in Nat /\ d[2] > 0
  BY DecaysAssumption
<1> DEFINE n == d[1]
           m == d[2]
           x == v * n
           y == w * n
<1>2. x \in Nat /\ y \in Nat /\ x <= y
  BY <1>1
<1> HIDE DEF n, m, x, y
<1>3. m \in Nat /\ m > 0
  BY <1>1 DEF m
<1>4. x \div m \in Nat /\ x \div m <= y \div m
  BY <1>2, <1>3, Z3
<1> QED BY <1>4 DEF Scale, x, y, m, n

LEMMA CountInitOK == CountInit => CountInv
BY DEF CountInit, CountInv, Typed, Cover, WithinTotal, ZeroCounts, Buckets

LEMMA BucketIn ==
  ASSUME NEW r \in Rows, NEW i \in Elements PROVE Bucket[r][i] \in Buckets
BY DEF Buckets

LEMMA UpdatePreserves ==
  ASSUME CountInv, NEW s \in Sketches, NEW i \in Elements, NEW w \in Int,
         UpdateWithWeight(s, i, w)
  PROVE  CountInv'
<1>1. Typed /\ Cover /\ WithinTotal
  BY DEF CountInv
<1>2. /\ total' = [total EXCEPT ![s] = @ + Abs(w)]
      /\ counts' = [counts EXCEPT ![s] =
                      [r \in Rows |-> [b \in Buckets |->
                         IF b = Bucket[r][i] THEN counts[s][r][b] + w ELSE counts[s][r][b]]]]
      /\ truth' = [truth EXCEPT ![s] =
                     [j \in Elements |-> IF j = i THEN truth[s][j] + w ELSE truth[s][j]]]
      /\ unsigned' = unsigned
      /\ Abs(w) \in Nat /\ w <= Abs(w) /\ -Abs(w) <= w /\ (unsigned => 0 <= w)
  BY DEF UpdateWithWeight, Abs
<1>3. Typed'
  BY <1>1, <1>2 DEF Typed
<1>4. ASSUME unsigned, NEW t \in Sketches, NEW j \in Elements, NEW r \in Rows
      PROVE  0 <= truth'[t][j] /\ truth'[t][j] <= counts'[t][r][Bucket[r][j]]
  <2>1. /\ Bucket[r][j] \in Buckets
        /\ truth[t][j] \in Nat /\ counts[t][r][Bucket[r][j]] \in Nat
        /\ truth[t][j] <= counts[t][r][Bucket[r][j]]
    BY <1>1, <1>4, BucketIn DEF Typed, Cover
  <2>2. CASE t = s
    BY <1>1, <1>2, <1>4, <2>1, <2>2 DEF Typed
  <2>3. CASE t # s
    BY <1>1, <1>2, <2>1, <2>3 DEF Typed
  <2> QED BY <2>2, <2>3
<1>5. ASSUME NEW t \in Sketches, NEW r \in Rows, NEW b \in Buckets
      PROVE  /\ counts'[t][r][b] <= total'[t]
             /\ -total'[t] <= counts'[t][r][b]
             /\ unsigned => 0 <= counts'[t][r][b]
  <2>1. /\ counts[t][r][b] \in Int /\ total[t] \in Nat
        /\ counts[t][r][b] <= total[t] /\ -total[t] <= counts[t][r][b]
        /\ unsigned => 0 <= counts[t][r][b]
    BY <1>1 DEF Typed, WithinTotal
  <2>2. CASE t = s
    BY <1>1, <1>2, <2>1, <2>2 DEF Typed
  <2>3. CASE t # s
    BY <1>1, <1>2, <2>1, <2>3 DEF Typed
  <2> QED BY <2>2, <2>3
<1> QED BY <1>2, <1>3, <1>4, <1>5 DEF CountInv, Cover, WithinTotal

LEMMA MergePreserves ==
  ASSUME CountInv, NEW s \in Sketches, NEW u \in Sketches, Merge(s, u)
  PROVE  CountInv'
<1>1. Typed /\ Cover /\ WithinTotal
  BY DEF CountInv
<1>2. /\ total' = [total EXCEPT ![s] = @ + total[u]]
      /\ counts' = [counts EXCEPT ![s] =
                      [r \in Rows |-> [b \in Buckets |-> counts[s][r][b] + counts[u][r][b]]]]
      /\ truth' = [truth EXCEPT ![s] = [j \in Elements |-> truth[s][j] + truth[u][j]]]
      /\ unsigned' = unsigned
  BY DEF Merge
<1>3. Typed'
  BY <1>1, <1>2 DEF Typed
<1>4. ASSUME unsigned, NEW t \in Sketches, NEW j \in Elements, NEW r \in Rows
      PROVE  0 <= truth'[t][j] /\ truth'[t][j] <= counts'[t][r][Bucket[r][j]]
  <2>1. /\ Bucket[r][j] \in Buckets
        /\ truth[t][j] \in Nat /\ counts[t][r][Bucket[r][j]] \in Nat
        /\ truth[t][j] <= counts[t][r][Bucket[r][j]]
        /\ truth[u][j] \in Nat /\ counts[u][r][Bucket[r][j]] \in Nat
        /\ truth[u][j] <= counts[u][r][Bucket[r][j]]
    BY <1>1, <1>4, BucketIn DEF Typed, Cover
  <2>2. CASE t = s
    BY <1>1, <1>2, <1>4, <2>1, <2>2 DEF Typed
  <2>3. CASE t # s
    BY <1>1, <1>2, <2>1, <2>3 DEF Typed
  <2> QED BY <2>2, <2>3
<1>5. ASSUME NEW t \in Sketches, NEW r \in Rows, NEW b \in Buckets
      PROVE  /\ counts'[t][r][b] <= total'[t]
             /\ -total'[t] <= counts'[t][r][b]
             /\ unsigned => 0 <= counts'[t][r][b]
  <2>1. /\ counts[t][r][b] \in Int /\ total[t] \in Nat
        /\ counts[t][r][b] <= total[t] /\ -total[t] <= counts[t][r][b]
        /\ unsigned => 0 <= counts[t][r][b]
        /\ counts[u][r][b] \in Int /\ total[u] \in Nat
        /\ counts[u][r][b] <= total[u] /\ -total[u] <= counts[u][r][b]
        /\ unsigned => 0 <= counts[u][r][b]
    BY <1>1 DEF Typed, WithinTotal
  <2>2. CASE t = s
    BY <1>1, <1>2, <2>1, <2>2 DEF Typed
  <2>3. CASE t # s
    BY <1>1, <1>2, <2>1, <2>3 DEF Typed
  <2> QED BY <2>2, <2>3
<1> QED BY <1>2, <1>3, <1>4, <1>5 DEF CountInv, Cover, WithinTotal

LEMMA HalvePreserves ==
  ASSUME CountInv, NEW s \in Sketches, Halve(s)
  PROVE  CountInv'
<1>1. Typed /\ Cover /\ WithinTotal
  BY DEF CountInv
<1>2. /\ total' = [total EXCEPT ![s] = @ \div 2]
      /\ counts' = [counts EXCEPT ![s] =
                      [r \in Rows |-> [b \in Buckets |-> counts[s][r][b] \div 2]]]
      /\ truth' = [truth EXCEPT ![s] = [j \in Elements |-> truth[s][j] \div 2]]
      /\ unsigned' = unsigned
      /\ unsigned
  BY DEF Halve
<1>3. Typed'
  BY <1>1, <1>2 DEF Typed
<1>4. ASSUME unsigned, NEW t \in Sketches, NEW j \in Elements, NEW r \in Rows
      PROVE  0 <= truth'[t][j] /\ truth'[t][j] <= counts'[t][r][Bucket[r][j]]
  <2>1. /\ Bucket[r][j] \in Buckets
        /\ truth[t][j] \in Nat /\ counts[t][r][Bucket[r][j]] \in Nat
        /\ truth[t][j] <= counts[t][r][Bucket[r][j]]
    BY <1>1, <1>4, BucketIn DEF Typed, Cover
  <2>2. CASE t = s
    BY <1>1, <1>2, <1>4, <2>1, <2>2 DEF Typed
  <2>3. CASE t # s
    BY <1>1, <1>2, <2>1, <2>3 DEF Typed
  <2> QED BY <2>2, <2>3
<1>5. ASSUME NEW t \in Sketches, NEW r \in Rows, NEW b \in Buckets
      PROVE  /\ counts'[t][r][b] <= total'[t]
             /\ -total'[t] <= counts'[t][r][b]
             /\ unsigned => 0 <= counts'[t][r][b]
  <2>1. /\ counts[t][r][b] \in Int /\ total[t] \in Nat
        /\ 0 <= counts[t][r][b] /\ counts[t][r][b] <= total[t]
    BY <1>1, <1>2 DEF Typed, WithinTotal
  <2>2. CASE t = s
    BY <1>1, <1>2, <2>1, <2>2 DEF Typed
  <2>3. CASE t # s
    BY <1>1, <1>2, <2>1, <2>3 DEF Typed
  <2> QED BY <2>2, <2>3
<1> QED BY <1>2, <1>3, <1>4, <1>5 DEF CountInv, Cover, WithinTotal

LEMMA DecayPreserves ==
  ASSUME CountInv, NEW s \in Sketches, NEW d \in Decays, Decay(s, d)
  PROVE  CountInv'
<1>1. Typed /\ Cover /\ WithinTotal
  BY DEF CountInv
<1>2. /\ total' = [total EXCEPT ![s] = Scale(total[s], d)]
      /\ counts' = [counts EXCEPT ![s] =
                      [r \in Rows |-> [b \in Buckets |-> Scale(counts[s][r][b], d)]]]
      /\ truth' = [truth EXCEPT ![s] = [j \in Elements |-> Scale(truth[s][j], d)]]
      /\ unsigned' = unsigned
      /\ unsigned
  BY DEF Decay
<1>3. \A v \in Nat : Scale(v, d) \in Nat
  BY ScaleMonotone
<1>4. \A v \in Int : Scale(v, d) \in Int
  BY DecaysAssumption DEF Scale
<1>5. Typed'
  BY <1>1, <1>2, <1>3, <1>4 DEF Typed
<1>6. ASSUME unsigned, NEW t \in Sketches, NEW j \in Elements, NEW r \in Rows
      PROVE  0 <= truth'[t][j] /\ truth'[t][j] <= counts'[t][r][Bucket[r][j]]
  <2>1. /\ Bucket[r][j] \in Buckets
        /\ truth[t][j] \in Nat /\ counts[t][r][Bucket[r][j]] \in Nat
        /\ truth[t][j] <= counts[t][r][Bucket[r][j]]
    BY <1>1, <1>6, BucketIn DEF Typed, Cover
  <2>2. Scale(truth[t][j], d) <= Scale(counts[t][r][Bucket[r][j]], d)
    BY <2>1, ScaleMonotone
  <2>3. CASE t = s
    BY <1>1, <1>2, <1>6, <2>1, <1>3, <2>2, <2>3 DEF Typed
  <2>4. CASE t # s
    BY <1>1, <1>2, <2>1, <2>4 DEF Typed
  <2> QED BY <2>3, <2>4
<1>7. ASSUME NEW t \in Sketches, NEW r \in Rows, NEW b \in Buckets
      PROVE  /\ counts'[t][r][b] <= total'[t]
             /\ -total'[t] <= counts'[t][r][b]
             /\ unsigned => 0 <= counts'[t][r][b]
  <2>1. /\ counts[t][r][b] \in Int /\ total[t] \in Nat
        /\ 0 <= counts[t][r][b] /\ counts[t][r][b] <= total[t]
    BY <1>1, <1>2 DEF Typed, WithinTotal
  <2>2. /\ Scale(counts[t][r][b], d) \in Nat /\ Scale(total[t], d) \in Nat
        /\ Scale(counts[t][r][b], d) <= Scale(total[t], d)
    BY <2>1, ScaleMonotone
  <2>3. CASE t = s
    BY <1>1, <1>2, <2>1, <2>2, <2>3 DEF Typed
  <2>4. CASE t # s
    BY <1>1, <1>2, <2>1, <2>4 DEF Typed
  <2> QED BY <2>3, <2>4
<1> QED BY <1>2, <1>5, <1>6, <1>7 DEF CountInv, Cover, WithinTotal

(* A sketch of zero total weight has no counter above zero to lose. *)
LEMMA ReloadKeepsCounts ==
  ASSUME Typed, WithinTotal, NEW s \in Sketches, ReloadSketch(s)
  PROVE  counts' = counts
<1>1. counts' = [counts EXCEPT ![s] = IF total[s] = 0 THEN ZeroCounts ELSE @]
  BY DEF ReloadSketch
<1>2. counts[s] \in [Rows -> [Buckets -> Int]] /\ total[s] \in Nat
  BY DEF Typed
<1>3. CASE total[s] = 0
  <2>1. \A r \in Rows, b \in Buckets : counts[s][r][b] = 0
    BY <1>2, <1>3 DEF WithinTotal
  <2>2. \A r \in Rows : counts[s][r] = [b \in Buckets |-> 0]
    BY <1>2, <2>1
  <2>3. counts[s] = ZeroCounts
    BY <1>2, <2>2 DEF ZeroCounts
  <2> QED BY <1>1, <1>3, <2>3 DEF Typed
<1>4. CASE total[s] # 0
  BY <1>1, <1>4 DEF Typed
<1> QED BY <1>3, <1>4

LEMMA CountStepPreserves ==
  ASSUME CountInv, [CountNext]_countVars
  PROVE  CountInv'
<1>1. ASSUME NEW s \in Sketches, ReloadSketch(s)
      PROVE  CountInv'
  <2>1. counts' = counts /\ total' = total /\ truth' = truth /\ unsigned' = unsigned
    BY <1>1, ReloadKeepsCounts DEF CountInv, ReloadSketch
  <2> QED BY <2>1 DEF CountInv, Typed, Cover, WithinTotal
<1>2. ASSUME NEW s \in Sketches, NEW i \in Elements, NEW w \in Weights,
             UpdateWithWeight(s, i, w)
      PROVE  CountInv'
  BY <1>2, UpdatePreserves, WeightsAssumption
<1>3. CASE UNCHANGED countVars
  BY <1>3 DEF countVars, CountInv, Typed, Cover, WithinTotal
<1> QED BY <1>1, <1>2, <1>3, MergePreserves, HalvePreserves, DecayPreserves DEF CountNext

(* Every reachable state satisfies the inductive invariant. *)
THEOREM CountInvariance == CountSpec => []CountInv
<1>1. CountInv /\ [CountNext]_countVars => CountInv'
  BY CountStepPreserves
<1> QED BY <1>1, CountInitOK, PTL DEF CountSpec

LEMMA CoverGivesEstimate ==
  ASSUME CountInv, unsigned
  PROVE  \A s \in Sketches, i \in Elements : truth[s][i] <= Estimate(s, i)
<1> SUFFICES ASSUME NEW s \in Sketches, NEW i \in Elements
             PROVE  truth[s][i] <= Estimate(s, i)
  OBVIOUS
<1> DEFINE T == {counts[s][r][Bucket[r][i]] : r \in Rows}
<1>1. T \in SUBSET Nat /\ T # {}
  BY RowsAssumption, BucketIn DEF CountInv, Typed, WithinTotal
<1>2. \A n \in T : truth[s][i] <= n
  BY DEF CountInv, Cover
<1> HIDE DEF T
<1>3. \E m \in T : \A n \in T : m <= n
  BY <1>1, LeastNat
<1>4. Min(T) \in T
  BY <1>3 DEF Min
<1> QED BY <1>2, <1>4 DEF Estimate, T

(* estimate is never below the weight an item was given. *)
THEOREM EstimatesCover == CountSpec => []NeverUnderestimates
<1>1. CountInv => NeverUnderestimates
  BY CoverGivesEstimate DEF NeverUnderestimates
<1> QED BY <1>1, CountInvariance, PTL

(* serialize and deserialize lose no counter, although an image of total   *)
(* weight zero carries none, and although signed counters may cancel out.  *)
THEOREM CountReloadsLossless == CountSpec => CountReloadLossless
<1>1. CountInv /\ [CountNext]_countVars => [\A s \in Sketches : ReloadSketch(s) => UNCHANGED counts]_countVars
  BY ReloadKeepsCounts DEF CountInv
<1> QED BY <1>1, CountInvariance, PTL DEF CountSpec, CountReloadLossless
===============================================================================
