------------------------------- MODULE CpcUnion -------------------------------
(***************************************************************************)
(* A CPC sketch that is updated, written, read back and merged, and the    *)
(* union (cpc/union.rs) it is merged into: a sparse accumulator sketch     *)
(* that turns into a bit matrix once it, or an input, is past sparse, and  *)
(* whose k shrinks to that of the smallest input.                          *)
(*                                                                         *)
(* To keep the product small, one of the two moves at a time: the sketch   *)
(* changes while the union is fresh, and other sketches are merged in      *)
(* while the sketch is fresh.                                              *)
(***************************************************************************)
EXTENDS CpcImage

CONSTANTS
  Ks,            \* the values of k (powers of two)
  Inputs,        \* streams of pairs of the other sketches
  MaxGap,        \* bound on the columns of a row still to come when a higher
                 \* one arrives at the sketch that is merged first
  MaxMerges,     \* bound on the merges into one union
  EmptyImages    \* may an image of an empty sketch be read back?

ASSUME KsAssumption == \A k \in Ks : k = 2 ^ FloorLog2(k)

VARIABLES
  sketch,    \* the sketch
  seen,      \* history: the pairs it was given
  union,     \* the union: k, and an accumulator or a bit matrix
  joined,    \* history: the pairs of all inputs, at the union's k
  least,     \* history: the smallest k of the union and its inputs
  merges     \* merges so far

vars == <<sketch, seen, union, joined, least, merges>>

NewUnion(k) == [k |-> k, acc |-> NewSketch(k), matrix |-> None]

Accumulates(u) == u.matrix = None

IsFresh(u) == Accumulates(u) /\ u.acc.coupons = 0

(* The pairs at a smaller k: rows are taken modulo k. *)
Downsampled(pair, k) == Pair(Row(pair) % k, Col(pair))

(* walk_table_updating_sketch: the slots in steps of an odd stride near    *)
(* the golden section.                                                     *)
Stride(n) ==
  LET s == (618 * n) \div 1000
  IN IF s % 2 = 0 THEN s + 1 ELSE s

WalkTable(sk, table) ==
  LET n == Size(table)
      step(into, i) ==
        LET item == table.slots[((i - 1) * Stride(n)) % n]
        IN IF item = Empty THEN into ELSE RowColUpdate(into, Downsampled(item, sk.k))
  IN FoldLeft(step, sk, [i \in 1 .. n |-> i])

ZeroMatrix(k) == [r \in Rows(k) |-> {}]

OrMatrix(dst, src) ==
  [r \in DOMAIN dst |->
     dst[r] \cup UNION {src[q] : q \in {p \in DOMAIN src : p % Cardinality(DOMAIN dst) = r}}]

OrWindow(dst, sk) ==
  OrMatrix(dst, [r \in Rows(sk.k) |-> {c + sk.offset : c \in sk.window[r]}])

OrTable(dst, table) ==
  [r \in DOMAIN dst |->
     dst[r] \cup {Col(p) : p \in {q \in SlotItems(table) :
                                    Row(q) % Cardinality(DOMAIN dst) = r}}]

Past(sk) == FlavorOf(sk) \notin {"empty", "sparse"}

(* An accumulator past sparse is kept as a matrix. *)
Settled(acc) ==
  IF Past(acc) THEN [k |-> acc.k, acc |-> None, matrix |-> BitMatrix(acc)]
  ELSE [k |-> acc.k, acc |-> acc, matrix |-> None]

ReduceK(u, k) ==
  IF ~Accumulates(u)
  THEN [u EXCEPT !.k = k, !.matrix = OrMatrix(ZeroMatrix(k), u.matrix)]
  ELSE IF u.acc.coupons = 0 THEN NewUnion(k)
  ELSE Settled(WalkTable(NewSketch(k), u.acc.table))

(* Case A: both are sparse.  A first input of the same k is cloned. *)
JoinSparse(u, sk) ==
  IF u.acc.coupons = 0 /\ u.k = sk.k THEN [u EXCEPT !.acc = sk]
  ELSE Settled(WalkTable(u.acc, sk.table))

(* Fault: sliding sketches are walked like the others. *)
JoinMatrixWalked(matrix, sk) ==
  IF FlavorOf(sk) = "sparse" THEN OrTable(matrix, sk.table)
  ELSE OrTable(OrWindow(matrix, sk), sk.table)

(* Cases B, C and D: into the matrix, from the table, from the window and  *)
(* the table, or, where the table's early pairs are zeros, from a matrix.  *)
JoinMatrix(matrix, sk) ==
  CASE FlavorOf(sk) = "sparse" -> OrTable(matrix, sk.table)
    [] FlavorOf(sk) \in {"hybrid", "pinned"} -> OrTable(OrWindow(matrix, sk), sk.table)
    [] FlavorOf(sk) = "sliding" -> OrMatrix(matrix, BitMatrix(sk))

(* CpcUnion::update with a sketch that is not empty. *)
UnionUpdated(u, sk) ==
  LET reduced == IF sk.k < u.k THEN ReduceK(u, sk.k) ELSE u
      ready   == IF Past(sk) /\ Accumulates(reduced)
                 THEN [k |-> reduced.k, acc |-> None, matrix |-> BitMatrix(reduced.acc)]
                 ELSE reduced
  IN IF Accumulates(ready) THEN JoinSparse(ready, sk)
     ELSE [ready EXCEPT !.matrix = JoinMatrix(@, sk)]

(* to_sketch.  The result is marked as merged and keeps no HIP estimate. *)
ToSketch(u) ==
  IF Accumulates(u)
  THEN IF u.acc.coupons = 0 THEN NewSketch(u.k) ELSE [u.acc EXCEPT !.merged = TRUE]
  ELSE LET coupons == CountBits(u.matrix)
           offset == CorrectOffset(u.k, coupons)
           lgSize == IF FloorLog2(u.k) > MinLgSize + 4 THEN FloorLog2(u.k) - 4 ELSE MinLgSize
       IN [NewSketch(u.k) EXCEPT
             !.coupons = coupons, !.offset = offset, !.merged = TRUE,
             !.window = WindowAt(u.matrix, offset),
             !.table = InsertSurprises(NewTable(lgSize, PairBits(u.k)), u.matrix, offset),
             !.fic = FirstInteresting(u.matrix, offset)]

------------------------------------------------------------------------------
(* Behaviour *)

Init ==
  /\ \E k \in Ks : sketch = NewSketch(k)
  /\ \E k \in Ks : union = NewUnion(k) /\ least = k
  /\ seen = {} /\ joined = {} /\ merges = 0

Update(row, col) ==
  /\ IsFresh(union) /\ merges < MaxMerges
  /\ Cardinality({c \in 0 .. col - 1 : Pair(row, c) \notin seen})
       <= IF merges = 0 THEN MaxGap ELSE 0
  /\ sketch' = RowColUpdate(sketch, Pair(row, col))
  /\ seen' = seen \cup {Pair(row, col)}
  /\ UNCHANGED <<union, joined, least, merges>>

Reload ==
  /\ IsFresh(union)
  /\ sketch.coupons > 0 \/ EmptyImages
  /\ Readable(Serialize(sketch))
  /\ sketch' = Deserialize(Serialize(sketch))
  /\ UNCHANGED <<seen, union, joined, least, merges>>

Merge(sk, pairs) ==
  /\ sk.coupons > 0
  /\ merges < MaxMerges /\ merges' = merges + 1
  /\ union' = UnionUpdated(union, sk)
  /\ least' = IF sk.k < least THEN sk.k ELSE least
  /\ joined' = {Downsampled(p, least') : p \in joined \cup pairs}

(* The sketch is merged; a new one takes its place. *)
UnionSketch ==
  /\ IsFresh(union)
  /\ Merge(sketch, seen)
  /\ sketch' = NewSketch(sketch.k) /\ seen' = {}

(* Another sketch is merged, built from a stream of its own. *)
UnionInput(k, input) ==
  LET pairs == [n \in DOMAIN input |-> Downsampled(input[n], k)]
  IN /\ sketch.coupons = 0 /\ sketch.kxp = sketch.k * 2 ^ NumCols
     /\ Merge(FoldLeft(RowColUpdate, NewSketch(k), pairs), ToSet(pairs))
     /\ UNCHANGED <<sketch, seen>>

TakeResult ==
  /\ ~IsFresh(union)
  /\ sketch' = ToSketch(union) /\ seen' = joined
  /\ \E k \in Ks : union' = NewUnion(k) /\ least' = k
  /\ joined' = {} /\ UNCHANGED merges

Next ==
  \/ \E row \in Rows(sketch.k), col \in Columns : Update(row, col)
  \/ Reload
  \/ UnionSketch
  \/ \E k \in Ks, input \in Inputs : UnionInput(k, input)
  \/ TakeResult

Spec == Init /\ [][Next]_vars

------------------------------------------------------------------------------
(* Properties *)

MatrixOf(pairs, k) == [r \in Rows(k) |-> {c \in Columns : Pair(r, c) \in pairs}]

(* The sketch is exactly the set of pairs it was given, although updates   *)
(* below the first interesting column are skipped, the table changes its   *)
(* meaning when the window moves, and images and union results are         *)
(* rebuilt from the coupon count.  The table stays a set under growth,     *)
(* shrinking and back-shifting deletion, and its items can be taken out.   *)
MatrixExact ==
  /\ BitMatrix(sketch) = MatrixOf(seen, sketch.k)
  /\ sketch.coupons = Cardinality(seen)
  /\ sketch.offset = CorrectOffset(sketch.k, sketch.coupons)
  /\ (sketch.window = None) = ~Past(sketch)
  /\ sketch.table # None => WellFormed(sketch.table)

(* Whatever flavors and ks were merged in whatever order, the union is the *)
(* union of the inputs at the smallest k, and it is an accumulator exactly *)
(* while it is sparse.                                                     *)
UnionExact ==
  /\ union.k = least
  /\ IF Accumulates(union)
     THEN BitMatrix(union.acc) = MatrixOf(joined, least) /\ ~Past(union.acc)
     ELSE /\ union.matrix = MatrixOf(joined, least)
          /\ ~Below(CountBits(union.matrix), union.k, SparseLimit)

(* Every image, whichever fields, places of fields and parts of the        *)
(* payload it has, passes the checks of deserialize and brings the sketch  *)
(* back, but for the layout of its table and the factor of a merged one;   *)
(* and the wrapper reads the same image alike (sketch.rs:476-858,          *)
(* wrapper.rs:48-126).                                                     *)
ReloadLossless ==
  LET image == Serialize(sketch)
      back  == Deserialize(image)
  IN sketch.coupons > 0 =>
       /\ Readable(image)
       /\ Wrapper(image)
            = [k |-> sketch.k, merged |-> sketch.merged, coupons |-> sketch.coupons]
       /\ SlotItems(back.table) = SlotItems(sketch.table)
       /\ back = [sketch EXCEPT !.table = back.table,
                                !.kxp = IF sketch.merged THEN 0 ELSE @]

(* "A pre-calculated probability factor (k * p)" (the field's comment): as *)
(* long as the HIP estimator is used, kxp is k times the probability that  *)
(* an update is new, up to one unit in the last place per row.             *)
KxpIsProbability ==
  ~sketch.merged => sketch.kxp - KxpOf(MatrixOf(seen, sketch.k)) \in 0 .. sketch.k
===============================================================================
