------------------------------- MODULE CpcSketch -------------------------------
(***************************************************************************)
(* The CPC sketch (cpc/sketch.rs): a k by NumCols bit matrix of coupons,   *)
(* kept as a table of pairs while it is sparse, and later as a sliding     *)
(* window of WindowBits columns and a table of surprises: ones behind the  *)
(* window and zeros before it.                                             *)
(*                                                                         *)
(* The real sizes (64 columns, a window of 8, k of at least 16) are        *)
(* constants here; the points where a sketch starts using and then moving  *)
(* its window are those of the code, the two before them are parameters.   *)
(*                                                                         *)
(* kxp, the factor of the HIP estimator, is counted in units of            *)
(* 2^-NumCols.                                                             *)
(***************************************************************************)
EXTENDS PairTable, CpcCodec, FiniteSetsExt

CONSTANTS
  WindowBits,     \* columns of the window (8)
  ColBits,        \* bits of a column number (6)
  SparseLimit,    \* <<n, d>>: sparse below n/d coupons per row (3/32)
  HybridLimit,    \* <<n, d>>: hybrid below n/d coupons per row (1/2)
  Permutation,    \* phase -> surprise column -> encoded column
  None            \* the absent table, window, sketch or matrix

ASSUME ColumnsAssumption ==
  /\ ColSpan = 2 ^ ColBits /\ NumCols <= ColSpan
  /\ WindowBits \in 1 .. NumCols - 1

------------------------------------------------------------------------------
(* Flavors (cpc/mod.rs) *)

Below(coupons, k, limit) == limit[2] * coupons < limit[1] * k

Flavor(k, coupons) ==
  IF coupons = 0 THEN "empty"
  ELSE IF Below(coupons, k, SparseLimit) THEN "sparse"
  ELSE IF Below(coupons, k, HybridLimit) THEN "hybrid"
  ELSE IF Below(coupons, k, <<27, 8>>) THEN "pinned"
  ELSE "sliding"

FlavorOf(sk) == Flavor(sk.k, sk.coupons)

CorrectOffset(k, coupons) ==
  IF 8 * coupons < 19 * k THEN 0 ELSE (8 * coupons - 19 * k) \div (8 * k)

------------------------------------------------------------------------------
(* The fields of a sketch *)

PairBits(k) == ColBits + FloorLog2(k)

Rows(k) == 0 .. k - 1
Columns == 0 .. NumCols - 1

Pair(row, col) == row * ColSpan + col

NewSketch(k) ==
  [k |-> k, fic |-> 0, coupons |-> 0, table |-> None, offset |-> 0,
   window |-> None, merged |-> FALSE, kxp |-> k * 2 ^ NumCols]

WindowColumns(offset) == offset .. offset + WindowBits - 1

(* build_bit_matrix: the early zone is full, then the window is put in and *)
(* every pair of the table flips its bit.                                  *)
BitMatrix(sk) ==
  [r \in Rows(sk.k) |->
     LET early == 0 .. sk.offset - 1
         seen  == IF sk.window = None THEN {}
                  ELSE {c + sk.offset : c \in sk.window[r]}
         flips == {c \in Columns : Pair(r, c) \in SlotItems(sk.table)}
     IN IF sk.coupons = 0 THEN early ELSE SymDiff(early \cup seen, flips)]

CountBits(matrix) == SumFunction([r \in DOMAIN matrix |-> Cardinality(matrix[r])])

(* The window and the surprises of a matrix at an offset, row by row as    *)
(* the code inserts them.                                                  *)
WindowAt(matrix, offset) ==
  [r \in DOMAIN matrix |-> {c - offset : c \in matrix[r] \cap WindowColumns(offset)}]

(* Fault: the zeros of the early zone are not turned into surprises. *)
SurprisesUnflipped(row, offset) == row \ WindowColumns(offset)

Surprises(row, offset) ==
  SymDiff(row \ WindowColumns(offset), 0 .. offset - 1)

InsertSurprises(table, matrix, offset) ==
  FoldLeft(LAMBDA t, pair :
             IF Col(pair) \in Surprises(matrix[Row(pair)], offset) THEN InsertPair(t, pair)
             ELSE t,
           table,
           [n \in 1 .. Cardinality(DOMAIN matrix) * ColSpan |-> n - 1])

(* first_interesting_column: below it every coupon has been seen. *)
FirstInteresting(matrix, offset) ==
  LET all == UNION {Surprises(matrix[r], offset) : r \in DOMAIN matrix}
  IN IF all = {} \/ Min(all) > offset THEN offset ELSE Min(all)

------------------------------------------------------------------------------
(* Updates *)

(* Fault: the column's own probability is taken from the one before it. *)
UpdateHipShifted(sk, pair) ==
  [sk EXCEPT !.coupons = @ + 1, !.kxp = @ - 2 ^ (NumCols - Col(pair))]

(* update_hip of a new coupon; afterwards kxp has lost its probability.    *)
UpdateHip(sk, pair) ==
  [sk EXCEPT !.coupons = @ + 1, !.kxp = @ - 2 ^ (NumCols - (Col(pair) + 1))]

(* refresh_kxp: the chance of a new coupon, without the remainder that     *)
(* lies beyond the last column.                                            *)
KxpOf(matrix) ==
  FoldLeft(+, 0, [n \in 1 .. Cardinality(DOMAIN matrix) |->
                    SumSet({2 ^ (NumCols - (c + 1)) : c \in Columns \ matrix[n - 1]})])

PromoteToWindowed(sk) ==
  LET step(new, pair) ==
        IF Col(pair) < WindowBits
        THEN [new EXCEPT !.window[Row(pair)] = @ \cup {Col(pair)}]
        ELSE [new EXCEPT !.table = InsertPair(@, pair)]
      slots == SelectSeq([i \in 1 .. Size(sk.table) |-> sk.table.slots[i - 1]],
                         LAMBDA item : item # Empty)
  IN FoldLeft(step, [sk EXCEPT !.window = [r \in Rows(sk.k) |-> {}],
                               !.table = NewTable(MinLgSize, PairBits(sk.k))],
              slots)

UpdateSparse(sk, pair) ==
  IF Holds(sk.table, pair) THEN sk
  ELSE LET new == UpdateHip([sk EXCEPT !.table = InsertPair(@, pair)], pair)
       IN IF Below(new.coupons, sk.k, SparseLimit) THEN new ELSE PromoteToWindowed(new)

ClearTable(t) == [t EXCEPT !.numItems = 0, !.slots = [i \in DOMAIN @ |-> Empty]]

MoveWindow(sk) ==
  LET offset == sk.offset + 1
      matrix == BitMatrix(sk)
  IN [sk EXCEPT !.offset = offset,
                !.kxp = IF offset % WindowBits = 0 THEN KxpOf(matrix) ELSE @,
                !.window = WindowAt(matrix, offset),
                !.table = InsertSurprises(ClearTable(@), matrix, offset),
                !.fic = FirstInteresting(matrix, offset)]

(* A coupon before the window is new if its zero is a surprise, one in the *)
(* window if its bit is not set, one behind it if its one is no surprise.  *)
IsNovel(sk, pair) ==
  LET col == Col(pair)
  IN IF col < sk.offset THEN Holds(sk.table, pair)
     ELSE IF col \in WindowColumns(sk.offset)
     THEN col - sk.offset \notin sk.window[Row(pair)]
     ELSE ~Holds(sk.table, pair)

Collect(sk, pair) ==
  LET col == Col(pair)
  IN IF col < sk.offset THEN [sk EXCEPT !.table = DeletePair(@, pair)]
     ELSE IF col \in WindowColumns(sk.offset)
     THEN [sk EXCEPT !.window[Row(pair)] = @ \cup {col - sk.offset}]
     ELSE [sk EXCEPT !.table = InsertPair(@, pair)]

UpdateWindowed(sk, pair) ==
  IF ~IsNovel(sk, pair) THEN sk
  ELSE LET new == UpdateHip(Collect(sk, pair), pair)
       IN IF 8 * new.coupons >= (27 + 8 * sk.offset) * sk.k THEN MoveWindow(new) ELSE new

(* row_col_update *)
RowColUpdate(sk, pair) ==
  LET ready == IF sk.coupons = 0
               THEN [sk EXCEPT !.table = NewTable(MinLgSize, PairBits(sk.k))] ELSE sk
  IN IF Col(pair) < sk.fic THEN sk
     ELSE IF sk.window = None THEN UpdateSparse(ready, pair)
     ELSE UpdateWindowed(ready, pair)
===============================================================================
