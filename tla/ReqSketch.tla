------------------------------ MODULE ReqSketch ------------------------------
(***************************************************************************)
(* The REQ quantiles sketch (req/sketch.rs) and its union (req/union.rs, a *)
(* sketch that only merges): a sequence of compactors, one per level,      *)
(* updated, compressed, merged, reset, and written to and read from an     *)
(* image; and its queries, directly and through the sorted view            *)
(* (req/sorted_view.rs).                                                   *)
(*                                                                         *)
(* Only comparisons of items decide what is kept, so for a threshold query *)
(* two values, one on each side, stand for all.                            *)
(***************************************************************************)
EXTENDS ReqCompactor, FiniteSetsExt

CONSTANTS
  Ks,           \* the ks a sketch may be built with
  Values,       \* the items
  RawItems,     \* RAW_ITEMS_THRESHOLD
  Inputs,       \* the streams of the sketches that are merged in
  MaxStream,    \* bound on the length of the stream
  None          \* no item: min_item and max_item of an empty sketch

ASSUME KsAssumption ==
  Ks \subseteq Nat /\ \A k \in Ks : k >= MinK /\ k % 2 = 0
ASSUME ValuesAssumption == Values \subseteq Int /\ None \notin Int

VARIABLES
  sketch,   \* the fields of the sketch, or of the sketch in a union
  stream,   \* history: value -> how often it was given to the sketch
  finest    \* history: the smallest k among the sketch and its inputs

vars == <<sketch, stream, finest>>

------------------------------------------------------------------------------
(* Fields and caches *)

TotalOf(levels, f(_)) == FoldLeft(LAMBDA sum, c : sum + f(c), 0, levels)

(* update_max_nom_size and update_num_retained. *)
UpdateMaxNomSize(sk) == [sk EXCEPT !.maxNom = TotalOf(sk.levels, NominalCapacity)]
UpdateNumRetained(sk) ==
  [sk EXCEPT !.retained = TotalOf(sk.levels, LAMBDA c : Len(c.items))]

Grow(sk) == UpdateMaxNomSize([sk EXCEPT !.levels = Append(@, Compactor(sk.k))])

NewSketch(k, hra) ==
  Grow([k |-> k, hra |-> hra, n |-> 0, levels |-> <<>>, retained |-> 0, maxNom |-> 0,
        min |-> None, max |-> None])

Weight(h) == 2 ^ (h - 1)

WeightedCount(sk) ==
  FoldLeftDomain(LAMBDA sum, h : sum + Len(sk.levels[h].items) * Weight(h), 0, sk.levels)

Lower(a, b) == IF a = None THEN b ELSE IF b # None /\ b < a THEN b ELSE a
Higher(a, b) == IF a = None THEN b ELSE IF b # None /\ b > a THEN b ELSE a

------------------------------------------------------------------------------
(* compress: every level that was there when it started and has reached    *)
(* its capacity is compacted into the next one; coins are the random bits. *)

CompressLevel(sk, h, coins) ==
  IF Len(sk.levels[h].items) < NominalCapacity(sk.levels[h]) THEN sk
  ELSE LET grown == IF h = Len(sk.levels) THEN Grow(sk) ELSE sk
           done  == CompactInto(sk.levels[h], sk.hra, coins[h], sk.k)
           above == IF done.promoted = <<>> THEN grown.levels[h + 1]
                    ELSE MergeSorted(SortItems(grown.levels[h + 1]), done.promoted)
       IN UpdateNumRetained(UpdateMaxNomSize(
            [grown EXCEPT !.levels[h] = done.compactor, !.levels[h + 1] = above]))

Compress(sk, coins) ==
  FoldLeftDomain(LAMBDA s, h : CompressLevel(s, h, coins), sk, sk.levels)

CompressIfFull(sk, coins) ==
  IF sk.retained >= sk.maxNom THEN Compress(sk, coins) ELSE sk

------------------------------------------------------------------------------
(* Operations *)

Updated(sk, x, coins) ==
  CompressIfFull([sk EXCEPT !.min = Lower(@, x), !.max = Higher(@, x),
                            !.levels[1] = AppendItem(@, x),
                            !.n = @ + 1, !.retained = @ + 1], coins)

(* Levels the receiver lacks are grown first, with its own k. *)
GrowTo(sk, levels) == FoldLeftDomain(LAMBDA s, h : IF Len(s.levels) < h THEN Grow(s) ELSE s,
                                     sk, levels)

MergedLevels(sk, other) ==
  LET grown == GrowTo(sk, other.levels)
  IN [grown EXCEPT !.levels =
        [h \in DOMAIN @ |-> IF h \in DOMAIN other.levels
                            THEN MergeCompactor(@[h], other.levels[h], sk.k) ELSE @[h]]]

Merged(sk, other, coins) ==
  LET joined == [MergedLevels(sk, other) EXCEPT !.n = @ + other.n,
                   !.min = Lower(@, other.min), !.max = Higher(@, other.max)]
  IN CompressIfFull(UpdateNumRetained(UpdateMaxNomSize(joined)), coins)

(* The random bits compress may draw, one for each level it meets. *)
Coins(sk) == [DOMAIN sk.levels -> BOOLEAN]

Init ==
  /\ \E k \in Ks, hra \in BOOLEAN : sketch = NewSketch(k, hra) /\ finest = k
  /\ stream = [x \in Values |-> 0]

(* The order of the items of a buffer that is marked unsorted is never     *)
(* looked at, so one order, a descending one, stands for all of them.      *)
Arrives(x) == ~sketch.levels[1].sorted => x <= Last(sketch.levels[1].items)

Update(x) ==
  /\ sketch.n < MaxStream /\ Arrives(x)
  /\ \E coins \in Coins(sketch) : sketch' = Updated(sketch, x, coins)
  /\ stream' = [stream EXCEPT ![x] = @ + 1]
  /\ UNCHANGED finest

(* Another sketch of the same rank accuracy, as it is after a stream. *)
Built(k, input, coin) ==
  FoldLeft(LAMBDA sk, x : Updated(sk, x, [h \in DOMAIN sk.levels |-> coin]),
           NewSketch(k, sketch.hra), input)

Occurrences(input) == [x \in Values |-> Cardinality({i \in DOMAIN input : input[i] = x})]

(* merge; different rank accuracies are refused before anything changes    *)
(* and an empty argument changes nothing.                                  *)
MergeFrom(other, given, k) ==
  /\ sketch.n + other.n <= MaxStream
  /\ \E coins \in Coins(GrowTo(sketch, other.levels)) :
       sketch' = Merged(sketch, other, coins)
  /\ stream' = [x \in Values |-> stream[x] + given[x]]
  /\ finest' = Smaller(finest, k)

Merge(k, input) ==
  \E coin \in BOOLEAN : MergeFrom(Built(k, input, coin), Occurrences(input), k)

(* A clone of the sketch, or what to_sketch of the union returned. *)
MergeClone == sketch.n > 0 /\ MergeFrom(sketch, stream, finest)

Reset ==
  /\ sketch.n > 0
  /\ sketch' = NewSketch(sketch.k, sketch.hra)
  /\ stream' = [x \in Values |-> 0]
  /\ finest' = sketch.k

------------------------------------------------------------------------------
(* Images *)

IsRaw(sk) == sk.n <= RawItems /\ Len(sk.levels) = 1

(* serialize: the coin, the cached totals, and for a single level n, min   *)
(* and max are not written; a small sketch is written as bare items.       *)
Image(sk) ==
  [k |-> sk.k, hra |-> sk.hra, empty |-> sk.n = 0, raw |-> IsRaw(sk),
   zeroSorted |-> sk.levels[1].sorted,
   n   |-> IF Len(sk.levels) > 1 THEN sk.n ELSE None,
   min |-> IF Len(sk.levels) > 1 THEN sk.min ELSE None,
   max |-> IF Len(sk.levels) > 1 THEN sk.max ELSE None,
   levels |-> IF sk.n = 0 THEN <<>>
              ELSE [h \in DOMAIN sk.levels |->
                      [state    |-> IF IsRaw(sk) THEN None ELSE sk.levels[h].state,
                       halvings |-> IF IsRaw(sk) THEN None ELSE sk.levels[h].halvings,
                       sections |-> IF IsRaw(sk) THEN None ELSE sk.levels[h].sections,
                       items    |-> sk.levels[h].items]]]

(* raw_items_compactor, or Compactor::deserialize; a claim to be sorted is *)
(* only kept when it is true, and levels above the first always claim it.  *)
LevelFromImage(img, h) ==
  LET level == img.levels[h]
      read  == [Compactor(img.k) EXCEPT !.items = level.items,
                  !.sorted = (h > 1 \/ img.zeroSorted) /\ IsAscending(level.items)]
  IN IF img.raw THEN read
     ELSE [read EXCEPT !.state = level.state, !.halvings = level.halvings,
             !.sections = level.sections, !.size = SectionSize(img.k, level.halvings)]

(* Fault: a doubling is taken to need a counter beyond the threshold. *)
SectionsBeyondThreshold(state, sections) ==
  \E d \in 0 .. sections :
    /\ sections = InitialSections * 2 ^ d
    /\ \A e \in 0 .. d - 1 : state > 2 ^ (InitialSections * 2 ^ e - 1)

(* has_reachable_section_count and the rest of validate_compactor_state. *)
ReachableSections(state, sections) ==
  \E d \in 0 .. sections :
    /\ sections = InitialSections * 2 ^ d
    /\ \A e \in 0 .. d - 1 : state >= 2 ^ (InitialSections * 2 ^ e - 1)

LayoutAccepted(img, h) ==
  LET c == LevelFromImage(img, h)
  IN MinK <= c.size /\ c.size <= img.k /\ ReachableSections(c.state, c.sections)

FromImage(img) ==
  LET levels == [h \in DOMAIN img.levels |-> LevelFromImage(img, h)]
      items  == levels[1].items
      single == Len(levels) = 1
      n      == IF single THEN Len(items) ELSE img.n
  IN UpdateNumRetained(UpdateMaxNomSize(
       [NewSketch(img.k, img.hra) EXCEPT !.n = n, !.levels = levels,
          !.min = IF single THEN FoldLeft(Lower, None, items) ELSE img.min,
          !.max = IF single THEN FoldLeft(Higher, None, items) ELSE img.max]))

(* The checks of deserialize that depend on the sketch's state. *)
Accepted(img) ==
  ~img.empty =>
     LET sk == FromImage(img)
     IN /\ \A h \in DOMAIN img.levels : img.raw \/ LayoutAccepted(img, h)
        /\ Len(sk.levels) > 1 => sk.min <= sk.max
        /\ sk.n > 0 /\ sk.min # None /\ sk.max # None
        /\ img.raw = (Len(sk.levels) = 1 /\ sk.n <= RawItems)
        /\ WeightedCount(sk) = sk.n

Deserialize(img) == IF img.empty THEN NewSketch(img.k, img.hra) ELSE FromImage(img)

Reload ==
  /\ Accepted(Image(sketch))
  /\ sketch' = Deserialize(Image(sketch))
  /\ UNCHANGED <<stream, finest>>

Next ==
  \/ \E x \in Values : Update(x)
  \/ \E k \in Ks, input \in Inputs : Merge(k, input)
  \/ MergeClone
  \/ Reset
  \/ Reload

Spec == Init /\ [][Next]_vars

------------------------------------------------------------------------------
(* Queries *)

(* rank before it is divided by n. *)
RankWeight(sk, x, inclusive) ==
  FoldLeftDomain(LAMBDA sum, h : sum + CountBelow(sk.levels[h], x, inclusive) * Weight(h),
                 0, sk.levels)

WeightedItems(sk) ==
  FoldLeftDomain(LAMBDA out, h : out \o [i \in DOMAIN sk.levels[h].items |->
                                           <<sk.levels[h].items[i], Weight(h)>>],
                 <<>>, sk.levels)

(* SortedView::new: items in order, equal ones joined, with cumulative     *)
(* weights.                                                                *)
SortedView(sk) ==
  LET add(view, pair) ==
        LET total == (IF view = <<>> THEN 0 ELSE Last(view)[2]) + pair[2]
        IN IF view # <<>> /\ Last(view)[1] = pair[1]
           THEN Append(Front(view), <<pair[1], total>>)
           ELSE Append(view, <<pair[1], total>>)
  IN FoldLeft(add, <<>>, SortSeq(WeightedItems(sk), LAMBDA p, q : p[1] < q[1]))

(* SortedView::rank: the cumulative weight before the partition point. *)
ViewRankWeight(view, x, inclusive) ==
  LET pos == Cardinality({i \in DOMAIN view : IF inclusive THEN view[i][1] <= x
                                                           ELSE view[i][1] < x})
  IN IF pos = 0 THEN 0 ELSE view[pos][2]

(* Fault: the target is rounded down for both criteria. *)
TargetWeightFloor(total, num, den, inclusive) == (num * total) \div den

(* The cumulative weight the rank num/den asks for: ceil or a truncation.  *)
TargetWeight(total, num, den, inclusive) ==
  IF inclusive THEN (num * total + den - 1) \div den ELSE (num * total) \div den

(* SortedView::quantile: the first item whose cumulative weight reaches    *)
(* the target (passes it, if exclusive), and the outermost items for the   *)
(* ranks 0 and 1 and where no item is found.                               *)
Quantile(view, num, den, inclusive) ==
  LET target  == TargetWeight(Last(view)[2], num, den, inclusive)
      skipped == {i \in DOMAIN view : IF inclusive THEN view[i][2] < target
                                                   ELSE view[i][2] <= target}
  IN CASE num = 0   -> Head(view)[1]
       [] num = den -> Last(view)[1]
       [] OTHER     -> view[Smaller(Cardinality(skipped) + 1, Len(view))][1]

(* is_exact_rank_threshold of a rank whose weight is w, for a sketch whose *)
(* base level protects base items.                                         *)
ClaimedExact(sk, w, k) ==
  LET base == k * InitialSections
  IN \/ Len(sk.levels) = 1
     \/ sk.n <= base
     \/ IF sk.hra THEN w >= sk.n - base ELSE w <= base

------------------------------------------------------------------------------
(* Properties *)

TrueRankWeight(x, inclusive) ==
  SumFunctionOnSet(stream, {y \in Values : IF inclusive THEN y <= x ELSE y < x})

(* n, the weights of the retained items, both cached totals, min and max   *)
(* agree with the stream after every update, merge, reset and reload,      *)
(* although each of them is kept up by different code.  No update or merge *)
(* ends with as many items as the levels' capacities allow, whatever       *)
(* became of the layout.                                                   *)
AccountsExact ==
  LET seen == {x \in Values : stream[x] > 0}
  IN /\ sketch.n = SumFunction(stream) /\ WeightedCount(sketch) = sketch.n
     /\ UpdateNumRetained(UpdateMaxNomSize(sketch)) = sketch
     /\ sketch.retained < sketch.maxNom
     /\ sketch.min = IF seen = {} THEN None ELSE CHOOSE x \in seen : \A y \in seen : x <= y
     /\ sketch.max = IF seen = {} THEN None ELSE CHOOSE x \in seen : \A y \in seen : x >= y

(* rank, which trusts each level's sorted flag, answers what the sorted    *)
(* view answers (the doc comment of rank), and quantile, which searches    *)
(* the view's cumulative weights, is its inverse: the quantile of a rank   *)
(* is at most x when the rank of x reaches it (sorted_view.rs:113-199).    *)
RankMatchesView ==
  LET view == SortedView(sketch)
      n    == sketch.n
  IN \A x \in Values :
       /\ \A inclusive \in BOOLEAN :
            RankWeight(sketch, x, inclusive) = ViewRankWeight(view, x, inclusive)
       /\ LET w == RankWeight(sketch, x, TRUE)
          IN /\ \A num \in 1 .. 2 * n :
                  Quantile(view, num, 2 * n, TRUE) <= x <=> 2 * w >= num
             /\ \A num \in 0 .. 2 * n - 1 :
                  Quantile(view, num, 2 * n, FALSE) <= x <=> 2 * w > num

(* Compactions, however they are scheduled and merged, never touch the     *)
(* protected end: a rank that is_exact_rank_threshold calls exact, for the *)
(* smallest k merged in, is answered exactly.                              *)
ExactTail ==
  \A x \in Values, inclusive \in BOOLEAN :
    ClaimedExact(sketch, TrueRankWeight(x, inclusive), finest)
      => RankWeight(sketch, x, inclusive) = TrueRankWeight(x, inclusive)

(* Every image the sketch writes passes deserialize's checks and brings    *)
(* everything back but the coins.                                          *)
ReloadLossless ==
  /\ Accepted(Image(sketch))
  /\ Deserialize(Image(sketch))
       = [sketch EXCEPT !.levels = [h \in DOMAIN @ |-> [@[h] EXCEPT !.coin = FALSE]]]
===============================================================================
