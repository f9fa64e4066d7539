------------------------------- MODULE CountMin -------------------------------
(***************************************************************************)
(* The CountMin sketch (countmin/sketch.rs): one row of counters for each  *)
(* hash function, an estimate that is the smallest counter of an item, and *)
(* a total weight that stands for "empty" when it is zero.                 *)
(*                                                                         *)
(* truth is a history variable: the weight given to each item, merged,     *)
(* halved and decayed with the sketch.  Rust's + panics or wraps past the  *)
(* value type's maximum; updates and merges here stop at that point        *)
(* (MaxValue bounds total_weight, which no counter exceeds: its weights    *)
(* are part of the total's).  The names of the specification start with    *)
(* Count, so that it can stand beside the other sketches'.                 *)
(***************************************************************************)
EXTENDS Integers, FiniteSetsExt

CONSTANTS
  Sketches,      \* sketches of one configuration (merge asserts they agree)
  Elements, Rows, NumBuckets,
  Bucket,        \* row -> item -> bucket, the hash
  Weights,       \* weights passed to update_with_weight
  Decays,        \* decay factors <<numerator, denominator>>
  MaxValue       \* the value type's maximum

ASSUME RowsAssumption == Rows # {} /\ IsFiniteSet(Rows)
ASSUME BucketAssumption ==
  NumBuckets \in Nat /\ Bucket \in [Rows -> [Elements -> 0 .. NumBuckets - 1]]
ASSUME WeightsAssumption == Weights \subseteq Int
ASSUME DecaysAssumption ==
  \A d \in Decays : d[1] \in Nat \ {0} /\ d[2] \in Nat \ {0} /\ d[1] <= d[2]
ASSUME MaxValueAssumption == MaxValue \in Nat

VARIABLES
  unsigned,  \* is the value type unsigned?  Fixed when the sketch is made
  counts,    \* sketch -> row -> bucket -> counter
  total,     \* sketch -> total_weight
  truth      \* history: sketch -> item -> weight

countVars == <<unsigned, counts, total, truth>>

Buckets == 0 .. NumBuckets - 1

Abs(w) == IF w >= 0 THEN w ELSE -w

(* scale: multiply in floating point, then truncate towards zero; for the  *)
(* unsigned values that decay applies to.                                  *)
Scale(v, d) == (v * d[1]) \div d[2]

ZeroCounts == [r \in Rows |-> [b \in Buckets |-> 0]]

CountInit ==
  /\ unsigned \in BOOLEAN
  /\ counts = [s \in Sketches |-> ZeroCounts]
  /\ total = [s \in Sketches |-> 0]
  /\ truth = [s \in Sketches |-> [i \in Elements |-> 0]]

UpdateWithWeight(s, i, w) ==
  /\ w # 0 /\ (unsigned => w > 0)
  /\ total[s] + Abs(w) <= MaxValue
  /\ total' = [total EXCEPT ![s] = @ + Abs(w)]
  /\ counts' = [counts EXCEPT ![s] =
                  [r \in Rows |-> [b \in Buckets |->
                     IF b = Bucket[r][i] THEN @[r][b] + w ELSE @[r][b]]]]
  /\ truth' = [truth EXCEPT ![s] =
                 [j \in Elements |-> IF j = i THEN @[j] + w ELSE @[j]]]
  /\ UNCHANGED unsigned

(* Fault: counters are maximised, as in sketches that keep maxima. *)
MergeMaxima(s, t) ==
  /\ s # t
  /\ total[s] + total[t] <= MaxValue
  /\ counts' = [counts EXCEPT ![s] =
                  [r \in Rows |-> [b \in Buckets |-> Max({@[r][b], counts[t][r][b]})]]]
  /\ total' = [total EXCEPT ![s] = @ + total[t]]
  /\ truth' = [truth EXCEPT ![s] = [i \in Elements |-> @[i] + truth[t][i]]]
  /\ UNCHANGED unsigned

Merge(s, t) ==
  /\ s # t
  /\ total[s] + total[t] <= MaxValue
  /\ counts' = [counts EXCEPT ![s] =
                  [r \in Rows |-> [b \in Buckets |-> @[r][b] + counts[t][r][b]]]]
  /\ total' = [total EXCEPT ![s] = @ + total[t]]
  /\ truth' = [truth EXCEPT ![s] = [i \in Elements |-> @[i] + truth[t][i]]]
  /\ UNCHANGED unsigned

(* halve and decay, which only unsigned values have, apply one rounding    *)
(* function to every counter.                                              *)
Halve(s) ==
  /\ unsigned
  /\ counts' = [counts EXCEPT ![s] =
                  [r \in Rows |-> [b \in Buckets |-> @[r][b] \div 2]]]
  /\ total' = [total EXCEPT ![s] = @ \div 2]
  /\ truth' = [truth EXCEPT ![s] = [i \in Elements |-> @[i] \div 2]]
  /\ UNCHANGED unsigned

Decay(s, d) ==
  /\ unsigned
  /\ counts' = [counts EXCEPT ![s] =
                  [r \in Rows |-> [b \in Buckets |-> Scale(@[r][b], d)]]]
  /\ total' = [total EXCEPT ![s] = Scale(@, d)]
  /\ truth' = [truth EXCEPT ![s] = [i \in Elements |-> Scale(@[i], d)]]
  /\ UNCHANGED unsigned

(* Fault: weights that cancel out count as empty. *)
ReloadNetZero(s) ==
  /\ LET net(r) == MapThenSumSet(LAMBDA b : counts[s][r][b], Buckets)
     IN counts' = [counts EXCEPT ![s] =
                     IF \A r \in Rows : net(r) = 0 THEN ZeroCounts ELSE @]
  /\ UNCHANGED <<unsigned, total, truth>>

(* serialize and deserialize: an image with zero total weight is flagged   *)
(* empty and carries no counters.                                          *)
ReloadSketch(s) ==
  /\ counts' = [counts EXCEPT ![s] = IF total[s] = 0 THEN ZeroCounts ELSE @]
  /\ UNCHANGED <<unsigned, total, truth>>

CountNext ==
  \/ \E s \in Sketches, i \in Elements, w \in Weights : UpdateWithWeight(s, i, w)
  \/ \E s, t \in Sketches : Merge(s, t)
  \/ \E s \in Sketches : Halve(s) \/ ReloadSketch(s)
  \/ \E s \in Sketches, d \in Decays : Decay(s, d)

CountSpec == CountInit /\ [][CountNext]_countVars

-------------------------------------------------------------------------------

Estimate(s, i) == Min({counts[s][r][Bucket[r][i]] : r \in Rows})

CountTypeOK ==
  /\ unsigned \in BOOLEAN
  /\ counts \in [Sketches -> [Rows -> [Buckets -> Int]]]
  /\ total \in [Sketches -> 0 .. MaxValue]
  /\ truth \in [Sketches -> [Elements -> Int]]

(***************************************************************************)
(* With unsigned counters the estimate of an item is never below the       *)
(* weight it was given, whatever collides with it, and through merges,     *)
(* halving and decay, whose roundings could favour either side.            *)
(***************************************************************************)
NeverUnderestimates ==
  unsigned =>
    \A s \in Sketches, i \in Elements : truth[s][i] <= Estimate(s, i)

(* An image read back holds the counters written.  One of total weight 0   *)
(* carries none, so the counters must then all be 0: with signed weights   *)
(* that cancel, and after halving and decaying, which round each counter   *)
(* and the total on their own.                                             *)
CountReloadLossless ==
  [][\A s \in Sketches : ReloadSketch(s) => UNCHANGED counts]_countVars
===============================================================================
