----------------------------- MODULE FrequentItems -----------------------------
(***************************************************************************)
(* The frequent items sketch (frequencies/sketch.rs): a bounded table of   *)
(* counters that is purged by subtracting a sampled median, so that every  *)
(* estimate is off by at most the sum of the subtracted medians, offset.   *)
(*                                                                         *)
(* The hash map is abstracted to the counter of each item, zero standing   *)
(* for an absent key; ReversePurgeMap models the slots and refines this    *)
(* module.  What depends on slot order here is a choice: the counters that *)
(* purge samples and the order in which merge visits the other sketch.     *)
(*                                                                         *)
(* merge borrows both sketches until it returns, so no other call runs     *)
(* between BeginMerge and EndMerge.                                        *)
(*                                                                         *)
(* truth and tolerance are history variables: the weight each item was     *)
(* really given, and the smallest map size whose error a sketch carries.   *)
(***************************************************************************)
EXTENDS Integers, FiniteSets, FiniteSetsExt

CONSTANTS
  Sketches, Items,
  Counts,       \* counts passed to update_with_count
  LgMin,        \* LG_MIN_MAP_SIZE
  LgMax,        \* sketch -> lg of the map size it was built with
  Thresholds,   \* thresholds passed to frequent_items_with_threshold
  SampleSize,   \* SAMPLE_SIZE, which equals the map's MAX_SAMPLE_SIZE
  MaxUpdates,   \* bound on the updates in a behaviour
  MaxMerges     \* bound on the merges in a behaviour

ASSUME ItemsAssumption == IsFiniteSet(Items)
ASSUME CountsAssumption == Counts \subseteq Nat /\ Thresholds \subseteq Nat
ASSUME LgAssumption == LgMin \in Nat \ {0} /\ LgMax \in [Sketches -> Nat]
ASSUME SampleAssumption == SampleSize \in Nat \ {0}
ASSUME BoundsAssumption == MaxUpdates \in Nat /\ MaxMerges \in Nat

VARIABLES
  cnt,        \* sketch -> item -> counter, zero when the item is not tracked
  lgLen,      \* sketch -> lg of the current map size
  offset,     \* sketch -> sum of the medians purged away
  weight,     \* sketch -> stream_weight
  merging,    \* the merge in progress, or Idle
  panicked,   \* a purge removed nothing
  updates, merges,
  truth,      \* history: sketch -> item -> weight given
  tolerance   \* history: sketch -> lg of the smallest map merged into it

sketchVars == <<cnt, lgLen, offset, weight, panicked>>
vars == <<sketchVars, merging, updates, merges, truth, tolerance>>

Idle == [active |-> FALSE]

LgMaxOf(s) == IF LgMax[s] < LgMin THEN LgMin ELSE LgMax[s]

(* That 2 ^ n grows with n, for the map sizes there are.                   *)
ASSUME PowersAssumption ==
  \A s, t \in Sketches :
    /\ 2 ^ LgMaxOf(s) \in Nat
    /\ LgMaxOf(s) <= LgMaxOf(t) => 2 ^ LgMaxOf(s) <= 2 ^ LgMaxOf(t)

MapCapacityForLg(lg) == (2 ^ lg * 3) \div 4

ActiveIn(c) == {i \in Items : c[i] > 0}
NumActive(c) == Cardinality(ActiveIn(c))
NoCounters == [i \in Items |-> 0]

(***************************************************************************)
(* The medians purge can compute for counters c: the element of rank       *)
(* limit / 2 among limit sampled counters.                                 *)
(***************************************************************************)
SampleLimit(s, c) ==
  Min({SampleSize, MapCapacityForLg(LgMaxOf(s)), NumActive(c)})

Medians(s, c) ==
  LET limit == SampleLimit(s, c)
      mid == limit \div 2
  IN {m \in {c[i] : i \in ActiveIn(c)} :
        \E sample \in kSubset(limit, ActiveIn(c)) :
          /\ \E i \in sample : c[i] = m
          /\ Cardinality({i \in sample : c[i] < m}) <= mid
          /\ mid < Cardinality({i \in sample : c[i] <= m})}

Purged(c, m) == [i \in Items |-> IF c[i] > m THEN c[i] - m ELSE 0]

(***************************************************************************)
(* adjust_or_put_value followed by maybe_resize_or_purge.                  *)
(***************************************************************************)
Fits(s, c) ==
  /\ NumActive(c) <= MapCapacityForLg(lgLen[s])
  /\ cnt' = [cnt EXCEPT ![s] = c]
  /\ UNCHANGED <<lgLen, offset, panicked>>

Grow(s, c) ==
  /\ NumActive(c) > MapCapacityForLg(lgLen[s])
  /\ lgLen[s] < LgMaxOf(s)
  /\ cnt' = [cnt EXCEPT ![s] = c]
  /\ lgLen' = [lgLen EXCEPT ![s] = @ + 1]
  /\ UNCHANGED <<offset, panicked>>

Purge(s, c) ==
  /\ NumActive(c) > MapCapacityForLg(lgLen[s])
  /\ lgLen[s] >= LgMaxOf(s)
  /\ \E m \in Medians(s, c) :
       /\ cnt' = [cnt EXCEPT ![s] = Purged(c, m)]
       /\ offset' = [offset EXCEPT ![s] = @ + m]
       /\ panicked' = (NumActive(Purged(c, m)) > MapCapacityForLg(LgMaxOf(s)))
  /\ UNCHANGED lgLen

AdjustOrPutValue(s, i, n) ==
  LET c == [cnt[s] EXCEPT ![i] = @ + n]
  IN Fits(s, c) \/ Grow(s, c) \/ Purge(s, c)

-------------------------------------------------------------------------------

Init ==
  /\ cnt = [s \in Sketches |-> NoCounters]
  /\ lgLen = [s \in Sketches |-> LgMin]
  /\ offset = [s \in Sketches |-> 0]
  /\ weight = [s \in Sketches |-> 0]
  /\ merging = Idle
  /\ panicked = FALSE
  /\ updates = 0
  /\ merges = 0
  /\ truth = [s \in Sketches |-> NoCounters]
  /\ tolerance = [s \in Sketches |-> LgMaxOf(s)]

Ready == ~merging.active /\ ~panicked

UpdateWithCount(s, i, n) ==
  /\ Ready
  /\ updates < MaxUpdates
  /\ updates' = updates + 1
  /\ truth' = [truth EXCEPT ![s][i] = @ + n]
  /\ \/ /\ n = 0
        /\ UNCHANGED sketchVars
     \/ /\ n > 0
        /\ weight' = [weight EXCEPT ![s] = @ + n]
        /\ AdjustOrPutValue(s, i, n)
  /\ UNCHANGED <<merging, merges, tolerance>>

IsInitialState(s) == weight[s] = 0 /\ offset[s] = 0 /\ ActiveIn(cnt[s]) = {}

MergeSkipped(s, t) ==
  /\ Ready
  /\ s # t
  /\ merges < MaxMerges
  /\ IsInitialState(t)
  /\ merges' = merges + 1
  /\ UNCHANGED <<sketchVars, merging, updates, truth, tolerance>>

BeginMerge(s, t) ==
  /\ Ready
  /\ s # t
  /\ merges < MaxMerges
  /\ ~IsInitialState(t)
  /\ merging' = [active |-> TRUE, into |-> s, from |-> t,
                 todo |-> ActiveIn(cnt[t]), total |-> weight[s] + weight[t]]
  /\ merges' = merges + 1
  /\ UNCHANGED <<sketchVars, updates, truth, tolerance>>

(* One turn of merge's loop: update_with_count_ref on self. *)
MergeItem(i) ==
  /\ merging.active /\ ~panicked
  /\ i \in merging.todo
  /\ LET s == merging.into
         n == cnt[merging.from][i]
     IN /\ weight' = [weight EXCEPT ![s] = @ + n]
        /\ AdjustOrPutValue(s, i, n)
  /\ merging' = [merging EXCEPT !.todo = @ \ {i}]
  /\ UNCHANGED <<updates, merges, truth, tolerance>>

(* Fault: the other sketch's offset is not added. *)
EndMergeDropsOffset ==
  /\ merging.active /\ ~panicked
  /\ merging.todo = {}
  /\ LET s == merging.into
         t == merging.from
     IN /\ weight' = [weight EXCEPT ![s] = merging.total]
        /\ truth' = [truth EXCEPT ![s] = [i \in Items |-> @[i] + truth[t][i]]]
        /\ tolerance' = [tolerance EXCEPT ![s] = Min({@, tolerance[t]})]
  /\ merging' = Idle
  /\ UNCHANGED <<cnt, lgLen, offset, panicked, updates, merges>>

EndMerge ==
  /\ merging.active /\ ~panicked
  /\ merging.todo = {}
  /\ LET s == merging.into
         t == merging.from
     IN /\ offset' = [offset EXCEPT ![s] = @ + offset[t]]
        /\ weight' = [weight EXCEPT ![s] = merging.total]
        /\ truth' = [truth EXCEPT ![s] = [i \in Items |-> @[i] + truth[t][i]]]
        /\ tolerance' = [tolerance EXCEPT ![s] = Min({@, tolerance[t]})]
  /\ merging' = Idle
  /\ UNCHANGED <<cnt, lgLen, panicked, updates, merges>>

Reset(s) ==
  /\ Ready
  /\ cnt' = [cnt EXCEPT ![s] = NoCounters]
  /\ lgLen' = [lgLen EXCEPT ![s] = LgMin]
  /\ offset' = [offset EXCEPT ![s] = 0]
  /\ weight' = [weight EXCEPT ![s] = 0]
  /\ truth' = [truth EXCEPT ![s] = NoCounters]
  /\ tolerance' = [tolerance EXCEPT ![s] = LgMaxOf(s)]
  /\ UNCHANGED <<merging, panicked, updates, merges>>

Next ==
  \/ \E s \in Sketches, i \in Items, n \in Counts : UpdateWithCount(s, i, n)
  \/ \E s, t \in Sketches : MergeSkipped(s, t) \/ BeginMerge(s, t)
  \/ \E i \in Items : MergeItem(i)
  \/ EndMerge
  \/ \E s \in Sketches : Reset(s)

Spec == Init /\ [][Next]_vars

-------------------------------------------------------------------------------
(* Queries. *)

LowerBound(s, i) == cnt[s][i]
UpperBound(s, i) == cnt[s][i] + offset[s]
Estimate(s, i) == IF cnt[s][i] > 0 THEN cnt[s][i] + offset[s] ELSE 0

ErrorTypes == {"NoFalseNegatives", "NoFalsePositives"}

(* Fault: both error types compare the lower bound. *)
LowerBoundOnly(s, errorType, threshold) ==
  LET atLeast == IF threshold < offset[s] THEN offset[s] ELSE threshold
  IN {i \in ActiveIn(cnt[s]) : LowerBound(s, i) > atLeast}

FrequentItemsWithThreshold(s, errorType, threshold) ==
  LET atLeast == IF threshold < offset[s] THEN offset[s] ELSE threshold
  IN {i \in ActiveIn(cnt[s]) :
        \/ errorType = "NoFalseNegatives" /\ UpperBound(s, i) > atLeast
        \/ errorType = "NoFalsePositives" /\ LowerBound(s, i) > atLeast}

-------------------------------------------------------------------------------

(* The counters are naturals and the map never exceeds its maximum size.   *)
TypeOK ==
  /\ cnt \in [Sketches -> [Items -> Nat]]
  /\ lgLen \in [Sketches -> Nat]
  /\ \A s \in Sketches : lgLen[s] \in LgMin .. LgMaxOf(s)
  /\ offset \in [Sketches -> Nat]
  /\ weight \in [Sketches -> Nat]
  /\ truth \in [Sketches -> [Items -> Nat]]

(***************************************************************************)
(* The true frequency of every item, tracked or not, lies between          *)
(* lower_bound and upper_bound, after any sequence of updates, purges,     *)
(* merges and resets.  (While merge runs, its target is borrowed.)         *)
(***************************************************************************)
BoundsHold ==
  \A s \in Sketches, i \in Items :
    (merging.active /\ merging.into = s)
      \/ (LowerBound(s, i) <= truth[s][i] /\ truth[s][i] <= UpperBound(s, i))

(***************************************************************************)
(* frequent_items_with_threshold: NoFalseNegatives returns every item      *)
(* whose true frequency exceeds the threshold in force, NoFalsePositives   *)
(* returns only such items.                                                *)
(***************************************************************************)
ListsHonourErrorType ==
  \A s \in Sketches, i \in Items, threshold \in Thresholds :
    (~merging.active /\ threshold >= offset[s]) =>
      /\ truth[s][i] > threshold =>
           i \in FrequentItemsWithThreshold(s, "NoFalseNegatives", threshold)
      /\ i \in FrequentItemsWithThreshold(s, "NoFalsePositives", threshold) =>
           truth[s][i] > threshold

(* The sum of a function over the items. *)
SumItems(f) == MapThenSumSet(LAMBDA i : f[i], Items)

(***************************************************************************)
(* The error is paid for: a purge removes its median from at least half of *)
(* the sampled counters, so offset times that half, plus what is still     *)
(* counted, never exceeds the stream weight.  With the whole map sampled   *)
(* the half is 3/8 of the map size, hence maximum_error <= 3.5 / M * W     *)
(* (frequencies/mod.rs).  A merged sketch has the tolerance of the         *)
(* smallest map merged into it.                                            *)
(***************************************************************************)
ErrorPaidFor ==
  \A s \in Sketches :
    LET limit == Min({SampleSize, MapCapacityForLg(tolerance[s])})
    IN (merging.active /\ merging.into = s)
         \/ offset[s] * (limit - limit \div 2) + SumItems(cnt[s]) <= weight[s]
===============================================================================
