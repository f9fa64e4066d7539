---------------------------- MODULE ReversePurgeMap ----------------------------
(***************************************************************************)
(* The linear-probing map behind the frequent items sketch                 *)
(* (frequencies/reverse_purge_item_hash_map.rs), driven as                 *)
(* frequencies/sketch.rs drives it: update, purge, growth, merge in the    *)
(* order of the iterator, reset and a round trip through serialize and     *)
(* deserialize.                                                            *)
(*                                                                         *)
(* The variables of FrequentItems are kept up to date with what the slots  *)
(* hold, so that its properties are checked of this machine, and           *)
(* ImplementsFrequentItems says that each step is one of its own.          *)
(*                                                                         *)
(* Items are numbered in the order in which they first arrive; home, the   *)
(* hash of each item, is fixed for a behaviour and chosen in Init.         *)
(***************************************************************************)
EXTENDS FrequentItems

CONSTANTS
  Homes,        \* the hash assignments to explore: functions from Items to Nat
  CountsOf,     \* item -> the members of Counts it is given
  MaxRepeats    \* bound on the updates of an item that has arrived before

ASSUME HomesAssumption ==
  Homes \subseteq [Items -> Nat] /\ MaxRepeats \in Nat /\ CountsOf \in [Items -> SUBSET Counts]

VARIABLES
  home,      \* item -> hash
  map        \* sketch -> keys, values, states, numActive of its hash map

slotVars == <<vars, home, map>>

Free == 0   \* the state and the key of a free slot; a taken one has its probe count

ASSUME FreeAssumption == Free \notin Items

(* LG_MIN_MAP_SIZE is 3, and the powers of two of the map sizes there are. *)
ASSUME SizesAssumption ==
  \A s \in Sketches :
    /\ LgMaxOf(s) \in Nat /\ 2 ^ LgMaxOf(s) >= 8
    /\ \A lg \in 0 .. LgMaxOf(s) : 2 ^ lg \in Nat \ {0} /\ 2 ^ (lg + 1) = 2 * 2 ^ lg

Slots(lg) == 0 .. 2 ^ lg - 1
Size(m) == 2 ^ m.lgLength

EmptyMap(lg) ==
  [lgLength  |-> lg,
   keys      |-> [p \in Slots(lg) |-> Free],
   values    |-> [p \in Slots(lg) |-> 0],
   states    |-> [p \in Slots(lg) |-> Free],
   numActive |-> 0]

LoadThreshold(m) == MapCapacityForLg(m.lgLength)
Taken(m) == {p \in Slots(m.lgLength) : m.states[p] # Free}
After(m, p, d) == (p + d) % Size(m)

(***************************************************************************)
(* find_probe_or_empty: the drift at which the walk from the item's home   *)
(* slot stops, at a free slot or at the item.  A full map without the item *)
(* would be walked for ever: Stuck.                                        *)
(***************************************************************************)
Stuck == 0
SlotAt(m, i, drift) == After(m, home[i], drift - 1)
StopsAt(m, i, drift) ==
  LET p == SlotAt(m, i, drift) IN m.states[p] = Free \/ m.keys[p] = i

FindProbeOrEmpty(m, i) ==
  IF \A d \in 1 .. Size(m) : ~StopsAt(m, i, d) THEN Stuck
  ELSE CHOOSE d \in 1 .. Size(m) :
         StopsAt(m, i, d) /\ \A e \in 1 .. d - 1 : ~StopsAt(m, i, e)

Get(m, i) ==
  LET drift == FindProbeOrEmpty(m, i)
      p == SlotAt(m, i, drift)
  IN IF drift = Stuck \/ m.states[p] = Free THEN 0 ELSE m.values[p]

AdjustOrPutSlot(m, i, n) ==
  LET drift == FindProbeOrEmpty(m, i)
      p == SlotAt(m, i, drift)
  IN IF m.states[p] # Free
     THEN [m EXCEPT !.values = [m.values EXCEPT ![p] = @ + n]]
     ELSE [lgLength  |-> m.lgLength,
           keys      |-> [m.keys EXCEPT ![p] = i],
           values    |-> [m.values EXCEPT ![p] = n],
           states    |-> [m.states EXCEPT ![p] = drift],
           numActive |-> m.numActive + 1]

(***************************************************************************)
(* hash_delete: free the slot, then walk the rest of its cluster and move  *)
(* into the hole every entry that has drifted at least as far as the hole  *)
(* is away; the hole moves with it.  The walk changes no slot it has still *)
(* to look at, so it ends where the cluster ends.                          *)
(***************************************************************************)
ClusterAfter(m, p) ==
  CHOOSE n \in Slots(m.lgLength) :
    /\ m.states[After(m, p, n + 1)] = Free
    /\ \A d \in 1 .. n : m.states[After(m, p, d)] # Free

FreeSlot(m, p) ==
  [m EXCEPT !.keys   = [m.keys EXCEPT ![p] = Free],
            !.states = [m.states EXCEPT ![p] = Free]]

MoveEntry(m, p, hole, drift) ==
  [m EXCEPT !.keys   = [m.keys EXCEPT ![hole] = m.keys[p], ![p] = Free],
            !.values = [m.values EXCEPT ![hole] = m.values[p]],
            !.states = [m.states EXCEPT ![hole] = m.states[p] - drift, ![p] = Free]]

(* One turn of the loop: w holds the map, the hole and the drift. *)
CloseStep(w) ==
  LET p == After(w.map, w.hole, w.drift)
  IN IF w.map.states[p] > w.drift
     THEN [map |-> MoveEntry(w.map, p, w.hole, w.drift), hole |-> p, drift |-> 1]
     ELSE [w EXCEPT !.drift = @ + 1]

(* Fault: the slot is freed and the rest of its cluster left in place. *)
DeleteOnly(m, p) == FreeSlot(m, p)

HashDelete(m, p) ==
  LET cluster == ClusterAfter(m, p)
      walk[n \in 0 .. cluster] ==
        IF n = 0 THEN [map |-> FreeSlot(m, p), hole |-> p, drift |-> 1]
        ELSE CloseStep(walk[n - 1])
  IN walk[cluster].map

(* From the last free slot backwards, then from the end back to it. *)
DropZero(m, p) ==
  IF m.states[p] # Free /\ m.values[p] = 0
  THEN [HashDelete(m, p) EXCEPT !.numActive = @ - 1]
  ELSE m

KeepOnlyPositiveCounts(m) ==
  LET first == Max(Slots(m.lgLength) \ Taken(m))
      kept[n \in 0 .. Size(m)] ==
        IF n = 0 THEN m ELSE DropZero(kept[n - 1], After(m, first, Size(m) - n))
  IN kept[Size(m)]

AdjustAllValuesBy(m, d) ==
  [m EXCEPT !.values = [p \in Slots(m.lgLength) |->
                          IF m.values[p] > d THEN m.values[p] - d ELSE 0]]

(***************************************************************************)
(* purge: the first counters in slot order, and the one of them that       *)
(* select_nth_unstable puts at the middle.                                 *)
(***************************************************************************)
Sampled(m, sampleSize) ==
  LET limit == Min({sampleSize, m.numActive, SampleSize})
  IN {p \in Taken(m) : Cardinality({q \in Taken(m) : q < p}) < limit}

HasRank(m, sample, v, rank) ==
  /\ Cardinality({p \in sample : m.values[p] < v}) <= rank
  /\ rank < Cardinality({p \in sample : m.values[p] <= v})

(* Fault: the rank below the middle one. *)
BelowMedian(m, sampleSize) ==
  LET sample == Sampled(m, sampleSize)
  IN CHOOSE v \in {m.values[p] : p \in sample} :
       HasRank(m, sample, v, (Cardinality(sample) \div 2) - 1)

(* Fault: the largest of the sample. *)
LargestOf(m, sampleSize) == Max({m.values[p] : p \in Sampled(m, sampleSize)})

MedianOf(m, sampleSize) ==
  LET sample == Sampled(m, sampleSize)
  IN CHOOSE v \in {m.values[p] : p \in sample} :
       HasRank(m, sample, v, Cardinality(sample) \div 2)

(* Re-insert the active entries of m, in slot order, into an empty map. *)
CopyInto(empty, m) ==
  LET copied[n \in 0 .. Size(m)] ==
        IF n = 0 THEN empty
        ELSE IF m.states[n - 1] = Free THEN copied[n - 1]
        ELSE AdjustOrPutSlot(copied[n - 1], m.keys[n - 1], m.values[n - 1])
  IN copied[Size(m)]

Resize(m) == CopyInto(EmptyMap(m.lgLength + 1), m)

(***************************************************************************)
(* The iterator: slots 0, stride, 2 * stride, ... until numActive entries  *)
(* have been yielded.  The stride is the golden section of the size, made  *)
(* odd.  Yielding is at which steps of one turn round the table it yields. *)
(***************************************************************************)
Stride(m) ==
  LET golden == (Size(m) * 61803) \div 100000
  IN IF golden % 2 = 0 THEN golden + 1 ELSE golden

Visited(m, j) == After(m, 0, j * Stride(m))

Yielding(m) ==
  LET hits == {j \in Slots(m.lgLength) : m.states[Visited(m, j)] # Free}
  IN {j \in hits : Cardinality({h \in hits : h < j}) < m.numActive}

KeyAt(m, j) == m.keys[Visited(m, j)]

-------------------------------------------------------------------------------

(* The counters the slots hold. *)
CountersIn(m) ==
  [i \in Items |-> IF \E p \in Taken(m) : m.keys[p] = i
                   THEN m.values[CHOOSE p \in Taken(m) : m.keys[p] = i]
                   ELSE 0]

Becomes(s, m) ==
  /\ map' = [map EXCEPT ![s] = m]
  /\ cnt' = [cnt EXCEPT ![s] = CountersIn(m)]
  /\ lgLen' = [lgLen EXCEPT ![s] = m.lgLength]

SlotInit ==
  /\ Init
  /\ home \in Homes
  /\ map = [s \in Sketches |-> EmptyMap(LgMin)]

(* maybe_resize_or_purge of map m.  A map without a free slot makes        *)
(* keep_only_positive_counts run off the front of its arrays.              *)
MaybeResizeOrPurge(s, m) ==
  LET cap    == MapCapacityForLg(LgMaxOf(s))
      median == MedianOf(m, Min({SampleSize, cap}))
      purged == KeepOnlyPositiveCounts(AdjustAllValuesBy(m, median))
  IN \/ /\ m.numActive <= LoadThreshold(m)
        /\ Becomes(s, m)
        /\ UNCHANGED <<offset, panicked>>
     \/ /\ m.numActive > LoadThreshold(m)
        /\ m.lgLength < LgMaxOf(s)
        /\ Becomes(s, Resize(m))
        /\ UNCHANGED <<offset, panicked>>
     \/ /\ m.numActive > LoadThreshold(m)
        /\ m.lgLength >= LgMaxOf(s)
        /\ Cardinality(Taken(m)) < Size(m)
        /\ Becomes(s, purged)
        /\ offset' = [offset EXCEPT ![s] = @ + median]
        /\ panicked' = (purged.numActive > cap)
     \/ /\ m.numActive > LoadThreshold(m)
        /\ m.lgLength >= LgMaxOf(s)
        /\ Cardinality(Taken(m)) = Size(m)
        /\ panicked' = TRUE
        /\ UNCHANGED <<map, cnt, lgLen, offset>>

Add(s, i, n) ==
  /\ weight' = [weight EXCEPT ![s] = @ + n]
  /\ FindProbeOrEmpty(map[s], i) # Stuck
  /\ MaybeResizeOrPurge(s, AdjustOrPutSlot(map[s], i, n))

Arrived == {i \in Items : \E s \in Sketches : truth[s][i] > 0}

(* Two sketches that have not met do not depend on each other: the one     *)
(* with the smaller map moves first.  Once they have, the one that holds   *)
(* everything goes on.                                                     *)
Turn(s) ==
  \A t \in Sketches :
    IF merges = 0 THEN LgMax[t] <= LgMax[s] \/ weight[t] = 0
                  ELSE \A i \in Items : truth[t][i] <= truth[s][i]

(* Resets and reloads are explored on new sketches, on maps that have      *)
(* grown and once the updates are used up.                                 *)
Settled(s) ==
  Turn(s) /\ (lgLen[s] > LgMin \/ weight[s] = 0 \/ updates = MaxUpdates)

(* Items arrive in numerical order, at most MaxRepeats of them again.      *)
Arrives(s, i) ==
  /\ Turn(s)
  /\ \A j \in Items : j < i => j \in Arrived
  /\ i \in Arrived => updates - Cardinality(Arrived) < MaxRepeats

UpdateSlots(s, i, n) ==
  /\ Ready /\ updates < MaxUpdates /\ Arrives(s, i)
  /\ \/ n = 0 /\ UNCHANGED <<sketchVars, map>>
     \/ n > 0 /\ Add(s, i, n)
  /\ truth' = [truth EXCEPT ![s][i] = @ + n]
  /\ updates' = updates + 1
  /\ UNCHANGED <<home, merging, merges, tolerance>>

(* The loop of merge visits what the iterator yields. *)
MergeSlotsSkipped(s, t) == MergeSkipped(s, t) /\ UNCHANGED <<home, map>>

BeginMergeSlots(s, t) ==
  /\ BeginMerge(s, t)
  /\ merging'.todo = {KeyAt(map[t], j) : j \in Yielding(map[t])}
  /\ UNCHANGED <<home, map>>

MergeNextSlot ==
  /\ merging.active /\ ~panicked
  /\ LET m == map[merging.from]
         left == {j \in Yielding(m) : KeyAt(m, j) \in merging.todo}
     IN \E j \in left :
          /\ \A h \in left : j <= h
          /\ Add(merging.into, KeyAt(m, j), m.values[Visited(m, j)])
          /\ merging' = [merging EXCEPT !.todo = @ \ {KeyAt(m, j)}]
  /\ UNCHANGED <<home, updates, merges, truth, tolerance>>

EndMergeSlots == EndMerge /\ UNCHANGED <<home, map>>

ResetSlots(s) ==
  /\ Settled(s) /\ Reset(s)
  /\ map' = [map EXCEPT ![s] = EmptyMap(LgMin)]
  /\ UNCHANGED home

(* serialize, then deserialize: the active entries are replayed in slot    *)
(* order into a map of the recorded size; an image of the initial state    *)
(* restores the minimum size.                                              *)
Reload(s) ==
  /\ Ready /\ Settled(s)
  /\ LET m       == map[s]
         initial == weight[s] = 0 /\ offset[s] = 0 /\ m.numActive = 0
     IN Becomes(s, CopyInto(EmptyMap(IF initial THEN LgMin ELSE m.lgLength), m))
  /\ UNCHANGED <<home, offset, weight, panicked, merging, updates, merges, truth, tolerance>>

SlotNext ==
  \/ \E s \in Sketches, i \in Items : \E n \in CountsOf[i] : UpdateSlots(s, i, n)
  \/ \E s, t \in Sketches : MergeSlotsSkipped(s, t) \/ BeginMergeSlots(s, t)
  \/ MergeNextSlot
  \/ EndMergeSlots
  \/ \E s \in Sketches : ResetSlots(s) \/ Reload(s)

SlotSpec == SlotInit /\ [][SlotNext]_slotVars

-------------------------------------------------------------------------------

(***************************************************************************)
(* After any mixture of insertions, purges with their back-shifting        *)
(* deletions, growths and reloads, every entry is where its walk stops and *)
(* its state is exactly its drift: nothing is lost, stored twice, or left  *)
(* with a drift that would make a later deletion strand it.  num_active    *)
(* counts the entries, no counter is zero, and a slot is free, so that a   *)
(* walk for an absent item ends.  keep_only_positive_counts never runs off *)
(* the table, and no purge leaves the map over its capacity.  The strided  *)
(* iterator, which merge and frequent_items use, yields every active key   *)
(* exactly once.                                                           *)
(***************************************************************************)
EntriesFindable ==
  /\ ~panicked
  /\ \A s \in Sketches :
       LET m == map[s]
       IN /\ \A p \in Taken(m) :
               LET i == m.keys[p]
               IN /\ i \in Items
                  /\ m.states[p] = FindProbeOrEmpty(m, i)
                  /\ SlotAt(m, i, m.states[p]) = p
                  /\ Get(m, i) = m.values[p] /\ m.values[p] > 0
          /\ m.numActive = Cardinality(Taken(m))
          /\ m.numActive < Size(m)
          /\ {KeyAt(m, j) : j \in Yielding(m)} = {m.keys[p] : p \in Taken(m)}
          /\ Cardinality(Yielding(m)) = m.numActive

(* Every call on the slot arrays is the call of the sketch-level model:    *)
(* the purge subtracts a median of a sample of the right size from every   *)
(* counter, a merge adds every counter of the other sketch once, and a     *)
(* reload changes nothing a caller can see.                                *)
ImplementsFrequentItems == Spec
===============================================================================
