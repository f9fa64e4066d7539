------------------------- MODULE FrequentItemsProofs -------------------------
(***************************************************************************)
(* The frequency bounds of the frequent items sketch hold for every set of *)
(* items and sketches, every map size, sample size and stream, whichever   *)
(* counters a purge samples and in whichever order merge visits them.      *)
(*                                                                         *)
(* BoundsHold says nothing about the target of a running merge, so it is   *)
(* not inductive.  The strengthening: what the merge has replayed so far   *)
(* counts as given to its target; the other sketch's offset, still         *)
(* missing from the target's upper bound, is exactly what EndMerge adds.   *)
(*                                                                         *)
(* ErrorPaidFor rests on sums over the items (IsSum in NatSets).  A purge  *)
(* takes its median from at least half of a full sample (MedianPays), and  *)
(* what a merge has still to replay is set aside (PayInv).                 *)
(*                                                                         *)
(* The slots of ReversePurgeMap implement the sketch (SlotInv).  That      *)
(* hash_delete keeps every entry findable is seen from a free slot, from   *)
(* which no walk wraps round: there is one hole at a time, and only        *)
(* entries behind the slots already looked at may have drifted over it     *)
(* (Closing).  keep_only_positive_counts works backwards from such a slot, *)
(* so that what a deletion moves has been looked at before (Kept).         *)
(***************************************************************************)
EXTENDS ReversePurgeMap, NatSets

USE CountsAssumption, LgAssumption

MergeOK ==
  \/ merging = Idle
  \/ /\ merging.active
     /\ merging.into \in Sketches
     /\ merging.from \in Sketches
     /\ merging.into # merging.from
     /\ merging.todo \subseteq Items
     /\ merging.total \in Nat

(* What merge has replayed of item i into sketch s. *)
Replayed(s, i) ==
  IF merging.active /\ merging.into = s /\ i \notin merging.todo
    THEN cnt[merging.from][i] ELSE 0

Bracketed ==
  \A s \in Sketches, i \in Items :
    /\ cnt[s][i] <= truth[s][i] + Replayed(s, i)
    /\ truth[s][i] + Replayed(s, i) <= cnt[s][i] + offset[s]

IInv == TypeOK /\ MergeOK /\ Bracketed

-------------------------------------------------------------------------------

(* AdjustOrPutValue moves the bracket of its sketch up by n at item i and  *)
(* touches nothing else: a purge lowers a counter by at most the median it *)
(* adds to the offset.                                                     *)
LEMMA AdjustBrackets ==
  ASSUME TypeOK, NEW s \in Sketches, NEW i \in Items, NEW n \in Nat,
         AdjustOrPutValue(s, i, n)
  PROVE  /\ cnt' \in [Sketches -> [Items -> Nat]]
         /\ lgLen' \in [Sketches -> Nat]
         /\ \A t \in Sketches : lgLen'[t] \in LgMin .. LgMaxOf(t)
         /\ offset' \in [Sketches -> Nat]
         /\ \A t \in Sketches \ {s} : cnt'[t] = cnt[t] /\ offset'[t] = offset[t]
         /\ \A j \in Items :
              LET given == IF j = i THEN n ELSE 0
              IN /\ cnt'[s][j] <= cnt[s][j] + given
                 /\ cnt[s][j] + given + offset[s] <= cnt'[s][j] + offset'[s]
<1> DEFINE c == [cnt[s] EXCEPT ![i] = @ + n]
<1>0. TypeOK
  OBVIOUS
<1>1. cnt \in [Sketches -> [Items -> Nat]] /\ offset \in [Sketches -> Nat]
  BY <1>0 DEF TypeOK
<1>2. c \in [Items -> Nat] /\ \A j \in Items : c[j] = cnt[s][j] + (IF j = i THEN n ELSE 0)
  BY <1>1
<1>3. lgLen \in [Sketches -> Nat] /\ \A t \in Sketches : lgLen[t] \in LgMin .. LgMaxOf(t)
  BY <1>0 DEF TypeOK
<1>4. \A t \in Sketches : LgMaxOf(t) \in Nat
  BY DEF LgMaxOf
<1>5. Fits(s, c) \/ Grow(s, c) \/ Purge(s, c)
  BY DEF AdjustOrPutValue
<1> HIDE DEF c
<1>6. CASE Fits(s, c)
  BY <1>1, <1>2, <1>3, <1>6 DEF Fits
<1>7. CASE Grow(s, c)
  <2>1. cnt' = [cnt EXCEPT ![s] = c] /\ offset' = offset
    BY <1>7 DEF Grow
  <2>2. lgLen' = [lgLen EXCEPT ![s] = @ + 1] /\ lgLen[s] < LgMaxOf(s)
    BY <1>7 DEF Grow
  <2>3. /\ lgLen' \in [Sketches -> Nat]
        /\ \A t \in Sketches : lgLen'[t] \in LgMin .. LgMaxOf(t)
    BY <2>2, <1>3, <1>4
  <2> QED BY <2>1, <2>3, <1>1, <1>2
<1>8. CASE Purge(s, c)
  <2>1. PICK m \in Medians(s, c) :
          /\ cnt' = [cnt EXCEPT ![s] = Purged(c, m)]
          /\ offset' = [offset EXCEPT ![s] = @ + m]
    BY <1>8 DEF Purge
  <2>2. m \in Nat
    BY <1>2 DEF Medians, ActiveIn
  <2>3. /\ Purged(c, m) \in [Items -> Nat]
        /\ \A j \in Items : Purged(c, m)[j] <= c[j] /\ c[j] <= Purged(c, m)[j] + m
    BY <1>2, <2>2 DEF Purged
  <2>4. lgLen' = lgLen
    BY <1>8 DEF Purge
  <2> HIDE DEF Purged
  <2>5. offset'[s] = offset[s] + m /\ cnt'[s] = Purged(c, m)
    BY <2>1, <1>1
  <2>6. ASSUME NEW j \in Items
        PROVE  LET given == IF j = i THEN n ELSE 0
               IN /\ cnt'[s][j] <= cnt[s][j] + given
                  /\ cnt[s][j] + given + offset[s] <= cnt'[s][j] + offset'[s]
    <3>1. /\ Purged(c, m)[j] \in Nat /\ c[j] \in Nat /\ cnt[s][j] \in Nat
          /\ offset[s] \in Nat
      BY <2>3, <1>1, <1>2
    <3> QED BY <3>1, <2>2, <2>3, <2>5, <1>2
  <2>7. /\ cnt' \in [Sketches -> [Items -> Nat]]
        /\ offset' \in [Sketches -> Nat]
        /\ \A t \in Sketches \ {s} : cnt'[t] = cnt[t] /\ offset'[t] = offset[t]
    BY <2>1, <2>2, <2>3, <1>1
  <2> QED BY <2>4, <2>6, <2>7, <1>3
<1> QED BY <1>5, <1>6, <1>7, <1>8

LEMMA InitOK == Init => IInv
<1> SUFFICES ASSUME Init PROVE IInv
  OBVIOUS
<1>1. TypeOK
  BY DEF Init, TypeOK, NoCounters, LgMaxOf
<1>2. ~merging.active /\ MergeOK
  BY DEF Init, MergeOK, Idle
<1>3. Bracketed
  BY <1>2 DEF Init, Bracketed, Replayed, NoCounters
<1> QED BY <1>1, <1>2, <1>3 DEF IInv

LEMMA UpdatePreserves ==
  ASSUME IInv, NEW s \in Sketches, NEW i \in Items, NEW n \in Counts,
         UpdateWithCount(s, i, n)
  PROVE  IInv'
<1>1. TypeOK /\ Bracketed /\ MergeOK /\ ~merging.active /\ n \in Nat /\ merging' = merging
  BY DEF IInv, UpdateWithCount, Ready
<1>2. \A t \in Sketches, j \in Items : Replayed(t, j) = 0 /\ Replayed(t, j)' = 0
  BY <1>1 DEF Replayed
<1>3. truth' = [truth EXCEPT ![s][i] = @ + n]
  BY DEF UpdateWithCount
<1>4. truth \in [Sketches -> [Items -> Nat]] /\ weight \in [Sketches -> Nat]
        /\ cnt \in [Sketches -> [Items -> Nat]] /\ offset \in [Sketches -> Nat]
  BY <1>1 DEF TypeOK
<1>5. MergeOK'
  BY <1>1 DEF MergeOK, Idle
<1>6. truth' \in [Sketches -> [Items -> Nat]]
  BY <1>1, <1>3, <1>4
<1>7. CASE n = 0
  <2>1. cnt' = cnt /\ lgLen' = lgLen /\ offset' = offset /\ weight' = weight
    BY <1>7 DEF UpdateWithCount, sketchVars
  <2>2. truth' = truth
    BY <1>3, <1>4, <1>7
  <2>3. TypeOK'
    BY <1>1, <2>1, <2>2 DEF TypeOK
  <2>4. Bracketed'
    BY <1>1, <1>2, <2>1, <2>2 DEF Bracketed
  <2> QED BY <1>5, <2>3, <2>4 DEF IInv
<1>8. CASE n > 0
  <2>1. weight' = [weight EXCEPT ![s] = @ + n] /\ AdjustOrPutValue(s, i, n)
    BY <1>1, <1>8 DEF UpdateWithCount
  <2>2. weight' \in [Sketches -> Nat]
    BY <1>1, <1>4, <2>1
  <2>3. /\ cnt' \in [Sketches -> [Items -> Nat]]
        /\ lgLen' \in [Sketches -> Nat]
        /\ \A t \in Sketches : lgLen'[t] \in LgMin .. LgMaxOf(t)
        /\ offset' \in [Sketches -> Nat]
        /\ \A t \in Sketches \ {s} : cnt'[t] = cnt[t] /\ offset'[t] = offset[t]
        /\ \A j \in Items :
             LET given == IF j = i THEN n ELSE 0
             IN /\ cnt'[s][j] <= cnt[s][j] + given
                /\ cnt[s][j] + given + offset[s] <= cnt'[s][j] + offset'[s]
    BY <1>1, <2>1, AdjustBrackets
  <2>4. TypeOK'
    BY <1>6, <2>2, <2>3 DEF TypeOK
  <2>5. ASSUME NEW t \in Sketches, NEW j \in Items
        PROVE  /\ cnt'[t][j] <= truth'[t][j]
               /\ truth'[t][j] <= cnt'[t][j] + offset'[t]
    <3>1. cnt[t][j] <= truth[t][j] /\ truth[t][j] <= cnt[t][j] + offset[t]
      BY <1>1, <1>2, <1>4 DEF Bracketed
    <3>2. /\ cnt[t][j] \in Nat /\ cnt'[t][j] \in Nat /\ truth[t][j] \in Nat
          /\ offset[t] \in Nat /\ offset'[t] \in Nat
      BY <1>4, <2>3
    <3>3. truth'[t][j] = truth[t][j] + (IF t = s /\ j = i THEN n ELSE 0)
      BY <1>1, <1>3, <1>4
    <3>4. CASE t = s
      BY <1>1, <2>3, <3>1, <3>2, <3>3, <3>4
    <3>5. CASE t # s
      BY <1>1, <2>3, <3>1, <3>2, <3>3, <3>5
    <3> QED BY <3>4, <3>5
  <2>6. Bracketed'
    <3>1. \A t \in Sketches, j \in Items : truth'[t][j] + 0 = truth'[t][j]
      BY <1>6
    <3> QED BY <1>2, <2>5, <3>1 DEF Bracketed
  <2> QED BY <1>5, <2>4, <2>6 DEF IInv
<1> QED BY <1>1, <1>7, <1>8

LEMMA BeginMergePreserves ==
  ASSUME IInv, NEW s \in Sketches, NEW t \in Sketches, BeginMerge(s, t)
  PROVE  IInv'
<1>1. TypeOK /\ Bracketed /\ ~merging.active /\ s # t
  BY DEF IInv, BeginMerge, Ready
<1>2. cnt' = cnt /\ lgLen' = lgLen /\ offset' = offset /\ weight' = weight /\ truth' = truth
  BY DEF BeginMerge, sketchVars
<1>3. merging' = [active |-> TRUE, into |-> s, from |-> t,
                  todo |-> ActiveIn(cnt[t]), total |-> weight[s] + weight[t]]
  BY DEF BeginMerge
<1>4. TypeOK'
  BY <1>1, <1>2 DEF TypeOK
<1>5. weight[s] + weight[t] \in Nat /\ ActiveIn(cnt[t]) \subseteq Items
  BY <1>1 DEF TypeOK, ActiveIn
<1>6. MergeOK'
  BY <1>1, <1>3, <1>5 DEF MergeOK
<1>7. ASSUME NEW u \in Sketches, NEW j \in Items
      PROVE  Replayed(u, j) = 0 /\ Replayed(u, j)' = 0
  <2>1. Replayed(u, j) = 0
    BY <1>1 DEF Replayed
  <2>2. j \notin ActiveIn(cnt[t]) => cnt[t][j] = 0
    BY <1>1 DEF ActiveIn, TypeOK
  <2>3. /\ merging'.active /\ merging'.from = t
        /\ merging'.todo = ActiveIn(cnt[t])
    BY <1>3
  <2>4. Replayed(u, j)' = IF merging'.active /\ merging'.into = u /\ j \notin merging'.todo
                            THEN cnt'[merging'.from][j] ELSE 0
    BY DEF Replayed
  <2> QED BY <1>2, <2>1, <2>2, <2>3, <2>4
<1>8. Bracketed'
  BY <1>1, <1>2, <1>7 DEF Bracketed
<1> QED BY <1>4, <1>6, <1>8 DEF IInv

LEMMA MergeItemPreserves ==
  ASSUME IInv, NEW i \in Items, MergeItem(i)
  PROVE  IInv'
<1> DEFINE s == merging.into
           t == merging.from
           n == cnt[t][i]
<1>1. TypeOK /\ Bracketed /\ MergeOK /\ merging.active /\ i \in merging.todo
  BY DEF IInv, MergeItem
<1>2. /\ s \in Sketches /\ t \in Sketches /\ s # t
      /\ merging.todo \subseteq Items /\ merging.total \in Nat
  BY <1>1 DEF MergeOK, Idle
<1>3. truth \in [Sketches -> [Items -> Nat]] /\ weight \in [Sketches -> Nat]
        /\ cnt \in [Sketches -> [Items -> Nat]] /\ offset \in [Sketches -> Nat]
  BY <1>1 DEF TypeOK
<1>4. n \in Nat
  BY <1>2, <1>3
<1>5. /\ weight' = [weight EXCEPT ![s] = @ + n]
      /\ AdjustOrPutValue(s, i, n)
      /\ merging' = [merging EXCEPT !.todo = @ \ {i}]
      /\ truth' = truth
  BY DEF MergeItem
<1>6. /\ merging'.active /\ merging'.into = s /\ merging'.from = t
      /\ merging'.todo = merging.todo \ {i} /\ merging'.total = merging.total
  BY <1>1, <1>5 DEF MergeOK, Idle
<1> HIDE DEF s, t, n
<1>7. /\ cnt' \in [Sketches -> [Items -> Nat]]
      /\ lgLen' \in [Sketches -> Nat]
      /\ \A u \in Sketches : lgLen'[u] \in LgMin .. LgMaxOf(u)
      /\ offset' \in [Sketches -> Nat]
      /\ \A u \in Sketches \ {s} : cnt'[u] = cnt[u] /\ offset'[u] = offset[u]
      /\ \A j \in Items :
           LET given == IF j = i THEN n ELSE 0
           IN /\ cnt'[s][j] <= cnt[s][j] + given
              /\ cnt[s][j] + given + offset[s] <= cnt'[s][j] + offset'[s]
  BY <1>1, <1>2, <1>4, <1>5, AdjustBrackets
<1>8. TypeOK'
  <2>1. weight' \in [Sketches -> Nat]
    BY <1>2, <1>3, <1>4, <1>5
  <2> QED BY <1>3, <1>5, <1>7, <2>1 DEF TypeOK
<1>9. MergeOK'
  BY <1>2, <1>6 DEF MergeOK
<1>10. ASSUME NEW u \in Sketches, NEW j \in Items
       PROVE  /\ Replayed(u, j) \in Nat
              /\ Replayed(u, j)' = Replayed(u, j)
                                     + (IF u = s /\ j = i THEN n ELSE 0)
  <2>1. Replayed(u, j) = IF u = s /\ j \notin merging.todo THEN cnt[t][j] ELSE 0
    BY <1>1 DEF Replayed, s, t
  <2>2. Replayed(u, j)' = IF u = s /\ j \notin merging'.todo THEN cnt'[t][j] ELSE 0
    BY <1>6 DEF Replayed
  <2>3. cnt'[t] = cnt[t] /\ cnt[t][j] \in Nat
    BY <1>2, <1>3, <1>7
  <2> QED BY <1>1, <1>4, <1>6, <2>1, <2>2, <2>3 DEF n
<1>11. ASSUME NEW u \in Sketches, NEW j \in Items
       PROVE  /\ cnt'[u][j] <= truth'[u][j] + Replayed(u, j)'
              /\ truth'[u][j] + Replayed(u, j)' <= cnt'[u][j] + offset'[u]
  <2>1. /\ cnt[u][j] <= truth[u][j] + Replayed(u, j)
        /\ truth[u][j] + Replayed(u, j) <= cnt[u][j] + offset[u]
    BY <1>1 DEF Bracketed
  <2>2. /\ cnt[u][j] \in Nat /\ cnt'[u][j] \in Nat /\ truth[u][j] \in Nat
        /\ offset[u] \in Nat /\ offset'[u] \in Nat
    BY <1>3, <1>7
  <2>3. /\ Replayed(u, j) \in Nat
        /\ Replayed(u, j)' = Replayed(u, j) + (IF u = s /\ j = i THEN n ELSE 0)
    BY <1>10
  <2>4. CASE u = s
    BY <1>4, <1>5, <1>7, <2>1, <2>2, <2>3, <2>4
  <2>5. CASE u # s
    BY <1>4, <1>5, <1>7, <2>1, <2>2, <2>3, <2>5
  <2> QED BY <2>4, <2>5
<1>12. Bracketed'
  BY <1>11 DEF Bracketed
<1> QED BY <1>8, <1>9, <1>12 DEF IInv

LEMMA EndMergePreserves ==
  ASSUME IInv, EndMerge
  PROVE  IInv'
<1> DEFINE s == merging.into
           t == merging.from
<1>1. TypeOK /\ Bracketed /\ MergeOK /\ merging.active /\ merging.todo = {}
  BY DEF IInv, EndMerge
<1>2. s \in Sketches /\ t \in Sketches /\ s # t /\ merging.total \in Nat
  BY <1>1 DEF MergeOK, Idle
<1>3. truth \in [Sketches -> [Items -> Nat]] /\ weight \in [Sketches -> Nat]
        /\ cnt \in [Sketches -> [Items -> Nat]] /\ offset \in [Sketches -> Nat]
  BY <1>1 DEF TypeOK
<1>4. /\ offset' = [offset EXCEPT ![s] = @ + offset[t]]
      /\ weight' = [weight EXCEPT ![s] = merging.total]
      /\ truth' = [truth EXCEPT ![s] = [i \in Items |-> truth[s][i] + truth[t][i]]]
      /\ merging' = Idle
      /\ cnt' = cnt /\ lgLen' = lgLen
  BY DEF EndMerge
<1>5. \A u \in Sketches, j \in Items :
        Replayed(u, j) = (IF u = s THEN cnt[t][j] ELSE 0) /\ Replayed(u, j)' = 0
  BY <1>1, <1>4 DEF Replayed, Idle
<1> HIDE DEF s, t
<1>6. /\ truth' \in [Sketches -> [Items -> Nat]]
      /\ offset' \in [Sketches -> Nat]
      /\ weight' \in [Sketches -> Nat]
  BY <1>2, <1>3, <1>4
<1>7. TypeOK'
  BY <1>1, <1>4, <1>6 DEF TypeOK
<1>8. MergeOK'
  BY <1>4 DEF MergeOK, Idle
<1>9. ASSUME NEW u \in Sketches, NEW j \in Items
      PROVE  /\ cnt'[u][j] <= truth'[u][j] + Replayed(u, j)'
             /\ truth'[u][j] + Replayed(u, j)' <= cnt'[u][j] + offset'[u]
  <2>1. /\ cnt[u][j] \in Nat /\ truth[u][j] \in Nat /\ offset[u] \in Nat
        /\ cnt[t][j] \in Nat /\ truth[t][j] \in Nat /\ offset[t] \in Nat
    BY <1>2, <1>3
  <2>2. CASE u = s
    <3>1. cnt[u][j] <= truth[u][j] + cnt[t][j] /\ truth[u][j] + cnt[t][j] <= cnt[u][j] + offset[u]
      BY <1>1, <1>5, <2>2 DEF Bracketed
    <3>2. cnt[t][j] <= truth[t][j] + 0 /\ truth[t][j] + 0 <= cnt[t][j] + offset[t]
      BY <1>1, <1>2, <1>5 DEF Bracketed
    <3>3. /\ truth'[u][j] = truth[u][j] + truth[t][j] /\ offset'[u] = offset[u] + offset[t]
          /\ cnt'[u][j] = cnt[u][j] /\ Replayed(u, j)' = 0
      BY <1>2, <1>3, <1>4, <1>5, <2>2
    <3> QED BY <2>1, <3>1, <3>2, <3>3
  <2>3. CASE u # s
    <3>1. cnt[u][j] <= truth[u][j] + 0 /\ truth[u][j] + 0 <= cnt[u][j] + offset[u]
      BY <1>1, <1>5, <2>3 DEF Bracketed
    <3>2. /\ truth'[u][j] = truth[u][j] /\ offset'[u] = offset[u]
          /\ cnt'[u][j] = cnt[u][j] /\ Replayed(u, j)' = 0
      BY <1>2, <1>3, <1>4, <1>5, <2>3
    <3> QED BY <2>1, <3>1, <3>2
  <2> QED BY <2>2, <2>3
<1>10. Bracketed'
  BY <1>9 DEF Bracketed
<1> QED BY <1>7, <1>8, <1>10 DEF IInv

LEMMA ResetPreserves ==
  ASSUME IInv, NEW s \in Sketches, Reset(s)
  PROVE  IInv'
<1>1. TypeOK /\ Bracketed /\ MergeOK /\ ~merging.active /\ merging' = merging
  BY DEF IInv, Reset, Ready
<1>2. \A u \in Sketches, j \in Items : Replayed(u, j) = 0 /\ Replayed(u, j)' = 0
  BY <1>1 DEF Replayed
<1>3. /\ cnt' = [cnt EXCEPT ![s] = NoCounters]
      /\ lgLen' = [lgLen EXCEPT ![s] = LgMin]
      /\ offset' = [offset EXCEPT ![s] = 0]
      /\ weight' = [weight EXCEPT ![s] = 0]
      /\ truth' = [truth EXCEPT ![s] = NoCounters]
  BY DEF Reset
<1>4. NoCounters \in [Items -> Nat] /\ LgMin \in LgMin .. LgMaxOf(s)
  BY DEF NoCounters, LgMaxOf
<1>5. TypeOK'
  BY <1>1, <1>3, <1>4 DEF TypeOK
<1>6. MergeOK'
  BY <1>1 DEF MergeOK, Idle
<1>7. Bracketed'
  BY <1>1, <1>2, <1>3 DEF Bracketed, NoCounters, TypeOK
<1> QED BY <1>5, <1>6, <1>7 DEF IInv

LEMMA StepPreserves == IInv /\ [Next]_vars => IInv'
<1> SUFFICES ASSUME IInv, [Next]_vars PROVE IInv'
  OBVIOUS
<1>1. ASSUME NEW s \in Sketches, NEW t \in Sketches, MergeSkipped(s, t)
      PROVE  IInv'
  BY <1>1 DEF IInv, TypeOK, MergeOK, Bracketed, Replayed, Idle, MergeSkipped, sketchVars
<1>2. CASE UNCHANGED vars
  BY <1>2 DEF IInv, TypeOK, MergeOK, Bracketed, Replayed, Idle, vars, sketchVars
<1> QED BY <1>1, <1>2, UpdatePreserves, BeginMergePreserves, MergeItemPreserves,
           EndMergePreserves, ResetPreserves DEF Next

(* Every reachable state satisfies the inductive invariant. *)
THEOREM Invariance == Spec => []IInv
BY InitOK, StepPreserves, PTL DEF Spec

(* Counters, offsets and weights stay natural and the map within its size. *)
THEOREM TypeCorrect == Spec => []TypeOK
<1>1. IInv => TypeOK
  BY DEF IInv
<1> QED BY <1>1, Invariance, PTL

(* lower_bound and upper_bound bracket the true frequency of every item.   *)
THEOREM FrequencyBounds == Spec => []BoundsHold
<1>1. IInv => BoundsHold
  <2> SUFFICES ASSUME IInv, NEW s \in Sketches, NEW i \in Items,
                      ~(merging.active /\ merging.into = s)
               PROVE  LowerBound(s, i) <= truth[s][i] /\ truth[s][i] <= UpperBound(s, i)
    BY DEF BoundsHold
  <2>1. Replayed(s, i) = 0
    BY DEF Replayed
  <2>2. truth[s][i] + 0 = truth[s][i]
    BY DEF IInv, TypeOK
  <2> QED BY <2>1, <2>2 DEF IInv, Bracketed, LowerBound, UpperBound
<1> QED BY <1>1, Invariance, PTL

(* frequent_items_with_threshold has no false negatives, or no false       *)
(* positives, as its error type promises.                                  *)
THEOREM FrequentItemLists == Spec => []ListsHonourErrorType
<1>1. TypeOK /\ BoundsHold => ListsHonourErrorType
  <2> SUFFICES ASSUME TypeOK, BoundsHold, NEW s \in Sketches, NEW i \in Items,
                      NEW threshold \in Thresholds,
                      ~merging.active, threshold >= offset[s]
               PROVE  /\ truth[s][i] > threshold =>
                           i \in FrequentItemsWithThreshold(s, "NoFalseNegatives", threshold)
                      /\ i \in FrequentItemsWithThreshold(s, "NoFalsePositives", threshold) =>
                           truth[s][i] > threshold
    BY DEF ListsHonourErrorType
  <2>1. /\ cnt[s][i] \in Nat /\ offset[s] \in Nat /\ truth[s][i] \in Nat
        /\ threshold \in Nat
    BY DEF TypeOK
  <2>2. cnt[s][i] <= truth[s][i] /\ truth[s][i] <= cnt[s][i] + offset[s]
    BY DEF BoundsHold, LowerBound, UpperBound
  <2> QED BY <2>1, <2>2 DEF FrequentItemsWithThreshold, ActiveIn, LowerBound, UpperBound
<1> QED BY <1>1, TypeCorrect, FrequencyBounds, PTL

-------------------------------------------------------------------------------
(***************************************************************************)
(* The error is paid for.  The sum of the counters is the only quantity    *)
(* the argument needs of a whole map; the lemmas below are all it uses of  *)
(* sums.                                                                   *)
(***************************************************************************)

(* The sum of two functions is the sum of their sums.                      *)
LEMMA SumAdds ==
  ASSUME NEW f \in [Items -> Nat], NEW g \in [Items -> Nat], NEW h \in [Items -> Nat],
         \A i \in Items : h[i] = f[i] + g[i]
  PROVE  /\ SumItems(f) \in Nat /\ SumItems(g) \in Nat
         /\ SumItems(h) = SumItems(f) + SumItems(g)
<1>1. PICK F : IsSum(Items, f, F) /\ SumItems(f) = F[Items]
  BY ItemsAssumption, SumExists DEF SumItems
<1>2. PICK G : IsSum(Items, g, G) /\ SumItems(g) = G[Items]
  BY ItemsAssumption, SumExists DEF SumItems
<1>3. PICK H : IsSum(Items, h, H) /\ SumItems(h) = H[Items]
  BY ItemsAssumption, SumExists DEF SumItems
<1> DEFINE P == {S \in SUBSET Items : H[S] = F[S] + G[S]}
<1>4. {} \in P
  BY <1>1, <1>2, <1>3 DEF IsSum
<1>5. ASSUME NEW S \in SUBSET Items, S # {}, \A x \in S : S \ {x} \in P PROVE S \in P
  <2> PICK x \in S : TRUE
    BY <1>5
  <2> DEFINE R == S \ {x}
  <2>1. R \in SUBSET Items /\ x \in Items \ R /\ S = R \cup {x} /\ H[R] = F[R] + G[R]
    BY <1>5
  <2> HIDE DEF R
  <2>2. /\ F[R] \in Nat /\ F[R \cup {x}] = F[R] + f[x]
        /\ G[R] \in Nat /\ G[R \cup {x}] = G[R] + g[x]
        /\ H[R \cup {x}] = H[R] + h[x]
    BY <1>1, <1>2, <1>3, <2>1 DEF IsSum
  <2>3. f[x] \in Nat /\ g[x] \in Nat /\ h[x] = f[x] + g[x]
    BY <2>1
  <2>4. H[S] = F[S] + G[S]
    BY <2>1, <2>2, <2>3
  <2> QED BY <2>4
<1>6. P = SUBSET Items
  <2>1. P \in SUBSET SUBSET Items
    OBVIOUS
  <2> HIDE DEF P
  <2> QED BY <1>4, <1>5, <2>1, ItemsAssumption, SubsetInduction
<1>7. H[Items] = F[Items] + G[Items]
  BY <1>6
<1>8. F[Items] \in Nat /\ G[Items] \in Nat
  BY <1>1, <1>2 DEF IsSum
<1> QED BY <1>1, <1>2, <1>3, <1>7, <1>8

(* m on the items of X and zero elsewhere.                                 *)
Spread(X, m) == [i \in Items |-> IF i \in X THEN m ELSE 0]

LEMMA TimesNext ==
  ASSUME NEW m \in Nat, NEW k \in Nat
  PROVE  m * k + m = m * (k + 1)
OBVIOUS

LEMMA SumSpreads ==
  ASSUME NEW X \in SUBSET Items, NEW m \in Nat
  PROVE  SumItems(Spread(X, m)) = m * Cardinality(X)
<1> DEFINE f == Spread(X, m)
<1>0. f \in [Items -> Nat]
  BY DEF Spread
<1>1. PICK F : IsSum(Items, f, F) /\ SumItems(f) = F[Items]
  BY <1>0, ItemsAssumption, SumExists DEF SumItems
<1> DEFINE P == {S \in SUBSET Items : F[S] = m * Cardinality(S \cap X)}
<1>2. {} \in P
  BY <1>1, FS_EmptySet DEF IsSum
<1>3. ASSUME NEW S \in SUBSET Items, S # {}, \A x \in S : S \ {x} \in P PROVE S \in P
  <2> PICK x \in S : TRUE
    BY <1>3
  <2> DEFINE R == S \ {x}
             k == Cardinality(R \cap X)
  <2>1. R \in SUBSET Items /\ x \in Items \ R /\ S = R \cup {x} /\ F[R] = m * k
    BY <1>3
  <2>2. IsFiniteSet(R \cap X) /\ k \in Nat
    BY ItemsAssumption, FS_Subset, FS_CardinalityType
  <2>3. F[S] = F[R] + f[x]
    <3> HIDE DEF R
    <3> QED BY <1>1, <2>1 DEF IsSum
  <2>4. CASE x \in X
    <3>1. S \cap X = (R \cap X) \cup {x} /\ x \notin R \cap X
      BY <2>4
    <3>2. Cardinality(S \cap X) = k + 1
      BY <2>2, <3>1, FS_AddElement
    <3>3. f[x] = m
      BY <2>4 DEF Spread
    <3>4. F[S] = m * (k + 1)
      <4> HIDE DEF k, R, f
      <4> QED BY <2>1, <2>2, <2>3, <3>3, TimesNext
    <3> HIDE DEF k, f
    <3> QED BY <3>2, <3>4
  <2>5. CASE x \notin X
    <3>1. S \cap X = R \cap X
      BY <2>5
    <3>2. f[x] = 0
      BY <2>5 DEF Spread
    <3>3. m * k \in Nat
      <4> HIDE DEF k
      <4> QED BY <2>2
    <3>4. F[S] = m * k
      <4> HIDE DEF k, R, f
      <4> QED BY <2>1, <2>3, <3>2, <3>3
    <3> QED BY <3>1, <3>4
  <2> QED BY <2>4, <2>5
<1>4. P = SUBSET Items
  <2>1. P \in SUBSET SUBSET Items
    OBVIOUS
  <2> HIDE DEF P
  <2> QED BY <1>2, <1>3, <2>1, ItemsAssumption, SubsetInduction
<1>5. Items \cap X = X
  OBVIOUS
<1> QED BY <1>1, <1>4, <1>5

LEMMA SumIsNat ==
  ASSUME NEW f \in [Items -> Nat]
  PROVE  SumItems(f) \in Nat
<1>1. Spread({}, 0) \in [Items -> Nat] /\ \A i \in Items : f[i] = f[i] + Spread({}, 0)[i]
  BY DEF Spread
<1> QED BY <1>1, SumAdds

(* A sum is as large as the sums of two functions it bounds together.      *)
LEMMA SumBounds ==
  ASSUME NEW f \in [Items -> Nat], NEW g \in [Items -> Nat], NEW h \in [Items -> Nat],
         \A i \in Items : f[i] + g[i] <= h[i]
  PROVE  SumItems(f) + SumItems(g) <= SumItems(h)
<1> DEFINE both == [i \in Items |-> f[i] + g[i]]
           rest == [i \in Items |-> h[i] - (f[i] + g[i])]
<1>1. both \in [Items -> Nat] /\ rest \in [Items -> Nat]
  OBVIOUS
<1>2. \A i \in Items : both[i] = f[i] + g[i] /\ h[i] = both[i] + rest[i]
  OBVIOUS
<1> HIDE DEF both, rest
<1>3. /\ SumItems(f) \in Nat /\ SumItems(g) \in Nat
      /\ SumItems(both) = SumItems(f) + SumItems(g)
  BY <1>1, <1>2, SumAdds
<1>4. SumItems(rest) \in Nat /\ SumItems(h) = SumItems(both) + SumItems(rest)
  BY <1>1, <1>2, SumAdds
<1> QED BY <1>3, <1>4

-------------------------------------------------------------------------------
(* The counters a purge of a full map of this size samples, and how many   *)
(* of them at least reach the median.                                      *)
Limit(lg) == Min({SampleSize, MapCapacityForLg(lg)})
Half(lg) == Limit(lg) - Limit(lg) \div 2

LgMaxima == {LgMaxOf(s) : s \in Sketches}

ToleranceOK ==
  /\ tolerance \in [Sketches -> LgMaxima]
  /\ \A s \in Sketches : tolerance[s] <= LgMaxOf(s)

Paid(s) == offset[s] * Half(tolerance[s]) + SumItems(cnt[s]) <= weight[s]

(* What the merge still has to replay.                                     *)
ToReplay ==
  [i \in Items |-> IF i \in merging.todo THEN cnt[merging.from][i] ELSE 0]

(* While merge runs, its target's weight lacks what is still to replay and *)
(* what the other sketch had purged.                                       *)
MergeConserves ==
  merging.active =>
    weight[merging.into] + SumItems(ToReplay) + weight[merging.from]
      = merging.total + SumItems(cnt[merging.from])

PayInv ==
  /\ IInv
  /\ ToleranceOK
  /\ \A s \in Sketches : Paid(s)
  /\ MergeConserves

LEMMA LimitOfThree ==
  ASSUME NEW a \in Int, NEW b \in Int, NEW n \in Int, b < n
  PROVE  Min({a, b, n}) = Min({a, b})
<1> DEFINE r == IF a <= b THEN a ELSE b
<1>1. r \in {a, b, n} /\ \A y \in {a, b, n} : r <= y
  OBVIOUS
<1>2. \A x \in {a, b, n} : (\A y \in {a, b, n} : x <= y) => x = r
  OBVIOUS
<1>3. Min({a, b}) = r
  BY MinOfTwo
<1> HIDE DEF r
<1>4. Min({a, b, n}) = r
  BY <1>1, <1>2 DEF Min
<1> QED BY <1>3, <1>4

(* Half grows with the map size.                                           *)
LEMMA HalfGrows ==
  ASSUME NEW s \in Sketches, NEW t \in Sketches, LgMaxOf(s) <= LgMaxOf(t)
  PROVE  /\ Limit(LgMaxOf(s)) \in Nat
         /\ MapCapacityForLg(LgMaxOf(s)) \in Nat
         /\ Half(LgMaxOf(s)) \in Nat
         /\ Half(LgMaxOf(s)) <= Half(LgMaxOf(t))
<1>1. /\ 2 ^ LgMaxOf(s) \in Nat /\ 2 ^ LgMaxOf(t) \in Nat
      /\ 2 ^ LgMaxOf(s) <= 2 ^ LgMaxOf(t)
  BY PowersAssumption
<1>2. /\ MapCapacityForLg(LgMaxOf(s)) \in Nat /\ MapCapacityForLg(LgMaxOf(t)) \in Nat
      /\ MapCapacityForLg(LgMaxOf(s)) <= MapCapacityForLg(LgMaxOf(t))
  <2>1. \A a, b \in Nat : a <= b => /\ (a * 3) \div 4 \in Nat /\ (b * 3) \div 4 \in Nat
                                    /\ (a * 3) \div 4 <= (b * 3) \div 4
    OBVIOUS
  <2> QED BY <1>1, <2>1 DEF MapCapacityForLg
<1>3. SampleSize \in Nat
  BY SampleAssumption
<1>4. /\ Limit(LgMaxOf(s)) \in Nat /\ Limit(LgMaxOf(t)) \in Nat
      /\ Limit(LgMaxOf(s)) <= Limit(LgMaxOf(t))
  BY <1>2, <1>3, MinOfTwo DEF Limit
<1>5. \A a, b \in Nat : a <= b => /\ a - a \div 2 \in Nat
                                  /\ a - a \div 2 <= b - b \div 2
  OBVIOUS
<1> QED BY <1>2, <1>4, <1>5 DEF Half

LEMMA LgMaxOrdered ==
  ASSUME NEW s \in Sketches
  PROVE  LgMaxOf(s) \in Nat /\ LgMaxOf(s) <= LgMaxOf(s)
BY DEF LgMaxOf

(* A purge of a full map takes its median from at least Half counters.     *)
LEMMA MedianHasHalf ==
  ASSUME NEW s \in Sketches, NEW c \in [Items -> Nat],
         NumActive(c) > MapCapacityForLg(LgMaxOf(s)), NEW m \in Medians(s, c)
  PROVE  /\ m \in Nat
         /\ Cardinality({i \in Items : c[i] >= m}) \in Nat
         /\ Half(LgMaxOf(s)) <= Cardinality({i \in Items : c[i] >= m})
<1> DEFINE lg == LgMaxOf(s)
           limit == Limit(lg)
           mid == limit \div 2
           X == {i \in Items : c[i] >= m}
<1>1. m \in Nat
  BY DEF Medians, ActiveIn
<1>2. limit \in Nat /\ MapCapacityForLg(lg) \in Nat
  BY HalfGrows, LgMaxOrdered
<1>3. NumActive(c) \in Nat
  <2>1. ActiveIn(c) \subseteq Items
    BY DEF ActiveIn
  <2> QED BY <2>1, ItemsAssumption, FS_Subset, FS_CardinalityType DEF NumActive
<1>4. SampleLimit(s, c) = limit
  <2>1. SampleSize \in Int
    BY SampleAssumption
  <2> HIDE DEF lg
  <2>2. Min({SampleSize, MapCapacityForLg(lg), NumActive(c)})
          = Min({SampleSize, MapCapacityForLg(lg)})
    BY <1>2, <1>3, <2>1, LimitOfThree DEF lg
  <2> QED BY <2>2 DEF SampleLimit, Limit, lg
<1> HIDE DEF limit
<1>5. PICK sample \in kSubset(limit, ActiveIn(c)) :
        Cardinality({i \in sample : c[i] < m}) <= mid
  BY <1>4 DEF Medians
<1> DEFINE low == {i \in sample : c[i] < m}
           high == {i \in sample : c[i] >= m}
<1>6. sample \subseteq Items /\ Cardinality(sample) = limit
  BY <1>5 DEF kSubset, ActiveIn
<1>7. /\ IsFiniteSet(X) /\ IsFiniteSet(low) /\ IsFiniteSet(high)
      /\ Cardinality(low) \in Nat /\ Cardinality(high) \in Nat /\ Cardinality(X) \in Nat
  BY <1>6, ItemsAssumption, FS_Subset, FS_CardinalityType
<1>8. low \cup high = sample /\ low \cap high = {} /\ high \subseteq X
  BY <1>1, <1>6
<1>9. Cardinality(low \cup high) = Cardinality(low) + Cardinality(high) - Cardinality(low \cap high)
  <2> HIDE DEF low, high
  <2> QED BY <1>7, FS_Union
<1>10. Cardinality(high) <= Cardinality(X)
  <2> HIDE DEF high, X
  <2> QED BY <1>7, <1>8, FS_Subset
<1>11. Cardinality(low \cap high) = 0
  BY <1>8, FS_EmptySet
<1>12. Cardinality(low) <= mid
  BY <1>5
<1> HIDE DEF low, high, X
<1>13. limit = Cardinality(low) + Cardinality(high)
  <2>1. Cardinality(low \cup high) = limit
    BY <1>6, <1>8
  <2> QED BY <1>7, <1>9, <1>11, <2>1
<1>14. limit - mid <= Cardinality(X)
  BY <1>2, <1>7, <1>10, <1>12, <1>13
<1> QED BY <1>1, <1>7, <1>14 DEF Half, X, limit

(* A median m is removed from at least h counters, h being what m must pay *)
(* for.                                                                    *)
LEMMA MedianPays ==
  ASSUME NEW o \in Nat, NEW m \in Nat, NEW h \in Nat, NEW half \in Nat, NEW k \in Nat,
         h <= half, half <= k
  PROVE  /\ o * h \in Nat
         /\ (o + m) * h <= o * h + m * k
<1>1. (o + m) * h = o * h + m * h
  OBVIOUS
<1>2. PICK d \in Nat : k = h + d
  <2>1. k - h \in Nat /\ k = h + (k - h)
    OBVIOUS
  <2> QED BY <2>1
<1>3. m * k = m * h + m * d /\ m * d \in Nat /\ m * h \in Nat /\ o * h \in Nat
  BY <1>2
<1> QED BY <1>1, <1>3

LEMMA HalfOfTolerance ==
  ASSUME ToleranceOK, NEW s \in Sketches
  PROVE  Half(tolerance[s]) \in Nat /\ Half(tolerance[s]) <= Half(LgMaxOf(s))
<1>1. PICK t \in Sketches : tolerance[s] = LgMaxOf(t)
  BY DEF ToleranceOK, LgMaxima
<1>2. LgMaxOf(t) <= LgMaxOf(s)
  BY <1>1 DEF ToleranceOK
<1> QED BY <1>1, <1>2, HalfGrows

(* Counting n more of an item costs n, purged or not.                      *)
LEMMA AdjustPays ==
  ASSUME TypeOK, ToleranceOK, NEW s \in Sketches, NEW i \in Items, NEW n \in Nat,
         AdjustOrPutValue(s, i, n), Paid(s)
  PROVE  offset'[s] * Half(tolerance[s]) + SumItems(cnt'[s]) <= weight[s] + n
<1> DEFINE c == [cnt[s] EXCEPT ![i] = @ + n]
           h == Half(tolerance[s])
<1>1. /\ cnt \in [Sketches -> [Items -> Nat]] /\ offset \in [Sketches -> Nat]
      /\ weight \in [Sketches -> Nat] /\ lgLen[s] \in LgMin .. LgMaxOf(s)
  BY DEF TypeOK
<1>2. /\ c \in [Items -> Nat]
      /\ \A j \in Items : c[j] = cnt[s][j] + Spread({i}, n)[j]
  BY <1>1 DEF Spread
<1>3. SumItems(cnt[s]) \in Nat /\ SumItems(c) = SumItems(cnt[s]) + n
  <2> DEFINE f == cnt[s]
             g == Spread({i}, n)
  <2>1. f \in [Items -> Nat] /\ g \in [Items -> Nat] /\ c \in [Items -> Nat]
    BY <1>1, <1>2 DEF Spread
  <2>2. SumItems(f) \in Nat /\ SumItems(c) = SumItems(f) + SumItems(g)
    <3>1. \A j \in Items : c[j] = f[j] + g[j]
      BY <1>2
    <3> HIDE DEF c, f, g
    <3> QED BY <2>1, <3>1, SumAdds
  <2>3. SumItems(Spread({i}, n)) = n * Cardinality({i})
    BY SumSpreads
  <2>4. Cardinality({i}) = 1
    BY FS_Singleton
  <2>5. n * 1 = n
    OBVIOUS
  <2> HIDE DEF c
  <2> QED BY <2>2, <2>3, <2>4, <2>5
<1>4. h \in Nat /\ h <= Half(LgMaxOf(s))
  BY HalfOfTolerance
<1>5. offset[s] * h + SumItems(cnt[s]) <= weight[s]
  BY DEF Paid
<1>6. Fits(s, c) \/ Grow(s, c) \/ Purge(s, c)
  BY DEF AdjustOrPutValue
<1> HIDE DEF c, h
<1>7. CASE Fits(s, c) \/ Grow(s, c)
  <2>1. cnt'[s] = c /\ offset' = offset
    BY <1>1, <1>7 DEF Fits, Grow
  <2>2. offset[s] \in Nat /\ weight[s] \in Nat /\ offset[s] * h \in Nat
    BY <1>1, <1>4
  <2>3. offset[s] * h + SumItems(c) <= weight[s] + n
    BY <1>3, <1>5, <2>2
  <2> QED BY <2>1, <2>3 DEF h
<1>8. CASE Purge(s, c)
  <2>1. PICK m \in Medians(s, c) :
          /\ cnt' = [cnt EXCEPT ![s] = Purged(c, m)]
          /\ offset' = [offset EXCEPT ![s] = @ + m]
    BY <1>8 DEF Purge
  <2>2. NumActive(c) > MapCapacityForLg(LgMaxOf(s))
    <3>1. lgLen[s] = LgMaxOf(s)
      <4>1. lgLen[s] >= LgMaxOf(s) /\ LgMaxOf(s) \in Nat
        BY <1>8, LgMaxOrdered DEF Purge
      <4>2. lgLen[s] \in Int /\ lgLen[s] <= LgMaxOf(s)
        BY <1>1, <4>1
      <4> QED BY <4>1, <4>2
    <3> QED BY <1>8, <3>1 DEF Purge
  <2> DEFINE X == {j \in Items : c[j] >= m}
             k == Cardinality(X)
  <2>3. m \in Nat /\ k \in Nat /\ Half(LgMaxOf(s)) <= k
    BY <1>2, <2>2, MedianHasHalf
  <2>4. cnt'[s] = Purged(c, m) /\ offset'[s] = offset[s] + m
    BY <1>1, <2>1
  <2>5. /\ Purged(c, m) \in [Items -> Nat]
        /\ Spread(X, m) \in [Items -> Nat]
        /\ \A j \in Items : Purged(c, m)[j] + Spread(X, m)[j] <= c[j]
    BY <1>2, <2>3 DEF Purged, Spread
  <2>6. SumItems(Purged(c, m)) + SumItems(Spread(X, m)) <= SumItems(c)
    <3> HIDE DEF X
    <3> QED BY <1>2, <2>5, SumBounds
  <2>7. SumItems(Spread(X, m)) = m * k
    <3>1. X \in SUBSET Items
      OBVIOUS
    <3> HIDE DEF X
    <3> QED BY <2>3, <3>1, SumSpreads
  <2>8. SumItems(Purged(c, m)) \in Nat
    BY <2>5, SumIsNat
  <2> HIDE DEF k
  <2>9. Half(LgMaxOf(s)) \in Nat
    BY HalfGrows, LgMaxOrdered
  <2>10. /\ offset[s] \in Nat /\ weight[s] \in Nat
         /\ offset[s] * h \in Nat /\ m * k \in Nat
         /\ (offset[s] + m) * h <= offset[s] * h + m * k
    <3>1. offset[s] \in Nat /\ weight[s] \in Nat
      BY <1>1
    <3>2. m * k \in Nat
      BY <2>3
    <3> QED BY <1>4, <2>3, <2>9, <3>1, <3>2, MedianPays
  <2>11. (offset[s] + m) * h \in Nat
    BY <1>4, <2>3, <2>10
  <2>12. (offset[s] + m) * h + SumItems(Purged(c, m)) <= weight[s] + n
    BY <1>3, <1>5, <2>6, <2>7, <2>8, <2>10, <2>11
  <2> QED BY <2>4, <2>12 DEF h
<1> QED BY <1>6, <1>7, <1>8

LEMMA PayInit == Init => PayInv
<1> SUFFICES ASSUME Init PROVE PayInv
  OBVIOUS
<1>1. IInv
  BY InitOK
<1>2. ToleranceOK
  BY LgMaxOrdered DEF Init, ToleranceOK, LgMaxima
<1>3. ASSUME NEW s \in Sketches PROVE Paid(s)
  <2>1. offset[s] = 0 /\ weight[s] = 0 /\ cnt[s] = Spread({}, 0)
    BY DEF Init, NoCounters, Spread
  <2>2. SumItems(Spread({}, 0)) = 0 * Cardinality({})
    BY SumSpreads
  <2>3. Cardinality({}) = 0
    BY FS_EmptySet
  <2>4. Half(tolerance[s]) \in Nat
    BY <1>2, HalfOfTolerance
  <2>5. SumItems(cnt[s]) = 0
    BY <2>1, <2>2, <2>3
  <2>6. 0 * Half(tolerance[s]) = 0
    BY <2>4
  <2> QED BY <2>1, <2>5, <2>6 DEF Paid
<1>4. MergeConserves
  BY DEF Init, Idle, MergeConserves
<1> QED BY <1>1, <1>2, <1>3, <1>4 DEF PayInv

LEMMA UpdatePays ==
  ASSUME PayInv, NEW s \in Sketches, NEW i \in Items, NEW n \in Counts,
         UpdateWithCount(s, i, n)
  PROVE  PayInv'
<1>1. /\ IInv /\ TypeOK /\ ToleranceOK /\ \A t \in Sketches : Paid(t)
      /\ ~merging.active /\ merging' = merging /\ tolerance' = tolerance /\ n \in Nat
  BY DEF PayInv, IInv, UpdateWithCount, Ready
<1>2. IInv'
  BY <1>1, UpdatePreserves
<1>3. ToleranceOK'
  BY <1>1 DEF ToleranceOK
<1>4. MergeConserves'
  BY <1>1 DEF MergeConserves
<1>5. ASSUME NEW t \in Sketches PROVE Paid(t)'
  <2>1. CASE n = 0
    BY <1>1, <2>1 DEF UpdateWithCount, sketchVars, Paid
  <2>2. CASE n > 0
    <3>1. weight' = [weight EXCEPT ![s] = @ + n] /\ AdjustOrPutValue(s, i, n)
      BY <1>1, <2>2 DEF UpdateWithCount
    <3>2. CASE t = s
      <4>1. offset'[s] * Half(tolerance[s]) + SumItems(cnt'[s]) <= weight[s] + n
        BY <1>1, <3>1, AdjustPays
      <4>2. weight'[s] = weight[s] + n
        BY <1>1, <3>1 DEF TypeOK
      <4> QED BY <1>1, <3>2, <4>1, <4>2 DEF Paid
    <3>3. CASE t # s
      <4>1. cnt'[t] = cnt[t] /\ offset'[t] = offset[t]
        BY <1>1, <3>1, <3>3, AdjustBrackets
      <4>2. weight'[t] = weight[t]
        BY <1>1, <3>1, <3>3 DEF TypeOK
      <4> QED BY <1>1, <4>1, <4>2 DEF Paid
    <3> QED BY <3>2, <3>3
  <2> QED BY <1>1, <2>1, <2>2
<1> QED BY <1>2, <1>3, <1>4, <1>5 DEF PayInv

LEMMA BeginMergePays ==
  ASSUME PayInv, NEW s \in Sketches, NEW t \in Sketches, BeginMerge(s, t)
  PROVE  PayInv'
<1>1. /\ IInv /\ TypeOK /\ ToleranceOK /\ \A u \in Sketches : Paid(u)
      /\ tolerance' = tolerance /\ cnt' = cnt /\ offset' = offset /\ weight' = weight
  BY DEF PayInv, IInv, BeginMerge, sketchVars
<1>2. IInv'
  BY <1>1, BeginMergePreserves
<1>3. ToleranceOK' /\ \A u \in Sketches : Paid(u)'
  BY <1>1 DEF ToleranceOK, Paid
<1>4. /\ merging'.into = s /\ merging'.from = t /\ merging'.todo = ActiveIn(cnt[t])
      /\ merging'.total = weight[s] + weight[t]
  BY DEF BeginMerge
<1>5. ToReplay' = cnt[t]
  <2>1. cnt[t] \in [Items -> Nat]
    BY <1>1 DEF TypeOK
  <2>2. ToReplay' = [i \in Items |-> IF i \in ActiveIn(cnt[t]) THEN cnt[t][i] ELSE 0]
    BY <1>1, <1>4 DEF ToReplay
  <2> QED BY <2>1, <2>2 DEF ActiveIn
<1>6. weight[s] \in Nat /\ weight[t] \in Nat /\ SumItems(cnt[t]) \in Nat
  BY <1>1, SumIsNat DEF TypeOK
<1>7. weight[s] + SumItems(cnt[t]) + weight[t] = (weight[s] + weight[t]) + SumItems(cnt[t])
  BY <1>6
<1>8. MergeConserves'
  BY <1>1, <1>4, <1>5, <1>7 DEF MergeConserves
<1> QED BY <1>2, <1>3, <1>8 DEF PayInv

LEMMA MergeItemPays ==
  ASSUME PayInv, NEW i \in Items, MergeItem(i)
  PROVE  PayInv'
<1> DEFINE s == merging.into
           t == merging.from
           n == cnt[t][i]
<1>1. /\ IInv /\ TypeOK /\ MergeOK /\ ToleranceOK /\ \A u \in Sketches : Paid(u)
      /\ merging.active /\ i \in merging.todo /\ tolerance' = tolerance
  BY DEF PayInv, IInv, MergeItem
<1>2. /\ s \in Sketches /\ t \in Sketches /\ s # t
      /\ merging.todo \subseteq Items /\ merging.total \in Nat
  BY <1>1 DEF MergeOK, Idle
<1>3. /\ cnt \in [Sketches -> [Items -> Nat]] /\ weight \in [Sketches -> Nat]
  BY <1>1 DEF TypeOK
<1>4. n \in Nat
  BY <1>2, <1>3
<1>5. /\ weight' = [weight EXCEPT ![s] = @ + n]
      /\ AdjustOrPutValue(s, i, n)
      /\ merging' = [merging EXCEPT !.todo = @ \ {i}]
  BY DEF MergeItem
<1>6. /\ merging'.into = s /\ merging'.from = t
      /\ merging'.todo = merging.todo \ {i} /\ merging'.total = merging.total
  BY <1>1, <1>5 DEF MergeOK, Idle
<1>7. IInv'
  BY <1>1, MergeItemPreserves
<1>8. ToleranceOK'
  BY <1>1 DEF ToleranceOK
<1>9. \A r : ToReplay = r => r = [j \in Items |-> IF j \in merging.todo THEN cnt[t][j] ELSE 0]
  BY DEF ToReplay
<1>10. ToReplay' = [j \in Items |-> IF j \in merging'.todo THEN cnt'[t][j] ELSE 0]
  BY <1>6 DEF ToReplay
<1>11. weight[s] + SumItems(ToReplay) + weight[t] = merging.total + SumItems(cnt[t])
  BY <1>1 DEF PayInv, MergeConserves
<1> HIDE DEF s, t, n
<1>12. \A u \in Sketches \ {s} : cnt'[u] = cnt[u] /\ offset'[u] = offset[u]
  BY <1>1, <1>2, <1>4, <1>5, AdjustBrackets
<1>13. ASSUME NEW u \in Sketches PROVE Paid(u)'
  <2>1. CASE u = s
    <3>1. offset'[s] * Half(tolerance[s]) + SumItems(cnt'[s]) <= weight[s] + n
      BY <1>1, <1>2, <1>4, <1>5, AdjustPays
    <3>2. weight'[s] = weight[s] + n
      BY <1>2, <1>3, <1>5
    <3> QED BY <1>1, <2>1, <3>1, <3>2 DEF Paid
  <2>2. CASE u # s
    <3>1. cnt'[u] = cnt[u] /\ offset'[u] = offset[u] /\ weight'[u] = weight[u]
      BY <1>3, <1>5, <1>12, <2>2
    <3> QED BY <1>1, <3>1 DEF Paid
  <2> QED BY <2>1, <2>2
<1>14. SumItems(ToReplay) = SumItems(ToReplay') + n /\ SumItems(ToReplay') \in Nat
  <2>1. cnt'[t] = cnt[t] /\ cnt[t] \in [Items -> Nat]
    BY <1>2, <1>3, <1>12
  <2>2. /\ ToReplay \in [Items -> Nat] /\ ToReplay' \in [Items -> Nat]
        /\ Spread({i}, n) \in [Items -> Nat]
    BY <1>4, <1>9, <1>10, <2>1 DEF Spread
  <2>3. \A j \in Items : ToReplay[j] = ToReplay'[j] + Spread({i}, n)[j]
    <3> SUFFICES ASSUME NEW j \in Items
                 PROVE  ToReplay[j] = ToReplay'[j] + Spread({i}, n)[j]
      OBVIOUS
    <3>1. /\ ToReplay[j] = IF j \in merging.todo THEN cnt[t][j] ELSE 0
          /\ ToReplay'[j] = IF j \in merging.todo \ {i} THEN cnt[t][j] ELSE 0
          /\ Spread({i}, n)[j] = IF j = i THEN n ELSE 0
          /\ cnt[t][j] \in Nat
      BY <1>6, <1>9, <1>10, <2>1 DEF Spread
    <3> QED BY <1>1, <3>1 DEF n
  <2>4. /\ SumItems(ToReplay') \in Nat
        /\ SumItems(ToReplay) = SumItems(ToReplay') + SumItems(Spread({i}, n))
    BY <2>2, <2>3, SumAdds
  <2>5. SumItems(Spread({i}, n)) = n * Cardinality({i}) /\ Cardinality({i}) = 1
    BY <1>4, SumSpreads, FS_Singleton
  <2>6. n * 1 = n
    BY <1>4
  <2> QED BY <2>4, <2>5, <2>6
<1>15. MergeConserves'
  <2>1. /\ weight'[s] = weight[s] + n /\ weight'[t] = weight[t] /\ cnt'[t] = cnt[t]
        /\ weight[s] \in Nat /\ weight[t] \in Nat
    BY <1>2, <1>3, <1>5, <1>12
  <2>2. weight'[s] + SumItems(ToReplay') + weight'[t] = merging.total + SumItems(cnt'[t])
    BY <1>4, <1>11, <1>14, <2>1
  <2> QED BY <1>6, <2>2 DEF MergeConserves
<1> QED BY <1>7, <1>8, <1>13, <1>15 DEF PayInv

(* What two sketches have paid for together pays for the sum of their      *)
(* offsets at the smaller half.                                            *)
LEMMA MergedPays ==
  ASSUME NEW o1 \in Nat, NEW o2 \in Nat, NEW h1 \in Nat, NEW h2 \in Nat, NEW h \in Nat,
         h <= h1, h <= h2
  PROVE  /\ o1 * h1 \in Nat /\ o2 * h2 \in Nat /\ (o1 + o2) * h \in Nat
         /\ (o1 + o2) * h <= o1 * h1 + o2 * h2
<1>1. \A o, g \in Nat : h <= g => o * h \in Nat /\ o * g \in Nat /\ o * h <= o * g
  <2> SUFFICES ASSUME NEW o \in Nat, NEW g \in Nat, h <= g
               PROVE  o * h \in Nat /\ o * g \in Nat /\ o * h <= o * g
    OBVIOUS
  <2>1. PICK d \in Nat : g = h + d
    <3>1. g - h \in Nat /\ g = h + (g - h)
      OBVIOUS
    <3> QED BY <3>1
  <2>2. o * g = o * h + o * d /\ o * d \in Nat /\ o * h \in Nat
    BY <2>1
  <2> QED BY <2>2
<1>2. (o1 + o2) * h = o1 * h + o2 * h
  OBVIOUS
<1>3. /\ o1 * h \in Nat /\ o1 * h1 \in Nat /\ o1 * h <= o1 * h1
      /\ o2 * h \in Nat /\ o2 * h2 \in Nat /\ o2 * h <= o2 * h2
  BY <1>1
<1> QED BY <1>2, <1>3

LEMMA EndMergePays ==
  ASSUME PayInv, EndMerge
  PROVE  PayInv'
<1> DEFINE s == merging.into
           t == merging.from
           low == Min({tolerance[s], tolerance[t]})
<1>1. /\ IInv /\ TypeOK /\ MergeOK /\ ToleranceOK /\ \A u \in Sketches : Paid(u)
      /\ merging.active /\ merging.todo = {}
  BY DEF PayInv, IInv, EndMerge
<1>2. s \in Sketches /\ t \in Sketches /\ s # t /\ merging.total \in Nat
  BY <1>1 DEF MergeOK, Idle
<1>3. /\ cnt \in [Sketches -> [Items -> Nat]] /\ weight \in [Sketches -> Nat]
      /\ offset \in [Sketches -> Nat] /\ tolerance \in [Sketches -> LgMaxima]
  BY <1>1 DEF TypeOK, ToleranceOK
<1>4. /\ offset' = [offset EXCEPT ![s] = @ + offset[t]]
      /\ weight' = [weight EXCEPT ![s] = merging.total]
      /\ tolerance' = [tolerance EXCEPT ![s] = low]
      /\ merging' = Idle /\ cnt' = cnt
  BY DEF EndMerge
<1>5. IInv' /\ MergeConserves'
  BY <1>1, <1>4, EndMergePreserves DEF MergeConserves, Idle
<1>6. weight[s] + weight[t] = merging.total + SumItems(cnt[t])
  <2>1. ToReplay = Spread({}, 0)
    BY <1>1 DEF ToReplay, Spread
  <2>2. SumItems(ToReplay) = 0
    <3>1. SumItems(Spread({}, 0)) = 0 * Cardinality({}) /\ Cardinality({}) = 0
      BY SumSpreads, FS_EmptySet
    <3> QED BY <2>1, <3>1
  <2>3. weight[s] + 0 + weight[t] = merging.total + SumItems(cnt[t])
    BY <1>1, <2>2 DEF PayInv, MergeConserves
  <2> QED BY <1>2, <1>3, <2>3
<1>7. /\ low \in LgMaxima /\ low <= LgMaxOf(s)
      /\ Half(low) \in Nat
      /\ Half(low) <= Half(tolerance[s]) /\ Half(low) <= Half(tolerance[t])
  <2>1. PICK u \in Sketches : tolerance[s] = LgMaxOf(u)
    BY <1>2, <1>3 DEF LgMaxima
  <2>2. PICK v \in Sketches : tolerance[t] = LgMaxOf(v)
    BY <1>2, <1>3 DEF LgMaxima
  <2>3. LgMaxOf(u) \in Nat /\ LgMaxOf(v) \in Nat /\ LgMaxOf(s) \in Nat
    BY <1>2, LgMaxOrdered
  <2>4. low = IF LgMaxOf(u) <= LgMaxOf(v) THEN LgMaxOf(u) ELSE LgMaxOf(v)
    BY <2>1, <2>2, <2>3, MinOfTwo
  <2>5. LgMaxOf(u) <= LgMaxOf(s)
    BY <1>1, <1>2, <2>1 DEF ToleranceOK
  <2> HIDE DEF low
  <2>6. CASE LgMaxOf(u) <= LgMaxOf(v)
    <3>1. low = LgMaxOf(u)
      BY <2>4, <2>6
    <3>2. /\ Half(LgMaxOf(u)) \in Nat
          /\ Half(LgMaxOf(u)) <= Half(LgMaxOf(u)) /\ Half(LgMaxOf(u)) <= Half(LgMaxOf(v))
      BY <2>3, <2>6, HalfGrows
    <3> QED BY <2>1, <2>2, <2>5, <3>1, <3>2 DEF LgMaxima
  <2>7. CASE LgMaxOf(v) < LgMaxOf(u)
    <3>1. low = LgMaxOf(v) /\ LgMaxOf(v) <= LgMaxOf(u) /\ LgMaxOf(v) <= LgMaxOf(s)
      BY <2>3, <2>4, <2>5, <2>7
    <3>2. /\ Half(LgMaxOf(v)) \in Nat
          /\ Half(LgMaxOf(v)) <= Half(LgMaxOf(v)) /\ Half(LgMaxOf(v)) <= Half(LgMaxOf(u))
      BY <2>3, <3>1, HalfGrows
    <3> QED BY <2>1, <2>2, <3>1, <3>2 DEF LgMaxima
  <2> QED BY <2>3, <2>6, <2>7
<1>8. /\ offset[s] * Half(tolerance[s]) + SumItems(cnt[s]) <= weight[s]
      /\ offset[t] * Half(tolerance[t]) + SumItems(cnt[t]) <= weight[t]
  BY <1>1, <1>2 DEF Paid
<1> HIDE DEF s, t, low
<1>9. ToleranceOK'
  BY <1>1, <1>2, <1>3, <1>4, <1>7 DEF ToleranceOK
<1>10. ASSUME NEW u \in Sketches PROVE Paid(u)'
  <2>1. CASE u = s
    <3>1. /\ offset'[s] = offset[s] + offset[t] /\ weight'[s] = merging.total
          /\ tolerance'[s] = low /\ cnt'[s] = cnt[s]
      BY <1>2, <1>3, <1>4
    <3>2. /\ offset[s] \in Nat /\ offset[t] \in Nat /\ weight[s] \in Nat /\ weight[t] \in Nat
          /\ SumItems(cnt[s]) \in Nat /\ SumItems(cnt[t]) \in Nat
          /\ Half(tolerance[s]) \in Nat /\ Half(tolerance[t]) \in Nat
      BY <1>1, <1>2, <1>3, SumIsNat, HalfOfTolerance
    <3>3. /\ offset[s] * Half(tolerance[s]) \in Nat /\ offset[t] * Half(tolerance[t]) \in Nat
          /\ (offset[s] + offset[t]) * Half(low) \in Nat
          /\ (offset[s] + offset[t]) * Half(low)
               <= offset[s] * Half(tolerance[s]) + offset[t] * Half(tolerance[t])
      BY <1>7, <3>2, MergedPays
    <3>4. (offset[s] + offset[t]) * Half(low) + SumItems(cnt[s]) <= merging.total
      BY <1>2, <1>6, <1>8, <3>2, <3>3
    <3> QED BY <2>1, <3>1, <3>4 DEF Paid
  <2>2. CASE u # s
    <3>1. offset'[u] = offset[u] /\ weight'[u] = weight[u] /\ tolerance'[u] = tolerance[u]
      BY <1>3, <1>4, <2>2
    <3> QED BY <1>1, <1>4, <3>1 DEF Paid
  <2> QED BY <2>1, <2>2
<1> QED BY <1>5, <1>9, <1>10 DEF PayInv

LEMMA ResetPays ==
  ASSUME PayInv, NEW s \in Sketches, Reset(s)
  PROVE  PayInv'
<1>1. /\ IInv /\ TypeOK /\ ToleranceOK /\ \A u \in Sketches : Paid(u)
      /\ ~merging.active /\ merging' = merging
  BY DEF PayInv, IInv, Reset, Ready
<1>2. /\ cnt' = [cnt EXCEPT ![s] = NoCounters]
      /\ offset' = [offset EXCEPT ![s] = 0]
      /\ weight' = [weight EXCEPT ![s] = 0]
      /\ tolerance' = [tolerance EXCEPT ![s] = LgMaxOf(s)]
  BY DEF Reset
<1>3. IInv' /\ MergeConserves'
  BY <1>1, ResetPreserves DEF MergeConserves
<1>4. ToleranceOK'
  BY <1>1, <1>2, LgMaxOrdered DEF ToleranceOK, LgMaxima
<1>5. ASSUME NEW u \in Sketches PROVE Paid(u)'
  <2>1. CASE u = s
    <3>1. offset'[s] = 0 /\ weight'[s] = 0 /\ cnt'[s] = Spread({}, 0) /\ tolerance'[s] = LgMaxOf(s)
      BY <1>1, <1>2 DEF TypeOK, ToleranceOK, NoCounters, Spread
    <3>2. SumItems(Spread({}, 0)) = 0 * Cardinality({}) /\ Cardinality({}) = 0
      BY SumSpreads, FS_EmptySet
    <3>3. Half(LgMaxOf(s)) \in Nat
      BY HalfGrows, LgMaxOrdered
    <3>4. SumItems(cnt'[s]) = 0 /\ 0 * Half(LgMaxOf(s)) = 0
      BY <3>1, <3>2, <3>3
    <3> QED BY <2>1, <3>1, <3>4 DEF Paid
  <2>2. CASE u # s
    <3>1. /\ offset'[u] = offset[u] /\ weight'[u] = weight[u] /\ cnt'[u] = cnt[u]
          /\ tolerance'[u] = tolerance[u]
      BY <1>1, <1>2, <2>2 DEF TypeOK, ToleranceOK
    <3> QED BY <1>1, <3>1 DEF Paid
  <2> QED BY <2>1, <2>2
<1> QED BY <1>3, <1>4, <1>5 DEF PayInv

LEMMA UnchangedPays ==
  ASSUME PayInv,
         UNCHANGED vars \/ \E s, t \in Sketches : MergeSkipped(s, t)
  PROVE  PayInv'
<1>1. /\ cnt' = cnt /\ offset' = offset /\ weight' = weight /\ tolerance' = tolerance
      /\ merging' = merging
  BY DEF MergeSkipped, vars, sketchVars
<1>2. IInv'
  BY StepPreserves DEF PayInv, Next
<1>3. ToReplay' = ToReplay
  BY <1>1 DEF ToReplay
<1>4. ToleranceOK' /\ MergeConserves' /\ \A u \in Sketches : Paid(u)'
  BY <1>1, <1>3 DEF PayInv, ToleranceOK, MergeConserves, Paid
<1> QED BY <1>2, <1>4 DEF PayInv

LEMMA StepPays == PayInv /\ [Next]_vars => PayInv'
<1> SUFFICES ASSUME PayInv, [Next]_vars PROVE PayInv'
  OBVIOUS
<1> QED BY UpdatePays, BeginMergePays, MergeItemPays, EndMergePays, ResetPays,
           UnchangedPays DEF Next

(* Whatever is updated, purged, merged or reset, offset times half the     *)
(* sample of a full map never exceeds the weight no longer counted: the    *)
(* error guarantee maximum_error() states, for every map and sample size.  *)
THEOREM ErrorIsPaidFor == Spec => []ErrorPaidFor
<1>1. PayInv => ErrorPaidFor
  BY DEF PayInv, Paid, Half, Limit, ErrorPaidFor
<1> QED BY <1>1, PayInit, StepPays, PTL DEF Spec

-------------------------------------------------------------------------------
(***************************************************************************)
(* The slots of ReversePurgeMap.                                           *)
(*                                                                         *)
(* A map is sound when the walk of each of its entries ends at its slot,   *)
(* after as many steps as its state says; it is then a settled table in    *)
(* the sense of NatSets.  Insertion keeps that, hence resize and           *)
(* deserialize do, which insert into an empty map.                         *)
(***************************************************************************)

MapsOf(lg) ==
  [lgLength : {lg}, keys : [Slots(lg) -> Items \cup {Free}],
   values : [Slots(lg) -> Nat], states : [Slots(lg) -> Nat], numActive : Int]

OkSize(lg) == lg \in Nat /\ 2 ^ lg \in Nat \ {0} /\ home \in [Items -> Nat]

Route(lg) == [i \in Items |-> [j \in Slots(lg) |-> (home[i] + j) % 2 ^ lg]]

(* The entries of a map. *)
Entries(m) == {<<m.keys[p], m.values[p]>> : p \in Taken(m)}
KeysIn(m) == {m.keys[p] : p \in Taken(m)}

Marked(m, lg) == \A p \in Slots(lg) : m.states[p] = Free <=> m.keys[p] = Free

(* The walk to each entry ends at its slot after as many steps as its      *)
(* state says.                                                             *)
Sound(m, lg) ==
  /\ m \in MapsOf(lg)
  /\ Marked(m, lg)
  /\ \A p \in Slots(lg) : m.keys[p] # Free =>
       /\ EndsAt(2 ^ lg, m.keys, Free, Route(lg), m.keys[p], m.states[p] - 1)
       /\ Route(lg)[m.keys[p]][m.states[p] - 1] = p

(* The walk of an item from its home slot meets every slot once.           *)
LEMMA RouteFacts ==
  ASSUME NEW lg, OkSize(lg)
  PROVE  /\ Route(lg) \in Routes(2 ^ lg, Items)
         /\ \A i \in Items, j \in Slots(lg) :
              Route(lg)[i][j] = (home[i] + j) % 2 ^ lg /\ Route(lg)[i][j] \in Slots(lg)
         /\ \A i \in Items, j, k \in Slots(lg) : Route(lg)[i][j] = Route(lg)[i][k] => j = k
<1> DEFINE N == 2 ^ lg
<1>0. N \in Nat \ {0} /\ home \in [Items -> Nat] /\ Slots(lg) = 0 .. N - 1
  BY DEF OkSize, Slots
<1> HIDE DEF N
<1>1. \A i \in Items, j \in 0 .. N - 1 : (home[i] + j) % N \in 0 .. N - 1
  <2>1. \A i \in Items, j \in 0 .. N - 1 : home[i] + j \in Nat
    BY <1>0
  <2> QED BY <1>0, <2>1, ModFacts
<1>2. \A i \in Items, j \in 0 .. N - 1 : Route(lg)[i][j] = (home[i] + j) % N
  BY <1>0 DEF Route, N
<1>3. Route(lg) \in [Items -> [0 .. N - 1 -> 0 .. N - 1]]
  BY <1>0, <1>1 DEF Route, N
<1>4. ASSUME NEW i \in Items, NEW p \in 0 .. N - 1
      PROVE  \E j \in 0 .. N - 1 : Route(lg)[i][j] = p
  <2>1. home[i] \in Nat
    BY <1>0
  <2>2. \E j \in 0 .. N - 1 : (home[i] + j) % N = p
    BY <1>0, <2>1, TurnsAll
  <2> QED BY <1>2, <2>2
<1>5. Route(lg) \in Routes(N, Items)
  BY <1>3, <1>4 DEF Routes
<1>6. ASSUME NEW i \in Items, NEW j \in 0 .. N - 1, NEW k \in 0 .. N - 1,
             Route(lg)[i][j] = Route(lg)[i][k]
      PROVE  j = k
  <2>1. home[i] \in Nat /\ (home[i] + j) % N = (home[i] + k) % N
    BY <1>0, <1>2, <1>6
  <2> QED BY <1>0, <2>1, TurnsOnce
<1>7. N = 2 ^ lg
  BY DEF N
<1>8. \A i \in Items, j \in Slots(lg) :
        Route(lg)[i][j] = (home[i] + j) % 2 ^ lg /\ Route(lg)[i][j] \in Slots(lg)
  BY <1>0, <1>1, <1>2, <1>7
<1>9. \A i \in Items, j, k \in Slots(lg) : Route(lg)[i][j] = Route(lg)[i][k] => j = k
  BY <1>0, <1>6
<1> QED BY <1>5, <1>7, <1>8, <1>9

(* A sound map is a settled table, every walk of one slot a step.          *)
LEMMA SoundEnds ==
  ASSUME NEW lg, OkSize(lg), NEW m, Sound(m, lg)
  PROVE  EachEnds(2 ^ lg, m.keys, Free, Route(lg))
BY DEF Sound, EachEnds, Slots, EndsAt

(* No key is at two slots. *)
LEMMA SoundOnce ==
  ASSUME NEW lg, OkSize(lg), NEW m, Sound(m, lg)
  PROVE  /\ Taken(m) = {p \in Slots(lg) : m.keys[p] # Free}
         /\ \A p, q \in Taken(m) : m.keys[p] = m.keys[q] => p = q
         /\ KeysIn(m) \in SUBSET Items
<1>1. m.lgLength = lg /\ m.keys \in [Slots(lg) -> Items \cup {Free}] /\ Marked(m, lg)
  BY DEF Sound, MapsOf
<1>2. Taken(m) = {p \in Slots(lg) : m.keys[p] # Free}
  BY <1>1 DEF Taken, Marked
<1>3. EachEnds(2 ^ lg, m.keys, Free, Route(lg))
  BY SoundEnds
<1>4. 2 ^ lg \in Nat
  BY DEF OkSize
<1>5. ASSUME NEW p \in Taken(m), NEW q \in Taken(m), m.keys[p] = m.keys[q] PROVE p = q
  <2>1. p \in 0 .. 2 ^ lg - 1 /\ q \in 0 .. 2 ^ lg - 1 /\ m.keys[p] # Free
    BY <1>2 DEF Slots
  <2> QED BY <1>3, <1>4, <1>5, <2>1, SettledOnce
<1>6. KeysIn(m) \in SUBSET Items
  BY <1>1, <1>2 DEF KeysIn
<1> QED BY <1>2, <1>5, <1>6

(* With fewer keys than slots a slot is free.                              *)
LEMMA SoundHasRoom ==
  ASSUME NEW lg, OkSize(lg), NEW m, Sound(m, lg), Cardinality(KeysIn(m)) < 2 ^ lg
  PROVE  \E p \in Slots(lg) : m.keys[p] = Free
<1>1. IsFiniteSet(KeysIn(m))
  BY SoundOnce, ItemsAssumption, FS_Subset
<1>2. \A p \in 0 .. 2 ^ lg - 1 : m.keys[p] \in KeysIn(m) \cup {Free}
  BY SoundOnce DEF KeysIn, Slots
<1>3. EachEnds(2 ^ lg, m.keys, Free, Route(lg)) /\ 2 ^ lg \in Nat \ {0}
  BY SoundEnds DEF OkSize
<1> QED BY <1>1, <1>2, <1>3, SlotIsFree DEF Slots
-------------------------------------------------------------------------------
(* find_probe_or_empty. *)

(* The walk of i stops at slot p with the given drift.                      *)
ProbesTo(m, lg, i, drift, p) ==
  /\ drift \in 1 .. 2 ^ lg /\ p \in Slots(lg)
  /\ FindProbeOrEmpty(m, i) = drift
  /\ SlotAt(m, i, drift) = p
  /\ Route(lg)[i][drift - 1] = p
  /\ EndsAt(2 ^ lg, m.keys, Free, Route(lg), i, drift - 1)

(* find_probe_or_empty returns where the walk ends, counted from one.      *)
LEMMA ProbeEnds ==
  ASSUME NEW lg, OkSize(lg), NEW m \in MapsOf(lg), Marked(m, lg), NEW i \in Items,
         NEW j, EndsAt(2 ^ lg, m.keys, Free, Route(lg), i, j)
  PROVE  ProbesTo(m, lg, i, j + 1, Route(lg)[i][j])
<1> DEFINE N == 2 ^ lg
           route == Route(lg)
<1>0. N \in Nat \ {0} /\ home[i] \in Nat /\ Slots(lg) = 0 .. N - 1 /\ N = 2 ^ lg
  BY DEF OkSize, Slots
<1>1. j \in 0 .. N - 1 /\ m.lgLength = lg
  BY DEF EndsAt, MapsOf
<1>2. \A a \in 0 .. N - 1 : route[i][a] = (home[i] + a) % N /\ route[i][a] \in 0 .. N - 1
  BY <1>0, RouteFacts
<1> HIDE DEF N, route
<1>3. ASSUME NEW d \in 1 .. N
      PROVE  /\ SlotAt(m, i, d) = route[i][d - 1]
             /\ StopsAt(m, i, d) <=> Stops(m.keys, Free, i, route[i][d - 1])
  <2>1. d - 1 \in 0 .. N - 1
    BY <1>0
  <2>2. SlotAt(m, i, d) = route[i][d - 1] /\ route[i][d - 1] \in Slots(lg)
    BY <1>0, <1>1, <1>2, <2>1 DEF SlotAt, After, Size
  <2>3. m.states[route[i][d - 1]] = Free <=> m.keys[route[i][d - 1]] = Free
    BY <2>2 DEF Marked
  <2> QED BY <2>2, <2>3 DEF StopsAt, Stops
<1> DEFINE good(d) == StopsAt(m, i, d) /\ \A e \in 1 .. d - 1 : ~StopsAt(m, i, e)
<1>4. j + 1 \in 1 .. N /\ (j + 1) - 1 = j
  BY <1>0, <1>1
<1>5. good(j + 1)
  <2>1. StopsAt(m, i, j + 1)
    BY <1>3, <1>4 DEF EndsAt, N, route
  <2>2. ASSUME NEW e \in 1 .. (j + 1) - 1 PROVE ~StopsAt(m, i, e)
    <3>1. e \in 1 .. N /\ e - 1 \in 0 .. j - 1
      BY <1>0, <1>1
    <3>2. ~Stops(m.keys, Free, i, route[i][e - 1])
      BY <3>1 DEF EndsAt, N, route
    <3> QED BY <1>3, <3>1, <3>2
  <2> QED BY <2>1, <2>2
<1>6. ASSUME NEW d \in 1 .. N, good(d) PROVE d = j + 1
  <2>1. ~(d < j + 1)
    <3> SUFFICES ASSUME d < j + 1 PROVE FALSE
      OBVIOUS
    <3>1. d \in 1 .. (j + 1) - 1
      BY <1>1
    <3> QED BY <1>5, <1>6, <3>1
  <2>2. ~(j + 1 < d)
    <3> SUFFICES ASSUME j + 1 < d PROVE FALSE
      OBVIOUS
    <3>1. j + 1 \in 1 .. d - 1
      BY <1>1, <1>4
    <3> QED BY <1>5, <1>6, <3>1
  <2> QED BY <1>1, <1>4, <2>1, <2>2
<1>7. FindProbeOrEmpty(m, i) = j + 1
  <2>1. ~\A d \in 1 .. N : ~StopsAt(m, i, d)
    BY <1>4, <1>5
  <2>2. FindProbeOrEmpty(m, i) = CHOOSE d \in 1 .. N : good(d)
    BY <1>0, <1>1, <2>1 DEF FindProbeOrEmpty, Size
  <2> HIDE DEF good
  <2> QED BY <1>4, <1>5, <1>6, <2>2
<1>8. /\ SlotAt(m, i, j + 1) = route[i][j] /\ route[i][j] \in Slots(lg)
      /\ route[i][(j + 1) - 1] = route[i][j]
      /\ EndsAt(2 ^ lg, m.keys, Free, Route(lg), i, (j + 1) - 1)
  BY <1>0, <1>1, <1>2, <1>3, <1>4
<1> QED BY <1>0, <1>4, <1>7, <1>8 DEF ProbesTo, route

(* In a sound map with a free slot every walk stops, at the entry of the   *)
(* item if there is one.                                                   *)
LEMMA ProbeFinds ==
  ASSUME NEW lg, OkSize(lg), NEW m, Sound(m, lg), Cardinality(KeysIn(m)) < 2 ^ lg,
         NEW i \in Items
  PROVE  \E drift, p :
           /\ ProbesTo(m, lg, i, drift, p)
           /\ i \in KeysIn(m) => p \in Taken(m) /\ m.keys[p] = i
           /\ i \notin KeysIn(m) => m.states[p] = Free /\ m.keys[p] = Free
<1> DEFINE N == 2 ^ lg
<1>0. N \in Nat \ {0} /\ Slots(lg) = 0 .. N - 1 /\ m \in MapsOf(lg) /\ Marked(m, lg)
  BY DEF OkSize, Slots, Sound
<1>1. Route(lg) \in Routes(N, Items) /\ EachEnds(N, m.keys, Free, Route(lg))
  BY RouteFacts, SoundEnds
<1>2. m.keys \in [0 .. N - 1 -> Items \cup {Free}]
  BY <1>0 DEF MapsOf
<1>3. PICK q \in 0 .. N - 1 : m.keys[q] = Free
  BY <1>0, SoundHasRoom
<1>4. WalkEnd(N, m.keys, Free, Route(lg), i)
  BY <1>0, <1>1, <1>2, <1>3, FreeAssumption, EveryWalkEnds
<1>5. PICK j \in 0 .. N - 1 :
        /\ EndsAt(N, m.keys, Free, Route(lg), i, j)
        /\ IF \E p \in 0 .. N - 1 : m.keys[p] = i THEN m.keys[Route(lg)[i][j]] = i
                                                  ELSE m.keys[Route(lg)[i][j]] = Free
  BY <1>4 DEF WalkEnd
<1> DEFINE p == Route(lg)[i][j]
<1>6. ProbesTo(m, lg, i, j + 1, p)
  BY <1>0, <1>5, ProbeEnds
<1>7. p \in Slots(lg)
  BY <1>6 DEF ProbesTo
<1>8. Taken(m) = {q2 \in Slots(lg) : m.keys[q2] # Free}
  BY SoundOnce
<1>9. i \in KeysIn(m) <=> \E q2 \in 0 .. N - 1 : m.keys[q2] = i
  BY <1>0, <1>8, FreeAssumption DEF KeysIn
<1> HIDE DEF p
<1>10. i \in KeysIn(m) => p \in Taken(m) /\ m.keys[p] = i
  BY <1>5, <1>7, <1>8, <1>9, FreeAssumption DEF p
<1>11. i \notin KeysIn(m) => m.states[p] = Free /\ m.keys[p] = Free
  BY <1>0, <1>5, <1>7, <1>9 DEF p, Marked
<1> QED BY <1>6, <1>10, <1>11

(* The counters are those of the entries. *)
LEMMA CounterFacts ==
  ASSUME NEW lg, OkSize(lg), NEW m, Sound(m, lg)
  PROVE  /\ CountersIn(m) \in [Items -> Nat]
         /\ \A p \in Taken(m) : CountersIn(m)[m.keys[p]] = m.values[p]
         /\ \A i \in Items \ KeysIn(m) : CountersIn(m)[i] = 0
<1>1. /\ Taken(m) \in SUBSET Slots(lg) /\ KeysIn(m) \in SUBSET Items
      /\ \A p, q \in Taken(m) : m.keys[p] = m.keys[q] => p = q
  BY SoundOnce
<1>2. m.values \in [Slots(lg) -> Nat]
  BY DEF Sound, MapsOf
<1>3. ASSUME NEW i \in Items, NEW p \in Taken(m), m.keys[p] = i
      PROVE  CountersIn(m)[i] = m.values[p]
  <2>1. (CHOOSE q \in Taken(m) : m.keys[q] = i) = p
    BY <1>1, <1>3
  <2>2. CountersIn(m)[i] = m.values[CHOOSE q \in Taken(m) : m.keys[q] = i]
    BY <1>3 DEF CountersIn
  <2> QED BY <2>1, <2>2
<1>4. ASSUME NEW i \in Items \ KeysIn(m) PROVE CountersIn(m)[i] = 0
  <2>1. ~\E p \in Taken(m) : m.keys[p] = i
    BY DEF KeysIn
  <2> QED BY <2>1 DEF CountersIn
<1>5. \A p \in Taken(m) : m.keys[p] \in Items
  BY <1>1 DEF KeysIn
<1>6. ASSUME NEW i \in Items PROVE CountersIn(m)[i] \in Nat
  <2>1. CASE i \in KeysIn(m)
    <3>1. PICK p \in Taken(m) : m.keys[p] = i
      BY <2>1 DEF KeysIn
    <3> QED BY <1>1, <1>2, <1>3, <3>1
  <2>2. CASE i \notin KeysIn(m)
    BY <1>4, <2>2
  <2> QED BY <2>1, <2>2
<1>7. CountersIn(m) = [i \in Items |-> CountersIn(m)[i]]
  BY DEF CountersIn
<1>8. CountersIn(m) \in [Items -> Nat]
  BY <1>6, <1>7
<1> QED BY <1>3, <1>4, <1>5, <1>8

(* r is the map m with n added to the counter of item i. *)
Inserted(m, lg, i, n, r) ==
  /\ Sound(r, lg)
  /\ KeysIn(r) = KeysIn(m) \cup {i}
  /\ CountersIn(r) = [CountersIn(m) EXCEPT ![i] = @ + n]
  /\ r.numActive = IF i \in KeysIn(m) THEN m.numActive ELSE m.numActive + 1

(* adjust_or_put_value adds to the counter of its item and to no other.    *)
LEMMA InsertSound ==
  ASSUME NEW lg, OkSize(lg), NEW m, Sound(m, lg), Cardinality(KeysIn(m)) < 2 ^ lg,
         NEW i \in Items, NEW n \in Nat
  PROVE  Inserted(m, lg, i, n, AdjustOrPutSlot(m, i, n))
<1> DEFINE N == 2 ^ lg
           r == AdjustOrPutSlot(m, i, n)
<1>0. N \in Nat \ {0} /\ Slots(lg) = 0 .. N - 1
  BY DEF OkSize, Slots
<1>1. PICK drift, p :
           /\ ProbesTo(m, lg, i, drift, p)
           /\ i \in KeysIn(m) => p \in Taken(m) /\ m.keys[p] = i
           /\ i \notin KeysIn(m) => m.states[p] = Free /\ m.keys[p] = Free
  BY ProbeFinds
<1>2. /\ drift \in 1 .. N /\ p \in Slots(lg) /\ FindProbeOrEmpty(m, i) = drift
      /\ SlotAt(m, i, drift) = p /\ Route(lg)[i][drift - 1] = p
  BY <1>1 DEF ProbesTo
<1>3. /\ m \in MapsOf(lg) /\ m.lgLength = lg /\ m.keys \in [Slots(lg) -> Items \cup {Free}]
      /\ m.values \in [Slots(lg) -> Nat] /\ m.states \in [Slots(lg) -> Nat]
      /\ m.numActive \in Int /\ Marked(m, lg)
  BY DEF Sound, MapsOf
<1>4. /\ Taken(m) = {q \in Slots(lg) : m.states[q] # Free}
      /\ \A q, t \in Taken(m) : m.keys[q] = m.keys[t] => q = t
      /\ KeysIn(m) \in SUBSET Items
  BY <1>3, SoundOnce DEF Taken
<1>5. /\ CountersIn(m) \in [Items -> Nat]
      /\ \A q \in Taken(m) : CountersIn(m)[m.keys[q]] = m.values[q]
      /\ \A x \in Items \ KeysIn(m) : CountersIn(m)[x] = 0
  BY CounterFacts
<1>6. CASE i \in KeysIn(m)
  <2>0. p \in Taken(m) /\ m.keys[p] = i /\ m.states[p] # Free
    BY <1>1, <1>4, <1>6
  <2>1. r = [m EXCEPT !.values = [m.values EXCEPT ![p] = @ + n]]
    BY <1>2, <2>0 DEF AdjustOrPutSlot
  <2> HIDE DEF r
  <2>2. /\ r.keys = m.keys /\ r.states = m.states /\ r.lgLength = m.lgLength
        /\ r.numActive = m.numActive /\ r.values = [m.values EXCEPT ![p] = @ + n]
        /\ r \in MapsOf(lg)
    <3> DEFINE vals == [m.values EXCEPT ![p] = @ + n]
    <3>1. vals \in [Slots(lg) -> Nat]
      BY <1>2, <1>3
    <3>2. r = [m EXCEPT !.values = vals]
      BY <2>1
    <3> HIDE DEF vals
    <3>3. /\ r.keys = m.keys /\ r.states = m.states /\ r.lgLength = m.lgLength
          /\ r.numActive = m.numActive /\ r.values = vals /\ r \in MapsOf(lg)
      BY <1>3, <3>1, <3>2 DEF MapsOf
    <3> QED BY <3>3 DEF vals
  <2>3. Taken(r) = Taken(m) /\ KeysIn(r) = KeysIn(m)
    BY <2>2 DEF Taken, KeysIn
  <2>4. Sound(r, lg)
    BY <2>2 DEF Sound, Marked
  <2>5. /\ CountersIn(r) \in [Items -> Nat]
        /\ \A q \in Taken(r) : CountersIn(r)[r.keys[q]] = r.values[q]
        /\ \A x \in Items \ KeysIn(r) : CountersIn(r)[x] = 0
    BY <2>4, CounterFacts
  <2>6. ASSUME NEW x \in Items
        PROVE  CountersIn(r)[x] = [CountersIn(m) EXCEPT ![i] = @ + n][x]
    <3>1. CASE x \in KeysIn(m)
      <4>1. PICK q \in Taken(m) : m.keys[q] = x
        BY <3>1 DEF KeysIn
      <4>2. CountersIn(r)[x] = r.values[q] /\ CountersIn(m)[x] = m.values[q]
        BY <1>5, <2>2, <2>3, <2>5, <4>1
      <4>3. q \in Slots(lg) /\ (q = p <=> x = i)
        BY <1>4, <2>0, <4>1
      <4> QED BY <1>3, <1>5, <2>2, <4>2, <4>3
    <3>2. CASE x \notin KeysIn(m)
      BY <1>5, <1>6, <2>3, <2>5, <3>2
    <3> QED BY <3>1, <3>2
  <2>7. CountersIn(r) = [CountersIn(m) EXCEPT ![i] = @ + n]
    BY <1>5, <2>5, <2>6
  <2>8. KeysIn(r) = KeysIn(m) \cup {i}
    BY <1>6, <2>3
  <2>9. Inserted(m, lg, i, n, r)
    BY <1>6, <2>2, <2>4, <2>7, <2>8 DEF Inserted
  <2> QED BY <2>9 DEF r
<1>7. CASE i \notin KeysIn(m)
  <2>0. m.states[p] = Free /\ m.keys[p] = Free /\ i # Free
    BY <1>1, <1>7, FreeAssumption
  <2>1. r = [lgLength  |-> m.lgLength,
             keys      |-> [m.keys EXCEPT ![p] = i],
             values    |-> [m.values EXCEPT ![p] = n],
             states    |-> [m.states EXCEPT ![p] = drift],
             numActive |-> m.numActive + 1]
    BY <1>2, <2>0 DEF AdjustOrPutSlot
  <2> HIDE DEF r
  <2>2. /\ r.keys = [m.keys EXCEPT ![p] = i] /\ r.values = [m.values EXCEPT ![p] = n]
        /\ r.states = [m.states EXCEPT ![p] = drift] /\ r.lgLength = lg
        /\ r.numActive = m.numActive + 1 /\ r \in MapsOf(lg)
    <3>1. drift \in Nat
      BY <1>0, <1>2
    <3> QED BY <1>2, <1>3, <2>1, <3>1 DEF MapsOf
  <2>3. Taken(r) = Taken(m) \cup {p}
    <3>1. drift # Free
      BY <1>0, <1>2 DEF Free
    <3>2. Taken(r) = {q \in Slots(lg) : r.states[q] # Free}
      BY <2>2 DEF Taken
    <3> QED BY <1>2, <1>3, <1>4, <2>2, <3>1, <3>2
  <2>4. KeysIn(r) = KeysIn(m) \cup {i}
    <3>1. \A q \in Taken(m) : q # p /\ r.keys[q] = m.keys[q]
      BY <1>3, <1>4, <2>0, <2>2
    <3>2. r.keys[p] = i
      BY <1>2, <1>3, <2>2
    <3> QED BY <2>3, <3>1, <3>2 DEF KeysIn
  <2>5. Marked(r, lg)
    <3>1. drift # Free
      BY <1>0, <1>2 DEF Free
    <3> QED BY <1>2, <1>3, <2>0, <2>2, <3>1 DEF Marked
  <2>6. EachEnds(N, r.keys, Free, Route(lg))
    <3>1. EachEnds(N, m.keys, Free, Route(lg)) /\ Route(lg) \in Routes(N, Items)
      BY SoundEnds, RouteFacts
    <3>2. EndsAt(N, m.keys, Free, Route(lg), i, drift - 1)
      BY <1>1 DEF ProbesTo
    <3>3. EachEnds(N, [m.keys EXCEPT ![Route(lg)[i][drift - 1]] = i], Free, Route(lg))
      BY <1>0, <1>3, <3>1, <3>2, FreeAssumption, StoreSettles
    <3> QED BY <1>2, <2>2, <3>3
  <2>7. ASSUME NEW q \in Slots(lg), r.keys[q] # Free
        PROVE  /\ r.states[q] - 1 \in Slots(lg)
               /\ Route(lg)[r.keys[q]][r.states[q] - 1] = q
    <3>1. CASE q = p
      <4>1. r.keys[q] = i /\ r.states[q] = drift /\ drift - 1 \in Slots(lg)
        BY <1>0, <1>2, <1>3, <2>2, <3>1
      <4> QED BY <1>2, <3>1, <4>1
    <3>2. CASE q # p
      <4>1. r.keys[q] = m.keys[q] /\ r.states[q] = m.states[q] /\ m.keys[q] # Free
        BY <1>2, <1>3, <2>2, <2>7, <3>2
      <4>2. /\ m.states[q] - 1 \in Slots(lg)
            /\ Route(lg)[m.keys[q]][m.states[q] - 1] = q
        BY <1>0, <4>1 DEF Sound, EndsAt
      <4> QED BY <4>1, <4>2
    <3> QED BY <3>1, <3>2
  <2>8. ASSUME NEW q \in Slots(lg), r.keys[q] # Free
        PROVE  EndsAt(N, r.keys, Free, Route(lg), r.keys[q], r.states[q] - 1)
    <3>1. PICK j \in 0 .. N - 1 :
            EndsAt(N, r.keys, Free, Route(lg), r.keys[q], j) /\ Route(lg)[r.keys[q]][j] = q
      BY <1>0, <2>6, <2>8 DEF EachEnds
    <3>2. r.keys[q] \in Items
      BY <2>2, <2>8 DEF MapsOf
    <3>3. j = r.states[q] - 1
      BY <1>0, <2>7, <2>8, <3>1, <3>2, RouteFacts
    <3> QED BY <3>1, <3>3
  <2>9. Sound(r, lg)
    BY <2>2, <2>5, <2>7, <2>8 DEF Sound
  <2>10. /\ CountersIn(r) \in [Items -> Nat]
         /\ \A q \in Taken(r) : CountersIn(r)[r.keys[q]] = r.values[q]
         /\ \A x \in Items \ KeysIn(r) : CountersIn(r)[x] = 0
    BY <2>9, CounterFacts
  <2>11. ASSUME NEW x \in Items
         PROVE  CountersIn(r)[x] = [CountersIn(m) EXCEPT ![i] = @ + n][x]
    <3>1. CASE x = i
      <4>1. p \in Taken(r) /\ r.keys[p] = i /\ r.values[p] = n
        BY <1>2, <1>3, <2>2, <2>3
      <4>2. CountersIn(r)[i] = n /\ CountersIn(m)[i] = 0
        BY <1>5, <1>7, <2>10, <4>1
      <4> QED BY <1>5, <3>1, <4>2
    <3>2. CASE x # i /\ x \in KeysIn(m)
      <4>1. PICK q \in Taken(m) : m.keys[q] = x
        BY <3>2 DEF KeysIn
      <4>2. q \in Slots(lg) /\ q # p /\ q \in Taken(r)
        BY <1>4, <2>0, <2>3, <4>1
      <4>3. r.keys[q] = x /\ r.values[q] = m.values[q]
        BY <1>3, <2>2, <4>1, <4>2
      <4>4. CountersIn(r)[x] = m.values[q] /\ CountersIn(m)[x] = m.values[q]
        BY <1>5, <2>10, <4>1, <4>2, <4>3
      <4> QED BY <1>5, <3>2, <4>4
    <3>3. CASE x # i /\ x \notin KeysIn(m)
      <4>1. CountersIn(r)[x] = 0 /\ CountersIn(m)[x] = 0
        BY <1>5, <2>4, <2>10, <3>3
      <4> QED BY <1>5, <3>3, <4>1
    <3> QED BY <3>1, <3>2, <3>3
  <2>12. CountersIn(r) = [CountersIn(m) EXCEPT ![i] = @ + n]
    BY <1>5, <2>10, <2>11
  <2>13. Inserted(m, lg, i, n, r)
    BY <1>7, <2>2, <2>4, <2>9, <2>12 DEF Inserted
  <2> QED BY <2>13 DEF r
<1> QED BY <1>6, <1>7

-------------------------------------------------------------------------------
(* resize and deserialize: the entries are inserted into an empty map.     *)

CopyTurn(m, c, n) ==
  IF m.states[n] = Free THEN c ELSE AdjustOrPutSlot(c, m.keys[n], m.values[n])

(* c holds the entries of m in the first n slots. *)
KeysBefore(m, n) == {m.keys[p] : p \in {q \in Taken(m) : q < n}}

Copied(m, to, c, n) ==
  /\ Sound(c, to)
  /\ KeysIn(c) = KeysBefore(m, n)
  /\ \A i \in KeysIn(c) : CountersIn(c)[i] = CountersIn(m)[i]
  /\ c.numActive = Cardinality(KeysIn(c))

(* A turn of the loop inserts the entry of its slot.                       *)
LEMMA CopyTurnKeeps ==
  ASSUME NEW lg, OkSize(lg), NEW m, Sound(m, lg),
         NEW to, OkSize(to), Cardinality(KeysIn(m)) < 2 ^ to,
         NEW n \in Slots(lg), NEW c, Copied(m, to, c, n)
  PROVE  Copied(m, to, CopyTurn(m, c, n), n + 1)
<1>0. n \in Nat /\ Taken(m) \in SUBSET Nat
  <2>1. Taken(m) \in SUBSET Slots(lg)
    BY SoundOnce
  <2> QED BY <2>1 DEF OkSize, Slots
<1>1. /\ Taken(m) = {p \in Slots(lg) : m.keys[p] # Free}
      /\ \A p, q \in Taken(m) : m.keys[p] = m.keys[q] => p = q
      /\ KeysIn(m) \in SUBSET Items
  BY SoundOnce
<1>2. m.states[n] = Free <=> n \notin Taken(m)
  BY <1>1 DEF Sound, Marked
<1>3. Sound(c, to) /\ KeysIn(c) = KeysBefore(m, n) /\ c.numActive = Cardinality(KeysIn(c))
      /\ \A i \in KeysIn(c) : CountersIn(c)[i] = CountersIn(m)[i]
  BY DEF Copied
<1>4. CASE n \notin Taken(m)
  <2>1. \A p \in Taken(m) : p < n + 1 <=> p < n
    <3>1. \A p \in Taken(m) : p # n /\ p \in Nat
      BY <1>0, <1>4
    <3> QED BY <1>0, <3>1
  <2>2. {p \in Taken(m) : p < n + 1} = {p \in Taken(m) : p < n}
    BY <2>1
  <2>3. KeysBefore(m, n + 1) = KeysBefore(m, n)
    BY <2>2 DEF KeysBefore
  <2>4. CopyTurn(m, c, n) = c
    BY <1>2, <1>4 DEF CopyTurn
  <2> QED BY <1>3, <2>3, <2>4 DEF Copied
<1>5. CASE n \in Taken(m)
  <2> DEFINE i == m.keys[n]
             v == m.values[n]
             r == AdjustOrPutSlot(c, i, v)
  <2>1. CopyTurn(m, c, n) = r
    BY <1>2, <1>5 DEF CopyTurn
  <2>2. i \in Items /\ v \in Nat /\ CountersIn(m)[i] = v
    <3>1. i \in KeysIn(m)
      BY <1>5 DEF KeysIn
    <3>2. CountersIn(m)[i] = v
      BY <1>5, CounterFacts
    <3>3. v \in Nat
      BY DEF Sound, MapsOf
    <3> QED BY <1>1, <3>1, <3>2, <3>3
  <2>3. KeysBefore(m, n + 1) = KeysBefore(m, n) \cup {i}
    <3>1. \A p \in Taken(m) : p < n + 1 <=> (p < n \/ p = n)
      BY <1>0
    <3>2. {p \in Taken(m) : p < n + 1} = {p \in Taken(m) : p < n} \cup {n}
      BY <1>5, <3>1
    <3> QED BY <3>2 DEF KeysBefore
  <2>4. i \notin KeysBefore(m, n)
    <3>1. \A p \in Taken(m) : p < n => m.keys[p] # i
      BY <1>0, <1>1, <1>5
    <3> QED BY <3>1 DEF KeysBefore
  <2>5. /\ KeysIn(c) \in SUBSET KeysIn(m) /\ IsFiniteSet(KeysIn(c))
        /\ Cardinality(KeysIn(c)) < 2 ^ to
    <3>1. KeysIn(c) \in SUBSET KeysIn(m)
      BY <1>3 DEF KeysBefore, KeysIn
    <3>2. IsFiniteSet(KeysIn(m))
      BY <1>1, ItemsAssumption, FS_Subset
    <3>3. IsFiniteSet(KeysIn(c)) /\ Cardinality(KeysIn(c)) <= Cardinality(KeysIn(m))
      BY <3>1, <3>2, FS_Subset
    <3>4. Cardinality(KeysIn(c)) \in Nat /\ Cardinality(KeysIn(m)) \in Nat /\ 2 ^ to \in Nat
      BY <3>2, <3>3, FS_CardinalityType DEF OkSize
    <3> QED BY <3>1, <3>3, <3>4
  <2>6. Inserted(c, to, i, v, r)
    BY <1>3, <2>2, <2>5, InsertSound
  <2> HIDE DEF r
  <2>7. /\ Sound(r, to) /\ KeysIn(r) = KeysIn(c) \cup {i}
        /\ CountersIn(r) = [CountersIn(c) EXCEPT ![i] = @ + v]
        /\ r.numActive = c.numActive + 1
    BY <1>3, <2>4, <2>6 DEF Inserted
  <2>8. r.numActive = Cardinality(KeysIn(r))
    <3>1. i \notin KeysIn(c)
      BY <1>3, <2>4
    <3>2. IsFiniteSet(KeysIn(c))
      BY <2>5
    <3>3. Cardinality(KeysIn(c) \cup {i}) = Cardinality(KeysIn(c)) + 1
      BY <3>1, <3>2, FS_AddElement
    <3>4. KeysIn(r) = KeysIn(c) \cup {i} /\ r.numActive = c.numActive + 1
      BY <2>7
    <3> QED BY <1>3, <3>3, <3>4
  <2>9. ASSUME NEW x \in KeysIn(r) PROVE CountersIn(r)[x] = CountersIn(m)[x]
    <3>1. /\ CountersIn(c) \in [Items -> Nat] /\ KeysIn(c) \in SUBSET Items
          /\ \A y \in Items \ KeysIn(c) : CountersIn(c)[y] = 0
      BY <1>3, CounterFacts, SoundOnce
    <3>2. CASE x = i
      <4>1. CountersIn(c)[i] = 0
        BY <1>3, <2>2, <2>4, <3>1
      <4> QED BY <2>2, <2>7, <3>1, <3>2, <4>1
    <3>3. CASE x # i
      <4>1. x \in KeysIn(c)
        BY <2>7, <2>9, <3>3
      <4> QED BY <1>3, <2>7, <3>1, <3>3, <4>1
    <3> QED BY <3>2, <3>3
  <2>10. KeysIn(r) = KeysBefore(m, n + 1)
    BY <1>3, <2>3, <2>7
  <2> QED BY <2>1, <2>7, <2>8, <2>9, <2>10 DEF Copied
<1> QED BY <1>4, <1>5

(* An empty map is sound.                                                  *)
LEMMA EmptySound ==
  ASSUME NEW lg, OkSize(lg)
  PROVE  /\ Sound(EmptyMap(lg), lg) /\ KeysIn(EmptyMap(lg)) = {}
         /\ CountersIn(EmptyMap(lg)) = NoCounters
         /\ EmptyMap(lg).numActive = 0 /\ EmptyMap(lg).lgLength = lg
<1> DEFINE m == EmptyMap(lg)
<1>1. /\ m.lgLength = lg /\ m.numActive = 0
      /\ m.keys = [p \in Slots(lg) |-> Free] /\ m.states = [p \in Slots(lg) |-> Free]
      /\ m.values = [p \in Slots(lg) |-> 0] /\ m \in MapsOf(lg)
  BY DEF EmptyMap, MapsOf, Free
<1> HIDE DEF m
<1>2. Sound(m, lg) /\ Taken(m) = {}
  BY <1>1 DEF Sound, Marked, Taken
<1>3. KeysIn(m) = {} /\ CountersIn(m) = NoCounters
  BY <1>2 DEF KeysIn, CountersIn, NoCounters
<1> QED BY <1>1, <1>2, <1>3 DEF m

(* r holds the entries of m and no others. *)
SameEntries(m, r, to) ==
  /\ Sound(r, to)
  /\ KeysIn(r) = KeysIn(m)
  /\ CountersIn(r) = CountersIn(m)
  /\ r.numActive = Cardinality(KeysIn(r))

CopyRun(f, m, empty) ==
  f = [n \in 0 .. Size(m) |-> IF n = 0 THEN empty ELSE CopyTurn(m, f[n - 1], n - 1)]

(* resize and deserialize keep every entry.                                *)
LEMMA CopyKeepsEntries ==
  ASSUME NEW lg, OkSize(lg), NEW m, Sound(m, lg),
         NEW to, OkSize(to), Cardinality(KeysIn(m)) < 2 ^ to
  PROVE  SameEntries(m, CopyInto(EmptyMap(to), m), to)
<1> DEFINE N == 2 ^ lg
           S == MapsOf(to)
           base == EmptyMap(to)
           ok == [n \in 0 .. N |-> {c \in S : Copied(m, to, c, n)}]
           step == [n \in 0 .. N - 1 |->
                      [c \in S |-> IF CopyTurn(m, c, n) \in S THEN CopyTurn(m, c, n) ELSE c]]
           run == CHOOSE f : CopyRun(f, m, base)
<1>0. N \in Nat \ {0} /\ Slots(lg) = 0 .. N - 1 /\ Size(m) = N
  BY DEF OkSize, Slots, Size, Sound, MapsOf
<1>1. base \in ok[0]
  <2>1. KeysBefore(m, 0) = {}
    <3>1. \A p \in Taken(m) : ~(p < 0)
      BY <1>0, SoundOnce
    <3> QED BY <3>1 DEF KeysBefore
  <2>2. Copied(m, to, base, 0)
    BY <2>1, EmptySound, FS_EmptySet DEF Copied
  <2>3. base \in S
    BY EmptySound DEF Sound
  <2> HIDE DEF base, S
  <2> QED BY <1>0, <2>2, <2>3
<1>2. ASSUME NEW n \in 0 .. N - 1, NEW c \in ok[n]
      PROVE  CopyTurn(m, c, n) \in ok[n + 1]
  <2>1. n \in 0 .. N /\ n + 1 \in 0 .. N /\ n \in Slots(lg)
    BY <1>0
  <2>2. Copied(m, to, c, n)
    BY <2>1
  <2>3. Copied(m, to, CopyTurn(m, c, n), n + 1)
    BY <2>1, <2>2, CopyTurnKeeps
  <2>4. CopyTurn(m, c, n) \in S
    BY <2>3 DEF Copied, Sound
  <2> HIDE DEF S
  <2> QED BY <2>1, <2>3, <2>4
<1>3. \A n \in 0 .. N : ok[n] \in SUBSET S
  OBVIOUS
<1>4. step \in [0 .. N - 1 -> [S -> S]]
  <2> HIDE DEF S
  <2> QED OBVIOUS
<1>5. ASSUME NEW n \in 0 .. N - 1, NEW c \in S
      PROVE  CopyTurn(m, c, n) \in S => step[n][c] = CopyTurn(m, c, n)
  <2> HIDE DEF S
  <2> QED OBVIOUS
<1> HIDE DEF ok, step, S, base, run, N
<1>6. PICK f \in [0 .. N -> S] : LoopRun(N, base, step, f)
  <2>1. base \in S
    BY <1>0, <1>1, <1>3
  <2> QED BY <1>0, <1>4, <2>1, RunExists
<1>7. \A n \in 0 .. N - 1 : f[n] \in ok[n] => f[n + 1] = CopyTurn(m, f[n], n)
  <2> SUFFICES ASSUME NEW n \in 0 .. N - 1, f[n] \in ok[n]
               PROVE  f[n + 1] = CopyTurn(m, f[n], n)
    OBVIOUS
  <2>1. CopyTurn(m, f[n], n) \in ok[n + 1]
    BY <1>2
  <2>2. n \in 0 .. N /\ n + 1 \in 0 .. N
    BY <1>0
  <2>3. CopyTurn(m, f[n], n) \in S /\ f[n] \in S
    BY <1>3, <2>1, <2>2
  <2>4. f[n + 1] = step[n][f[n]]
    BY <1>6 DEF LoopRun
  <2> QED BY <1>5, <2>3, <2>4
<1>8. \A n \in 0 .. N : f[n] \in ok[n]
  <2>1. f[0] \in ok[0]
    BY <1>1, <1>6 DEF LoopRun
  <2>2. \A n \in 0 .. N - 1 : f[n] \in ok[n] => f[n + 1] \in ok[n + 1]
    BY <1>2, <1>7
  <2> QED BY <1>0, <2>1, <2>2, StaysOK
<1>9. CopyRun(f, m, base)
  <2>1. f = [n \in 0 .. N |-> f[n]]
    BY <1>6
  <2>2. ASSUME NEW n \in 0 .. N
        PROVE  f[n] = IF n = 0 THEN base ELSE CopyTurn(m, f[n - 1], n - 1)
    <3>1. CASE n = 0
      BY <1>6, <3>1 DEF LoopRun
    <3>2. CASE n # 0
      <4>1. n - 1 \in 0 .. N - 1 /\ n - 1 \in 0 .. N /\ (n - 1) + 1 = n
        BY <1>0, <3>2
      <4> QED BY <1>7, <1>8, <3>2, <4>1
    <3> QED BY <3>1, <3>2
  <2> QED BY <1>0, <2>1, <2>2 DEF CopyRun
<1>10. CopyRun(run, m, base)
  <2>1. \E g : CopyRun(g, m, base)
    BY <1>9
  <2> QED BY <2>1, Zenon DEF run
<1>11. run[0] = base /\ \A n \in 0 .. N - 1 : run[n + 1] = CopyTurn(m, run[n], n)
  <2>1. \A n \in 0 .. N : run[n] = IF n = 0 THEN base ELSE CopyTurn(m, run[n - 1], n - 1)
    BY <1>0, <1>10 DEF CopyRun
  <2>2. run[0] = base
    BY <1>0, <2>1
  <2>3. ASSUME NEW n \in 0 .. N - 1 PROVE run[n + 1] = CopyTurn(m, run[n], n)
    <3>1. n + 1 \in 0 .. N /\ n + 1 # 0 /\ (n + 1) - 1 = n
      BY <1>0
    <3> QED BY <2>1, <3>1
  <2> QED BY <2>2, <2>3
<1>12. \A n \in 0 .. N : run[n] \in ok[n]
  <2>1. \A n \in 0 .. N - 1 : run[n] \in ok[n] => run[n + 1] \in ok[n + 1]
    BY <1>2, <1>11
  <2> QED BY <1>0, <1>1, <1>11, <2>1, StaysOK
<1>13. CopyInto(EmptyMap(to), m) = run[N]
  <2>1. CopyInto(EmptyMap(to), m) = run[Size(m)]
    BY DEF CopyInto, CopyRun, CopyTurn, run, base
  <2> QED BY <1>0, <2>1
<1> DEFINE r == run[N]
<1>14. Copied(m, to, r, N)
  <2>1. N \in 0 .. N
    BY <1>0
  <2> QED BY <1>12, <2>1 DEF ok
<1> HIDE DEF r
<1>15. KeysBefore(m, N) = KeysIn(m)
  <2>1. \A p \in Taken(m) : p < N
    BY <1>0, SoundOnce
  <2>2. {p \in Taken(m) : p < N} = Taken(m)
    BY <2>1
  <2> QED BY <2>2 DEF KeysBefore, KeysIn
<1>16. CountersIn(r) = CountersIn(m)
  <2>1. /\ CountersIn(r) \in [Items -> Nat] /\ \A i \in Items \ KeysIn(r) : CountersIn(r)[i] = 0
    BY <1>14, CounterFacts DEF Copied
  <2>2. /\ CountersIn(m) \in [Items -> Nat] /\ \A i \in Items \ KeysIn(m) : CountersIn(m)[i] = 0
    BY CounterFacts
  <2>3. KeysIn(r) = KeysIn(m) /\ \A i \in KeysIn(r) : CountersIn(r)[i] = CountersIn(m)[i]
    BY <1>14, <1>15 DEF Copied
  <2>4. \A i \in Items : CountersIn(r)[i] = CountersIn(m)[i]
    BY <2>1, <2>2, <2>3
  <2> QED BY <2>1, <2>2, <2>4
<1>17. SameEntries(m, r, to)
  BY <1>14, <1>15, <1>16 DEF SameEntries, Copied
<1> QED BY <1>13, <1>17 DEF r

-------------------------------------------------------------------------------
(***************************************************************************)
(* Deletion.  Seen from a free slot f no walk wraps round, since none goes *)
(* past a free slot: At(lg, f, u) is the slot u steps after f.             *)
(***************************************************************************)
At(lg, f, u) == (f + u) % 2 ^ lg

(* Counting the slots from f.                                              *)
Around(lg, f) ==
  /\ \A u \in Nat : At(lg, f, u) \in Slots(lg)
  /\ \A u, v \in Slots(lg) : At(lg, f, u) = At(lg, f, v) => u = v
  /\ \A p \in Slots(lg) : \E u \in Slots(lg) : At(lg, f, u) = p
  /\ At(lg, f, 0) = f /\ At(lg, f, 2 ^ lg) = f
  /\ \A u \in Nat, d \in Nat : (At(lg, f, u) + d) % 2 ^ lg = At(lg, f, u + d)

LEMMA AtFacts ==
  ASSUME NEW lg, OkSize(lg), NEW f \in Slots(lg)
  PROVE  Around(lg, f)
<1> DEFINE N == 2 ^ lg
<1>0. N \in Nat \ {0} /\ Slots(lg) = 0 .. N - 1 /\ N = 2 ^ lg
  BY DEF OkSize, Slots
<1> HIDE DEF N
<1>1. f \in Nat /\ f \in 0 .. N - 1
  BY <1>0
<1>2. \A u : At(lg, f, u) = (f + u) % N
  BY <1>0 DEF At
<1>3. ASSUME NEW u \in Nat PROVE At(lg, f, u) \in Slots(lg)
  <2>1. f + u \in Nat
    BY <1>1
  <2> QED BY <1>0, <1>2, <2>1, ModFacts
<1>4. ASSUME NEW u \in Slots(lg), NEW v \in Slots(lg), At(lg, f, u) = At(lg, f, v) PROVE u = v
  BY <1>0, <1>1, <1>2, <1>4, TurnsOnce
<1>5. ASSUME NEW p \in Slots(lg) PROVE \E u \in Slots(lg) : At(lg, f, u) = p
  <2>0. p \in 0 .. N - 1
    BY <1>0
  <2>1. \E u \in 0 .. N - 1 : (f + u) % N = p
    BY <1>0, <1>1, <2>0, TurnsAll
  <2> QED BY <1>0, <1>2, <2>1
<1>6. f % N = f
  BY <1>0, <1>1, SmallMod
<1>7. At(lg, f, 0) = f
  BY <1>1, <1>2, <1>6
<1>8. At(lg, f, N) = f
  <2>1. f + N = f + N * 1
    BY <1>0, <1>1
  <2>2. (f + N * 1) % N = f % N
    BY <1>0, <1>1, ModAdds
  <2> QED BY <1>2, <1>6, <2>1, <2>2
<1>9. ASSUME NEW u \in Nat, NEW d \in Nat
      PROVE  (At(lg, f, u) + d) % N = At(lg, f, u + d)
  <2>1. f + u \in Nat /\ (f + u) + d = f + (u + d)
    BY <1>1
  <2>2. (((f + u) % N) + d) % N = ((f + u) + d) % N
    BY <1>0, <2>1, ModShift
  <2> QED BY <1>2, <2>1, <2>2
<1> QED BY <1>0, <1>3, <1>4, <1>5, <1>7, <1>8, <1>9 DEF Around

(* The entry u steps after f has drifted there from its home over taken    *)
(* slots; an entry beyond step q may also have passed the hole at step h.  *)
Reaches(m, lg, f, h, q, u) ==
  LET d == m.states[At(lg, f, u)]
  IN /\ d <= u
     /\ home[m.keys[At(lg, f, u)]] % 2 ^ lg = At(lg, f, u - d + 1)
     /\ \A v \in u - d + 1 .. u : m.states[At(lg, f, v)] # Free \/ (v = h /\ u > q)

Nearly(m, lg, f, h, q) ==
  /\ m \in MapsOf(lg) /\ Marked(m, lg)
  /\ f \in Slots(lg) /\ m.states[f] = Free
  /\ \A p, t \in Taken(m) : m.keys[p] = m.keys[t] => p = t
  /\ \A u \in 1 .. 2 ^ lg - 1 :
       m.states[At(lg, f, u)] # Free => Reaches(m, lg, f, h, q, u)

(* Without a hole. *)
Linear(m, lg, f) == Nearly(m, lg, f, 0, 2 ^ lg)

(* From a free slot no walk of a sound map wraps round.                    *)
LEMMA SoundIsLinear ==
  ASSUME NEW lg, OkSize(lg), NEW m, Sound(m, lg), NEW f \in Slots(lg), m.states[f] = Free
  PROVE  Linear(m, lg, f)
<1> DEFINE N == 2 ^ lg
           at(u) == At(lg, f, u)
<1>0. N \in Nat \ {0} /\ Slots(lg) = 0 .. N - 1 /\ N = 2 ^ lg
  BY DEF OkSize, Slots
<1>1. /\ m \in MapsOf(lg) /\ Marked(m, lg) /\ m.states \in [Slots(lg) -> Nat]
      /\ m.keys \in [Slots(lg) -> Items \cup {Free}]
  BY DEF Sound, MapsOf
<1>2. /\ \A u \in Nat : at(u) \in Slots(lg)
      /\ \A u, v \in Slots(lg) : at(u) = at(v) => u = v
      /\ \A p \in Slots(lg) : \E u \in Slots(lg) : at(u) = p
      /\ at(0) = f /\ at(N) = f
      /\ \A u \in Nat, d \in Nat : (at(u) + d) % N = at(u + d)
  <2>w. Around(lg, f)
    BY AtFacts
  <2> QED BY <2>w DEF Around
<1> HIDE DEF N, at
<1>3. ASSUME NEW u \in 1 .. N - 1, m.states[at(u)] # Free
      PROVE  Reaches(m, lg, f, 0, N, u)
  <2> DEFINE p == at(u)
             i == m.keys[p]
             d == m.states[p]
  <2>a. u \in Nat /\ u \in Slots(lg)
    BY <1>0
  <2>1. p \in Slots(lg) /\ u \in Nat /\ u \in Slots(lg)
    BY <1>2, <2>a, Zenon
  <2>2. i \in Items /\ i # Free /\ d \in Nat /\ d # 0
    BY <1>1, <1>3, <2>1 DEF Marked, Free
  <2>3. EndsAt(N, m.keys, Free, Route(lg), i, d - 1) /\ Route(lg)[i][d - 1] = p
    BY <1>0, <2>1, <2>2 DEF Sound
  <2>4. d - 1 \in 0 .. N - 1 /\ home[i] \in Nat
    BY <2>2, <2>3 DEF EndsAt, OkSize
  <2>5. \A a \in 0 .. N - 1 : Route(lg)[i][a] = (home[i] + a) % N
    BY <1>0, <2>2, RouteFacts
  <2>6. home[i] % N \in Slots(lg)
    BY <1>0, <2>4, ModFacts
  <2>7. PICK w \in Slots(lg) : at(w) = home[i] % N
    BY <1>2, <2>6
  <2> HIDE DEF p, i, d
  <2>8. \A a \in 0 .. N - 1 : Route(lg)[i][a] = at(w + a)
    <3> SUFFICES ASSUME NEW a \in 0 .. N - 1 PROVE Route(lg)[i][a] = at(w + a)
      OBVIOUS
    <3>1. a \in Nat /\ w \in Nat
      BY <1>0
    <3>2. ((home[i] % N) + a) % N = (home[i] + a) % N
      BY <1>0, <2>4, <3>1, ModShift
    <3>3. (at(w) + a) % N = at(w + a)
      BY <1>2, <3>1
    <3> QED BY <2>5, <2>7, <3>2, <3>3
  <2>9. \A a \in 0 .. d - 2 : at(w + a) \in Slots(lg) /\ m.states[at(w + a)] # Free
    <3> SUFFICES ASSUME NEW a \in 0 .. d - 2
                 PROVE  at(w + a) \in Slots(lg) /\ m.states[at(w + a)] # Free
      OBVIOUS
    <3>1. a \in 0 .. (d - 1) - 1 /\ a \in 0 .. N - 1 /\ a \in Nat /\ w \in Nat /\ w + a \in Nat
      BY <1>0, <2>2, <2>4
    <3>2. ~Stops(m.keys, Free, i, Route(lg)[i][a])
      BY <2>3, <3>1 DEF EndsAt
    <3>3. m.keys[at(w + a)] # Free
      BY <2>8, <3>1, <3>2 DEF Stops
    <3> QED BY <1>1, <1>2, <3>1, <3>3 DEF Marked
  <2>10. at(w + (d - 1)) = at(u)
    BY <2>3, <2>4, <2>8 DEF p
  <2>11. m.states[at(N)] = Free /\ m.states[at(0)] = Free
    BY <1>2
  <2>12. w + (d - 1) < N
    <3> SUFFICES ASSUME w + (d - 1) >= N PROVE FALSE
      BY <1>0, <2>2
    <3> DEFINE a == N - w
    <3>1. a \in 0 .. d - 1 /\ w + a = N
      BY <1>0, <2>2
    <3>2. CASE a \in 0 .. d - 2
      BY <2>9, <2>11, <3>1, <3>2
    <3>3. CASE a = d - 1
      BY <1>2, <1>3, <2>10, <2>11, <3>1, <3>3
    <3> HIDE DEF a
    <3>4. a = d - 1 \/ a \in 0 .. d - 2
      BY <2>2, <3>1
    <3> QED BY <3>2, <3>3, <3>4
  <2>13. w + (d - 1) = u
    <3>1. w + (d - 1) \in Slots(lg)
      BY <1>0, <2>2, <2>12
    <3> QED BY <1>2, <2>1, <2>10, <3>1
  <2>14. w # 0
    <3> SUFFICES ASSUME w = 0 PROVE FALSE
      OBVIOUS
    <3>1. d - 1 = u /\ 0 \in 0 .. d - 2 /\ w + 0 = 0
      BY <1>0, <2>2, <2>13
    <3>2. m.states[at(w + 0)] # Free
      BY <2>9, <3>1
    <3> QED BY <2>11, <3>1, <3>2
  <2>15. d <= u /\ w = u - d + 1
    BY <1>0, <2>2, <2>13, <2>14
  <2>16. ASSUME NEW v \in u - d + 1 .. u PROVE m.states[at(v)] # Free
    <3>1. CASE v = u
      BY <1>3, <3>1
    <3>2. CASE v # u
      <4>1. v - w \in 0 .. d - 2 /\ w + (v - w) = v
        BY <1>0, <2>2, <2>13, <2>15, <3>2
      <4> QED BY <2>9, <4>1
    <3> QED BY <3>1, <3>2
  <2>17. home[i] % 2 ^ lg = at(u - d + 1)
    BY <1>0, <2>7, <2>15
  <2> QED BY <2>15, <2>16, <2>17 DEF Reaches, at, d, i, p
<1>4. \A p, t \in Taken(m) : m.keys[p] = m.keys[t] => p = t
  BY SoundOnce
<1>5. \A u \in 1 .. 2 ^ lg - 1 :
        m.states[At(lg, f, u)] # Free => Reaches(m, lg, f, 0, 2 ^ lg, u)
  BY <1>3 DEF N, at
<1> QED BY <1>1, <1>4, <1>5 DEF Linear, Nearly

(* And the other way: what drifted from its home over taken slots is       *)
(* found there.                                                            *)
LEMMA LinearIsSound ==
  ASSUME NEW lg, OkSize(lg), NEW f, NEW m, Linear(m, lg, f)
  PROVE  Sound(m, lg)
<1> DEFINE N == 2 ^ lg
           at(u) == At(lg, f, u)
<1>0. N \in Nat \ {0} /\ Slots(lg) = 0 .. N - 1 /\ N = 2 ^ lg
  BY DEF OkSize, Slots
<1>1. /\ m \in MapsOf(lg) /\ Marked(m, lg) /\ m.states \in [Slots(lg) -> Nat]
      /\ m.keys \in [Slots(lg) -> Items \cup {Free}] /\ m.lgLength = lg
      /\ f \in Slots(lg) /\ m.states[f] = Free
      /\ \A p, t \in Taken(m) : m.keys[p] = m.keys[t] => p = t
  BY DEF Linear, Nearly, MapsOf
<1>2. /\ \A u \in Nat : at(u) \in Slots(lg)
      /\ \A u, v \in Slots(lg) : at(u) = at(v) => u = v
      /\ \A p \in Slots(lg) : \E u \in Slots(lg) : at(u) = p
      /\ at(0) = f
      /\ \A u \in Nat, d \in Nat : (at(u) + d) % N = at(u + d)
  <2>1. f \in Slots(lg)
    BY <1>1
  <2>w. Around(lg, f)
    BY <2>1, AtFacts
  <2> QED BY <2>w DEF Around
<1>3. \A u \in 1 .. N - 1 : m.states[at(u)] # Free => Reaches(m, lg, f, 0, N, u)
  BY DEF Linear, Nearly
<1>4. Taken(m) = {p \in Slots(lg) : m.states[p] # Free}
  BY <1>1 DEF Taken
<1> HIDE DEF N
<1>5. ASSUME NEW p \in Slots(lg), m.keys[p] # Free
      PROVE  /\ EndsAt(N, m.keys, Free, Route(lg), m.keys[p], m.states[p] - 1)
             /\ Route(lg)[m.keys[p]][m.states[p] - 1] = p
  <2> DEFINE i == m.keys[p]
             d == m.states[p]
  <2>1. PICK u \in Slots(lg) : at(u) = p
    BY <1>2
  <2>2. d # Free /\ d \in Nat /\ i \in Items
    BY <1>1, <1>5 DEF Marked
  <2>3. u \in 1 .. N - 1 /\ m.states[at(u)] # Free
    <3>1. m.states[at(u)] # Free
      BY <2>1, <2>2
    <3>2. u # 0
      BY <1>1, <1>2, <3>1
    <3> QED BY <1>0, <3>1, <3>2
  <2>4. Reaches(m, lg, f, 0, N, u)
    BY <1>3, <2>3
  <2>5. /\ d <= u /\ home[i] % N = at(u - d + 1)
        /\ \A v \in u - d + 1 .. u : m.states[at(v)] # Free
    <3>1. ~(u > N)
      BY <1>0, <2>3
    <3> QED BY <2>1, <2>4, <3>1 DEF Reaches, N
  <2> HIDE DEF at, i, d
  <2>6. d \in 1 .. u /\ u - d + 1 \in 1 .. u /\ home[i] \in Nat /\ d - 1 \in 0 .. N - 1
    BY <1>0, <2>2, <2>3, <2>5 DEF Free, OkSize
  <2>7. ASSUME NEW a \in 0 .. d - 1 PROVE Route(lg)[i][a] = at(u - d + 1 + a)
    <3>1. a \in 0 .. N - 1 /\ a \in Nat /\ u - d + 1 \in Nat
      BY <1>0, <2>3, <2>6
    <3>2. Route(lg)[i][a] = (home[i] + a) % N
      BY <1>0, <2>2, <3>1, RouteFacts
    <3>3. ((home[i] % N) + a) % N = (home[i] + a) % N
      BY <1>0, <2>6, <3>1, ModShift
    <3>4. (at(u - d + 1) + a) % N = at(u - d + 1 + a)
      BY <1>2, <3>1
    <3> QED BY <2>5, <3>2, <3>3, <3>4
  <2>8. Route(lg)[i][d - 1] = p
    <3>1. d - 1 \in 0 .. d - 1 /\ u - d + 1 + (d - 1) = u
      BY <1>0, <2>3, <2>6
    <3>2. Route(lg)[i][d - 1] = at(u - d + 1 + (d - 1))
      BY <2>7, <3>1
    <3> QED BY <2>1, <3>1, <3>2
  <2>9. Stops(m.keys, Free, i, Route(lg)[i][d - 1])
    BY <2>8 DEF Stops, i
  <2>10. ASSUME NEW a \in 0 .. (d - 1) - 1 PROVE ~Stops(m.keys, Free, i, Route(lg)[i][a])
    <3> DEFINE v == u - d + 1 + a
    <3>1. a \in 0 .. d - 1 /\ v \in u - d + 1 .. u /\ v # u /\ v \in Slots(lg) /\ v \in Nat
      BY <1>0, <2>3, <2>6
    <3>2. Route(lg)[i][a] = at(v)
      BY <2>7, <3>1
    <3> HIDE DEF v
    <3>3. m.states[at(v)] # Free /\ at(v) # p /\ at(v) \in Slots(lg)
      BY <1>2, <2>1, <2>5, <3>1
    <3>4. at(v) \in Taken(m) /\ p \in Taken(m)
      BY <1>4, <2>2, <3>3 DEF d
    <3>5. m.keys[at(v)] # i
      BY <1>1, <3>3, <3>4 DEF i
    <3>6. m.keys[at(v)] # Free
      BY <1>1, <3>3 DEF Marked
    <3> QED BY <3>2, <3>5, <3>6 DEF Stops
  <2>11. EndsAt(N, m.keys, Free, Route(lg), i, d - 1)
    BY <2>6, <2>9, <2>10 DEF EndsAt
  <2> QED BY <2>8, <2>11 DEF i, d
<1> QED BY <1>0, <1>1, <1>5 DEF Sound

(* A map without its entry at slot p, or with it moved to the hole.        *)
LEMMA FreeSlotFacts ==
  ASSUME NEW lg, NEW m \in MapsOf(lg), NEW p \in Slots(lg)
  PROVE  LET r == FreeSlot(m, p)
         IN /\ r \in MapsOf(lg) /\ r.lgLength = lg /\ r.numActive = m.numActive
            /\ r.keys = [m.keys EXCEPT ![p] = Free]
            /\ r.states = [m.states EXCEPT ![p] = Free]
            /\ r.values = m.values
<1> DEFINE ks == [m.keys EXCEPT ![p] = Free]
           ss == [m.states EXCEPT ![p] = Free]
           r == FreeSlot(m, p)
<1>1. /\ m.keys \in [Slots(lg) -> Items \cup {Free}] /\ m.states \in [Slots(lg) -> Nat]
      /\ m.values \in [Slots(lg) -> Nat] /\ m.lgLength = lg /\ m.numActive \in Int
      /\ Free \in Nat
  BY DEF MapsOf, Free
<1>2. ks \in [Slots(lg) -> Items \cup {Free}] /\ ss \in [Slots(lg) -> Nat]
  BY <1>1
<1>3. r = [m EXCEPT !.keys = ks, !.states = ss]
  BY DEF FreeSlot
<1> HIDE DEF ks, ss, r
<1>4. /\ r \in MapsOf(lg) /\ r.lgLength = lg /\ r.numActive = m.numActive
      /\ r.keys = ks /\ r.states = ss /\ r.values = m.values
  BY <1>1, <1>2, <1>3 DEF MapsOf
<1> QED BY <1>4 DEF ks, ss, r

(* The map with the entry of slot p moved to the hole.                     *)
LEMMA MoveEntryFacts ==
  ASSUME NEW lg, NEW m \in MapsOf(lg), NEW p \in Slots(lg), NEW hole \in Slots(lg), p # hole,
         NEW drift \in Nat, m.states[p] > drift
  PROVE  LET r == MoveEntry(m, p, hole, drift)
         IN /\ r \in MapsOf(lg) /\ r.lgLength = lg /\ r.numActive = m.numActive
            /\ r.keys[hole] = m.keys[p] /\ r.values[hole] = m.values[p]
            /\ r.states[hole] = m.states[p] - drift
            /\ r.keys[p] = Free /\ r.states[p] = Free
            /\ \A t \in Slots(lg) \ {p, hole} :
                 r.keys[t] = m.keys[t] /\ r.values[t] = m.values[t] /\ r.states[t] = m.states[t]
<1> DEFINE ks == [m.keys EXCEPT ![hole] = m.keys[p], ![p] = Free]
           ss == [m.states EXCEPT ![hole] = m.states[p] - drift, ![p] = Free]
           vs == [m.values EXCEPT ![hole] = m.values[p]]
           r == MoveEntry(m, p, hole, drift)
<1>1. /\ m.keys \in [Slots(lg) -> Items \cup {Free}] /\ m.states \in [Slots(lg) -> Nat]
      /\ m.values \in [Slots(lg) -> Nat] /\ m.lgLength = lg /\ m.numActive \in Int
      /\ Free \in Nat
  BY DEF MapsOf, Free
<1>2. m.states[p] \in Nat /\ m.states[p] - drift \in Nat
  BY <1>1
<1>3. ks \in [Slots(lg) -> Items \cup {Free}] /\ ss \in [Slots(lg) -> Nat]
      /\ vs \in [Slots(lg) -> Nat]
  BY <1>1, <1>2
<1>4. /\ ks[hole] = m.keys[p] /\ ks[p] = Free /\ ss[hole] = m.states[p] - drift
      /\ ss[p] = Free /\ vs[hole] = m.values[p]
      /\ \A t \in Slots(lg) \ {p, hole} :
           ks[t] = m.keys[t] /\ vs[t] = m.values[t] /\ ss[t] = m.states[t]
  BY <1>1
<1>5. r = [m EXCEPT !.keys = ks, !.values = vs, !.states = ss]
  BY DEF MoveEntry
<1> HIDE DEF ks, ss, vs, r
<1>6. /\ r \in MapsOf(lg) /\ r.lgLength = lg /\ r.numActive = m.numActive
      /\ r.keys = ks /\ r.states = ss /\ r.values = vs
  BY <1>1, <1>3, <1>5 DEF MapsOf
<1>7. /\ r \in MapsOf(lg) /\ r.lgLength = lg /\ r.numActive = m.numActive
      /\ r.keys[hole] = m.keys[p] /\ r.values[hole] = m.values[p]
      /\ r.states[hole] = m.states[p] - drift
      /\ r.keys[p] = Free /\ r.states[p] = Free
      /\ \A t \in Slots(lg) \ {p, hole} :
           r.keys[t] = m.keys[t] /\ r.values[t] = m.values[t] /\ r.states[t] = m.states[t]
  BY <1>4, <1>6
<1> QED BY <1>7 DEF r

(* From step u on every entry has a positive value. *)
PositiveFrom(m, lg, f, u) ==
  \A v \in u .. 2 ^ lg - 1 :
    m.states[At(lg, f, v)] # Free => m.values[At(lg, f, v)] > 0

(* The slots up to step q have been looked at in closing the hole that was *)
(* made in m at step a, and the hole is now at step h.                     *)
Closing(m, lg, f, a, w, q, h) ==
  /\ h \in a .. q
  /\ w = [map |-> w.map, hole |-> At(lg, f, h), drift |-> q + 1 - h]
  /\ Nearly(w.map, lg, f, h, q)
  /\ w.map.states[At(lg, f, h)] = Free
  /\ Entries(w.map) = Entries(m) /\ w.map.numActive = m.numActive
  /\ \A u \in q + 1 .. 2 ^ lg - 1 :
       w.map.states[At(lg, f, u)] = m.states[At(lg, f, u)]
  /\ PositiveFrom(m, lg, f, a) => PositiveFrom(w.map, lg, f, a)

(* The entry of the next slot has drifted far enough: it fills the hole.   *)
LEMMA MovesOn ==
  ASSUME NEW lg, OkSize(lg), NEW f \in Slots(lg), NEW m,
         NEW a \in 1 .. 2 ^ lg - 1, NEW q \in a .. 2 ^ lg - 2, NEW w, NEW h,
         Closing(m, lg, f, a, w, q, h),
         w.map.states[At(lg, f, q + 1)] > w.drift
  PROVE  Closing(m, lg, f, a, CloseStep(w), q + 1, q + 1)
<1> DEFINE N == 2 ^ lg
           at(u) == At(lg, f, u)
           c == w.map
           p == at(q + 1)
           o == at(h)
           g == q + 1 - h
           r == MoveEntry(c, p, o, g)
<1>0. N \in Nat \ {0} /\ Slots(lg) = 0 .. N - 1 /\ N = 2 ^ lg
  BY DEF OkSize, Slots
<1>1. /\ \A u \in Nat : at(u) \in Slots(lg)
      /\ \A u, v \in Slots(lg) : at(u) = at(v) => u = v
      /\ at(0) = f
      /\ \A u \in Nat, d \in Nat : (at(u) + d) % N = at(u + d)
  <2>w. Around(lg, f)
    BY AtFacts
  <2> QED BY <2>w DEF Around
<1>2. /\ h \in a .. q /\ w.hole = o /\ w.drift = g
      /\ Nearly(c, lg, f, h, q) /\ c.states[o] = Free
      /\ Entries(c) = Entries(m) /\ c.numActive = m.numActive
      /\ \A u \in q + 1 .. N - 1 : c.states[at(u)] = m.states[at(u)]
      /\ PositiveFrom(m, lg, f, a) => PositiveFrom(c, lg, f, a)
  <2>1. w.hole = o /\ w.drift = g
    <3>1. w = [map |-> c, hole |-> o, drift |-> g]
      BY DEF Closing
    <3> QED BY <3>1
  <2> QED BY <2>1 DEF Closing
<1>3. /\ c \in MapsOf(lg) /\ Marked(c, lg) /\ c.lgLength = lg /\ c.states[f] = Free
      /\ c.states \in [Slots(lg) -> Nat]
      /\ \A s, t \in Taken(c) : c.keys[s] = c.keys[t] => s = t
  BY <1>2 DEF Nearly, MapsOf
<1>4. \A u \in 1 .. N - 1 : c.states[at(u)] # Free => Reaches(c, lg, f, h, q, u)
  BY <1>2 DEF Nearly
<1>5. /\ a \in Nat /\ q \in Nat /\ h \in Nat /\ g \in Nat /\ g >= 1 /\ h >= 1
      /\ h \in 1 .. N - 1 /\ q + 1 \in 1 .. N - 1 /\ h < q + 1
  BY <1>0, <1>2
<1> HIDE DEF N, at, c, p, o, g, r
<1>6. /\ p \in Slots(lg) /\ o \in Slots(lg) /\ p # o /\ p # f /\ o # f
      /\ After(c, o, g) = p
  <2>1. p \in Slots(lg) /\ o \in Slots(lg)
    BY <1>1, <1>5 DEF p, o
  <2>2. q + 1 \in Slots(lg) /\ h \in Slots(lg) /\ 0 \in Slots(lg)
    BY <1>0, <1>5
  <2>3. p # o
    BY <1>1, <1>5, <2>2 DEF p, o
  <2>4. p # f
    BY <1>1, <1>5, <2>2 DEF p
  <2>5. o # f
    BY <1>1, <1>5, <2>2 DEF o
  <2>6. h + g = q + 1
    BY <1>5 DEF g
  <2>7. (at(h) + g) % N = at(h + g)
    BY <1>1, <1>5
  <2> QED BY <1>0, <1>3, <2>1, <2>3, <2>4, <2>5, <2>6, <2>7 DEF After, Size, p, o
<1>7. c.states[p] > g
  BY <1>2 DEF c, p, at
<1>8. /\ r \in MapsOf(lg) /\ r.lgLength = lg /\ r.numActive = c.numActive
      /\ r.keys[o] = c.keys[p] /\ r.values[o] = c.values[p]
      /\ r.states[o] = c.states[p] - g
      /\ r.keys[p] = Free /\ r.states[p] = Free
      /\ \A t \in Slots(lg) \ {p, o} :
           r.keys[t] = c.keys[t] /\ r.values[t] = c.values[t] /\ r.states[t] = c.states[t]
  BY <1>3, <1>5, <1>6, <1>7, MoveEntryFacts DEF r
<1>9. CloseStep(w) = [map |-> r, hole |-> p, drift |-> 1]
  BY <1>2, <1>6, <1>7 DEF CloseStep, c, r
<1>10. c.states[p] \in Nat /\ c.states[p] # Free /\ c.states[p] - g # Free
       /\ c.keys[p] # Free /\ c.keys[o] = Free
  <2>1. c.states[p] \in Nat /\ c.states[p] # Free /\ c.states[p] - g # Free
    BY <1>3, <1>5, <1>6, <1>7 DEF Free
  <2> QED BY <1>2, <1>3, <1>6, <2>1 DEF Marked
<1>11. Taken(c) = {t \in Slots(lg) : c.states[t] # Free}
       /\ Taken(r) = {t \in Slots(lg) : r.states[t] # Free}
  BY <1>3, <1>8 DEF Taken
<1>12. Taken(r) = (Taken(c) \ {p}) \cup {o} /\ p \in Taken(c) /\ o \notin Taken(c)
  BY <1>2, <1>6, <1>8, <1>10, <1>11
<1>13. Marked(r, lg)
  <2> SUFFICES ASSUME NEW t \in Slots(lg) PROVE r.states[t] = Free <=> r.keys[t] = Free
    BY DEF Marked
  <2>1. CASE t = p
    BY <1>8, <2>1
  <2>2. CASE t = o
    BY <1>8, <1>10, <2>2
  <2>3. CASE t \notin {p, o}
    BY <1>3, <1>8, <2>3 DEF Marked
  <2> QED BY <2>1, <2>2, <2>3
<1>14. ASSUME NEW s \in Taken(r), NEW t \in Taken(r), r.keys[s] = r.keys[t] PROVE s = t
  <2> DEFINE from(x) == IF x = o THEN p ELSE x
  <2>1. \A x \in Taken(r) : from(x) \in Taken(c) /\ r.keys[x] = c.keys[from(x)]
    BY <1>6, <1>8, <1>11, <1>12
  <2>2. from(s) = from(t)
    BY <1>3, <1>14, <2>1
  <2>3. s # p /\ t # p
    BY <1>8, <1>11
  <2> QED BY <2>2, <2>3
<1>15. Entries(r) = Entries(c)
  <2>1. \A x \in Taken(r) : x # o => x \in Taken(c) /\ r.keys[x] = c.keys[x] /\ r.values[x] = c.values[x]
    BY <1>8, <1>11, <1>12
  <2>2. \A x \in Taken(c) : x # p => x \in Taken(r) /\ x # o
    BY <1>12
  <2>3. ASSUME NEW e \in Entries(r) PROVE e \in Entries(c)
    <3>1. PICK x \in Taken(r) : e = <<r.keys[x], r.values[x]>>
      BY DEF Entries
    <3>2. CASE x = o
      BY <1>8, <1>12, <3>1, <3>2 DEF Entries
    <3>3. CASE x # o
      BY <2>1, <3>1, <3>3 DEF Entries
    <3> QED BY <3>2, <3>3
  <2>4. ASSUME NEW e \in Entries(c) PROVE e \in Entries(r)
    <3>1. PICK x \in Taken(c) : e = <<c.keys[x], c.values[x]>>
      BY DEF Entries
    <3>2. CASE x = p
      BY <1>8, <1>12, <3>1, <3>2 DEF Entries
    <3>3. CASE x # p
      BY <2>1, <2>2, <3>1, <3>3 DEF Entries
    <3> QED BY <3>2, <3>3
  <2> QED BY <2>3, <2>4
<1>16. \A u \in Slots(lg) : (at(u) = p <=> u = q + 1) /\ (at(u) = o <=> u = h)
  <2>1. q + 1 \in Slots(lg) /\ h \in Slots(lg)
    BY <1>0, <1>5
  <2> QED BY <1>1, <2>1 DEF p, o
<1>17. \A v \in Slots(lg) : v # q + 1 /\ c.states[at(v)] # Free => r.states[at(v)] # Free
  <2> SUFFICES ASSUME NEW v \in Slots(lg), v # q + 1, c.states[at(v)] # Free
               PROVE  r.states[at(v)] # Free
    OBVIOUS
  <2>1. v \in Nat
    BY <1>0
  <2>2. at(v) \in Slots(lg)
    BY <1>1, <2>1
  <2>3. at(v) # p
    BY <1>16
  <2>4. at(v) # o
    BY <1>2
  <2> QED BY <1>8, <2>2, <2>3, <2>4
<1>18. r.states[at(h)] # Free
  BY <1>8, <1>10 DEF o
<1>19. ASSUME NEW u \in 1 .. N - 1, r.states[at(u)] # Free
       PROVE  Reaches(r, lg, f, q + 1, q + 1, u)
  <2>a. u \in Slots(lg) /\ u \in Nat
    BY <1>0
  <2>b. at(u) \in Slots(lg)
    BY <1>1, <2>a
  <2>c. u # q + 1
    BY <1>8, <1>19 DEF p
  <2>1. u \in Slots(lg) /\ u \in Nat /\ u # q + 1 /\ at(u) \in Slots(lg)
    BY <2>a, <2>b, <2>c
  <2>2. CASE u = h
    <3> DEFINE d == c.states[p]
    <3>1. at(u) = o /\ r.states[o] = d - g /\ r.keys[o] = c.keys[p]
      BY <1>8, <2>2 DEF o
    <3>2. PICK k \in Nat : k = q + 1
      BY <1>5
    <3>3. Reaches(c, lg, f, h, q, k) /\ p = at(k) /\ d = c.states[at(k)]
      BY <1>4, <1>5, <1>10, <3>2 DEF p
    <3> HIDE DEF d
    <3>4. /\ d <= k /\ home[c.keys[p]] % N = at(k - d + 1)
          /\ \A v \in k - d + 1 .. k : c.states[at(v)] # Free \/ (v = h /\ k > q)
      BY <3>3 DEF Reaches, at, N
    <3>5. /\ d \in Nat /\ d > g /\ d - g <= h /\ k - d + 1 = h - (d - g) + 1
          /\ h - (d - g) + 1 >= 1
      <4>1. d \in Nat /\ d > g
        BY <1>7, <1>10 DEF d
      <4> QED BY <1>5, <3>2, <3>4, <4>1 DEF g
    <3>6. ASSUME NEW v \in h - (d - g) + 1 .. h PROVE r.states[at(v)] # Free
      <4>1. v \in Slots(lg) /\ v # q + 1 /\ v \in k - d + 1 .. k
        BY <1>0, <1>5, <3>2, <3>5
      <4>2. CASE v = h
        BY <1>18, <4>2
      <4>3. CASE v # h
        BY <1>17, <3>4, <4>1, <4>3
      <4> QED BY <4>2, <4>3
    <3>7. home[r.keys[o]] % N = at(h - (d - g) + 1)
      BY <3>1, <3>4, <3>5
    <3> QED BY <2>2, <3>1, <3>5, <3>6, <3>7 DEF Reaches, at, N
  <2>3. CASE u # h
    <3> DEFINE d == c.states[at(u)]
    <3>0. at(u) # p /\ at(u) # o
      BY <1>16, <2>1, <2>3
    <3>1. r.states[at(u)] = d /\ r.keys[at(u)] = c.keys[at(u)] /\ d # Free
      BY <1>8, <1>19, <2>1, <3>0
    <3>2. Reaches(c, lg, f, h, q, u)
      BY <1>4, <3>1
    <3>3. /\ d <= u /\ home[c.keys[at(u)]] % N = at(u - d + 1)
          /\ \A v \in u - d + 1 .. u : c.states[at(v)] # Free \/ (v = h /\ u > q)
      BY <3>2 DEF Reaches, at, N
    <3> HIDE DEF d
    <3>4. d \in Nat /\ d # 0
      BY <1>3, <2>1, <3>1 DEF d, Free
    <3>5. ASSUME NEW v \in u - d + 1 .. u
          PROVE  r.states[at(v)] # Free \/ (v = q + 1 /\ u > q + 1)
      <4>1. v \in Slots(lg) /\ v \in Nat
        BY <1>0, <2>1, <3>3, <3>4
      <4>2. CASE v = q + 1
        <5>1. u > q + 1
          BY <1>5, <2>1, <4>1, <4>2
        <5> QED BY <4>2, <5>1
      <4>3. CASE v = h
        BY <1>18, <4>3
      <4>4. CASE v # q + 1 /\ v # h
        BY <1>17, <3>3, <4>1, <4>4
      <4> QED BY <4>2, <4>3, <4>4
    <3> QED BY <3>1, <3>3, <3>5 DEF Reaches, at, N
  <2> QED BY <2>2, <2>3
<1>20. r.states[f] = Free
  BY <1>3, <1>6, <1>8
<1>21. Nearly(r, lg, f, q + 1, q + 1)
  BY <1>8, <1>13, <1>14, <1>19, <1>20 DEF Nearly, at, N
<1>22. \A u \in q + 2 .. N - 1 : r.states[at(u)] = m.states[at(u)]
  <2> SUFFICES ASSUME NEW u \in q + 2 .. N - 1 PROVE r.states[at(u)] = m.states[at(u)]
    OBVIOUS
  <2>1. u \in Slots(lg) /\ u \in Nat /\ u # q + 1 /\ u # h /\ u \in q + 1 .. N - 1
    BY <1>0, <1>5
  <2>2. at(u) \in Slots(lg) /\ at(u) # p /\ at(u) # o
    BY <1>1, <1>16, <2>1
  <2> QED BY <1>2, <1>8, <2>1, <2>2
<1>23. ASSUME PositiveFrom(m, lg, f, a) PROVE PositiveFrom(r, lg, f, a)
  <2>1. \A v \in a .. N - 1 : c.states[at(v)] # Free => c.values[at(v)] > 0
    BY <1>2, <1>23 DEF PositiveFrom, at, N
  <2>2. ASSUME NEW v \in a .. N - 1, r.states[at(v)] # Free PROVE r.values[at(v)] > 0
    <3>a. v \in Slots(lg) /\ v \in Nat
      BY <1>0, <1>5
    <3>b. at(v) \in Slots(lg)
      BY <1>1, <3>a
    <3>c. v # q + 1 /\ at(v) # p
      BY <1>8, <2>2 DEF p
    <3>1. v \in Slots(lg) /\ v \in Nat /\ v # q + 1 /\ at(v) \in Slots(lg) /\ at(v) # p
      BY <3>a, <3>b, <3>c
    <3>2. CASE v = h
      <4>1. q + 1 \in a .. N - 1
        BY <1>2, <1>5
      <4>2. c.values[p] > 0
        BY <1>10, <2>1, <4>1 DEF p
      <4> QED BY <1>8, <3>2, <4>2 DEF o
    <3>3. CASE v # h
      <4>1. at(v) # o
        BY <1>16, <3>1, <3>3
      <4> QED BY <1>8, <2>1, <2>2, <3>1, <4>1
    <3> QED BY <3>2, <3>3
  <2> QED BY <2>2 DEF PositiveFrom, at, N
<1> DEFINE w2 == [map |-> r, hole |-> at(q + 1), drift |-> 1]
<1>24. CloseStep(w) = w2 /\ w2.map = r
  BY <1>9 DEF p
<1>25. w2 = [map |-> w2.map, hole |-> at(q + 1), drift |-> q + 1 + 1 - (q + 1)]
  BY <1>5
<1>26. r.states[at(q + 1)] = Free
  BY <1>8 DEF p
<1>27. q + 1 \in a .. q + 1 /\ q + 1 + 1 = q + 2
  BY <1>5
<1> HIDE DEF w2
<1>28. Closing(m, lg, f, a, w2, q + 1, q + 1)
  BY <1>2, <1>8, <1>15, <1>21, <1>22, <1>23, <1>24, <1>25, <1>26, <1>27 DEF Closing, at, N
<1> QED BY <1>24, <1>28

(* The entry of the next slot stays where it is.                           *)
LEMMA LooksOn ==
  ASSUME NEW lg, OkSize(lg), NEW f \in Slots(lg), NEW m,
         NEW a \in 1 .. 2 ^ lg - 1, NEW q \in a .. 2 ^ lg - 2, NEW w, NEW h,
         Closing(m, lg, f, a, w, q, h), m.states[At(lg, f, q + 1)] # Free,
         ~(w.map.states[At(lg, f, q + 1)] > w.drift)
  PROVE  Closing(m, lg, f, a, CloseStep(w), q + 1, h)
<1> DEFINE N == 2 ^ lg
           at(u) == At(lg, f, u)
           c == w.map
           p == at(q + 1)
           o == at(h)
           g == q + 1 - h
<1>0. N \in Nat \ {0} /\ Slots(lg) = 0 .. N - 1 /\ N = 2 ^ lg
  BY DEF OkSize, Slots
<1>1. /\ \A u \in Nat : at(u) \in Slots(lg)
      /\ \A u \in Nat, d \in Nat : (at(u) + d) % N = at(u + d)
  <2>w. Around(lg, f)
    BY AtFacts
  <2> QED BY <2>w DEF Around
<1>2. /\ h \in a .. q /\ w = [map |-> c, hole |-> o, drift |-> g]
      /\ Nearly(c, lg, f, h, q) /\ c.states[o] = Free
      /\ Entries(c) = Entries(m) /\ c.numActive = m.numActive
      /\ \A u \in q + 1 .. N - 1 : c.states[at(u)] = m.states[at(u)]
      /\ PositiveFrom(m, lg, f, a) => PositiveFrom(c, lg, f, a)
  BY DEF Closing
<1>3. /\ c \in MapsOf(lg) /\ Marked(c, lg) /\ c.lgLength = lg /\ c.states[f] = Free
      /\ c.states \in [Slots(lg) -> Nat]
      /\ \A s, t \in Taken(c) : c.keys[s] = c.keys[t] => s = t
  BY <1>2 DEF Nearly, MapsOf
<1>4. \A u \in 1 .. N - 1 : c.states[at(u)] # Free => Reaches(c, lg, f, h, q, u)
  BY <1>2 DEF Nearly
<1> HIDE DEF N, at, c, p, o
<1>5. /\ a \in Nat /\ q \in Nat /\ h \in Nat /\ g \in Nat
      /\ q + 1 \in q + 1 .. N - 1 /\ h + g = q + 1
  BY <1>0, <1>2
<1> HIDE DEF g
<1>6. After(c, o, g) = p
  <2>1. (at(h) + g) % N = at(h + g)
    BY <1>1, <1>5
  <2> QED BY <1>0, <1>3, <1>5, <2>1 DEF After, Size, o, p
<1>7. c.states[p] # Free /\ ~(c.states[p] > g)
  <2>1. c.states[p] = m.states[p]
    BY <1>2, <1>5 DEF p
  <2>2. w.drift = g
    BY <1>2
  <2> QED BY <2>1, <2>2 DEF p, at, c
<1> DEFINE w2 == [map |-> c, hole |-> o, drift |-> g + 1]
<1>8. CloseStep(w) = w2
  <2>1. w.map = c /\ w.hole = o /\ w.drift = g
    BY <1>2
  <2>2. CloseStep(w) = [w EXCEPT !.drift = @ + 1]
    BY <1>6, <1>7, <2>1 DEF CloseStep
  <2> QED BY <1>2, <2>2
<1>9. ASSUME NEW u \in 1 .. N - 1, c.states[at(u)] # Free
      PROVE  Reaches(c, lg, f, h, q + 1, u)
  <2> DEFINE d == c.states[at(u)]
  <2>1. Reaches(c, lg, f, h, q, u)
    BY <1>4, <1>9
  <2>2. /\ d <= u /\ home[c.keys[at(u)]] % N = at(u - d + 1)
        /\ \A v \in u - d + 1 .. u : c.states[at(v)] # Free \/ (v = h /\ u > q)
    BY <2>1 DEF Reaches, at, N
  <2>3. d \in Nat
    <3>1. u \in Nat
      BY <1>0
    <3>2. at(u) \in Slots(lg)
      BY <1>1, <3>1
    <3> QED BY <1>3, <3>2
  <2>4. u = q + 1 => ~(d > g)
    BY <1>7 DEF p
  <2> HIDE DEF d
  <2>5. \A v \in u - d + 1 .. u : c.states[at(v)] # Free \/ (v = h /\ u > q + 1)
    <3> SUFFICES ASSUME NEW v \in u - d + 1 .. u, v = h, u > q
                 PROVE  u > q + 1
      BY <2>2
    <3> SUFFICES ASSUME u = q + 1 PROVE FALSE
      BY <1>0, <1>5
    <3> QED BY <1>5, <2>3, <2>4
  <2> QED BY <2>2, <2>5 DEF Reaches, at, N, d
<1>10. Nearly(c, lg, f, h, q + 1)
  BY <1>3, <1>9 DEF Nearly, at, N
<1>11. h \in a .. q + 1 /\ g + 1 = q + 1 + 1 - h
       /\ \A u \in q + 1 + 1 .. N - 1 : u \in q + 1 .. N - 1
  BY <1>0, <1>2, <1>5 DEF g
<1>12. w2.map = c /\ w2 = [map |-> w2.map, hole |-> at(h), drift |-> q + 1 + 1 - h]
  BY <1>11 DEF o
<1>13. \A u \in q + 1 + 1 .. N - 1 : c.states[at(u)] = m.states[at(u)]
  BY <1>2, <1>11
<1>14. c.states[at(h)] = Free
  BY <1>2 DEF o
<1> HIDE DEF w2
<1>15. Closing(m, lg, f, a, w2, q + 1, h)
  BY <1>2, <1>10, <1>11, <1>12, <1>13, <1>14 DEF Closing, at, N
<1> QED BY <1>8, <1>15

(* The cluster after the slot ends at step e, at the latest at f itself.   *)
LEMMA ClusterEnds ==
  ASSUME NEW lg, OkSize(lg), NEW f \in Slots(lg), NEW m, m.lgLength = lg, m.states[f] = Free,
         NEW a \in 1 .. 2 ^ lg - 1
  PROVE  \E e \in a + 1 .. 2 ^ lg :
           /\ m.states[At(lg, f, e)] = Free
           /\ \A u \in a + 1 .. e - 1 : m.states[At(lg, f, u)] # Free
           /\ ClusterAfter(m, At(lg, f, a)) = e - a - 1
<1> DEFINE N == 2 ^ lg
           at(u) == At(lg, f, u)
           T == {u \in a + 1 .. N : m.states[at(u)] = Free}
           ends(n) == /\ m.states[After(m, at(a), n + 1)] = Free
                      /\ \A d \in 1 .. n : m.states[After(m, at(a), d)] # Free
<1>0. N \in Nat \ {0} /\ Slots(lg) = 0 .. N - 1 /\ N = 2 ^ lg /\ a \in Nat
  BY DEF OkSize, Slots
<1>1. at(N) = f /\ \A d \in Nat : (at(a) + d) % N = at(a + d)
  <2>w. Around(lg, f)
    BY <1>0, AtFacts
  <2> QED BY <1>0, <2>w DEF Around
<1> HIDE DEF N, at
<1>2. N \in T /\ T \in SUBSET Nat
  <2>1. a + 1 .. N \in SUBSET Nat
    BY <1>0
  <2>2. a + 1 <= N /\ N \in a + 1 .. N
    BY <1>0 DEF N
  <2> HIDE DEF ends
  <2> QED BY <1>1, <2>1, <2>2
<1>3. PICK e \in T : \A u \in T : e <= u
  <2> HIDE DEF T
  <2> QED BY <1>2, LeastNat
<1>4. /\ e \in a + 1 .. N /\ m.states[at(e)] = Free
      /\ \A u \in a + 1 .. e - 1 : m.states[at(u)] # Free
  <2>1. \A u \in a + 1 .. e - 1 : u \in a + 1 .. N /\ ~(e <= u)
    BY <1>0, <1>3
  <2> QED BY <1>3, <2>1
<1> HIDE DEF T
<1>5. \A d \in Nat : After(m, at(a), d) = at(a + d)
  BY <1>0, <1>1 DEF After, Size
<1> DEFINE k == e - a - 1
<1>6. k \in Slots(lg) /\ a + (k + 1) = e
  BY <1>0, <1>4
<1>7. ends(k)
  <2>1. After(m, at(a), k + 1) = at(e)
    BY <1>0, <1>5, <1>6
  <2>2. \A d \in 1 .. k : d \in Nat /\ a + d \in a + 1 .. e - 1
    BY <1>0, <1>4
  <2>3. \A d \in 1 .. k : m.states[After(m, at(a), d)] # Free
    BY <1>4, <1>5, <2>2
  <2>4. m.states[After(m, at(a), k + 1)] = Free
    BY <1>4, <2>1
  <2> HIDE DEF k
  <2> QED BY <2>3, <2>4
<1>8. ASSUME NEW n \in Slots(lg), ends(n) PROVE n = k
  <2>1. n \in Nat /\ n + 1 \in Nat /\ k \in Nat
    BY <1>0, <1>6
  <2>2. m.states[at(a + (n + 1))] = Free /\ m.states[at(a + (k + 1))] = Free
    BY <1>4, <1>5, <1>6, <1>8, <2>1
  <2>3. ~(n < k)
    <3> SUFFICES ASSUME n < k PROVE FALSE
      OBVIOUS
    <3>1. a + (n + 1) \in a + 1 .. e - 1
      BY <1>0, <1>4, <2>1
    <3> QED BY <1>4, <2>2, <3>1
  <2>4. ~(k < n)
    <3> SUFFICES ASSUME k < n PROVE FALSE
      OBVIOUS
    <3>1. k + 1 \in 1 .. n /\ k + 1 \in Nat
      BY <2>1
    <3>2. After(m, at(a), k + 1) = at(a + (k + 1))
      BY <1>5, <3>1
    <3> QED BY <1>8, <2>2, <3>1, <3>2
  <2> HIDE DEF k
  <2> QED BY <2>1, <2>3, <2>4
<1>9. ClusterAfter(m, at(a)) = k
  <2>1. ClusterAfter(m, at(a)) = CHOOSE n \in Slots(lg) : ends(n)
    BY DEF ClusterAfter
  <2> HIDE DEF k, ends
  <2> QED BY <1>6, <1>7, <1>8, <2>1
<1> QED BY <1>0, <1>4, <1>9 DEF at

(* Freeing the slot of step a leaves a hole there.                         *)
LEMMA OpensHole ==
  ASSUME NEW lg, OkSize(lg), NEW f, NEW m, Linear(m, lg, f),
         NEW a \in 1 .. 2 ^ lg - 1, m.states[At(lg, f, a)] # Free
  PROVE  LET p == At(lg, f, a)
             r == FreeSlot(m, p)
         IN /\ Closing(r, lg, f, a, [map |-> r, hole |-> p, drift |-> 1], a, a)
            /\ Entries(r) = Entries(m) \ {<<m.keys[p], m.values[p]>>}
            /\ r.numActive = m.numActive
            /\ \A u \in a + 1 .. 2 ^ lg - 1 :
                 r.states[At(lg, f, u)] = m.states[At(lg, f, u)]
            /\ PositiveFrom(m, lg, f, a + 1) => PositiveFrom(r, lg, f, a)
<1> DEFINE N == 2 ^ lg
           at(u) == At(lg, f, u)
           p == at(a)
           r == FreeSlot(m, p)
           w == [map |-> r, hole |-> p, drift |-> 1]
<1>0. N \in Nat \ {0} /\ Slots(lg) = 0 .. N - 1 /\ N = 2 ^ lg /\ a \in Nat /\ a \in Slots(lg)
  BY DEF OkSize, Slots
<1>1. /\ m \in MapsOf(lg) /\ Marked(m, lg) /\ m.lgLength = lg
      /\ m.states \in [Slots(lg) -> Nat] /\ m.keys \in [Slots(lg) -> Items \cup {Free}]
      /\ f \in Slots(lg) /\ m.states[f] = Free
      /\ \A s, t \in Taken(m) : m.keys[s] = m.keys[t] => s = t
      /\ \A u \in 1 .. N - 1 : m.states[at(u)] # Free => Reaches(m, lg, f, 0, N, u)
  BY DEF Linear, Nearly, MapsOf
<1>2. f \in Slots(lg)
  BY <1>1
<1>3. /\ \A u \in Nat : at(u) \in Slots(lg)
      /\ \A u, v \in Slots(lg) : at(u) = at(v) => u = v
      /\ at(0) = f
  <2>w. Around(lg, f)
    BY <1>2, AtFacts
  <2> QED BY <1>2, <2>w DEF Around
<1> HIDE DEF N, at
<1>4. p \in Slots(lg) /\ \A u \in Slots(lg) : at(u) = p <=> u = a
  BY <1>0, <1>3
<1>5. p # f /\ m.states[p] # Free
  <2>1. 0 \in Slots(lg) /\ a # 0
    BY <1>0
  <2> QED BY <1>3, <1>4, <2>1 DEF at
<1> HIDE DEF p
<1>6. /\ r \in MapsOf(lg) /\ r.lgLength = lg /\ r.numActive = m.numActive
      /\ r.keys = [m.keys EXCEPT ![p] = Free]
      /\ r.states = [m.states EXCEPT ![p] = Free]
      /\ r.values = m.values
  BY <1>1, <1>4, FreeSlotFacts
<1> HIDE DEF r
<1>7. /\ r.keys[p] = Free /\ r.states[p] = Free
      /\ \A t \in Slots(lg) \ {p} : r.keys[t] = m.keys[t] /\ r.states[t] = m.states[t]
  BY <1>1, <1>4, <1>6
<1>8. Taken(r) = Taken(m) \ {p} /\ p \in Taken(m) /\ Taken(m) \in SUBSET Slots(lg)
  <2>1. Taken(m) = {t \in Slots(lg) : m.states[t] # Free}
        /\ Taken(r) = {t \in Slots(lg) : r.states[t] # Free}
    BY <1>1, <1>6 DEF Taken
  <2> QED BY <1>4, <1>5, <1>7, <2>1
<1>9. Marked(r, lg) /\ r.states[f] = Free
      /\ \A s, t \in Taken(r) : r.keys[s] = r.keys[t] => s = t
  <2>1. Marked(r, lg)
    BY <1>1, <1>7 DEF Marked
  <2>2. r.states[f] = Free
    BY <1>1, <1>5, <1>7
  <2>3. \A s \in Taken(r) : s \in Taken(m) /\ r.keys[s] = m.keys[s]
    BY <1>7, <1>8
  <2> QED BY <1>1, <2>1, <2>2, <2>3
<1>10. ASSUME NEW u \in 1 .. N - 1, r.states[at(u)] # Free
       PROVE  Reaches(r, lg, f, a, a, u)
  <2> DEFINE d == m.states[at(u)]
  <2>1. u \in Slots(lg) /\ u \in Nat /\ u # a
    BY <1>0, <1>7, <1>10 DEF p
  <2>2. at(u) \in Slots(lg) /\ at(u) # p
    BY <1>3, <1>4, <2>1
  <2>3. r.states[at(u)] = d /\ r.keys[at(u)] = m.keys[at(u)] /\ d # Free
    BY <1>7, <1>10, <2>2
  <2>4. Reaches(m, lg, f, 0, N, u) /\ ~(u > N)
    BY <1>0, <1>1, <2>3
  <2>5. /\ d <= u /\ home[m.keys[at(u)]] % N = at(u - d + 1)
        /\ \A v \in u - d + 1 .. u : m.states[at(v)] # Free
    BY <2>4 DEF Reaches, at, N
  <2>6. d \in Nat
    BY <1>1, <2>2
  <2> HIDE DEF d
  <2>7. ASSUME NEW v \in u - d + 1 .. u
        PROVE  r.states[at(v)] # Free \/ (v = a /\ u > a)
    <3>1. v \in Nat /\ v \in Slots(lg) /\ v <= u
      BY <1>0, <2>1, <2>5, <2>6
    <3>2. CASE v = a
      <4>1. u > a
        BY <1>0, <2>1, <3>1, <3>2
      <4> QED BY <3>2, <4>1
    <3>3. CASE v # a
      <4>1. at(v) \in Slots(lg) /\ at(v) # p
        BY <1>3, <1>4, <3>1, <3>3
      <4> QED BY <1>7, <2>5, <4>1
    <3> QED BY <3>2, <3>3
  <2> QED BY <2>3, <2>5, <2>7 DEF Reaches, at, N
<1>11. Nearly(r, lg, f, a, a)
  BY <1>1, <1>6, <1>9, <1>10 DEF Nearly, at, N
<1>12. Entries(r) = Entries(m) \ {<<m.keys[p], m.values[p]>>}
  <2>1. \A t \in Taken(m) : t # p => t \in Taken(r) /\ r.keys[t] = m.keys[t] /\ r.values[t] = m.values[t]
    BY <1>6, <1>7, <1>8
  <2>2. ASSUME NEW e \in Entries(r) PROVE e \in Entries(m) /\ e # <<m.keys[p], m.values[p]>>
    <3>1. PICK t \in Taken(r) : e = <<r.keys[t], r.values[t]>>
      BY DEF Entries
    <3>2. t \in Taken(m) /\ t # p /\ r.keys[t] = m.keys[t] /\ r.values[t] = m.values[t]
      BY <1>8, <2>1
    <3>3. m.keys[t] # m.keys[p]
      BY <1>1, <1>8, <3>2
    <3>4. e = <<m.keys[t], m.values[t]>>
      BY <3>1, <3>2
    <3>5. e \in Entries(m)
      BY <3>2, <3>4 DEF Entries
    <3> QED BY <3>3, <3>4, <3>5
  <2>3. ASSUME NEW e \in Entries(m), e # <<m.keys[p], m.values[p]>> PROVE e \in Entries(r)
    <3>1. PICK t \in Taken(m) : e = <<m.keys[t], m.values[t]>>
      BY DEF Entries
    <3>2. t # p
      BY <2>3, <3>1
    <3>3. t \in Taken(r) /\ e = <<r.keys[t], r.values[t]>>
      BY <2>1, <3>1, <3>2
    <3> QED BY <3>3 DEF Entries
  <2> QED BY <2>2, <2>3
<1>13. \A u \in a + 1 .. N - 1 : r.states[at(u)] = m.states[at(u)]
  <2> SUFFICES ASSUME NEW u \in a + 1 .. N - 1 PROVE r.states[at(u)] = m.states[at(u)]
    OBVIOUS
  <2>1. u \in Nat /\ u \in Slots(lg) /\ u # a
    BY <1>0
  <2>2. at(u) \in Slots(lg) /\ at(u) # p
    BY <1>3, <1>4, <2>1
  <2> QED BY <1>7, <2>2
<1>14. ASSUME PositiveFrom(m, lg, f, a + 1) PROVE PositiveFrom(r, lg, f, a)
  <2>1. \A v \in a + 1 .. N - 1 : m.states[at(v)] # Free => m.values[at(v)] > 0
    BY <1>14 DEF PositiveFrom, at, N
  <2>2. ASSUME NEW v \in a .. N - 1, r.states[at(v)] # Free PROVE r.values[at(v)] > 0
    <3>1. v # a
      BY <1>7, <2>2 DEF p
    <3>2. v \in a + 1 .. N - 1
      BY <1>0, <3>1
    <3>3. m.states[at(v)] # Free
      BY <1>13, <2>2, <3>2
    <3>4. m.values[at(v)] > 0
      BY <2>1, <3>2, <3>3
    <3> QED BY <1>6, <3>4
  <2> QED BY <2>2 DEF PositiveFrom, at, N
<1>15. w.map = r /\ w = [map |-> w.map, hole |-> at(a), drift |-> a + 1 - a] /\ a \in a .. a
  BY <1>0 DEF p
<1>16. r.states[at(a)] = Free
  BY <1>7 DEF p
<1> HIDE DEF w
<1>17. Closing(r, lg, f, a, w, a, a)
  BY <1>11, <1>15, <1>16 DEF Closing, at, N
<1> QED BY <1>6, <1>12, <1>13, <1>14, <1>17 DEF w, r, p, at, N

(* r is m without the entry at step a. *)
Deleted(m, lg, f, a, r) ==
  /\ Linear(r, lg, f)
  /\ Entries(r) = Entries(m) \ {<<m.keys[At(lg, f, a)], m.values[At(lg, f, a)]>>}
  /\ r.numActive = m.numActive
  /\ PositiveFrom(m, lg, f, a + 1) => PositiveFrom(r, lg, f, a)

CloseRun(g, cluster, base) ==
  g = [n \in 0 .. cluster |-> IF n = 0 THEN base ELSE CloseStep(g[n - 1])]

(* hash_delete removes its entry and no other.                             *)
LEMMA HashDeleteRemoves ==
  ASSUME NEW lg, OkSize(lg), NEW f, NEW m, Linear(m, lg, f),
         NEW a \in 1 .. 2 ^ lg - 1, m.states[At(lg, f, a)] # Free
  PROVE  Deleted(m, lg, f, a, HashDelete(m, At(lg, f, a)))
<1> DEFINE N == 2 ^ lg
           at(u) == At(lg, f, u)
           p == at(a)
           m1 == FreeSlot(m, p)
           base == [map |-> m1, hole |-> p, drift |-> 1]
           S == [map : MapsOf(lg), hole : Slots(lg), drift : Nat]
<1>0. N \in Nat \ {0} /\ Slots(lg) = 0 .. N - 1 /\ N = 2 ^ lg /\ a \in Nat
  BY DEF OkSize, Slots
<1>1. m \in MapsOf(lg) /\ m.lgLength = lg /\ f \in Slots(lg) /\ m.states[f] = Free
  BY DEF Linear, Nearly, MapsOf
<1>2. f \in Slots(lg) /\ m.lgLength = lg /\ m.states[f] = Free
  BY <1>1
<1>3. PICK e \in a + 1 .. N :
           /\ m.states[at(e)] = Free
           /\ \A u \in a + 1 .. e - 1 : m.states[at(u)] # Free
           /\ ClusterAfter(m, p) = e - a - 1
  BY <1>2, ClusterEnds
<1> DEFINE k == e - a - 1
           ok == [n \in 0 .. k |-> {w \in S : \E h : Closing(m1, lg, f, a, w, a + n, h)}]
           step == [n \in 0 .. k - 1 |-> [w \in S |-> IF CloseStep(w) \in S THEN CloseStep(w) ELSE w]]
           run == CHOOSE g : CloseRun(g, k, base)
<1>4. /\ Closing(m1, lg, f, a, base, a, a)
      /\ Entries(m1) = Entries(m) \ {<<m.keys[p], m.values[p]>>}
      /\ m1.numActive = m.numActive
      /\ \A u \in a + 1 .. N - 1 : m1.states[at(u)] = m.states[at(u)]
      /\ PositiveFrom(m, lg, f, a + 1) => PositiveFrom(m1, lg, f, a)
  BY OpensHole
<1>5. k \in Nat /\ a + k = e - 1 /\ e \in Nat /\ e <= N
  BY <1>0, <1>3
<1> HIDE DEF m1
<1>6. ASSUME NEW q \in Nat, a <= q, NEW w, NEW h, Closing(m1, lg, f, a, w, q, h) PROVE w \in S
  <2>1. w = [map |-> w.map, hole |-> at(h), drift |-> q + 1 - h] /\ h \in a .. q
        /\ w.map \in MapsOf(lg)
    BY <1>6 DEF Closing, Nearly
  <2>2. h \in Nat /\ q + 1 - h \in Nat
    BY <1>0, <1>6, <2>1
  <2>3. at(h) \in Slots(lg)
    <3>w. Around(lg, f)
      BY <1>2, <2>2, AtFacts
    <3> QED BY <1>2, <2>2, <3>w DEF Around
  <2> HIDE DEF at
  <2> QED BY <2>1, <2>2, <2>3
<1>7. base \in ok[0]
  <2>1. a + 0 = a /\ 0 \in 0 .. k
    BY <1>0, <1>5
  <2>2. base \in S
    BY <1>0, <1>4, <1>6
  <2> HIDE DEF S, base, k
  <2> QED BY <1>4, <2>1, <2>2
<1>8. ASSUME NEW n \in 0 .. k - 1, NEW w \in ok[n]
      PROVE  CloseStep(w) \in ok[n + 1]
  <2>1. n \in 0 .. k /\ n + 1 \in 0 .. k /\ a + n \in a .. N - 2 /\ a + (n + 1) = (a + n) + 1
        /\ (a + n) + 1 \in a + 1 .. e - 1 /\ (a + n) + 1 \in a + 1 .. N - 1
    BY <1>0, <1>5
  <2>2. w \in S /\ \E h : Closing(m1, lg, f, a, w, a + n, h)
    <3> HIDE DEF k, S
    <3> QED BY <2>1
  <2>3. PICK h : Closing(m1, lg, f, a, w, a + n, h)
    BY <2>2
  <2> DEFINE q == a + n
  <2>4. q \in a .. N - 2 /\ Closing(m1, lg, f, a, w, q, h)
        /\ m1.states[at(q + 1)] # Free
    BY <1>3, <1>4, <2>1, <2>3
  <2> HIDE DEF q
  <2>5. \E h2 : Closing(m1, lg, f, a, CloseStep(w), q + 1, h2)
    <3>1. CASE w.map.states[at(q + 1)] > w.drift
      BY <1>2, <2>4, <3>1, MovesOn
    <3>2. CASE ~(w.map.states[at(q + 1)] > w.drift)
      BY <1>2, <2>4, <3>2, LooksOn
    <3> QED BY <3>1, <3>2
  <2>6. PICK h2 : Closing(m1, lg, f, a, CloseStep(w), a + (n + 1), h2)
    BY <2>1, <2>5 DEF q
  <2>7. CloseStep(w) \in S
    <3>1. a + (n + 1) \in Nat /\ a <= a + (n + 1)
      BY <1>0, <2>1
    <3> QED BY <1>6, <2>6, <3>1
  <2> HIDE DEF S, k
  <2> QED BY <2>1, <2>6, <2>7
<1>9. \A n \in 0 .. k : ok[n] \in SUBSET S
  <2> HIDE DEF S, k
  <2> QED OBVIOUS
<1>10. step \in [0 .. k - 1 -> [S -> S]]
  <2> HIDE DEF S, k
  <2> QED OBVIOUS
<1>11. ASSUME NEW n \in 0 .. k - 1, NEW w \in S
       PROVE  CloseStep(w) \in S => step[n][w] = CloseStep(w)
  <2> HIDE DEF S, k
  <2> QED OBVIOUS
<1>12. 0 \in 0 .. k /\ k \in 0 .. k
  BY <1>5
<1> HIDE DEF ok, step, S, base, run, N, k, at, p
<1>13. PICK g \in [0 .. k -> S] : LoopRun(k, base, step, g)
  <2>1. base \in S
    BY <1>7, <1>9, <1>12
  <2> QED BY <1>5, <1>10, <2>1, RunExists
<1>14. \A n \in 0 .. k - 1 : g[n] \in ok[n] => g[n + 1] = CloseStep(g[n])
  <2> SUFFICES ASSUME NEW n \in 0 .. k - 1, g[n] \in ok[n]
               PROVE  g[n + 1] = CloseStep(g[n])
    OBVIOUS
  <2>1. CloseStep(g[n]) \in ok[n + 1]
    BY <1>8
  <2>2. n \in 0 .. k /\ n + 1 \in 0 .. k
    BY <1>5
  <2>3. CloseStep(g[n]) \in S /\ g[n] \in S
    BY <1>9, <2>1, <2>2
  <2>4. g[n + 1] = step[n][g[n]]
    BY <1>13 DEF LoopRun
  <2> QED BY <1>11, <2>3, <2>4
<1>15. \A n \in 0 .. k : g[n] \in ok[n]
  <2>1. g[0] \in ok[0]
    BY <1>7, <1>13 DEF LoopRun
  <2>2. \A n \in 0 .. k - 1 : g[n] \in ok[n] => g[n + 1] \in ok[n + 1]
    BY <1>8, <1>14
  <2> QED BY <1>5, <2>1, <2>2, StaysOK
<1>16. CloseRun(g, k, base)
  <2>1. g = [n \in 0 .. k |-> g[n]]
    BY <1>13
  <2>2. ASSUME NEW n \in 0 .. k
        PROVE  g[n] = IF n = 0 THEN base ELSE CloseStep(g[n - 1])
    <3>1. CASE n = 0
      BY <1>13, <3>1 DEF LoopRun
    <3>2. CASE n # 0
      <4>1. n - 1 \in 0 .. k - 1 /\ n - 1 \in 0 .. k /\ (n - 1) + 1 = n
        BY <1>5, <3>2
      <4> QED BY <1>14, <1>15, <3>2, <4>1
    <3> QED BY <3>1, <3>2
  <2> QED BY <2>1, <2>2 DEF CloseRun
<1>17. CloseRun(run, k, base)
  <2>1. \E x : CloseRun(x, k, base)
    BY <1>16
  <2> QED BY <2>1, Zenon DEF run
<1>18. run[0] = base /\ \A n \in 0 .. k - 1 : run[n + 1] = CloseStep(run[n])
  <2>1. \A n \in 0 .. k : run[n] = IF n = 0 THEN base ELSE CloseStep(run[n - 1])
    BY <1>17 DEF CloseRun
  <2>2. run[0] = base
    BY <1>12, <2>1
  <2>3. ASSUME NEW n \in 0 .. k - 1 PROVE run[n + 1] = CloseStep(run[n])
    <3>1. n + 1 \in 0 .. k /\ n + 1 # 0 /\ (n + 1) - 1 = n
      BY <1>5
    <3> QED BY <2>1, <3>1
  <2> QED BY <2>2, <2>3
<1>19. \A n \in 0 .. k : run[n] \in ok[n]
  <2>1. \A n \in 0 .. k - 1 : run[n] \in ok[n] => run[n + 1] \in ok[n + 1]
    BY <1>8, <1>18
  <2> QED BY <1>5, <1>7, <1>18, <2>1, StaysOK
<1>20. ClusterAfter(m, p) = k
  BY <1>3 DEF k
<1>21. HashDelete(m, p) = run[k].map
  <2>1. HashDelete(m, p) =
          LET walk == CHOOSE x : CloseRun(x, ClusterAfter(m, p), base)
          IN walk[ClusterAfter(m, p)].map
    BY DEF HashDelete, CloseRun, base, m1
  <2> QED BY <1>20, <2>1 DEF run
<1>22. PICK h : Closing(m1, lg, f, a, run[k], e - 1, h)
  BY <1>5, <1>12, <1>19 DEF ok
<1> DEFINE r == run[k].map
<1>23. /\ h \in a .. e - 1 /\ Nearly(r, lg, f, h, e - 1) /\ r.states[at(h)] = Free
       /\ Entries(r) = Entries(m1) /\ r.numActive = m1.numActive
       /\ \A u \in e .. N - 1 : r.states[at(u)] = m1.states[at(u)]
       /\ PositiveFrom(m1, lg, f, a) => PositiveFrom(r, lg, f, a)
  <2>1. (e - 1) + 1 = e
    BY <1>5
  <2> QED BY <1>22, <2>1 DEF Closing, at, N
<1> HIDE DEF r
<1>24. ASSUME NEW u \in 1 .. N - 1, r.states[at(u)] # Free
       PROVE  Reaches(r, lg, f, 0, N, u)
  <2> DEFINE d == r.states[at(u)]
  <2>1. Reaches(r, lg, f, h, e - 1, u)
    BY <1>23, <1>24 DEF Nearly, at, N
  <2>2. /\ d <= u /\ home[r.keys[at(u)]] % N = at(u - d + 1)
        /\ \A v \in u - d + 1 .. u : r.states[at(v)] # Free \/ (v = h /\ u > e - 1)
    BY <2>1 DEF Reaches, at, N
  <2>3. d \in Nat /\ u \in Nat
    <3>1. u \in Nat
      BY <1>0
    <3>2. at(u) \in Slots(lg)
      <4>w. Around(lg, f)
        BY <1>2, <3>1, AtFacts
      <4> QED BY <1>2, <3>1, <4>w DEF Around, at
    <3>3. r.states \in [Slots(lg) -> Nat]
      BY <1>23 DEF Nearly, MapsOf
    <3> QED BY <3>1, <3>2, <3>3
  <2> HIDE DEF d
  <2>4. \A v \in u - d + 1 .. u : r.states[at(v)] # Free
    <3> SUFFICES ASSUME NEW v \in u - d + 1 .. u, v = h, u > e - 1, r.states[at(v)] = Free
                 PROVE  FALSE
      BY <2>2
    <3>1. h \in Nat /\ h < e /\ h >= u - d + 1 /\ e <= N - 1
      BY <1>0, <1>5, <1>23, <2>3
    <3>2. e \in e .. N - 1 /\ e \in a + 1 .. N - 1
      BY <1>0, <1>3, <1>5, <3>1
    <3>3. r.states[at(e)] = Free
      BY <1>3, <1>4, <1>23, <3>2
    <3>4. e \in u - d + 1 .. u
      BY <1>5, <2>3, <3>1
    <3>5. e # h
      BY <1>5, <3>1
    <3> QED BY <2>2, <3>3, <3>4, <3>5
  <2> QED BY <2>2, <2>4 DEF Reaches, at, N, d
<1>25. Linear(r, lg, f)
  BY <1>23, <1>24 DEF Linear, Nearly, at, N
<1>26. Deleted(m, lg, f, a, r)
  BY <1>4, <1>23, <1>25 DEF Deleted, p, at
<1> QED BY <1>21, <1>26 DEF r, p, at

(* The entries are the keys with their counters. *)
LEMMA EntryFacts ==
  ASSUME NEW lg, OkSize(lg), NEW m, Sound(m, lg)
  PROVE  /\ Entries(m) \in SUBSET (Items \X Nat)
         /\ \A i \in Items, v \in Nat :
              <<i, v>> \in Entries(m) <=> (i \in KeysIn(m) /\ CountersIn(m)[i] = v)
<1>1. /\ m.keys \in [Slots(lg) -> Items \cup {Free}] /\ m.values \in [Slots(lg) -> Nat]
      /\ Taken(m) \in SUBSET Slots(lg)
      /\ \A p \in Taken(m) : m.keys[p] \in Items
  <2>1. KeysIn(m) \in SUBSET Items /\ Taken(m) \in SUBSET Slots(lg)
    BY SoundOnce
  <2> QED BY <2>1 DEF Sound, MapsOf, KeysIn
<1>2. \A p \in Taken(m) : CountersIn(m)[m.keys[p]] = m.values[p]
  BY CounterFacts
<1>3. Entries(m) \in SUBSET (Items \X Nat)
  BY <1>1 DEF Entries
<1>4. ASSUME NEW i \in Items, NEW v \in Nat
      PROVE  <<i, v>> \in Entries(m) <=> (i \in KeysIn(m) /\ CountersIn(m)[i] = v)
  <2>1. ASSUME <<i, v>> \in Entries(m) PROVE i \in KeysIn(m) /\ CountersIn(m)[i] = v
    <3>1. PICK p \in Taken(m) : <<i, v>> = <<m.keys[p], m.values[p]>>
      BY <2>1 DEF Entries
    <3>2. i = m.keys[p] /\ v = m.values[p]
      BY <3>1
    <3> QED BY <1>2, <3>2 DEF KeysIn
  <2>2. ASSUME i \in KeysIn(m), CountersIn(m)[i] = v PROVE <<i, v>> \in Entries(m)
    <3>1. PICK p \in Taken(m) : m.keys[p] = i
      BY <2>2 DEF KeysIn
    <3>2. m.values[p] = v
      BY <1>2, <2>2, <3>1
    <3> QED BY <3>1, <3>2 DEF Entries
  <2> QED BY <2>1, <2>2
<1> QED BY <1>3, <1>4

-------------------------------------------------------------------------------
(* keep_only_positive_counts. *)

(* numActive is all that changes. *)
LEMMA CountFacts ==
  ASSUME NEW lg, NEW f, NEW m, Linear(m, lg, f), NEW u
  PROVE  LET r == [m EXCEPT !.numActive = @ - 1]
         IN /\ Linear(r, lg, f) /\ r.numActive = m.numActive - 1 /\ Entries(r) = Entries(m)
            /\ PositiveFrom(m, lg, f, u) => PositiveFrom(r, lg, f, u)
<1> DEFINE r == [m EXCEPT !.numActive = @ - 1]
<1>1. m \in MapsOf(lg)
  BY DEF Linear, Nearly
<1>2. /\ r \in MapsOf(lg) /\ r.numActive = m.numActive - 1 /\ r.keys = m.keys
      /\ r.states = m.states /\ r.values = m.values /\ r.lgLength = m.lgLength
  BY <1>1 DEF MapsOf
<1> HIDE DEF r
<1>3. Taken(r) = Taken(m)
  BY <1>2 DEF Taken
<1>4. Entries(r) = Entries(m)
  BY <1>2, <1>3 DEF Entries
<1>5. \A h, q, v : Reaches(m, lg, f, h, q, v) => Reaches(r, lg, f, h, q, v)
  BY <1>2 DEF Reaches
<1>6. Linear(r, lg, f)
  BY <1>2, <1>3, <1>5 DEF Linear, Nearly, Marked
<1>7. PositiveFrom(m, lg, f, u) => PositiveFrom(r, lg, f, u)
  BY <1>2 DEF PositiveFrom
<1> QED BY <1>2, <1>4, <1>6, <1>7 DEF r

(* After n turns k holds the positive entries of m, and only those from    *)
(* slot 2 ^ lg - n on.                                                     *)
Kept(m, lg, f, k, n) ==
  /\ Linear(k, lg, f)
  /\ PositiveFrom(k, lg, f, 2 ^ lg - n)
  /\ \A i \in Items, v \in Nat \ {0} : <<i, v>> \in Entries(k) <=> <<i, v>> \in Entries(m)
  /\ k.numActive = Cardinality(KeysIn(k))

(* A turn drops an entry of value zero.                                    *)
LEMMA DropZeroKeeps ==
  ASSUME NEW lg, OkSize(lg), NEW f, NEW m, NEW n \in Slots(lg), NEW k, Kept(m, lg, f, k, n)
  PROVE  Kept(m, lg, f, DropZero(k, At(lg, f, 2 ^ lg - (n + 1))), n + 1)
<1> DEFINE N == 2 ^ lg
           u == N - (n + 1)
           p == At(lg, f, u)
<1>0. N \in Nat \ {0} /\ Slots(lg) = 0 .. N - 1 /\ u \in 0 .. N - 1 /\ u + 1 = N - n
      /\ n \in 0 .. N - 1
  BY DEF OkSize, Slots
<1>1. Linear(k, lg, f) /\ PositiveFrom(k, lg, f, u + 1) /\ k.numActive = Cardinality(KeysIn(k))
      /\ \A i \in Items, v \in Nat \ {0} : <<i, v>> \in Entries(k) <=> <<i, v>> \in Entries(m)
  BY <1>0 DEF Kept
<1>2. k \in MapsOf(lg) /\ f \in Slots(lg) /\ k.states[f] = Free
  BY <1>1 DEF Linear, Nearly
<1>3. Sound(k, lg)
  BY <1>1, LinearIsSound
<1>4. p \in Slots(lg) /\ (u = 0 => p = f)
  <2>1. u \in Nat
    BY <1>0
  <2>2. At(lg, f, u) \in Slots(lg) /\ At(lg, f, 0) = f
    <3>w. Around(lg, f)
      BY <1>2, <2>1, AtFacts
    <3> QED BY <1>2, <2>1, <3>w DEF Around
  <2> QED BY <2>2
<1>5. CASE ~(k.states[p] # Free /\ k.values[p] = 0)
  <2>1. DropZero(k, p) = k
    BY <1>5 DEF DropZero
  <2>2. ASSUME NEW v \in u .. N - 1, k.states[At(lg, f, v)] # Free
        PROVE  k.values[At(lg, f, v)] > 0
    <3>1. v = u \/ v \in u + 1 .. N - 1
      BY <1>0
    <3>2. k.values[p] \in Nat
      BY <1>2, <1>4 DEF MapsOf
    <3> QED BY <1>1, <1>5, <2>2, <3>1, <3>2 DEF PositiveFrom
  <2>3. PositiveFrom(k, lg, f, u)
    BY <2>2 DEF PositiveFrom
  <2> QED BY <1>1, <2>1, <2>3 DEF Kept
<1>6. CASE k.states[p] # Free /\ k.values[p] = 0
  <2> DEFINE d == HashDelete(k, p)
             r == [d EXCEPT !.numActive = @ - 1]
             i == k.keys[p]
  <2>1. DropZero(k, p) = r
    BY <1>6 DEF DropZero
  <2>2. u \in 1 .. N - 1
    <3>1. u # 0
      BY <1>2, <1>4, <1>6
    <3> QED BY <1>0, <3>1
  <2>3. Deleted(k, lg, f, u, d)
    BY <1>1, <1>6, <2>2, HashDeleteRemoves
  <2> HIDE DEF d
  <2>4. /\ Linear(d, lg, f) /\ d.numActive = k.numActive /\ PositiveFrom(d, lg, f, u)
        /\ Entries(d) = Entries(k) \ {<<i, k.values[p]>>}
    BY <1>1, <2>3 DEF Deleted
  <2>5. /\ Linear(r, lg, f) /\ r.numActive = d.numActive - 1 /\ Entries(r) = Entries(d)
        /\ PositiveFrom(r, lg, f, u)
    BY <2>4, CountFacts
  <2> HIDE DEF r
  <2>6. Entries(r) = Entries(k) \ {<<i, 0>>}
    BY <1>6, <2>4, <2>5
  <2>7. p \in Taken(k)
    BY <1>2, <1>4, <1>6 DEF Taken, MapsOf
  <2>8. i \in KeysIn(k) /\ i \in Items /\ KeysIn(k) \in SUBSET Items /\ IsFiniteSet(KeysIn(k))
    <3>1. KeysIn(k) \in SUBSET Items
      BY <1>3, SoundOnce
    <3>2. i \in KeysIn(k)
      BY <2>7 DEF KeysIn
    <3> QED BY <3>1, <3>2, ItemsAssumption, FS_Subset
  <2>9. CountersIn(k)[i] = 0
    BY <1>3, <1>6, <2>7, CounterFacts
  <2>10. Sound(r, lg)
    BY <2>5, LinearIsSound
  <2>11. KeysIn(r) = KeysIn(k) \ {i}
    <3>1. KeysIn(r) \in SUBSET Items /\ CountersIn(r) \in [Items -> Nat]
          /\ CountersIn(k) \in [Items -> Nat]
      BY <1>3, <2>10, SoundOnce, CounterFacts
    <3>2. ASSUME NEW j \in Items PROVE j \in KeysIn(r) <=> j \in KeysIn(k) \ {i}
      <4>1. ASSUME j \in KeysIn(r) PROVE j \in KeysIn(k) \ {i}
        <5>1. PICK v \in Nat : CountersIn(r)[j] = v
          BY <3>1
        <5>2. <<j, v>> \in Entries(r)
          BY <2>10, <4>1, <5>1, EntryFacts
        <5>3. <<j, v>> \in Entries(k) /\ <<j, v>> # <<i, 0>>
          BY <2>6, <5>2
        <5>4. j \in KeysIn(k) /\ CountersIn(k)[j] = v
          BY <1>3, <5>3, EntryFacts
        <5> QED BY <2>9, <5>3, <5>4
      <4>2. ASSUME j \in KeysIn(k), j # i PROVE j \in KeysIn(r)
        <5>1. PICK v \in Nat : CountersIn(k)[j] = v
          BY <3>1
        <5>2. <<j, v>> \in Entries(k)
          BY <1>3, <4>2, <5>1, EntryFacts
        <5>3. <<j, v>> # <<i, 0>>
          BY <4>2
        <5>4. <<j, v>> \in Entries(r)
          BY <2>6, <5>2, <5>3
        <5> QED BY <2>10, <5>4, EntryFacts
      <4> QED BY <4>1, <4>2
    <3> QED BY <2>8, <3>1, <3>2
  <2>12. r.numActive = Cardinality(KeysIn(r))
    <3>1. Cardinality(KeysIn(k) \ {i}) = Cardinality(KeysIn(k)) - 1
      <4> HIDE DEF i
      <4> QED BY <2>8, FS_RemoveElement
    <3> QED BY <1>1, <2>4, <2>5, <2>11, <3>1
  <2>13. ASSUME NEW j \in Items, NEW v \in Nat \ {0}
         PROVE  <<j, v>> \in Entries(r) <=> <<j, v>> \in Entries(m)
    <3>1. <<j, v>> # <<i, 0>>
      OBVIOUS
    <3> QED BY <1>1, <2>6, <3>1
  <2> QED BY <2>1, <2>5, <2>12, <2>13 DEF Kept
<1> QED BY <1>5, <1>6

(* numActive counts the keys, and a key has a positive counter.            *)
Tidy(m, lg) ==
  /\ Sound(m, lg)
  /\ KeysIn(m) = ActiveIn(CountersIn(m))
  /\ m.numActive = Cardinality(KeysIn(m))

(* After the last turn the positive entries are left, with their values.   *)
LEMMA AllKept ==
  ASSUME NEW lg, OkSize(lg), NEW m, Sound(m, lg), NEW f, NEW k, Kept(m, lg, f, k, 2 ^ lg)
  PROVE  Tidy(k, lg) /\ CountersIn(k) = CountersIn(m)
<1>1. Linear(k, lg, f) /\ PositiveFrom(k, lg, f, 0) /\ k.numActive = Cardinality(KeysIn(k))
      /\ \A i \in Items, v \in Nat \ {0} : <<i, v>> \in Entries(k) <=> <<i, v>> \in Entries(m)
  <2>1. 2 ^ lg - 2 ^ lg = 0
    BY DEF OkSize
  <2> QED BY <2>1 DEF Kept
<1>2. k \in MapsOf(lg) /\ f \in Slots(lg)
  BY <1>1 DEF Linear, Nearly
<1>3. Sound(k, lg)
  BY <1>1, LinearIsSound
<1>4. \A p \in Taken(k) : k.values[p] > 0
  <2> SUFFICES ASSUME NEW p \in Taken(k) PROVE k.values[p] > 0
    OBVIOUS
  <2>1. p \in Slots(lg) /\ k.states[p] # Free
    BY <1>2 DEF Taken, MapsOf
  <2>2. PICK v \in Slots(lg) : At(lg, f, v) = p
    <3>w. Around(lg, f)
      BY <1>2, <2>1, AtFacts
    <3> QED BY <1>2, <2>1, <3>w DEF Around
  <2> QED BY <1>1, <2>1, <2>2 DEF PositiveFrom, Slots
<1>5. /\ CountersIn(k) \in [Items -> Nat] /\ CountersIn(m) \in [Items -> Nat]
      /\ KeysIn(k) \in SUBSET Items
      /\ \A i \in Items \ KeysIn(k) : CountersIn(k)[i] = 0
      /\ \A i \in Items \ KeysIn(m) : CountersIn(m)[i] = 0
  BY <1>3, CounterFacts, SoundOnce
<1>6. \A i \in KeysIn(k) : CountersIn(k)[i] > 0
  <2> SUFFICES ASSUME NEW i \in KeysIn(k) PROVE CountersIn(k)[i] > 0
    OBVIOUS
  <2>1. PICK p \in Taken(k) : k.keys[p] = i
    BY DEF KeysIn
  <2>2. CountersIn(k)[k.keys[p]] = k.values[p]
    BY <1>3, CounterFacts
  <2> QED BY <1>4, <2>1, <2>2
<1>7. ASSUME NEW i \in Items, NEW v \in Nat \ {0}
      PROVE  CountersIn(k)[i] = v <=> CountersIn(m)[i] = v
  <2>1. v \in Nat /\ v # 0
    OBVIOUS
  <2>2. <<i, v>> \in Entries(k) <=> (i \in KeysIn(k) /\ CountersIn(k)[i] = v)
    BY <1>3, <2>1, EntryFacts
  <2>3. <<i, v>> \in Entries(m) <=> (i \in KeysIn(m) /\ CountersIn(m)[i] = v)
    BY <2>1, EntryFacts
  <2> QED BY <1>1, <1>5, <2>1, <2>2, <2>3
<1>8. \A i \in Items : CountersIn(k)[i] = CountersIn(m)[i]
  <2> SUFFICES ASSUME NEW i \in Items PROVE CountersIn(k)[i] = CountersIn(m)[i]
    OBVIOUS
  <2>1. CountersIn(k)[i] \in Nat /\ CountersIn(m)[i] \in Nat
    BY <1>5
  <2>2. CASE CountersIn(k)[i] # 0
    BY <1>7, <2>1, <2>2
  <2>3. CASE CountersIn(m)[i] # 0
    BY <1>7, <2>1, <2>3
  <2> QED BY <2>2, <2>3
<1>9. CountersIn(k) = CountersIn(m)
  BY <1>5, <1>8
<1>10. KeysIn(k) = ActiveIn(CountersIn(k))
  BY <1>5, <1>6 DEF ActiveIn
<1> QED BY <1>1, <1>3, <1>9, <1>10 DEF Tidy

KeepRun(g, m, first) ==
  g = [n \in 0 .. Size(m) |-> IF n = 0 THEN m
                              ELSE DropZero(g[n - 1], After(m, first, Size(m) - n))]

(* keep_only_positive_counts drops the counters that are zero.             *)
LEMMA KeepsPositive ==
  ASSUME NEW lg, OkSize(lg), NEW m, Sound(m, lg), m.numActive = Cardinality(KeysIn(m)),
         Cardinality(KeysIn(m)) < 2 ^ lg
  PROVE  /\ Tidy(KeepOnlyPositiveCounts(m), lg)
         /\ CountersIn(KeepOnlyPositiveCounts(m)) = CountersIn(m)
<1> DEFINE N == 2 ^ lg
           S == MapsOf(lg)
           first == Max(Slots(m.lgLength) \ Taken(m))
           turn(k, n) == DropZero(k, At(lg, first, N - (n + 1)))
           ok == [n \in 0 .. N |-> {k \in S : Kept(m, lg, first, k, n)}]
           step == [n \in 0 .. N - 1 |-> [k \in S |-> IF turn(k, n) \in S THEN turn(k, n) ELSE k]]
           run == CHOOSE g : KeepRun(g, m, first)
<1>0. N \in Nat \ {0} /\ Slots(lg) = 0 .. N - 1 /\ Size(m) = N /\ m.lgLength = lg /\ m \in S
  BY DEF OkSize, Slots, Size, Sound, MapsOf
<1>a. first \in Slots(lg) /\ m.states[first] = Free
  <2> DEFINE T == Slots(m.lgLength) \ Taken(m)
  <2>1. PICK p \in Slots(lg) : m.keys[p] = Free
    BY SoundHasRoom
  <2>2. T # {} /\ T \in SUBSET (0 .. N - 1)
    BY <1>0, <2>1, SoundOnce
  <2>3. Max(T) \in T
    <3>1. N \in Nat
      BY <1>0
    <3> HIDE DEF T
    <3> QED BY <2>2, <3>1, MaxOfRange
  <2> QED BY <1>0, <2>3 DEF Taken
<1> HIDE DEF first
<1>b. Linear(m, lg, first)
  BY <1>a, SoundIsLinear
<1>1. m \in ok[0]
  <2>1. PositiveFrom(m, lg, first, N - 0)
    BY <1>0 DEF PositiveFrom
  <2>2. Kept(m, lg, first, m, 0)
    BY <1>b, <2>1 DEF Kept
  <2> HIDE DEF S
  <2> QED BY <1>0, <2>2
<1>2. ASSUME NEW n \in 0 .. N - 1, NEW k \in ok[n] PROVE turn(k, n) \in ok[n + 1]
  <2>1. n \in 0 .. N /\ n + 1 \in 0 .. N /\ n \in Slots(lg)
    BY <1>0
  <2>2. Kept(m, lg, first, k, n)
    BY <2>1
  <2>3. Kept(m, lg, first, turn(k, n), n + 1)
    BY <2>1, <2>2, DropZeroKeeps
  <2>4. turn(k, n) \in S
    BY <2>3 DEF Kept, Linear, Nearly
  <2> HIDE DEF S, turn
  <2> QED BY <2>1, <2>3, <2>4
<1>3. \A n \in 0 .. N : ok[n] \in SUBSET S
  OBVIOUS
<1>4. step \in [0 .. N - 1 -> [S -> S]]
  <2> HIDE DEF S, turn
  <2> QED OBVIOUS
<1>5. ASSUME NEW n \in 0 .. N - 1, NEW k \in S
      PROVE  turn(k, n) \in S => step[n][k] = turn(k, n)
  <2> HIDE DEF S, turn
  <2> QED OBVIOUS
<1>c. \A n \in 0 .. N - 1 : \A k : turn(k, n) = DropZero(k, After(m, first, N - (n + 1)))
  BY <1>0 DEF At, After
<1>d. 0 \in 0 .. N /\ N \in 0 .. N
  BY <1>0
<1> HIDE DEF ok, step, S, run, N, turn
<1>6. PICK g \in [0 .. N -> S] : LoopRun(N, m, step, g)
  <2>1. m \in S
    BY <1>0, <1>1, <1>3
  <2> QED BY <1>0, <1>4, <2>1, RunExists
<1>7. \A n \in 0 .. N - 1 : g[n] \in ok[n] => g[n + 1] = turn(g[n], n)
  <2> SUFFICES ASSUME NEW n \in 0 .. N - 1, g[n] \in ok[n]
               PROVE  g[n + 1] = turn(g[n], n)
    OBVIOUS
  <2>1. turn(g[n], n) \in ok[n + 1]
    BY <1>2
  <2>2. n \in 0 .. N /\ n + 1 \in 0 .. N
    BY <1>0
  <2>3. turn(g[n], n) \in S /\ g[n] \in S
    BY <1>3, <2>1, <2>2
  <2>4. g[n + 1] = step[n][g[n]]
    BY <1>6 DEF LoopRun
  <2> QED BY <1>5, <2>3, <2>4
<1>8. \A n \in 0 .. N : g[n] \in ok[n]
  <2>1. g[0] \in ok[0]
    BY <1>1, <1>6 DEF LoopRun
  <2>2. \A n \in 0 .. N - 1 : g[n] \in ok[n] => g[n + 1] \in ok[n + 1]
    BY <1>2, <1>7
  <2> QED BY <1>0, <2>1, <2>2, StaysOK
<1>9. KeepRun(g, m, first)
  <2>1. g = [n \in 0 .. N |-> g[n]]
    BY <1>6
  <2>2. ASSUME NEW n \in 0 .. N
        PROVE  g[n] = IF n = 0 THEN m ELSE DropZero(g[n - 1], After(m, first, N - n))
    <3>1. CASE n = 0
      BY <1>6, <3>1 DEF LoopRun
    <3>2. CASE n # 0
      <4>1. n - 1 \in 0 .. N - 1 /\ n - 1 \in 0 .. N /\ (n - 1) + 1 = n
        BY <1>0, <3>2
      <4> QED BY <1>7, <1>8, <1>c, <3>2, <4>1
    <3> QED BY <3>1, <3>2
  <2> QED BY <1>0, <2>1, <2>2 DEF KeepRun
<1>10. KeepRun(run, m, first)
  <2>1. \E x : KeepRun(x, m, first)
    BY <1>9
  <2> QED BY <2>1, Zenon DEF run
<1>11. run[0] = m /\ \A n \in 0 .. N - 1 : run[n + 1] = turn(run[n], n)
  <2>1. \A n \in 0 .. N : run[n] = IF n = 0 THEN m
                                   ELSE DropZero(run[n - 1], After(m, first, N - n))
    BY <1>0, <1>10 DEF KeepRun
  <2>2. run[0] = m
    BY <1>d, <2>1
  <2>3. ASSUME NEW n \in 0 .. N - 1 PROVE run[n + 1] = turn(run[n], n)
    <3>1. n + 1 \in 0 .. N /\ n + 1 # 0 /\ (n + 1) - 1 = n
      BY <1>0
    <3>2. run[n + 1] = DropZero(run[n], After(m, first, N - (n + 1)))
      BY <2>1, <3>1
    <3> QED BY <1>c, <3>2
  <2> QED BY <2>2, <2>3
<1>12. \A n \in 0 .. N : run[n] \in ok[n]
  <2>1. \A n \in 0 .. N - 1 : run[n] \in ok[n] => run[n + 1] \in ok[n + 1]
    BY <1>2, <1>11
  <2> QED BY <1>0, <1>1, <1>11, <2>1, StaysOK
<1>13. KeepOnlyPositiveCounts(m) = run[N]
  <2>1. KeepOnlyPositiveCounts(m) =
          LET kept == CHOOSE g_1 : KeepRun(g_1, m, first) IN kept[Size(m)]
    BY DEF KeepOnlyPositiveCounts, KeepRun, first
  <2> QED BY <1>0, <2>1 DEF run
<1>14. Kept(m, lg, first, run[N], 2 ^ lg)
  BY <1>d, <1>12 DEF ok, N
<1>15. Tidy(run[N], lg) /\ CountersIn(run[N]) = CountersIn(m)
  <2> HIDE DEF run, N
  <2> QED BY <1>14, AllKept
<1> QED BY <1>13, <1>15

(* adjust_all_values_by subtracts from every counter. *)
LEMMA AdjustSubtracts ==
  ASSUME NEW lg, OkSize(lg), NEW m, Sound(m, lg), NEW d \in Nat
  PROVE  LET r == AdjustAllValuesBy(m, d)
         IN /\ Sound(r, lg) /\ KeysIn(r) = KeysIn(m) /\ r.numActive = m.numActive
            /\ CountersIn(r) = Purged(CountersIn(m), d)
<1> DEFINE vs == [p \in Slots(lg) |-> IF m.values[p] > d THEN m.values[p] - d ELSE 0]
           r == AdjustAllValuesBy(m, d)
<1>1. m \in MapsOf(lg) /\ m.lgLength = lg /\ m.values \in [Slots(lg) -> Nat]
  BY DEF Sound, MapsOf
<1>2. vs \in [Slots(lg) -> Nat]
  BY <1>1
<1>3. r = [m EXCEPT !.values = vs]
  BY <1>1 DEF AdjustAllValuesBy
<1>4. \A p \in Slots(lg) : vs[p] = IF m.values[p] > d THEN m.values[p] - d ELSE 0
  OBVIOUS
<1> HIDE DEF vs, r
<1>5. /\ r \in MapsOf(lg) /\ r.lgLength = m.lgLength /\ r.keys = m.keys /\ r.states = m.states
      /\ r.numActive = m.numActive /\ r.values = vs
  BY <1>1, <1>2, <1>3 DEF MapsOf
<1>6. Sound(r, lg)
  BY <1>5 DEF Sound, Marked
<1>7. Taken(r) = Taken(m)
  BY <1>5 DEF Taken
<1>8. KeysIn(r) = KeysIn(m)
  BY <1>5, <1>7 DEF KeysIn
<1>9. /\ CountersIn(r) \in [Items -> Nat] /\ CountersIn(m) \in [Items -> Nat]
      /\ \A p \in Taken(m) : CountersIn(r)[m.keys[p]] = vs[p]
                             /\ CountersIn(m)[m.keys[p]] = m.values[p]
      /\ \A i \in Items \ KeysIn(m) : CountersIn(r)[i] = 0 /\ CountersIn(m)[i] = 0
  BY <1>5, <1>6, <1>7, <1>8, CounterFacts
<1>10. ASSUME NEW i \in Items
       PROVE  CountersIn(r)[i] = IF CountersIn(m)[i] > d THEN CountersIn(m)[i] - d ELSE 0
  <2>1. CASE i \notin KeysIn(m)
    <3>1. CountersIn(r)[i] = 0 /\ CountersIn(m)[i] = 0
      BY <1>9, <2>1
    <3> QED BY <3>1
  <2>2. CASE i \in KeysIn(m)
    <3>1. PICK p \in Taken(m) : m.keys[p] = i
      BY <2>2 DEF KeysIn
    <3>2. p \in Slots(lg)
      BY <1>1 DEF Taken
    <3> QED BY <1>4, <1>9, <3>1, <3>2
  <2> QED BY <2>1, <2>2
<1>11. CountersIn(r) = Purged(CountersIn(m), d)
  BY <1>9, <1>10 DEF Purged
<1> QED BY <1>5, <1>6, <1>8, <1>11 DEF r

(* As many keys as slots. *)
LEMMA KeyCount ==
  ASSUME NEW lg, OkSize(lg), NEW m, Sound(m, lg), NEW P \in SUBSET Taken(m)
  PROVE  /\ IsFiniteSet(P) /\ Cardinality(P) \in Nat
         /\ IsFiniteSet({m.keys[p] : p \in P})
         /\ Cardinality({m.keys[p] : p \in P}) = Cardinality(P)
<1> DEFINE K == {m.keys[p] : p \in P}
           g == [p \in P |-> m.keys[p]]
<1>1. /\ Taken(m) = {p \in Slots(lg) : m.keys[p] # Free}
      /\ \A p, q \in Taken(m) : m.keys[p] = m.keys[q] => p = q
  BY SoundOnce
<1>2. IsFiniteSet(P)
  <2>1. IsFiniteSet(Slots(lg)) /\ P \in SUBSET Slots(lg)
    BY <1>1, FS_Interval DEF Slots, OkSize
  <2> QED BY <2>1, FS_Subset
<1>3. g \in Injection(P, K)
  BY <1>1 DEF Injection, IsInjective
<1>4. g \in Surjection(P, K)
  BY DEF Surjection
<1> HIDE DEF g, K
<1>5. IsFiniteSet(K) /\ Cardinality(K) = Cardinality(P)
  BY <1>2, <1>3, <1>4, FS_Surjection
<1> QED BY <1>2, <1>5, FS_CardinalityType DEF K

(* The limit of Sampled is that of the sketch-level model.                 *)
LEMMA SampleLimits ==
  ASSUME NEW a \in Int, NEW b \in Int, NEW n \in Int
  PROVE  /\ Min({Min({a, b}), n, a}) = Min({a, b, n})
         /\ Min({a, b, n}) <= n
         /\ (a > 0 /\ b > 0 /\ n > 0) => Min({a, b, n}) > 0
         /\ Min({a, b, n}) \in Int
<1> DEFINE c == IF a <= b THEN a ELSE b
           r == IF c <= n THEN c ELSE n
<1>1. Min({a, b}) = c
  BY MinOfTwo
<1>2. r \in {a, b, n} /\ \A y \in {a, b, n} : r <= y
  OBVIOUS
<1>3. \A x \in {a, b, n} : (\A y \in {a, b, n} : x <= y) => x = r
  OBVIOUS
<1>4. r \in {c, n, a} /\ \A y \in {c, n, a} : r <= y
  OBVIOUS
<1>5. \A x \in {c, n, a} : (\A y \in {c, n, a} : x <= y) => x = r
  OBVIOUS
<1>6. r <= n /\ r \in Int /\ (a > 0 /\ b > 0 /\ n > 0 => r > 0)
  OBVIOUS
<1> HIDE DEF r, c
<1>7. Min({a, b, n}) = r
  BY <1>2, <1>3 DEF Min
<1>8. Min({c, n, a}) = r
  BY <1>4, <1>5 DEF Min
<1> QED BY <1>1, <1>6, <1>7, <1>8

(* The median of a full map is one that the sketch-level purge may pick:   *)
(* the sampled slots hold as many items, with the same counters.           *)
LEMMA MedianIsChosen ==
  ASSUME NEW s \in Sketches, NEW lg, OkSize(lg), NEW m, Tidy(m, lg),
         MapCapacityForLg(LgMaxOf(s)) \in Nat \ {0}, KeysIn(m) # {}
  PROVE  MedianOf(m, Min({SampleSize, MapCapacityForLg(LgMaxOf(s))}))
           \in Medians(s, CountersIn(m))
<1> DEFINE cap == MapCapacityForLg(LgMaxOf(s))
           c == CountersIn(m)
           limit == SampleLimit(s, c)
           S == Sampled(m, Min({SampleSize, cap}))
           mid == limit \div 2
           med == MedianOf(m, Min({SampleSize, cap}))
           key(P) == {m.keys[p] : p \in P}
<1>1. /\ Sound(m, lg) /\ m.numActive = Cardinality(KeysIn(m)) /\ KeysIn(m) = ActiveIn(c)
      /\ m.lgLength = lg
  BY DEF Tidy, Sound, MapsOf
<1>2. /\ Taken(m) = {p \in Slots(lg) : m.keys[p] # Free}
      /\ \A p, q \in Taken(m) : m.keys[p] = m.keys[q] => p = q
      /\ KeysIn(m) \in SUBSET Items
  BY <1>1, SoundOnce
<1>3. \A P \in SUBSET Taken(m) : /\ IsFiniteSet(P) /\ Cardinality(P) \in Nat
                                 /\ IsFiniteSet(key(P)) /\ Cardinality(key(P)) = Cardinality(P)
  <2> SUFFICES ASSUME NEW P \in SUBSET Taken(m)
               PROVE  /\ IsFiniteSet(P) /\ Cardinality(P) \in Nat
                      /\ IsFiniteSet(key(P)) /\ Cardinality(key(P)) = Cardinality(P)
    OBVIOUS
  <2>1. Sound(m, lg)
    BY <1>1
  <2> QED BY <2>1, KeyCount
<1>4. m.numActive = Cardinality(Taken(m)) /\ m.numActive \in Nat \ {0}
  <2>1. key(Taken(m)) = KeysIn(m)
    BY DEF KeysIn
  <2>2. Cardinality(KeysIn(m)) = Cardinality(Taken(m)) /\ Cardinality(Taken(m)) \in Nat
        /\ IsFiniteSet(KeysIn(m))
    <3>1. Taken(m) \in SUBSET Taken(m)
      OBVIOUS
    <3> HIDE DEF key
    <3> QED BY <1>3, <2>1, <3>1
  <2>3. Cardinality(KeysIn(m)) # 0
    BY <2>2, FS_EmptySet
  <2> QED BY <1>1, <2>2, <2>3
<1>5. /\ limit \in Nat \ {0} /\ limit <= Cardinality(Taken(m))
      /\ Min({Min({SampleSize, cap}), m.numActive, SampleSize}) = limit
  <2>1. NumActive(c) = m.numActive
    BY <1>1 DEF NumActive
  <2>2. /\ SampleSize \in Int /\ SampleSize > 0 /\ cap \in Int /\ cap > 0
        /\ m.numActive \in Int /\ m.numActive > 0
    BY <1>4, SampleAssumption
  <2>3. limit = Min({SampleSize, cap, m.numActive})
    BY <2>1 DEF SampleLimit
  <2> HIDE DEF limit, cap
  <2>4. /\ Min({Min({SampleSize, cap}), m.numActive, SampleSize}) = limit
        /\ limit <= m.numActive /\ limit > 0 /\ limit \in Int
    BY <2>2, <2>3, SampleLimits
  <2> QED BY <1>4, <2>4
<1> HIDE DEF limit, cap
<1>6. S = FirstOf(Taken(m), limit)
  BY <1>5 DEF Sampled, FirstOf
<1>7. S \in SUBSET Taken(m) /\ Cardinality(S) = limit
  <2>1. Taken(m) \in SUBSET (0 .. 2 ^ lg - 1) /\ 2 ^ lg - 1 \in Nat /\ limit \in Nat
        /\ limit <= Cardinality(Taken(m))
    BY <1>2, <1>5 DEF Slots, OkSize
  <2>2. Cardinality(FirstOf(Taken(m), limit)) = limit
    BY <2>1, FirstOnes
  <2> QED BY <1>6, <2>2 DEF FirstOf
<1>8. mid \in Nat /\ mid < limit
  BY <1>5
<1> HIDE DEF S, mid
<1>9. \A p \in Taken(m) : m.values[p] \in Nat /\ m.values[p] = c[m.keys[p]]
                          /\ m.keys[p] \in ActiveIn(c)
  BY <1>1, <1>2, CounterFacts DEF Sound, MapsOf, KeysIn
<1>10. \E p \in S : HasRank(m, S, m.values[p], mid)
  <2> DEFINE val == [p \in S |-> m.values[p]]
  <2>1. val \in [S -> Nat] /\ IsFiniteSet(S)
    BY <1>3, <1>7, <1>9
  <2>2. \A p \in S : val[p] = m.values[p]
    OBVIOUS
  <2> HIDE DEF val
  <2>3. PICK p \in S : Ranked(S, val, mid, p)
    <3>1. mid < Cardinality(S)
      BY <1>7, <1>8
    <3>2. mid \in Nat
      BY <1>8
    <3>3. IsFiniteSet(S)
      BY <2>1
    <3>4. val \in [S -> Nat]
      BY <2>1
    <3> QED BY <3>1, <3>2, <3>3, <3>4, RankedValue
  <2>4. /\ {q \in S : val[q] < val[p]} = {q \in S : m.values[q] < m.values[p]}
        /\ {q \in S : val[q] <= val[p]} = {q \in S : m.values[q] <= m.values[p]}
    BY <2>2
  <2> QED BY <2>3, <2>4 DEF HasRank, Ranked
<1>11. med \in {m.values[p] : p \in S} /\ HasRank(m, S, med, mid)
  <2>1. med = CHOOSE v \in {m.values[p] : p \in S} : HasRank(m, S, v, mid)
    BY <1>7 DEF MedianOf, S, mid
  <2>2. \E v \in {m.values[p] : p \in S} : HasRank(m, S, v, mid)
    BY <1>10
  <2> HIDE DEF med
  <2> QED BY <2>1, <2>2
<1> HIDE DEF med
<1>12. PICK p \in S : med = m.values[p]
  BY <1>11
<1> DEFINE sample == key(S)
<1>13. /\ sample \in kSubset(limit, ActiveIn(c))
  <2>1. sample \in SUBSET ActiveIn(c)
    BY <1>7, <1>9
  <2>2. Cardinality(sample) = limit
    <3> HIDE DEF key
    <3> QED BY <1>3, <1>7
  <2> QED BY <2>1, <2>2 DEF kSubset
<1>14. m.keys[p] \in sample /\ c[m.keys[p]] = med /\ m.keys[p] \in ActiveIn(c)
  BY <1>7, <1>9, <1>12
<1>15. /\ Cardinality({i \in sample : c[i] < med}) <= mid
       /\ mid < Cardinality({i \in sample : c[i] <= med})
  <2>1. {i \in sample : c[i] < med} = key({q \in S : m.values[q] < med})
    BY <1>7, <1>9
  <2>2. {i \in sample : c[i] <= med} = key({q \in S : m.values[q] <= med})
    BY <1>7, <1>9
  <2>3. {q \in S : m.values[q] < med} \in SUBSET Taken(m)
        /\ {q \in S : m.values[q] <= med} \in SUBSET Taken(m)
    BY <1>7
  <2> HIDE DEF key, sample
  <2>4. /\ Cardinality({i \in sample : c[i] < med}) = Cardinality({q \in S : m.values[q] < med})
        /\ Cardinality({i \in sample : c[i] <= med}) = Cardinality({q \in S : m.values[q] <= med})
    BY <1>3, <2>1, <2>2, <2>3
  <2> QED BY <1>11, <2>4 DEF HasRank
<1>16. med \in {c[i] : i \in ActiveIn(c)}
  BY <1>14
<1> HIDE DEF sample
<1>17. med \in Medians(s, c)
  BY <1>13, <1>14, <1>15, <1>16 DEF Medians, limit, mid
<1> QED BY <1>17 DEF med, cap

-------------------------------------------------------------------------------
(* The iterator. *)

(* The stride is odd, hence prime to the map size.                         *)
LEMMA StrideIsOdd ==
  ASSUME NEW m, Size(m) \in Nat
  PROVE  Stride(m) \in Odd
<1> DEFINE golden == (Size(m) * 61803) \div 100000
<1>1. golden \in Nat
  <2>1. \A n \in Nat : (n * 61803) \div 100000 \in Nat
    OBVIOUS
  <2> QED BY <2>1
<1>2. Stride(m) = IF golden % 2 = 0 THEN golden + 1 ELSE golden
  BY DEF Stride
<1> HIDE DEF golden
<1>3. PICK e \in Nat : golden = 2 * e \/ golden = 2 * e + 1
  <2>1. golden \div 2 \in Nat
        /\ (golden = 2 * (golden \div 2) \/ golden = 2 * (golden \div 2) + 1)
    BY <1>1
  <2> QED BY <2>1
<1>4. CASE golden = 2 * e
  <2>1. golden % 2 = 0
    BY <1>1, <1>4
  <2> QED BY <1>2, <1>4, <2>1 DEF Odd
<1>5. CASE golden = 2 * e + 1
  <2>1. golden % 2 # 0
    BY <1>1, <1>5
  <2> QED BY <1>2, <1>5, <2>1 DEF Odd
<1> QED BY <1>3, <1>4, <1>5

(* Every entry is yielded once. *)
Yields(m) ==
  /\ {KeyAt(m, j) : j \in Yielding(m)} = KeysIn(m)
  /\ Cardinality(Yielding(m)) = m.numActive
  /\ \A j, h \in Yielding(m) : KeyAt(m, j) = KeyAt(m, h) => j = h
  /\ \A j \in Yielding(m) : Visited(m, j) \in Taken(m)
  /\ Yielding(m) \in SUBSET Nat

(* The iterator yields every entry once.                                   *)
LEMMA IteratorYields ==
  ASSUME NEW lg, OkSize(lg), Cancels(2 ^ lg), NEW m, Sound(m, lg),
         m.numActive = Cardinality(KeysIn(m))
  PROVE  Yields(m)
<1> DEFINE N == 2 ^ lg
           hits == {j \in Slots(lg) : m.states[Visited(m, j)] # Free}
           d == Stride(m)
           g == [j \in hits |-> Visited(m, j)]
<1>1. N \in Nat \ {0} /\ Slots(lg) = 0 .. N - 1 /\ Size(m) = N /\ m.lgLength = lg
      /\ Cancels(N) /\ 0 \in Nat
  BY DEF OkSize, Slots, Size, Sound, MapsOf
<1>2. d \in Odd /\ d \in Nat
  <2>1. d \in Odd
    BY <1>1, StrideIsOdd
  <2> QED BY <2>1 DEF Odd
<1>3. \A j \in Slots(lg) : Visited(m, j) = (0 + j * d) % N /\ Visited(m, j) \in Slots(lg)
  <2> SUFFICES ASSUME NEW j \in Slots(lg)
               PROVE  Visited(m, j) = (0 + j * d) % N /\ Visited(m, j) \in Slots(lg)
    OBVIOUS
  <2>1. Visited(m, j) = (0 + j * d) % N
    BY <1>1 DEF Visited, After
  <2>2. PICK a \in Nat : a = 0 + j * d
    BY <1>1, <1>2
  <2>3. a % N \in 0 .. N - 1
    BY <1>1, <2>2, ModFacts
  <2> QED BY <1>1, <2>1, <2>2, <2>3
<1> HIDE DEF d, N
<1>4. \A j, h \in Slots(lg) : Visited(m, j) = Visited(m, h) => j = h
  <2>1. ASSUME NEW j \in Slots(lg), NEW h \in Slots(lg), j < h
        PROVE  Visited(m, j) # Visited(m, h)
    <3>1. j \in Nat /\ h \in Nat /\ h - j < N
      BY <1>1, <2>1
    <3>2. (0 + j * d) % N # (0 + h * d) % N
      BY <1>1, <1>2, <2>1, <3>1, StepsDistinct
    <3> QED BY <1>3, <3>2
  <2> SUFFICES ASSUME NEW j \in Slots(lg), NEW h \in Slots(lg), Visited(m, j) = Visited(m, h)
               PROVE  j = h
    OBVIOUS
  <2>2. j \in Nat /\ h \in Nat
    BY <1>1
  <2>3. ~(j < h) /\ ~(h < j)
    BY <2>1
  <2> QED BY <2>2, <2>3
<1>5. \A p \in Slots(lg) : \E j \in Slots(lg) : Visited(m, j) = p
  <2> SUFFICES ASSUME NEW p \in Slots(lg) PROVE \E j \in Slots(lg) : Visited(m, j) = p
    OBVIOUS
  <2>1. p \in 0 .. N - 1
    BY <1>1
  <2>2. PICK j \in 0 .. N - 1 : (0 + j * d) % N = p
    <3>1. N \in Nat \ {0}
      BY <1>1
    <3>2. Cancels(N)
      BY <1>1
    <3>3. d \in Odd
      BY <1>2
    <3>4. 0 \in Nat
      OBVIOUS
    <3>5. \E j \in 0 .. N - 1 : (0 + j * d) % N = p
      BY ONLY <2>1, <3>1, <3>2, <3>3, <3>4, StepsCover
    <3> QED BY <3>5
  <2> QED BY <1>1, <1>3, <2>2
<1>6. Taken(m) = {p \in Slots(lg) : m.states[p] # Free}
  BY <1>1 DEF Taken
<1>7. g \in Injection(hits, Taken(m)) /\ g \in Surjection(hits, Taken(m))
  <2>1. g \in [hits -> Taken(m)]
    BY <1>3, <1>6
  <2>2. \A j, h \in hits : g[j] = g[h] => j = h
    BY <1>4
  <2>3. \A p \in Taken(m) : \E j \in hits : g[j] = p
    BY <1>5, <1>6
  <2> HIDE DEF g, hits
  <2>4. g \in Injection(hits, Taken(m))
    BY <2>1, <2>2 DEF Injection, IsInjective
  <2>5. g \in Surjection(hits, Taken(m))
    BY <2>1, <2>3 DEF Surjection
  <2> QED BY <2>4, <2>5
<1>8. IsFiniteSet(hits) /\ hits \in SUBSET (0 .. N - 1)
  <2>1. IsFiniteSet(0 .. N - 1)
    BY <1>1, FS_Interval
  <2>2. hits \in SUBSET (0 .. N - 1)
    BY <1>1
  <2> HIDE DEF hits
  <2> QED BY <2>1, <2>2, FS_Subset
<1>9. Cardinality(hits) = m.numActive /\ m.numActive \in Nat
  <2>1. {m.keys[p] : p \in Taken(m)} = KeysIn(m)
    BY DEF KeysIn
  <2>2. Cardinality(KeysIn(m)) = Cardinality(Taken(m)) /\ Cardinality(Taken(m)) \in Nat
        /\ IsFiniteSet(Taken(m))
    <3>1. Taken(m) \in SUBSET Taken(m)
      OBVIOUS
    <3>2. /\ IsFiniteSet(Taken(m))
          /\ Cardinality({m.keys[p] : p \in Taken(m)}) = Cardinality(Taken(m))
      BY <3>1, KeyCount
    <3>3. Cardinality(Taken(m)) \in Nat
      BY <3>2, FS_CardinalityType
    <3> QED BY <2>1, <3>2, <3>3
  <2> HIDE DEF g, hits
  <2>3. Cardinality(hits) = Cardinality(Taken(m))
    BY <1>7, <1>8, FS_Surjection
  <2> QED BY <2>2, <2>3
<1>10. Yielding(m) = hits
  <2>1. Yielding(m) = FirstOf(hits, m.numActive)
    BY <1>1 DEF Yielding, FirstOf
  <2>2. N - 1 \in Nat /\ m.numActive <= Cardinality(hits) /\ m.numActive = Cardinality(hits)
    BY <1>1, <1>9
  <2> HIDE DEF hits
  <2>3. FirstOf(hits, m.numActive) = hits
    BY <1>8, <1>9, <2>2, FirstOnes
  <2> QED BY <2>1, <2>3
<1>11. \A j \in hits : Visited(m, j) \in Taken(m) /\ KeyAt(m, j) = m.keys[Visited(m, j)]
  BY <1>3, <1>6 DEF KeyAt
<1>12. {KeyAt(m, j) : j \in hits} = KeysIn(m)
  <2>1. \A p \in Taken(m) : \E j \in hits : Visited(m, j) = p
    BY <1>5, <1>6
  <2> HIDE DEF hits
  <2> QED BY <1>11, <2>1 DEF KeysIn
<1>13. \A j, h \in hits : KeyAt(m, j) = KeyAt(m, h) => j = h
  <2>1. \A p, q \in Taken(m) : m.keys[p] = m.keys[q] => p = q
    BY SoundOnce
  <2> QED BY <1>4, <1>11, <2>1
<1>14. hits \in SUBSET Nat
  BY <1>1
<1> HIDE DEF hits
<1> QED BY <1>9, <1>10, <1>11, <1>12, <1>13, <1>14 DEF Yields

(* The sizes a map takes. *)
LEMMA SizeFacts ==
  ASSUME NEW s \in Sketches, NEW lg \in LgMin .. LgMaxOf(s), home \in [Items -> Nat]
  PROVE  /\ OkSize(lg) /\ Cancels(2 ^ lg) /\ lg \in Nat
         /\ MapCapacityForLg(lg) \in Nat \ {0}
         /\ MapCapacityForLg(lg) < 2 ^ lg
         /\ lg = LgMaxOf(s) => MapCapacityForLg(lg) + 1 < 2 ^ lg
         /\ lg < LgMaxOf(s) => /\ OkSize(lg + 1) /\ lg + 1 \in LgMin .. LgMaxOf(s)
                               /\ MapCapacityForLg(lg) + 1 <= MapCapacityForLg(lg + 1)
                               /\ MapCapacityForLg(lg) + 1 < 2 ^ (lg + 1)
<1> DEFINE top == LgMaxOf(s)
<1>1. /\ top \in Nat /\ 2 ^ top >= 8
      /\ \A n \in 0 .. top : 2 ^ n \in Nat \ {0} /\ 2 ^ (n + 1) = 2 * 2 ^ n
  BY SizesAssumption
<1>b. LgMin \in Nat \ {0} /\ lg \in LgMin .. top
  BY LgAssumption
<1>c. lg \in Int /\ lg >= 1 /\ lg <= top
  BY <1>1, <1>b
<1>2. lg \in Nat /\ lg \in 0 .. top /\ lg - 1 \in 0 .. top /\ (lg - 1) + 1 = lg
  BY <1>1, <1>c
<1>a. ASSUME lg < top PROVE lg + 1 \in 0 .. top /\ lg + 1 \in Nat /\ lg + 1 \in LgMin .. top
  BY <1>1, <1>2, <1>a, <1>b
<1> HIDE DEF top
<1>3. Cancels(2 ^ lg)
  <2>1. \A n \in 0 .. top : Cancels(2 ^ n)
    BY <1>1, OddCancels
  <2> QED BY <1>2, <2>1
<1>4. PICK half \in Nat \ {0} : 2 ^ lg = 2 * half
  <2>1. 2 ^ (lg - 1) \in Nat \ {0} /\ 2 ^ ((lg - 1) + 1) = 2 * 2 ^ (lg - 1)
    BY <1>1, <1>2
  <2> QED BY <1>2, <2>1
<1>5. 2 ^ lg \in Nat \ {0} /\ 2 ^ (lg + 1) = 2 * 2 ^ lg
  BY <1>1, <1>2
<1>6. OkSize(lg)
  BY <1>2, <1>5 DEF OkSize
<1>7. PICK N \in Nat \ {0} : N = 2 ^ lg /\ N >= 2
  BY <1>4, <1>5
<1>8. MapCapacityForLg(lg) = (N * 3) \div 4
  BY <1>7 DEF MapCapacityForLg
<1>9. (N * 3) \div 4 \in Nat \ {0} /\ (N * 3) \div 4 < N /\ (N >= 8 => (N * 3) \div 4 + 1 < N)
  BY <1>7
<1>10. lg = top => N >= 8
  BY <1>1, <1>7
<1>11. ASSUME lg < top
       PROVE  /\ OkSize(lg + 1) /\ lg + 1 \in LgMin .. top
              /\ MapCapacityForLg(lg) + 1 <= MapCapacityForLg(lg + 1)
              /\ MapCapacityForLg(lg) + 1 < 2 ^ (lg + 1)
  <2>1. 2 ^ (lg + 1) = 2 * N /\ 2 * N \in Nat \ {0}
    BY <1>5, <1>7
  <2>2. OkSize(lg + 1)
    BY <1>a, <1>11, <2>1 DEF OkSize
  <2>3. MapCapacityForLg(lg + 1) = (2 * N * 3) \div 4
    BY <2>1 DEF MapCapacityForLg
  <2>4. (N * 3) \div 4 + 1 <= (2 * N * 3) \div 4 /\ (N * 3) \div 4 + 1 < 2 * N
    BY <1>7
  <2> QED BY <1>8, <1>11, <1>a, <2>1, <2>2, <2>3, <2>4
<1> QED BY <1>2, <1>3, <1>6, <1>7, <1>8, <1>9, <1>10, <1>11 DEF top

(* The entries of a map do not depend on how they are laid out. *)
LEMMA TidyFacts ==
  ASSUME NEW lg, OkSize(lg), NEW m, Tidy(m, lg)
  PROVE  /\ Sound(m, lg) /\ m \in MapsOf(lg) /\ m.lgLength = lg
         /\ CountersIn(m) \in [Items -> Nat] /\ m.numActive = NumActive(CountersIn(m))
         /\ KeysIn(m) = ActiveIn(CountersIn(m)) /\ m.numActive = Cardinality(KeysIn(m))
         /\ m.numActive = Cardinality(Taken(m)) /\ m.numActive \in Nat
         /\ LoadThreshold(m) = MapCapacityForLg(lg) /\ Size(m) = 2 ^ lg
<1>1. Sound(m, lg) /\ KeysIn(m) = ActiveIn(CountersIn(m)) /\ m.numActive = Cardinality(KeysIn(m))
  BY DEF Tidy
<1>2. m \in MapsOf(lg) /\ m.lgLength = lg
  BY <1>1 DEF Sound, MapsOf
<1>3. CountersIn(m) \in [Items -> Nat]
  BY <1>1, CounterFacts
<1>4. Cardinality(KeysIn(m)) = Cardinality(Taken(m)) /\ Cardinality(Taken(m)) \in Nat
  <2>1. KeysIn(m) = {m.keys[p] : p \in Taken(m)}
    BY DEF KeysIn
  <2> DEFINE P == Taken(m)
  <2>2. P \in SUBSET Taken(m)
    OBVIOUS
  <2>3. Cardinality({m.keys[p] : p \in P}) = Cardinality(P) /\ Cardinality(P) \in Nat
    <3> HIDE DEF P
    <3> QED BY <1>1, <2>2, KeyCount
  <2> QED BY <2>1, <2>3
<1> QED BY <1>1, <1>2, <1>3, <1>4 DEF NumActive, LoadThreshold, Size

(* Inserting a positive count.                                             *)
LEMMA InsertTidy ==
  ASSUME NEW lg, OkSize(lg), NEW m, Tidy(m, lg), m.numActive < 2 ^ lg,
         NEW i \in Items, NEW n \in Nat \ {0}
  PROVE  LET r == AdjustOrPutSlot(m, i, n)
         IN /\ Tidy(r, lg) /\ r.numActive <= m.numActive + 1
            /\ CountersIn(r) = [CountersIn(m) EXCEPT ![i] = @ + n]
<1> DEFINE r == AdjustOrPutSlot(m, i, n)
<1>1. /\ Sound(m, lg) /\ CountersIn(m) \in [Items -> Nat] /\ m.numActive \in Nat
      /\ KeysIn(m) = ActiveIn(CountersIn(m)) /\ m.numActive = Cardinality(KeysIn(m))
  BY TidyFacts
<1>2. Inserted(m, lg, i, n, r)
  <2>1. Cardinality(KeysIn(m)) < 2 ^ lg /\ n \in Nat
    BY <1>1
  <2> QED BY <1>1, <2>1, InsertSound
<1> HIDE DEF r
<1>3. /\ Sound(r, lg) /\ KeysIn(r) = KeysIn(m) \cup {i}
      /\ CountersIn(r) = [CountersIn(m) EXCEPT ![i] = @ + n]
      /\ r.numActive = IF i \in KeysIn(m) THEN m.numActive ELSE m.numActive + 1
  BY <1>2 DEF Inserted
<1>4. IsFiniteSet(KeysIn(m))
  <2>1. KeysIn(m) \in SUBSET Items
    BY <1>1 DEF ActiveIn
  <2> QED BY <2>1, ItemsAssumption, FS_Subset
<1>5. r.numActive = Cardinality(KeysIn(r))
  <2>1. Cardinality(KeysIn(m) \cup {i})
          = IF i \in KeysIn(m) THEN Cardinality(KeysIn(m)) ELSE Cardinality(KeysIn(m)) + 1
    BY <1>4, FS_AddElement
  <2> QED BY <1>1, <1>3, <2>1
<1>6. ActiveIn(CountersIn(r)) = ActiveIn(CountersIn(m)) \cup {i}
  <2>1. \A j \in Items : CountersIn(r)[j] > 0 <=> (CountersIn(m)[j] > 0 \/ j = i)
    BY <1>1, <1>3
  <2> QED BY <2>1 DEF ActiveIn
<1>7. r.numActive <= m.numActive + 1
  BY <1>1, <1>3
<1> QED BY <1>1, <1>3, <1>5, <1>6, <1>7 DEF r, Tidy

(* Re-inserting the entries of a map into an empty one. *)
LEMMA CopyTidy ==
  ASSUME NEW lg, OkSize(lg), NEW m, Tidy(m, lg), NEW to, OkSize(to), m.numActive < 2 ^ to
  PROVE  LET r == CopyInto(EmptyMap(to), m)
         IN Tidy(r, to) /\ CountersIn(r) = CountersIn(m) /\ r.numActive = m.numActive
<1> DEFINE r == CopyInto(EmptyMap(to), m)
<1>1. Sound(m, lg) /\ KeysIn(m) = ActiveIn(CountersIn(m)) /\ m.numActive = Cardinality(KeysIn(m))
  BY DEF Tidy
<1>2. SameEntries(m, r, to)
  <2>1. Cardinality(KeysIn(m)) < 2 ^ to
    BY <1>1
  <2> QED BY <1>1, <2>1, CopyKeepsEntries
<1> HIDE DEF r
<1>3. /\ Sound(r, to) /\ KeysIn(r) = KeysIn(m) /\ CountersIn(r) = CountersIn(m)
      /\ r.numActive = Cardinality(KeysIn(r))
  BY <1>2 DEF SameEntries
<1> QED BY <1>1, <1>3 DEF Tidy, r

(* A purge removes the median at least. *)
LEMMA PurgeTidy ==
  ASSUME NEW lg, OkSize(lg), NEW m, Tidy(m, lg), m.numActive < 2 ^ lg,
         NEW d \in {CountersIn(m)[i] : i \in ActiveIn(CountersIn(m))}
  PROVE  LET r == KeepOnlyPositiveCounts(AdjustAllValuesBy(m, d))
         IN /\ Tidy(r, lg) /\ CountersIn(r) = Purged(CountersIn(m), d)
            /\ r.numActive < m.numActive
<1> DEFINE a == AdjustAllValuesBy(m, d)
           r == KeepOnlyPositiveCounts(a)
           c == CountersIn(m)
<1>1. /\ Sound(m, lg) /\ c \in [Items -> Nat] /\ KeysIn(m) = ActiveIn(c)
      /\ m.numActive = Cardinality(KeysIn(m)) /\ m.numActive \in Nat
      /\ m.numActive = NumActive(c)
  BY TidyFacts
<1>2. PICK i \in ActiveIn(c) : d = c[i]
  OBVIOUS
<1>3. d \in Nat /\ i \in Items
  BY <1>1, <1>2 DEF ActiveIn
<1>4. /\ Sound(a, lg) /\ KeysIn(a) = KeysIn(m) /\ a.numActive = m.numActive
      /\ CountersIn(a) = Purged(c, d)
  BY <1>1, <1>3, AdjustSubtracts
<1> HIDE DEF a
<1>5. Tidy(r, lg) /\ CountersIn(r) = CountersIn(a)
  <2>1. a.numActive = Cardinality(KeysIn(a)) /\ Cardinality(KeysIn(a)) < 2 ^ lg
    BY <1>1, <1>4
  <2> QED BY <1>4, <2>1, KeepsPositive
<1> HIDE DEF r
<1>6. r.numActive = NumActive(Purged(c, d)) /\ r.numActive \in Nat
  <2>1. r.numActive = NumActive(CountersIn(r)) /\ r.numActive \in Nat
    BY <1>5, TidyFacts
  <2> QED BY <1>4, <1>5, <2>1
<1>7. NumActive(Purged(c, d)) < NumActive(c)
  <2> DEFINE A == ActiveIn(c)
             B == ActiveIn(Purged(c, d))
  <2> HIDE DEF c
  <2>1. \A j \in Items : Purged(c, d)[j] = IF c[j] > d THEN c[j] - d ELSE 0
    BY DEF Purged
  <2>2. B \in SUBSET A /\ i \in A /\ i \notin B
    <3>1. \A j \in Items : Purged(c, d)[j] > 0 => c[j] > 0 /\ j # i
      BY <1>1, <1>2, <1>3, <2>1
    <3> QED BY <1>2, <3>1 DEF ActiveIn
  <2>3. IsFiniteSet(A)
    <3>1. A \in SUBSET Items
      BY DEF ActiveIn
    <3> HIDE DEF A
    <3> QED BY <3>1, ItemsAssumption, FS_Subset
  <2> HIDE DEF A, B
  <2>4. /\ Cardinality(B) <= Cardinality(A) /\ (Cardinality(A) = Cardinality(B) => A = B)
        /\ IsFiniteSet(B)
    BY <2>2, <2>3, FS_Subset
  <2>5. Cardinality(A) \in Nat /\ Cardinality(B) \in Nat
    BY <2>3, <2>4, FS_CardinalityType
  <2> QED BY <2>2, <2>4, <2>5 DEF A, B, NumActive
<1> QED BY <1>1, <1>4, <1>5, <1>6, <1>7 DEF r, a

AnyMap == UNION {MapsOf(lg) : lg \in Nat}

(* Map m of sketch s between two calls. *)
MapOK(s, m) ==
  /\ m.lgLength \in LgMin .. LgMaxOf(s)
  /\ Tidy(m, m.lgLength)
  /\ m.numActive <= LoadThreshold(m)

(* A sketch that was never fed is a new one, so that its image restores it. *)
Unfed ==
  /\ \A s \in Sketches :
       weight[s] = 0 => lgLen[s] = LgMin /\ offset[s] = 0 /\ ActiveIn(cnt[s]) = {}
  /\ merging.active => merging.total > 0

SlotInv ==
  /\ IInv /\ Unfed /\ panicked = FALSE
  /\ home \in [Items -> Nat]
  /\ map \in [Sketches -> AnyMap]
  /\ \A s \in Sketches :
       MapOK(s, map[s]) /\ cnt[s] = CountersIn(map[s]) /\ lgLen[s] = map[s].lgLength

(* A map between two calls has a free slot.                                *)
LEMMA MapFacts ==
  ASSUME home \in [Items -> Nat], NEW s \in Sketches, NEW m, MapOK(s, m)
  PROVE  /\ OkSize(m.lgLength) /\ Cancels(2 ^ m.lgLength) /\ m \in AnyMap
         /\ Sound(m, m.lgLength) /\ Tidy(m, m.lgLength)
         /\ m.numActive \in Nat /\ m.numActive < 2 ^ m.lgLength
         /\ m.numActive = Cardinality(KeysIn(m)) /\ m.numActive = Cardinality(Taken(m))
         /\ KeysIn(m) = ActiveIn(CountersIn(m)) /\ Size(m) = 2 ^ m.lgLength
<1> DEFINE lg == m.lgLength
<1>1. lg \in LgMin .. LgMaxOf(s) /\ Tidy(m, lg) /\ m.numActive <= LoadThreshold(m)
  BY DEF MapOK
<1> HIDE DEF lg
<1>2. /\ OkSize(lg) /\ Cancels(2 ^ lg) /\ lg \in Nat
      /\ MapCapacityForLg(lg) \in Nat \ {0} /\ MapCapacityForLg(lg) < 2 ^ lg
  BY <1>1, SizeFacts
<1>3. /\ Sound(m, lg) /\ m \in MapsOf(lg) /\ m.numActive = Cardinality(KeysIn(m))
      /\ KeysIn(m) = ActiveIn(CountersIn(m)) /\ m.numActive = Cardinality(Taken(m))
      /\ m.numActive \in Nat /\ LoadThreshold(m) = MapCapacityForLg(lg) /\ Size(m) = 2 ^ lg
  BY <1>1, <1>2, TidyFacts
<1>4. m.numActive < 2 ^ lg
  <2>1. 2 ^ lg \in Nat
    BY <1>2 DEF OkSize
  <2> QED BY <1>1, <1>2, <1>3, <2>1
<1>5. m \in AnyMap
  BY <1>2, <1>3 DEF AnyMap
<1> QED BY <1>1, <1>2, <1>3, <1>4, <1>5 DEF lg

(* A map takes the place of the one of sketch s. *)
Replaces(s, m) ==
  /\ map' = [map EXCEPT ![s] = m]
  /\ MapOK(s, m) /\ m \in AnyMap
  /\ cnt' = [cnt EXCEPT ![s] = CountersIn(m)]
  /\ lgLen' = [lgLen EXCEPT ![s] = m.lgLength]

(* The other maps are as they were.                                        *)
LEMMA MapsStay ==
  ASSUME SlotInv, home' = home, NEW s \in Sketches, NEW m, Replaces(s, m)
  PROVE  /\ home' \in [Items -> Nat]
         /\ map' \in [Sketches -> AnyMap]
         /\ \A t \in Sketches :
              MapOK(t, map'[t]) /\ cnt'[t] = CountersIn(map'[t]) /\ lgLen'[t] = map'[t].lgLength
<1>1. /\ map' = [map EXCEPT ![s] = m] /\ MapOK(s, m) /\ m \in AnyMap
      /\ cnt' = [cnt EXCEPT ![s] = CountersIn(m)]
      /\ lgLen' = [lgLen EXCEPT ![s] = m.lgLength]
  BY DEF Replaces
<1>2. /\ home \in [Items -> Nat] /\ map \in [Sketches -> AnyMap]
      /\ \A t \in Sketches :
           MapOK(t, map[t]) /\ cnt[t] = CountersIn(map[t]) /\ lgLen[t] = map[t].lgLength
      /\ cnt \in [Sketches -> [Items -> Nat]] /\ lgLen \in [Sketches -> Nat]
  BY DEF SlotInv, IInv, TypeOK
<1>3. map' \in [Sketches -> AnyMap]
  BY <1>1, <1>2
<1>4. ASSUME NEW t \in Sketches
      PROVE  MapOK(t, map'[t]) /\ cnt'[t] = CountersIn(map'[t]) /\ lgLen'[t] = map'[t].lgLength
  <2>1. CASE t = s
    <3>1. map'[t] = m /\ cnt'[t] = CountersIn(m) /\ lgLen'[t] = m.lgLength
      BY <1>1, <1>2, <2>1
    <3> QED BY <1>1, <2>1, <3>1
  <2>2. CASE t # s
    <3>1. map'[t] = map[t] /\ cnt'[t] = cnt[t] /\ lgLen'[t] = lgLen[t]
      BY <1>1, <1>2, <2>2
    <3> QED BY <1>2, <3>1
  <2> QED BY <2>1, <2>2
<1> QED BY <1>2, <1>3, <1>4

(* The same of the next state, whose home is the same. *)
LEMMA NextMaps ==
  ASSUME home' = home,
         \A t \in Sketches :
           MapOK(t, map'[t]) /\ cnt'[t] = CountersIn(map'[t]) /\ lgLen'[t] = map'[t].lgLength
  PROVE  (\A t \in Sketches :
            MapOK(t, map[t]) /\ cnt[t] = CountersIn(map[t]) /\ lgLen[t] = map[t].lgLength)'
<1>1. ASSUME NEW t \in Sketches
      PROVE  (MapOK(t, map[t]) /\ cnt[t] = CountersIn(map[t]) /\ lgLen[t] = map[t].lgLength)'
  <2>1. Sound(map[t], map[t].lgLength)' <=> Sound(map'[t], map'[t].lgLength)
    BY DEF Sound, Route
  <2>2. Tidy(map[t], map[t].lgLength)' <=> Tidy(map'[t], map'[t].lgLength)
    BY <2>1 DEF Tidy
  <2>3. MapOK(t, map[t])' <=> MapOK(t, map'[t])
    BY <2>2 DEF MapOK
  <2> QED BY <2>3
<1> QED BY <1>1

(* maybe_resize_or_purge after an insertion does what the sketch-level     *)
(* model says.                                                             *)
LEMMA AddStep ==
  ASSUME SlotInv, NEW s \in Sketches, NEW i \in Items, NEW n \in Nat \ {0},
         MaybeResizeOrPurge(s, AdjustOrPutSlot(map[s], i, n))
  PROVE  /\ AdjustOrPutValue(s, i, n)
         /\ panicked' = FALSE
         /\ \E m : Replaces(s, m)
<1> DEFINE m0 == map[s]
           lg == m0.lgLength
           m == AdjustOrPutSlot(m0, i, n)
           c == [cnt[s] EXCEPT ![i] = @ + n]
           cap == MapCapacityForLg(LgMaxOf(s))
<1>1. /\ home \in [Items -> Nat] /\ MapOK(s, m0) /\ cnt[s] = CountersIn(m0) /\ lgLen[s] = lg
      /\ panicked = FALSE /\ cnt \in [Sketches -> [Items -> Nat]] /\ lgLen \in [Sketches -> Nat]
      /\ offset \in [Sketches -> Nat]
  BY DEF SlotInv, IInv, TypeOK
<1>2. /\ OkSize(lg) /\ Tidy(m0, lg) /\ m0.numActive \in Nat /\ m0.numActive < 2 ^ lg
      /\ lg \in LgMin .. LgMaxOf(s) /\ m0.numActive <= LoadThreshold(m0)
  BY <1>1, MapFacts DEF MapOK
<1> HIDE DEF m0
<1>3. Tidy(m, lg) /\ m.numActive <= m0.numActive + 1
      /\ CountersIn(m) = [CountersIn(m0) EXCEPT ![i] = @ + n]
  BY <1>2, InsertTidy
<1>4. CountersIn(m) = c
  BY <1>1, <1>3
<1>5. MaybeResizeOrPurge(s, m)
  BY DEF m0
<1> HIDE DEF m, c, lg
<1>6. /\ m.lgLength = lg /\ m \in MapsOf(lg) /\ m.numActive = NumActive(c)
      /\ m.numActive \in Nat /\ LoadThreshold(m) = MapCapacityForLg(lgLen[s])
      /\ Cardinality(Taken(m)) = m.numActive /\ Size(m) = 2 ^ lg
      /\ KeysIn(m) = ActiveIn(c) /\ m.numActive = Cardinality(KeysIn(m))
  BY <1>1, <1>2, <1>3, <1>4, TidyFacts
<1>7. LoadThreshold(m0) = MapCapacityForLg(lg)
  BY <1>2, TidyFacts
<1>8. m \in AnyMap /\ lg \in Nat
  BY <1>2, <1>6 DEF AnyMap, OkSize
<1>9. CASE /\ m.numActive <= LoadThreshold(m)
           /\ Becomes(s, m)
           /\ UNCHANGED <<offset, panicked>>
  <2>1. MapOK(s, m)
    BY <1>2, <1>3, <1>6, <1>9 DEF MapOK
  <2>2. /\ map' = [map EXCEPT ![s] = m] /\ cnt' = [cnt EXCEPT ![s] = c]
        /\ lgLen' = [lgLen EXCEPT ![s] = lg]
    BY <1>4, <1>6, <1>9 DEF Becomes
  <2>3. lgLen' = lgLen
    BY <1>1, <2>2
  <2>4. Fits(s, c)
    BY <1>6, <1>9, <2>2, <2>3 DEF Fits
  <2>5. Replaces(s, m)
    BY <1>4, <1>6, <1>8, <2>1, <2>2 DEF Replaces
  <2> QED BY <1>1, <1>9, <2>4, <2>5 DEF AdjustOrPutValue, c
<1>10. CASE /\ m.numActive > LoadThreshold(m)
            /\ m.lgLength < LgMaxOf(s)
            /\ Becomes(s, Resize(m))
            /\ UNCHANGED <<offset, panicked>>
  <2> DEFINE r == Resize(m)
  <2>1. /\ OkSize(lg + 1) /\ lg + 1 \in LgMin .. LgMaxOf(s)
        /\ MapCapacityForLg(lg) + 1 <= MapCapacityForLg(lg + 1)
        /\ MapCapacityForLg(lg) + 1 < 2 ^ (lg + 1)
        /\ MapCapacityForLg(lg) \in Nat
    BY <1>1, <1>2, <1>6, <1>10, SizeFacts
  <2>a. MapCapacityForLg(lg + 1) \in Nat /\ 2 ^ (lg + 1) \in Nat
    BY <1>1, <2>1, SizeFacts DEF OkSize
  <2>2. m.numActive <= MapCapacityForLg(lg) + 1
    BY <1>2, <1>3, <1>6, <1>7, <2>1
  <2>3. m.numActive < 2 ^ (lg + 1)
    BY <1>6, <2>1, <2>2, <2>a
  <2>4. r = CopyInto(EmptyMap(lg + 1), m)
    BY <1>6 DEF Resize
  <2>5. Tidy(r, lg + 1) /\ CountersIn(r) = c /\ r.numActive = m.numActive
    BY <1>2, <1>3, <1>4, <2>1, <2>3, <2>4, CopyTidy
  <2>b. Becomes(s, r)
    BY <1>10
  <2> HIDE DEF r
  <2>6. r.lgLength = lg + 1 /\ r \in MapsOf(lg + 1)
        /\ LoadThreshold(r) = MapCapacityForLg(lg + 1)
    BY <2>1, <2>5, TidyFacts
  <2>7. MapOK(s, r)
    BY <1>6, <2>1, <2>2, <2>a, <2>5, <2>6 DEF MapOK
  <2>8. r \in AnyMap
    BY <2>1, <2>6 DEF AnyMap, OkSize
  <2>9. /\ map' = [map EXCEPT ![s] = r] /\ cnt' = [cnt EXCEPT ![s] = c]
        /\ lgLen' = [lgLen EXCEPT ![s] = lg + 1]
    BY <2>5, <2>6, <2>b DEF Becomes
  <2>10. lgLen' = [lgLen EXCEPT ![s] = @ + 1]
    BY <1>1, <2>9
  <2>11. Grow(s, c)
    <3>1. NumActive(c) > MapCapacityForLg(lgLen[s]) /\ lgLen[s] < LgMaxOf(s)
      BY <1>1, <1>6, <1>10
    <3> QED BY <1>10, <2>9, <2>10, <3>1 DEF Grow
  <2>12. Replaces(s, r)
    BY <2>5, <2>6, <2>7, <2>8, <2>9 DEF Replaces
  <2> QED BY <1>1, <1>10, <2>11, <2>12 DEF AdjustOrPutValue, c
<1> DEFINE median == MedianOf(m, Min({SampleSize, cap}))
           purged == KeepOnlyPositiveCounts(AdjustAllValuesBy(m, median))
<1>11. ASSUME m.lgLength >= LgMaxOf(s)
       PROVE  lg = LgMaxOf(s) /\ cap \in Nat \ {0} /\ cap + 1 < 2 ^ lg /\ m.numActive < 2 ^ lg
              /\ LoadThreshold(m) = cap /\ m.numActive <= cap + 1
  <2>1. lg = LgMaxOf(s)
    <3>1. LgMaxOf(s) \in Nat /\ LgMin \in Nat /\ m.lgLength = lg
      BY <1>6, SizesAssumption
    <3>2. lg \in Int /\ lg <= LgMaxOf(s) /\ lg >= LgMaxOf(s)
      BY <1>2, <1>11, <3>1
    <3> QED BY <3>1, <3>2
  <2>2. cap \in Nat \ {0} /\ cap + 1 < 2 ^ lg
    BY <1>1, <1>2, <2>1, SizeFacts
  <2>3. m.numActive <= cap + 1 /\ LoadThreshold(m) = cap
    BY <1>1, <1>2, <1>3, <1>6, <1>7, <2>1, <2>2
  <2>4. 2 ^ lg \in Nat
    BY <1>2 DEF OkSize
  <2> HIDE DEF cap
  <2>5. m.numActive < 2 ^ lg
    BY <1>6, <2>2, <2>3, <2>4
  <2> QED BY <2>1, <2>2, <2>3, <2>5
<1>12. CASE /\ m.numActive > LoadThreshold(m)
            /\ m.lgLength >= LgMaxOf(s)
            /\ Cardinality(Taken(m)) < Size(m)
            /\ Becomes(s, purged)
            /\ offset' = [offset EXCEPT ![s] = @ + median]
            /\ panicked' = (purged.numActive > cap)
  <2> HIDE DEF median
  <2>1. /\ lg = LgMaxOf(s) /\ cap \in Nat \ {0} /\ m.numActive < 2 ^ lg
        /\ LoadThreshold(m) = cap /\ m.numActive <= cap + 1
    BY <1>11, <1>12
  <2>2. median \in Medians(s, c)
    <3>1. KeysIn(m) # {}
      <4>1. m.numActive > 0
        BY <1>6, <1>12, <2>1
      <4> QED BY <1>6, <4>1, FS_EmptySet
    <3>2. MapCapacityForLg(LgMaxOf(s)) \in Nat \ {0}
      BY <2>1
    <3>3. median \in Medians(s, CountersIn(m))
      BY <1>2, <1>3, <3>1, <3>2, MedianIsChosen DEF median
    <3> QED BY <1>4, <3>3
  <2>3. median \in {CountersIn(m)[j] : j \in ActiveIn(CountersIn(m))}
    BY <1>4, <2>2 DEF Medians
  <2>4. /\ Tidy(purged, lg) /\ CountersIn(purged) = Purged(c, median)
        /\ purged.numActive < m.numActive
    BY <1>2, <1>3, <1>4, <2>1, <2>3, PurgeTidy
  <2>b. Becomes(s, purged) /\ panicked' = (purged.numActive > cap)
    BY <1>12
  <2> HIDE DEF purged, cap
  <2>5. /\ purged.lgLength = lg /\ purged \in MapsOf(lg) /\ purged.numActive \in Nat
        /\ purged.numActive = NumActive(Purged(c, median))
        /\ LoadThreshold(purged) = MapCapacityForLg(lg)
    BY <1>2, <2>4, TidyFacts
  <2>6. purged.numActive <= cap /\ ~(purged.numActive > cap)
    BY <1>6, <2>1, <2>4, <2>5
  <2>7. MapOK(s, purged)
    BY <1>2, <2>1, <2>4, <2>5, <2>6 DEF MapOK, cap
  <2>8. purged \in AnyMap
    BY <1>8, <2>5 DEF AnyMap
  <2>9. /\ map' = [map EXCEPT ![s] = purged] /\ cnt' = [cnt EXCEPT ![s] = Purged(c, median)]
        /\ lgLen' = [lgLen EXCEPT ![s] = lg]
    BY <2>4, <2>5, <2>b DEF Becomes
  <2>10. lgLen' = lgLen
    BY <1>1, <2>9
  <2>11. Purge(s, c)
    <3>1. NumActive(c) > MapCapacityForLg(lgLen[s]) /\ lgLen[s] >= LgMaxOf(s)
      BY <1>1, <1>6, <1>12
    <3>2. panicked' = (NumActive(Purged(c, median)) > MapCapacityForLg(LgMaxOf(s)))
      BY <2>5, <2>b DEF cap
    <3> QED BY <1>12, <2>2, <2>9, <2>10, <3>1, <3>2 DEF Purge
  <2>12. Replaces(s, purged)
    BY <2>4, <2>5, <2>7, <2>8, <2>9 DEF Replaces
  <2>13. panicked' = FALSE
    <3>1. (purged.numActive > cap) = FALSE
      BY <2>6
    <3> QED BY <2>b, <3>1
  <2> QED BY <2>11, <2>12, <2>13 DEF AdjustOrPutValue, c
<1>13. CASE /\ m.lgLength >= LgMaxOf(s)
            /\ Cardinality(Taken(m)) = Size(m)
  <2>1. m.numActive < 2 ^ lg /\ m.numActive = 2 ^ lg
    BY <1>6, <1>11, <1>13
  <2> QED BY <1>6, <2>1
<1> QED BY <1>5, <1>9, <1>10, <1>12, <1>13 DEF MaybeResizeOrPurge

(* The map of a new sketch. *)
NewMap(s, m) ==
  MapOK(s, m) /\ m \in AnyMap /\ CountersIn(m) = NoCounters /\ m.lgLength = LgMin

(* It satisfies the invariant.                                             *)
LEMMA NewMapOK ==
  ASSUME home \in [Items -> Nat], NEW s \in Sketches
  PROVE  NewMap(s, EmptyMap(LgMin))
<1>1. LgMin \in LgMin .. LgMaxOf(s)
  BY DEF LgMaxOf
<1>2. OkSize(LgMin) /\ MapCapacityForLg(LgMin) \in Nat \ {0}
  BY <1>1, SizeFacts
<1> DEFINE m == EmptyMap(LgMin)
<1>3. /\ Sound(m, LgMin) /\ KeysIn(m) = {} /\ CountersIn(m) = NoCounters
      /\ m.numActive = 0 /\ m.lgLength = LgMin
  BY <1>2, EmptySound
<1> HIDE DEF m
<1>4. ActiveIn(NoCounters) = {}
  BY DEF ActiveIn, NoCounters
<1>5. Tidy(m, LgMin)
  BY <1>3, <1>4, FS_EmptySet DEF Tidy
<1>6. LoadThreshold(m) = MapCapacityForLg(LgMin) /\ m \in MapsOf(LgMin)
  BY <1>2, <1>5, TidyFacts
<1>7. MapOK(s, m)
  BY <1>1, <1>2, <1>3, <1>5, <1>6 DEF MapOK
<1> QED BY <1>3, <1>6, <1>7 DEF AnyMap, NewMap, m

(* The initial states.                                                     *)
LEMMA SlotInitOK == SlotInit => Init /\ SlotInv
<1> SUFFICES ASSUME SlotInit PROVE Init /\ SlotInv
  OBVIOUS
<1>1. Init /\ home \in [Items -> Nat] /\ map = [s \in Sketches |-> EmptyMap(LgMin)]
  BY HomesAssumption DEF SlotInit
<1>2. IInv
  BY <1>1, InitOK
<1>3. \A s \in Sketches : NewMap(s, EmptyMap(LgMin))
  BY <1>1, NewMapOK
<1>4. map \in [Sketches -> AnyMap]
  BY <1>1, <1>3 DEF NewMap
<1>5. \A s \in Sketches :
        MapOK(s, map[s]) /\ cnt[s] = CountersIn(map[s]) /\ lgLen[s] = map[s].lgLength
  BY <1>1, <1>3 DEF Init, NewMap
<1>6. Unfed
  BY <1>1 DEF Unfed, Init, Idle, ActiveIn, NoCounters
<1>7. panicked = FALSE
  BY <1>1 DEF Init
<1> QED BY <1>1, <1>2, <1>4, <1>5, <1>6, <1>7 DEF SlotInv

(* The next state is one of the invariant, and the step one of Spec.       *)
Refines == [Next]_vars /\ SlotInv'

(* A step that replaces one map.                                           *)
LEMMA RefinesIf ==
  ASSUME SlotInv, [Next]_vars, home' = home, panicked' = FALSE, Unfed',
         NEW s \in Sketches, NEW m, Replaces(s, m)
  PROVE  Refines
<1>1. IInv'
  BY StepPreserves DEF SlotInv
<1>2. /\ home' \in [Items -> Nat]
      /\ map' \in [Sketches -> AnyMap]
      /\ \A t \in Sketches :
           MapOK(t, map'[t]) /\ cnt'[t] = CountersIn(map'[t]) /\ lgLen'[t] = map'[t].lgLength
  BY MapsStay
<1>3. (\A t \in Sketches :
         MapOK(t, map[t]) /\ cnt[t] = CountersIn(map[t]) /\ lgLen[t] = map[t].lgLength)'
  BY <1>2, NextMaps
<1>4. SlotInv'
  BY <1>1, <1>2, <1>3 DEF SlotInv
<1> QED BY <1>4 DEF Refines

(* A step that replaces none.                                              *)
LEMMA RefinesSame ==
  ASSUME SlotInv, [Next]_vars, home' = home, map' = map, cnt' = cnt, lgLen' = lgLen,
         panicked' = panicked, Unfed'
  PROVE  Refines
<1>1. IInv'
  BY StepPreserves DEF SlotInv
<1>2. \A t \in Sketches :
        MapOK(t, map'[t]) /\ cnt'[t] = CountersIn(map'[t]) /\ lgLen'[t] = map'[t].lgLength
  BY DEF SlotInv
<1>3. (\A t \in Sketches :
         MapOK(t, map[t]) /\ cnt[t] = CountersIn(map[t]) /\ lgLen[t] = map[t].lgLength)'
  BY <1>2, NextMaps
<1>4. SlotInv'
  BY <1>1, <1>3 DEF SlotInv
<1> QED BY <1>4 DEF Refines

(* A sketch that is fed is not a new one. *)
LEMMA FedStays ==
  ASSUME SlotInv, NEW s \in Sketches, NEW i \in Items, NEW n \in Nat \ {0}, NEW m,
         AdjustOrPutValue(s, i, n), Replaces(s, m),
         weight' = [weight EXCEPT ![s] = @ + n],
         merging'.active => merging.active /\ merging'.total = merging.total
  PROVE  Unfed'
<1>1. /\ TypeOK /\ Unfed /\ weight \in [Sketches -> Nat] /\ lgLen \in [Sketches -> Nat]
  BY DEF SlotInv, IInv, TypeOK
<1>2. \A t \in Sketches \ {s} : cnt'[t] = cnt[t] /\ offset'[t] = offset[t]
  <2>1. n \in Nat
    OBVIOUS
  <2> QED BY <1>1, <2>1, AdjustBrackets
<1>3. \A t \in Sketches \ {s} : lgLen'[t] = lgLen[t] /\ weight'[t] = weight[t]
  BY <1>1 DEF Replaces
<1>4. weight'[s] # 0
  BY <1>1
<1>5. \A t \in Sketches :
        weight'[t] = 0 => lgLen'[t] = LgMin /\ offset'[t] = 0 /\ ActiveIn(cnt'[t]) = {}
  <2> SUFFICES ASSUME NEW t \in Sketches, weight'[t] = 0
               PROVE  lgLen'[t] = LgMin /\ offset'[t] = 0 /\ ActiveIn(cnt'[t]) = {}
    OBVIOUS
  <2>1. t \in Sketches \ {s}
    BY <1>4
  <2> QED BY <1>1, <1>2, <1>3, <2>1 DEF Unfed
<1>6. merging'.active => merging'.total > 0
  BY <1>1 DEF Unfed
<1> QED BY <1>5, <1>6 DEF Unfed

(* update_with_count.                                                      *)
LEMMA UpdateRefines ==
  ASSUME SlotInv, NEW s \in Sketches, NEW i \in Items, NEW n \in CountsOf[i],
         UpdateSlots(s, i, n)
  PROVE  Refines
<1>1. n \in Counts /\ n \in Nat
  BY HomesAssumption
<1>2. /\ Ready /\ updates < MaxUpdates
      /\ truth' = [truth EXCEPT ![s][i] = @ + n]
      /\ updates' = updates + 1
      /\ home' = home /\ merging' = merging /\ merges' = merges /\ tolerance' = tolerance
  BY DEF UpdateSlots
<1>3. CASE n = 0 /\ UNCHANGED <<sketchVars, map>>
  <2>1. UpdateWithCount(s, i, n)
    BY <1>2, <1>3 DEF UpdateWithCount
  <2>2. [Next]_vars
    BY <1>1, <2>1 DEF Next
  <2>3. /\ map' = map /\ cnt' = cnt /\ lgLen' = lgLen /\ panicked' = panicked
        /\ weight' = weight /\ offset' = offset
    BY <1>3 DEF sketchVars
  <2>4. Unfed'
    BY <1>2, <2>3 DEF SlotInv, Unfed
  <2> QED BY <1>2, <2>2, <2>3, <2>4, RefinesSame
<1>4. CASE n > 0 /\ Add(s, i, n)
  <2>1. /\ weight' = [weight EXCEPT ![s] = @ + n]
        /\ MaybeResizeOrPurge(s, AdjustOrPutSlot(map[s], i, n))
        /\ n \in Nat \ {0}
    BY <1>1, <1>4 DEF Add
  <2>2. AdjustOrPutValue(s, i, n) /\ panicked' = FALSE /\ \E m : Replaces(s, m)
    BY <2>1, AddStep
  <2>3. PICK m : Replaces(s, m)
    BY <2>2
  <2>4. UpdateWithCount(s, i, n)
    BY <1>2, <1>4, <2>1, <2>2 DEF UpdateWithCount
  <2>5. [Next]_vars
    BY <1>1, <2>4 DEF Next
  <2>6. Unfed'
    BY <1>2, <2>1, <2>2, <2>3, FedStays
  <2> QED BY <1>2, <2>2, <2>3, <2>5, <2>6, RefinesIf
<1> QED BY <1>3, <1>4 DEF UpdateSlots

(* merge with a sketch that was never fed.                                 *)
LEMMA MergeSkippedRefines ==
  ASSUME SlotInv, NEW s \in Sketches, NEW t \in Sketches, MergeSlotsSkipped(s, t)
  PROVE  Refines
<1>1. MergeSkipped(s, t) /\ home' = home /\ map' = map
  BY DEF MergeSlotsSkipped
<1>2. /\ cnt' = cnt /\ lgLen' = lgLen /\ panicked' = panicked /\ weight' = weight
      /\ offset' = offset /\ merging' = merging
  BY <1>1 DEF MergeSkipped, sketchVars
<1>3. [Next]_vars
  BY <1>1 DEF Next
<1>4. Unfed'
  BY <1>2 DEF SlotInv, Unfed
<1> QED BY <1>1, <1>2, <1>3, <1>4, RefinesSame

(* merge before its loop.                                                  *)
LEMMA BeginMergeRefines ==
  ASSUME SlotInv, NEW s \in Sketches, NEW t \in Sketches, BeginMergeSlots(s, t)
  PROVE  Refines
<1>1. BeginMerge(s, t) /\ home' = home /\ map' = map
  BY DEF BeginMergeSlots
<1>2. /\ cnt' = cnt /\ lgLen' = lgLen /\ panicked' = panicked /\ weight' = weight
      /\ offset' = offset /\ ~IsInitialState(t)
      /\ merging'.total = weight[s] + weight[t]
  BY <1>1 DEF BeginMerge, sketchVars
<1>3. [Next]_vars
  BY <1>1 DEF Next
<1>4. Unfed /\ weight \in [Sketches -> Nat]
  BY DEF SlotInv, IInv, TypeOK
<1>5. weight[t] # 0
  BY <1>2, <1>4 DEF Unfed, IsInitialState
<1>6. merging'.total > 0
  BY <1>2, <1>4, <1>5
<1>7. Unfed'
  BY <1>2, <1>4, <1>6 DEF Unfed
<1> QED BY <1>1, <1>2, <1>3, <1>7, RefinesSame

(* A turn of the loop of merge.                                            *)
LEMMA MergeNextRefines ==
  ASSUME SlotInv, MergeNextSlot
  PROVE  Refines
<1> DEFINE s == merging.into
           t == merging.from
           m == map[t]
<1>1. merging.active /\ ~panicked
      /\ home' = home /\ updates' = updates /\ merges' = merges /\ truth' = truth
      /\ tolerance' = tolerance
  BY DEF MergeNextSlot
<1>2. PICK j \in Yielding(m) :
        /\ KeyAt(m, j) \in merging.todo
        /\ Add(s, KeyAt(m, j), m.values[Visited(m, j)])
        /\ merging' = [merging EXCEPT !.todo = @ \ {KeyAt(m, j)}]
  BY DEF MergeNextSlot
<1>3. s \in Sketches /\ t \in Sketches /\ merging.todo \subseteq Items
  BY <1>1 DEF SlotInv, IInv, MergeOK, Idle
<1> DEFINE i == KeyAt(m, j)
           n == m.values[Visited(m, j)]
<1>4. /\ home \in [Items -> Nat] /\ MapOK(t, m) /\ cnt[t] = CountersIn(m)
  BY <1>3 DEF SlotInv
<1> HIDE DEF m
<1>5. /\ OkSize(m.lgLength) /\ Cancels(2 ^ m.lgLength) /\ Sound(m, m.lgLength)
      /\ m.numActive = Cardinality(KeysIn(m)) /\ KeysIn(m) = ActiveIn(CountersIn(m))
  BY <1>3, <1>4, MapFacts
<1>6. Visited(m, j) \in Taken(m)
  <2>1. Yields(m)
    BY <1>5, IteratorYields
  <2> QED BY <2>1 DEF Yields
<1>7. i = m.keys[Visited(m, j)] /\ i \in KeysIn(m)
  BY <1>6 DEF KeyAt, KeysIn
<1>8. n = cnt[t][i]
  BY <1>4, <1>5, <1>6, <1>7, CounterFacts
<1>9. i \in Items /\ i \in merging.todo /\ cnt[t][i] > 0
  BY <1>2, <1>3, <1>4, <1>5, <1>7 DEF ActiveIn
<1>10. n \in Nat \ {0}
  <2>1. cnt[t][i] \in Nat
    BY <1>3, <1>9 DEF SlotInv, IInv, TypeOK
  <2> QED BY <1>8, <1>9, <2>1
<1> HIDE DEF i, n
<1>11. /\ weight' = [weight EXCEPT ![s] = @ + n]
       /\ MaybeResizeOrPurge(s, AdjustOrPutSlot(map[s], i, n))
       /\ merging' = [merging EXCEPT !.todo = @ \ {i}]
  BY <1>2 DEF Add, i, n
<1>12. AdjustOrPutValue(s, i, n) /\ panicked' = FALSE /\ \E r : Replaces(s, r)
  BY <1>3, <1>9, <1>10, <1>11, AddStep
<1>13. PICK r : Replaces(s, r)
  BY <1>12
<1>14. MergeItem(i)
  BY <1>1, <1>8, <1>9, <1>11, <1>12 DEF MergeItem
<1>15. [Next]_vars
  BY <1>9, <1>14 DEF Next
<1>16. merging'.active => merging.active /\ merging'.total = merging.total
  BY <1>1, <1>11 DEF SlotInv, IInv, MergeOK, Idle
<1> HIDE DEF s, t
<1>17. Unfed'
  BY <1>3, <1>9, <1>10, <1>11, <1>12, <1>13, <1>16, FedStays
<1> QED BY <1>1, <1>3, <1>12, <1>13, <1>15, <1>17, RefinesIf

(* merge after its loop.                                                   *)
LEMMA EndMergeRefines ==
  ASSUME SlotInv, EndMergeSlots
  PROVE  Refines
<1>1. EndMerge /\ home' = home /\ map' = map
  BY DEF EndMergeSlots
<1>2. /\ merging.active /\ cnt' = cnt /\ lgLen' = lgLen /\ panicked' = panicked
      /\ merging' = Idle
      /\ weight' = [weight EXCEPT ![merging.into] = merging.total]
      /\ offset' = [offset EXCEPT ![merging.into] = @ + offset[merging.from]]
  BY <1>1 DEF EndMerge
<1>3. [Next]_vars
  BY <1>1 DEF Next
<1>4. Unfed /\ weight \in [Sketches -> Nat] /\ offset \in [Sketches -> Nat]
      /\ merging.into \in Sketches /\ merging.total \in Nat
  BY <1>2 DEF SlotInv, IInv, TypeOK, MergeOK, Idle
<1>5. merging.total > 0
  BY <1>2, <1>4 DEF Unfed
<1>6. Unfed'
  <2>1. \A u \in Sketches : weight'[u] = 0 => offset'[u] = offset[u] /\ weight[u] = 0
    BY <1>2, <1>4, <1>5
  <2> QED BY <1>2, <1>4, <2>1 DEF Unfed, Idle
<1> QED BY <1>1, <1>2, <1>3, <1>6, RefinesSame

(* reset.                                                                  *)
LEMMA ResetRefines ==
  ASSUME SlotInv, NEW s \in Sketches, ResetSlots(s)
  PROVE  Refines
<1> DEFINE m == EmptyMap(LgMin)
<1>1. Reset(s) /\ home' = home /\ map' = [map EXCEPT ![s] = m]
  BY DEF ResetSlots
<1>2. /\ cnt' = [cnt EXCEPT ![s] = NoCounters] /\ lgLen' = [lgLen EXCEPT ![s] = LgMin]
      /\ offset' = [offset EXCEPT ![s] = 0] /\ weight' = [weight EXCEPT ![s] = 0]
      /\ merging' = merging /\ panicked' = panicked
  BY <1>1 DEF Reset
<1>3. [Next]_vars
  BY <1>1 DEF Next
<1>4. NewMap(s, m)
  BY NewMapOK DEF SlotInv
<1> HIDE DEF m
<1>5. Replaces(s, m)
  BY <1>1, <1>2, <1>4 DEF Replaces, NewMap
<1>6. /\ Unfed /\ panicked = FALSE /\ weight \in [Sketches -> Nat] /\ offset \in [Sketches -> Nat]
      /\ cnt \in [Sketches -> [Items -> Nat]] /\ lgLen \in [Sketches -> Nat]
  BY DEF SlotInv, IInv, TypeOK
<1>7. ASSUME NEW t \in Sketches, weight'[t] = 0
      PROVE  lgLen'[t] = LgMin /\ offset'[t] = 0 /\ ActiveIn(cnt'[t]) = {}
  <2>1. CASE t = s
    <3>1. lgLen'[t] = LgMin /\ offset'[t] = 0 /\ cnt'[t] = NoCounters
      BY <1>2, <1>6, <2>1
    <3>2. ActiveIn(NoCounters) = {}
      BY DEF ActiveIn, NoCounters
    <3> QED BY <3>1, <3>2
  <2>2. CASE t # s
    <3>1. lgLen'[t] = lgLen[t] /\ offset'[t] = offset[t] /\ cnt'[t] = cnt[t]
          /\ weight'[t] = weight[t]
      BY <1>2, <1>6, <2>2
    <3> QED BY <1>6, <1>7, <3>1 DEF Unfed
  <2> QED BY <2>1, <2>2
<1>8. Unfed'
  BY <1>2, <1>6, <1>7 DEF Unfed
<1> QED BY <1>1, <1>2, <1>3, <1>5, <1>6, <1>8, RefinesIf

(* A reload leaves the counters as they were. *)
LEMMA ReloadRefines ==
  ASSUME SlotInv, NEW s \in Sketches, Reload(s)
  PROVE  Refines
<1> DEFINE m == map[s]
           lg == m.lgLength
           initial == weight[s] = 0 /\ offset[s] = 0 /\ m.numActive = 0
           r == CopyInto(EmptyMap(lg), m)
<1>1. /\ home \in [Items -> Nat] /\ MapOK(s, m) /\ cnt[s] = CountersIn(m) /\ lgLen[s] = lg
      /\ Unfed /\ panicked = FALSE /\ cnt \in [Sketches -> [Items -> Nat]]
      /\ lgLen \in [Sketches -> Nat]
  BY DEF SlotInv, IInv, TypeOK
<1>2. /\ Becomes(s, CopyInto(EmptyMap(IF initial THEN LgMin ELSE lg), m))
      /\ home' = home /\ offset' = offset /\ weight' = weight /\ panicked' = panicked
      /\ merging' = merging /\ updates' = updates /\ merges' = merges /\ truth' = truth
      /\ tolerance' = tolerance
  BY DEF Reload
<1>3. initial => lg = LgMin
  BY <1>1 DEF Unfed
<1>4. Becomes(s, r)
  BY <1>2, <1>3
<1> HIDE DEF m, initial
<1>5. /\ OkSize(lg) /\ Tidy(m, lg) /\ m.numActive < 2 ^ lg /\ lg \in LgMin .. LgMaxOf(s)
      /\ m.numActive <= LoadThreshold(m)
  BY <1>1, MapFacts DEF MapOK
<1> HIDE DEF lg
<1>6. Tidy(r, lg) /\ CountersIn(r) = CountersIn(m) /\ r.numActive = m.numActive
  BY <1>5, CopyTidy
<1> HIDE DEF r
<1>7. r.lgLength = lg /\ r \in MapsOf(lg) /\ LoadThreshold(r) = LoadThreshold(m)
  BY <1>5, <1>6, TidyFacts
<1>8. MapOK(s, r) /\ r \in AnyMap
  BY <1>5, <1>6, <1>7 DEF MapOK, AnyMap, OkSize
<1>9. Replaces(s, r)
  BY <1>4, <1>8 DEF Replaces, Becomes
<1>10. cnt' = cnt /\ lgLen' = lgLen
  BY <1>1, <1>4, <1>6, <1>7 DEF Becomes
<1>11. [Next]_vars
  BY <1>2, <1>10 DEF vars, sketchVars
<1>12. Unfed'
  BY <1>1, <1>2, <1>10 DEF Unfed
<1> QED BY <1>1, <1>2, <1>9, <1>11, <1>12, RefinesIf

(* Every step.                                                             *)
LEMMA SlotStep == SlotInv /\ [SlotNext]_slotVars => [Next]_vars /\ SlotInv'
<1> SUFFICES ASSUME SlotInv, [SlotNext]_slotVars PROVE Refines
  BY DEF Refines
<1>1. ASSUME NEW s \in Sketches, NEW i \in Items, NEW n \in CountsOf[i], UpdateSlots(s, i, n)
      PROVE  Refines
  BY <1>1, UpdateRefines
<1>2. ASSUME NEW s \in Sketches, NEW t \in Sketches, MergeSlotsSkipped(s, t) PROVE Refines
  BY <1>2, MergeSkippedRefines
<1>3. ASSUME NEW s \in Sketches, NEW t \in Sketches, BeginMergeSlots(s, t) PROVE Refines
  BY <1>3, BeginMergeRefines
<1>4. CASE MergeNextSlot
  BY <1>4, MergeNextRefines
<1>5. CASE EndMergeSlots
  BY <1>5, EndMergeRefines
<1>6. ASSUME NEW s \in Sketches, ResetSlots(s) PROVE Refines
  BY <1>6, ResetRefines
<1>7. ASSUME NEW s \in Sketches, Reload(s) PROVE Refines
  BY <1>7, ReloadRefines
<1>8. CASE UNCHANGED slotVars
  <2>1. UNCHANGED <<vars, home, map>>
    BY <1>8 DEF slotVars
  <2>2. /\ home' = home /\ map' = map /\ cnt' = cnt /\ lgLen' = lgLen /\ panicked' = panicked
        /\ weight' = weight /\ offset' = offset /\ merging' = merging
    BY <2>1 DEF vars, sketchVars
  <2>3. Unfed'
    BY <2>2 DEF SlotInv, Unfed
  <2>4. [Next]_vars
    BY <2>1
  <2> QED BY <2>2, <2>3, <2>4, RefinesSame
<1> QED BY <1>1, <1>2, <1>3, <1>4, <1>5, <1>6, <1>7, <1>8 DEF SlotNext

(* What the invariant says of a single map.                                *)
LEMMA SlotsAreFound == SlotInv => EntriesFindable
<1> SUFFICES ASSUME SlotInv PROVE EntriesFindable
  OBVIOUS
<1>1. ~panicked /\ home \in [Items -> Nat]
  BY DEF SlotInv
<1>2. ASSUME NEW s \in Sketches
      PROVE  LET m == map[s]
             IN /\ \A p \in Taken(m) :
                     LET i == m.keys[p]
                     IN /\ i \in Items
                        /\ m.states[p] = FindProbeOrEmpty(m, i)
                        /\ SlotAt(m, i, m.states[p]) = p
                        /\ Get(m, i) = m.values[p] /\ m.values[p] > 0
                /\ m.numActive = Cardinality(Taken(m))
                /\ m.numActive < Size(m)
                /\ {KeyAt(m, j) : j \in Yielding(m)} = {m.keys[p] : p \in Taken(m)}
                /\ Cardinality(Yielding(m)) = m.numActive
  <2> DEFINE m == map[s]
             lg == m.lgLength
  <2>1. MapOK(s, m)
    BY DEF SlotInv
  <2> HIDE DEF m
  <2>2. /\ OkSize(lg) /\ Cancels(2 ^ lg) /\ Sound(m, lg) /\ m.numActive < 2 ^ lg
        /\ m.numActive = Cardinality(KeysIn(m)) /\ m.numActive = Cardinality(Taken(m))
        /\ KeysIn(m) = ActiveIn(CountersIn(m)) /\ Size(m) = 2 ^ lg
    BY <1>1, <2>1, MapFacts
  <2> HIDE DEF lg
  <2>3. Yields(m)
    BY <2>2, IteratorYields
  <2>4. /\ m \in MapsOf(lg) /\ Marked(m, lg)
        /\ Taken(m) = {p \in Slots(lg) : m.keys[p] # Free}
        /\ KeysIn(m) \in SUBSET Items
    BY <2>2, SoundOnce DEF Sound
  <2>5. ASSUME NEW p \in Taken(m)
        PROVE  /\ m.keys[p] \in Items
               /\ m.states[p] = FindProbeOrEmpty(m, m.keys[p])
               /\ SlotAt(m, m.keys[p], m.states[p]) = p
               /\ Get(m, m.keys[p]) = m.values[p] /\ m.values[p] > 0
    <3> DEFINE i == m.keys[p]
               d == m.states[p]
    <3>1. i \in KeysIn(m) /\ i \in Items /\ p \in Slots(lg) /\ d \in Nat /\ d # Free
      BY <2>4 DEF KeysIn, Marked, MapsOf
    <3>2. /\ EndsAt(2 ^ lg, m.keys, Free, Route(lg), i, d - 1)
          /\ Route(lg)[i][d - 1] = p
      BY <2>2, <2>4 DEF Sound
    <3>a. d # 0
      BY <3>1 DEF Free
    <3> HIDE DEF i, d
    <3>3. ProbesTo(m, lg, i, (d - 1) + 1, Route(lg)[i][d - 1])
      BY <2>2, <2>4, <3>1, <3>2, ProbeEnds
    <3>4. (d - 1) + 1 = d
      BY <3>1
    <3>5. ProbesTo(m, lg, i, d, p)
      BY <3>2, <3>3, <3>4
    <3>6. FindProbeOrEmpty(m, i) = d /\ SlotAt(m, i, d) = p
      BY <3>5 DEF ProbesTo
    <3>7. Get(m, i) = m.values[p]
      BY <3>1, <3>6, <3>a DEF Get, Stuck, d
    <3>8. m.values[p] > 0
      <4>1. CountersIn(m)[i] = m.values[p]
        BY <2>2, CounterFacts DEF i
      <4> QED BY <2>2, <3>1, <4>1 DEF ActiveIn
    <3> QED BY <3>1, <3>6, <3>7, <3>8 DEF i, d
  <2> QED BY <2>2, <2>3, <2>5 DEF Yields, KeysIn, m
<1> QED BY <1>1, <1>2 DEF EntriesFindable

(* Every reachable state of the slot arrays satisfies their invariant. *)
THEOREM SlotInvariance == SlotSpec => []SlotInv
BY SlotInitOK, SlotStep, PTL DEF SlotSpec

(* Whatever the hashes, the map sizes and the order of the calls, every    *)
(* entry is where its walk stops, a slot is free, num_active counts the    *)
(* entries, the iterator yields each once, and no purge panics.            *)
THEOREM MapEntriesFindable == SlotSpec => []EntriesFindable
BY SlotInvariance, SlotsAreFound, PTL

(* Every call on the slot arrays is a call of the sketch-level model: the  *)
(* purge's median is one of a sample of the right size, back-shifting      *)
(* deletion drops exactly the counters that became zero, and resize and    *)
(* deserialize change no counter.                                          *)
THEOREM MapImplementsSketch == SlotSpec => ImplementsFrequentItems
<1>1. SlotInit => Init
  BY SlotInitOK
<1>2. SlotInv /\ [SlotNext]_slotVars => [Next]_vars
  BY SlotStep
<1>3. SlotSpec => Spec
  BY <1>1, <1>2, SlotInvariance, PTL DEF SlotSpec, Spec
<1> QED BY <1>3 DEF ImplementsFrequentItems

(* Hence what is proved of the sketch-level model holds of the slots.      *)
THEOREM MapKeepsPromises ==
  SlotSpec => [](BoundsHold /\ ListsHonourErrorType /\ ErrorPaidFor)
<1>1. SlotSpec => Spec
  BY MapImplementsSketch DEF ImplementsFrequentItems
<1> QED BY <1>1, FrequencyBounds, FrequentItemLists, ErrorIsPaidFor, PTL
===============================================================================
