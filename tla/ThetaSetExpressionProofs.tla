------------------------ MODULE ThetaSetExpressionProofs ------------------------
(***************************************************************************)
(* Union, intersection, difference and Jaccard similarity are right about  *)
(* the source sets of their inputs, for every k, sampling probability and  *)
(* set of inputs that keep their contract, results of each other included. *)
(*                                                                         *)
(* The invariants of the union and of the intersection say what a call in  *)
(* progress still owes: which keys are in the table, which are to come.    *)
(* The composition is one invariant of both, because each result that      *)
(* feeds another operation has to represent a source set (Represents).     *)
(***************************************************************************)
EXTENDS ThetaSetExpression, ThetaTableProofs

USE MaxThetaAssumption, HashesAssumption, MaxUpdatesAssumption

Start == StartingTheta(Sampling)

Threshold == Lower(unionTheta, table.theta)

(* Below the threshold every key seen so far is in the table or still to   *)
(* be visited, and its summary is split between the two.                   *)
Accounted ==
  \A h \in Hashes : 0 < h /\ h < Threshold =>
    /\ h \in DOMAIN seen <=> h \in Retained(table) \/ h \in DOMAIN todo
    /\ SumOf(seen, h) = SumOf(table.entries, h) + SumOf(todo, h)

(* The threshold is the smallest theta of the inputs unless a rebuild has  *)
(* moved the table's.                                                      *)
ThresholdJustified(start) ==
  /\ table.theta <= start
  /\ Threshold <= minTheta
  /\ \/ Threshold = minTheta
     \/ Threshold = table.theta /\ table.theta # start

(* Whatever is retained, still to be visited, or a theta that a rebuild    *)
(* left, is a key that was seen.                                           *)
Seen(start) ==
  /\ Retained(table) \subseteq DOMAIN seen
  /\ DOMAIN todo \subseteq DOMAIN seen
  /\ table.theta # start => table.theta \in DOMAIN seen

Typed(k, rf) ==
  /\ TableShape(table, k, rf)
  /\ MinLgK <= table.lgCur
  /\ unionTheta \in 0 .. MaxTheta
  /\ todo \in [DOMAIN todo -> Nat]
  /\ DOMAIN todo \subseteq Hashes
  /\ ordered \in BOOLEAN
  /\ merging \in BOOLEAN
  /\ seen \in [DOMAIN seen -> Nat]
  /\ DOMAIN seen \subseteq Hashes
  /\ minTheta \in 0 .. MaxTheta
  /\ updates \in 0 .. MaxUpdates

(* The invariant of a union of nominal size 2^k, resize factor 2^rf and    *)
(* starting theta start.                                                   *)
UnionInv(k, rf, start) ==
  /\ Typed(k, rf)
  /\ Sound(k, start, table, table.entries)
  /\ Accounted
  /\ ThresholdJustified(start)
  /\ Seen(start)
  /\ ~merging => DOMAIN todo = {} /\ unionTheta <= table.theta
  /\ table.isEmpty => ~merging /\ DOMAIN seen = {}

IInv == UnionInv(LgK, LgResize, Start)

LEMMA StartType == Start \in 0 .. MaxTheta
BY NewTableOK DEF Start, TableOK, TableShape

(* A union that was just built, or reset. *)
Fresh(k, rf, p) ==
  /\ table = NewTable(k, rf, p) /\ unionTheta = StartingTheta(p)
  /\ minTheta = StartingTheta(p)
  /\ DOMAIN todo = {} /\ todo \in [DOMAIN todo -> Nat]
  /\ ordered \in BOOLEAN /\ merging = FALSE
  /\ seen = NoEntries /\ updates = 0

FreshKeeps ==
  \A k, rf, p :
    /\ SizeOK(k) /\ MinLgK <= k /\ rf \in 0 .. 3 /\ SamplingOK(p)
    /\ Fresh(k, rf, p)
    => UnionInv(k, rf, StartingTheta(p))

LEMMA FreshInv == FreshKeeps
<1> SUFFICES ASSUME NEW k, NEW rf, NEW p, SizeOK(k), MinLgK <= k, rf \in 0 .. 3,
                    SamplingOK(p), Fresh(k, rf, p)
             PROVE  UnionInv(k, rf, StartingTheta(p))
  BY DEF FreshKeeps
<1> DEFINE t == NewTable(k, rf, p)
           start == StartingTheta(p)
<1>1. /\ table = t /\ unionTheta = start /\ minTheta = start
      /\ DOMAIN todo = {} /\ todo \in [DOMAIN todo -> Nat]
      /\ seen = NoEntries /\ updates = 0
  BY DEF Fresh
<1>2. /\ TableShape(t, k, rf) /\ MinLgK <= t.lgCur
      /\ Retained(t) = {} /\ t.theta = start
  BY NewTableShape
<1> HIDE DEF t, start
<1>3. DOMAIN NoEntries = {} /\ NoEntries \in [{} -> Nat]
  BY DEF NoEntries
<1>4. start \in 0 .. MaxTheta
  BY <1>2 DEF TableShape
<1>5. Typed(k, rf)
  <2>1. ordered \in BOOLEAN /\ merging \in BOOLEAN
    BY Zenon DEF Fresh
  <2>2. seen \in [DOMAIN seen -> Nat] /\ DOMAIN seen \subseteq Hashes
    BY <1>1, <1>3
  <2> QED BY <1>1, <1>2, <1>4, <2>1, <2>2 DEF Typed
<1>6. Sound(k, start, table, table.entries)
  BY <1>1, <1>2 DEF Sound, Retained
<1>7. Accounted
  BY <1>1, <1>2, <1>3 DEF Accounted, SumOf, Retained
<1>8. ThresholdJustified(start)
  BY <1>1, <1>2, <1>4 DEF ThresholdJustified, Threshold, Lower
<1>9. unionTheta <= table.theta
  BY <1>1, <1>2, <1>4
<1>10. ~merging /\ DOMAIN seen = {}
  BY <1>1, <1>3 DEF Fresh
<1>11. Seen(start)
  BY <1>1, <1>2 DEF Seen
<1>12. UnionInv(k, rf, start)
  BY <1>1, <1>5, <1>6, <1>7, <1>8, <1>9, <1>10, <1>11 DEF UnionInv
<1> QED BY <1>12 DEF start

LEMMA FreshOwn == Fresh(LgK, LgResize, Sampling) => IInv
<1>1. SamplingOK(Sampling) /\ MinLgK <= LgK
  BY SamplingAssumption, LgKAssumption DEF SamplingOK
<1> QED BY <1>1, OwnSizeOK, FreshInv DEF FreshKeeps, IInv, Start

LEMMA InitInv == Init => IInv
<1>1. Init => Fresh(LgK, LgResize, Sampling)
  BY DEF Init, Fresh, NoEntries
<1> QED BY <1>1, FreshOwn

(* r is the table t after hash h was offered with summary v. *)
Absorbed(k, rf, start, t, h, v, r) ==
  /\ TableShape(r, k, rf) /\ ~r.isEmpty
  /\ Sound(k, start, r, r.entries)
  /\ r.theta <= t.theta /\ t.lgCur <= r.lgCur
  /\ Retained(r) \subseteq Retained(t) \cup {h}
  /\ r.theta = t.theta \/ r.theta \in Retained(t) \cup {h}
  /\ \A g \in Hashes : 0 < g /\ g < r.theta =>
       /\ g \in Retained(r) <=> g \in Retained(t) \/ g = h
       /\ SumOf(r.entries, g)
            = SumOf(t.entries, g) + (IF g = h THEN v ELSE 0)

(* What one upsert does to a well-formed table, hash by hash. *)
LEMMA UpsertEffect ==
  ASSUME NEW k, SizeOK(k), NEW rf \in 0 .. 3, NEW start, NEW t,
         TableShape(t, k, rf), Sound(k, start, t, t.entries),
         NEW h \in Hashes, NEW v \in Nat
  PROVE  Absorbed(k, rf, start, t, h, v, UpsertEntry(t, h, v, t.entries[h] + v))
<1> DEFINE r == UpsertEntry(t, h, v, t.entries[h] + v)
           new == Offer(t.entries, h, v)
<1>1. /\ TableShape(r, k, rf) /\ ~r.isEmpty
      /\ Sound(k, start, r, new)
      /\ r.theta <= t.theta /\ t.lgCur <= r.lgCur
      /\ r.theta = t.theta \/ r.theta \in Retained(t) \cup {h}
  <2>1. t.entries \in [DOMAIN t.entries -> Nat] /\ DOMAIN t.entries \subseteq Hashes
    BY DEF TableShape, Retained
  <2> QED BY <2>1, UpsertSound
<1> HIDE DEF r
<1>2. /\ Retained(r) = {g \in DOMAIN new : 0 < g /\ g < r.theta}
      /\ \A g \in Retained(r) : r.entries[g] = new[g]
      /\ r.theta # start => NumRetained(r) >= 2 ^ k
  BY <1>1 DEF Sound
<1>3. /\ DOMAIN new = Retained(t) \cup {h}
      /\ \A g \in Retained(t) \ {h} : new[g] = t.entries[g]
      /\ h \in Retained(t) => new[h] = t.entries[h] + v
      /\ h \notin Retained(t) => new[h] = v
  <2> DEFINE e == t.entries
  <2>1. \A g \in DOMAIN e : e[g] \in Nat
    BY DEF TableShape, Retained
  <2> HIDE DEF e
  <2>2. /\ DOMAIN Offer(e, h, v) = DOMAIN e \cup {h}
        /\ \A g \in DOMAIN e \ {h} : Offer(e, h, v)[g] = e[g]
        /\ h \in DOMAIN e => Offer(e, h, v)[h] = e[h] + v
        /\ h \notin DOMAIN e => Offer(e, h, v)[h] = v
    BY <2>1 DEF Offer
  <2> QED BY <2>2 DEF Retained, e
<1> HIDE DEF new
<1>4. Sound(k, start, r, r.entries)
  BY <1>2 DEF Sound, Retained
<1>5. ASSUME NEW g \in Hashes, 0 < g, g < r.theta
      PROVE  /\ g \in Retained(r) <=> g \in Retained(t) \/ g = h
             /\ SumOf(r.entries, g)
                  = SumOf(t.entries, g) + (IF g = h THEN v ELSE 0)
  <2>1. g \in Retained(r) <=> g \in Retained(t) \/ g = h
    BY <1>2, <1>3, <1>5
  <2>2. g \in Retained(t) => t.entries[g] \in Nat
    BY DEF TableShape
  <2> QED BY <1>2, <1>3, <2>1, <2>2 DEF SumOf, Retained
<1>6. Retained(r) \subseteq Retained(t) \cup {h}
  BY <1>2, <1>3
<1> QED BY <1>1, <1>4, <1>5, <1>6 DEF r, Absorbed

(* Each step keeps the invariant. *)
LEMMA BeginInv ==
  ASSUME NEW k, SizeOK(k), NEW rf \in 0 .. 3, NEW start \in 0 .. MaxTheta,
         UnionInv(k, rf, start), NEW i, HonoursContract(i), BeginUpdate(i)
  PROVE  UnionInv(k, rf, start)'
<1>0. /\ Typed(k, rf) /\ Sound(k, start, table, table.entries) /\ Accounted
      /\ ThresholdJustified(start) /\ Seen(start) /\ ~merging
      /\ DOMAIN todo = {} /\ unionTheta <= table.theta
  BY DEF UnionInv, BeginUpdate
<1>1. /\ table' = [table EXCEPT !.isEmpty = FALSE]
      /\ unionTheta' = Lower(unionTheta, i.view.theta)
      /\ todo' = i.view.entries
      /\ ordered' = i.view.ordered
      /\ seen' = MergeSum(seen, i.source)
      /\ minTheta' = Lower(minTheta, i.view.theta)
  BY DEF BeginUpdate
<1>2. merging' = TRUE
  BY DEF BeginUpdate
<1>3. updates' \in 0 .. MaxUpdates
  <2>1. updates < MaxUpdates /\ updates' = updates + 1
    BY DEF BeginUpdate
  <2> QED BY <1>0, <2>1 DEF Typed
<1>4. /\ i.source \in [DOMAIN i.source -> Nat] /\ DOMAIN i.source \subseteq Hashes
      /\ i.view.theta \in 0 .. MaxTheta /\ i.view.ordered \in BOOLEAN
      /\ i.view.entries \in [DOMAIN i.view.entries -> Nat]
      /\ DOMAIN i.view.entries
           = {h \in DOMAIN i.source : 0 < h /\ h < i.view.theta}
      /\ \A h \in DOMAIN i.view.entries : i.view.entries[h] = i.source[h]
  BY DEF HonoursContract, Represents
<1>5. table' = [entries |-> table.entries, theta |-> table.theta,
                isEmpty |-> FALSE, lgCur |-> table.lgCur, lgNom |-> k,
                lgResize |-> rf]
  BY <1>0, <1>1, FlagUpdate DEF Typed
<1>6. /\ TableShape(table', k, rf) /\ table'.theta = table.theta
      /\ table'.entries = table.entries /\ Retained(table') = Retained(table)
      /\ table'.lgCur = table.lgCur
  BY <1>0, <1>5 DEF Typed, TableShape, Retained
<1>7. Sound(k, start, table', table'.entries)
  BY <1>0, <1>6 DEF Sound, NumRetained
<1>8. /\ table.theta \in 0 .. MaxTheta /\ unionTheta \in 0 .. MaxTheta
      /\ minTheta \in 0 .. MaxTheta
      /\ seen \in [DOMAIN seen -> Nat] /\ DOMAIN seen \subseteq Hashes
  BY <1>0 DEF Typed, TableShape
<1>9. /\ DOMAIN seen' = DOMAIN seen \cup DOMAIN i.source
      /\ seen' \in [DOMAIN seen' -> Nat]
      /\ \A h \in DOMAIN seen' : seen'[h] = SumOf(seen, h) + SumOf(i.source, h)
  BY <1>1, <1>4, <1>8 DEF MergeSum, SumOf
<1>10. Typed(k, rf)'
  <2>1. ordered' \in BOOLEAN /\ merging' \in BOOLEAN
    BY <1>1, <1>2, <1>4, Zenon
  <2>2. unionTheta' \in 0 .. MaxTheta /\ minTheta' \in 0 .. MaxTheta
    BY <1>1, <1>4, <1>8 DEF Lower
  <2>3. todo' \in [DOMAIN todo' -> Nat] /\ DOMAIN todo' \subseteq Hashes
    BY <1>1, <1>4
  <2>4. seen' \in [DOMAIN seen' -> Nat] /\ DOMAIN seen' \subseteq Hashes
    BY <1>4, <1>8, <1>9
  <2> QED BY <1>0, <1>3, <1>6, <2>1, <2>2, <2>3, <2>4 DEF Typed
<1>11. /\ Threshold' <= Threshold /\ Threshold' <= i.view.theta
       /\ Threshold' = Lower(Threshold, i.view.theta)
       /\ Threshold \in Nat /\ Threshold' \in Nat
  BY <1>1, <1>4, <1>6, <1>8 DEF Threshold, Lower
<1>12. Accounted'
  <2> SUFFICES ASSUME NEW h \in Hashes, 0 < h, h < Threshold'
               PROVE  /\ h \in DOMAIN seen' <=> h \in Retained(table') \/ h \in DOMAIN todo'
                      /\ SumOf(seen', h) = SumOf(table'.entries, h) + SumOf(todo', h)
    BY DEF Accounted
  <2>1. h < Threshold /\ h < i.view.theta
    <3>1. h \in Nat
      OBVIOUS
    <3> QED BY <1>4, <1>11, <3>1
  <2>2. /\ h \in DOMAIN seen <=> h \in Retained(table)
        /\ SumOf(seen, h) = SumOf(table.entries, h) + SumOf(todo, h)
    BY <1>0, <2>1 DEF Accounted
  <2>3. SumOf(todo, h) = 0
    BY <1>0 DEF SumOf
  <2>4. h \in DOMAIN todo' <=> h \in DOMAIN i.source
    BY <1>1, <1>4, <2>1
  <2>5. SumOf(todo', h) = SumOf(i.source, h)
    BY <1>1, <1>4, <2>4 DEF SumOf
  <2>6. SumOf(table.entries, h) \in Nat /\ SumOf(i.source, h) \in Nat
    BY <1>0, <1>4 DEF SumOf, Typed, TableShape, Retained
  <2>7. SumOf(seen', h) = SumOf(seen, h) + SumOf(i.source, h)
    BY <1>9, <2>2, <2>3, <2>6 DEF SumOf
  <2> QED BY <1>6, <1>9, <2>2, <2>3, <2>4, <2>5, <2>6, <2>7
<1>13. ThresholdJustified(start)'
  BY <1>0, <1>1, <1>4, <1>6, <1>8, <1>11 DEF ThresholdJustified, Lower
<1>14. table'.isEmpty = FALSE
  BY <1>5
<1>15. Seen(start)'
  BY <1>0, <1>1, <1>4, <1>6, <1>9 DEF Seen
<1> QED BY <1>2, <1>7, <1>10, <1>12, <1>13, <1>14, <1>15 DEF UnionInv

LEMMA VisitInv ==
  ASSUME NEW k, SizeOK(k), NEW rf \in 0 .. 3, NEW start \in 0 .. MaxTheta,
         UnionInv(k, rf, start), NEW h \in DOMAIN todo, VisitEntry(h)
  PROVE  UnionInv(k, rf, start)'
<1>0. /\ Typed(k, rf) /\ Sound(k, start, table, table.entries) /\ Accounted
      /\ ThresholdJustified(start) /\ Seen(start)
      /\ table.isEmpty => ~merging /\ DOMAIN seen = {}
  BY DEF UnionInv
<1>1. /\ merging /\ (ordered => \A g \in DOMAIN todo : h <= g)
      /\ UNCHANGED <<unionTheta, ordered, merging, seen, minTheta, updates>>
      /\ Merge(h) \/ SkipEntry(h) \/ StopEarly(h)
  BY DEF VisitEntry, MayVisit
<1>2. /\ TableShape(table, k, rf) /\ table.theta \in Nat /\ unionTheta \in Nat
      /\ minTheta \in Nat /\ start \in Nat
      /\ todo \in [DOMAIN todo -> Nat] /\ DOMAIN todo \subseteq Hashes
      /\ h \in Nat /\ h \in Hashes /\ todo[h] \in Nat
  BY <1>0, StartType DEF Typed, TableShape
<1>3. CASE Merge(h)
  <2>0. PICK v \in Nat : v = todo[h]
    BY <1>2
  <2> DEFINE r == UpsertEntry(table, h, v, table.entries[h] + v)
  <2>1. table' = r /\ todo' = Without(todo, h)
    BY <1>3, <2>0 DEF Merge
  <2>2. /\ TableShape(r, k, rf) /\ ~r.isEmpty
        /\ Sound(k, start, r, r.entries)
        /\ r.theta <= table.theta /\ table.lgCur <= r.lgCur
        /\ Retained(r) \subseteq Retained(table) \cup {h}
        /\ r.theta = table.theta \/ r.theta \in Retained(table) \cup {h}
        /\ \A g \in Hashes : 0 < g /\ g < r.theta =>
             /\ g \in Retained(r) <=> g \in Retained(table) \/ g = h
             /\ SumOf(r.entries, g)
                  = SumOf(table.entries, g) + (IF g = h THEN v ELSE 0)
    <3>1. TableShape(table, k, rf) /\ Sound(k, start, table, table.entries) /\ h \in Hashes
      BY <1>0, <1>2
    <3>2. Absorbed(k, rf, start, table, h, v, r)
      BY <3>1, UpsertEffect
    <3> QED BY <3>2 DEF Absorbed
  <2> HIDE DEF r
  <2>3. /\ DOMAIN todo' = DOMAIN todo \ {h}
        /\ \A g \in DOMAIN todo \ {h} : todo'[g] = todo[g]
        /\ todo' \in [DOMAIN todo' -> Nat]
    BY <1>2, <2>1 DEF Without
  <2>4. Typed(k, rf)'
    <3>1. MinLgK <= r.lgCur
      BY <1>0, <2>2, MinLgKAssumption DEF Typed, TableShape, SizeOK
    <3> QED BY <1>0, <1>1, <1>2, <2>1, <2>2, <2>3, <3>1 DEF Typed
  <2>5. r.theta \in Nat /\ Threshold \in Nat /\ Threshold' \in Nat
        /\ Threshold' = Lower(unionTheta, r.theta)
    BY <1>1, <1>2, <2>1, <2>2 DEF Threshold, Lower, TableShape
  <2>6. Threshold' <= Threshold /\ Threshold' <= r.theta
    BY <1>2, <2>2, <2>5 DEF Threshold, Lower
  <2>7. Accounted'
    <3> SUFFICES ASSUME NEW g \in Hashes, 0 < g, g < Threshold'
                 PROVE  /\ g \in DOMAIN seen' <=> g \in Retained(table') \/ g \in DOMAIN todo'
                        /\ SumOf(seen', g) = SumOf(table'.entries, g) + SumOf(todo', g)
      BY DEF Accounted
    <3>1. g < Threshold /\ g < r.theta
      <4>1. g \in Nat
        OBVIOUS
      <4> QED BY <2>5, <2>6, <4>1
    <3>2. /\ g \in DOMAIN seen <=> g \in Retained(table) \/ g \in DOMAIN todo
          /\ SumOf(seen, g) = SumOf(table.entries, g) + SumOf(todo, g)
      BY <1>0, <3>1 DEF Accounted
    <3>3. /\ g \in Retained(r) <=> g \in Retained(table) \/ g = h
          /\ SumOf(r.entries, g)
               = SumOf(table.entries, g) + (IF g = h THEN v ELSE 0)
      BY <2>2, <3>1
    <3>4. SumOf(todo, g) = SumOf(todo', g) + (IF g = h THEN v ELSE 0)
      BY <1>2, <2>0, <2>3 DEF SumOf
    <3>5. SumOf(table.entries, g) \in Nat /\ SumOf(todo', g) \in Nat
      BY <1>2, <2>3 DEF SumOf, TableShape, Retained
    <3>6. SumOf(seen, g) = SumOf(r.entries, g) + SumOf(todo', g)
      BY <3>2, <3>3, <3>4, <3>5
    <3>7. g \in DOMAIN seen <=> g \in Retained(r) \/ g \in DOMAIN todo'
      BY <2>3, <3>2, <3>3
    <3> QED BY <1>1, <2>1, <3>6, <3>7
  <2>8. ThresholdJustified(start)'
    <3>1. /\ table.theta <= start /\ Threshold <= minTheta
          /\ \/ Threshold = minTheta
             \/ Threshold = table.theta /\ table.theta # start
      BY <1>0 DEF ThresholdJustified
    <3>2. r.theta <= start /\ Threshold' <= minTheta
      BY <1>2, <2>2, <2>5, <2>6, <3>1
    <3>3. Threshold' = minTheta \/ (Threshold' = r.theta /\ r.theta # start)
      BY <1>2, <2>2, <2>5, <3>1 DEF Threshold, Lower
    <3> QED BY <1>1, <2>1, <3>2, <3>3 DEF ThresholdJustified
  <2>9. ~table'.isEmpty /\ Sound(k, start, table', table'.entries)
    BY <2>1, <2>2
  <2>10. Seen(start)'
    BY <1>0, <1>1, <2>1, <2>2, <2>3 DEF Seen
  <2> QED BY <1>1, <2>4, <2>7, <2>8, <2>9, <2>10 DEF UnionInv
<1>4. CASE SkipEntry(h) \/ StopEarly(h)
  <2>1. table' = table /\ ~(h < unionTheta /\ h < table.theta)
    BY <1>4 DEF SkipEntry, StopEarly
  <2>2. Threshold' = Threshold /\ ~(h < Threshold) /\ Threshold \in Nat
    BY <1>1, <1>2, <2>1 DEF Threshold, Lower
  <2>3. /\ DOMAIN todo' \subseteq DOMAIN todo
        /\ todo' \in [DOMAIN todo' -> Nat]
        /\ \A g \in DOMAIN todo' : todo'[g] = todo[g]
        /\ \A g \in DOMAIN todo \ DOMAIN todo' : ~(g < Threshold)
    <3>1. CASE SkipEntry(h)
      <4>1. todo' = Without(todo, h)
        BY <3>1 DEF SkipEntry
      <4> QED BY <1>2, <2>2, <4>1 DEF Without
    <3>2. CASE StopEarly(h)
      <4>1. todo' = NoEntries /\ ordered
        BY <3>2 DEF StopEarly
      <4>2. DOMAIN todo' = {} /\ todo' \in [{} -> Nat]
        BY <4>1 DEF NoEntries
      <4>3. \A g \in DOMAIN todo : g \in Nat /\ h <= g
        BY <1>1, <1>2, <4>1
      <4> QED BY <1>2, <2>2, <4>2, <4>3
    <3> QED BY <1>4, <3>1, <3>2
  <2>4. Typed(k, rf)'
    BY <1>0, <1>1, <1>2, <2>1, <2>3 DEF Typed
  <2>5. Accounted'
    <3> SUFFICES ASSUME NEW g \in Hashes, 0 < g, g < Threshold'
                 PROVE  /\ g \in DOMAIN seen' <=> g \in Retained(table') \/ g \in DOMAIN todo'
                        /\ SumOf(seen', g) = SumOf(table'.entries, g) + SumOf(todo', g)
      BY DEF Accounted
    <3>1. /\ g \in DOMAIN seen <=> g \in Retained(table) \/ g \in DOMAIN todo
          /\ SumOf(seen, g) = SumOf(table.entries, g) + SumOf(todo, g)
      BY <1>0, <2>2 DEF Accounted
    <3>2. g \in DOMAIN todo' <=> g \in DOMAIN todo
      BY <2>2, <2>3
    <3>3. SumOf(todo', g) = SumOf(todo, g)
      BY <2>3, <3>2 DEF SumOf
    <3> QED BY <1>1, <2>1, <3>1, <3>2, <3>3
  <2>6. ThresholdJustified(start)'
    BY <1>0, <1>1, <2>1, <2>2 DEF ThresholdJustified
  <2>7. Sound(k, start, table', table'.entries) /\ ~table'.isEmpty
    BY <1>0, <1>1, <2>1
  <2>8. Seen(start)'
    BY <1>0, <1>1, <2>1, <2>3 DEF Seen
  <2> QED BY <1>1, <2>4, <2>5, <2>6, <2>7, <2>8 DEF UnionInv
<1> QED BY <1>1, <1>3, <1>4

LEMMA EndInv == ASSUME NEW k, SizeOK(k), NEW rf \in 0 .. 3, NEW start \in 0 .. MaxTheta,
         UnionInv(k, rf, start), EndUpdate
  PROVE  UnionInv(k, rf, start)'
<1>0. /\ Typed(k, rf) /\ Sound(k, start, table, table.entries) /\ Accounted
      /\ ThresholdJustified(start) /\ Seen(start)
      /\ table.isEmpty => ~merging /\ DOMAIN seen = {}
  BY DEF UnionInv
<1>1. /\ merging /\ DOMAIN todo = {}
      /\ unionTheta' = Lower(unionTheta, table.theta)
      /\ UNCHANGED <<table, todo, ordered, seen, minTheta, updates>>
  BY DEF EndUpdate
<1>2. merging' = FALSE
  BY DEF EndUpdate
<1>3. table.theta \in 0 .. MaxTheta /\ unionTheta \in 0 .. MaxTheta
  BY <1>0 DEF Typed, TableShape
<1>4. /\ unionTheta' \in 0 .. MaxTheta /\ unionTheta' <= table.theta
      /\ Threshold' = Threshold
  BY <1>1, <1>3 DEF Threshold, Lower
<1>5. Typed(k, rf)'
  <2>1. merging' \in BOOLEAN
    BY <1>2, Zenon
  <2> QED BY <1>0, <1>1, <1>4, <2>1 DEF Typed
<1>6. Accounted' /\ ThresholdJustified(start)' /\ Seen(start)'
  BY <1>0, <1>1, <1>4 DEF Accounted, ThresholdJustified, Seen
<1> QED BY <1>0, <1>1, <1>2, <1>4, <1>5, <1>6 DEF UnionInv

LEMMA StutterInv ==
  ASSUME NEW k, NEW rf, NEW start, UnionInv(k, rf, start), UNCHANGED vars
  PROVE  UnionInv(k, rf, start)'
BY DEF vars, UnionInv, Typed, Accounted, ThresholdJustified, Threshold, Seen

LEMMA ResetInv == ASSUME IInv, Reset PROVE IInv'
<1>1. /\ Typed(LgK, LgResize) /\ ~merging /\ DOMAIN todo = {}
  BY DEF IInv, UnionInv, Reset
<1>2. /\ table' = NewTable(LgK, LgResize, Sampling) /\ unionTheta' = table'.theta
      /\ seen' = NoEntries /\ minTheta' = StartingTheta(Sampling) /\ updates' = 0
      /\ UNCHANGED <<todo, ordered, merging>>
  BY <1>1 DEF Reset, ResetTable, Typed, TableShape
<1>3. table'.theta = StartingTheta(Sampling)
  BY <1>2, NewTableOK
<1>4. merging' = FALSE /\ ordered' \in BOOLEAN
  BY <1>1, <1>2, Zenon DEF Typed
<1>5. Fresh(LgK, LgResize, Sampling)'
  BY <1>1, <1>2, <1>3, <1>4 DEF Fresh, Typed
<1>6. (Fresh(LgK, LgResize, Sampling) => IInv)'
  BY FreshOwn, PTL
<1> QED BY <1>5, <1>6

(* Between two calls: the table's entries below the threshold, by a theta  *)
(* th at or below it, are the keys seen below th.                          *)
LEMMA EntriesBelow ==
  ASSUME NEW k, SizeOK(k), NEW rf \in 0 .. 3, NEW start \in 0 .. MaxTheta,
         UnionInv(k, rf, start), ~merging, NEW th \in Nat, th <= Threshold
  PROVE  LET es == Below(table.entries, th)
         IN  /\ DOMAIN es = {h \in DOMAIN seen : 0 < h /\ h < th}
             /\ \A h \in DOMAIN es : es[h] = seen[h]
<1> DEFINE es == Below(table.entries, th)
<1>1. /\ Typed(k, rf) /\ Sound(k, start, table, table.entries) /\ Accounted /\ DOMAIN todo = {}
      /\ TableShape(table, k, rf) /\ Threshold \in Nat
  BY DEF UnionInv, Typed, TableShape, Threshold, Lower
<1>2. /\ DOMAIN es = {h \in Retained(table) : h < th}
      /\ \A h \in DOMAIN es : es[h] = table.entries[h]
  BY DEF Below, Retained
<1> HIDE DEF es
<1>3. \A h \in Retained(table) : h \in Hashes /\ 0 < h /\ table.entries[h] \in Nat
  BY <1>1 DEF Sound, TableShape
<1>4. \A h \in DOMAIN seen : h \in Hashes
  BY <1>1 DEF Typed
<1>5. ASSUME NEW h \in Hashes, 0 < h, h < th
      PROVE  /\ h \in DOMAIN seen <=> h \in Retained(table)
             /\ h \in Retained(table) => table.entries[h] = seen[h]
  <2>1. h < Threshold
    <3>1. h \in Nat
      OBVIOUS
    <3> QED BY <1>1, <1>5, <3>1
  <2>2. /\ h \in DOMAIN seen <=> h \in Retained(table)
        /\ SumOf(seen, h) = SumOf(table.entries, h) + SumOf(todo, h)
    BY <1>1, <1>5, <2>1 DEF Accounted
  <2>3. SumOf(todo, h) = 0
    BY <1>1 DEF SumOf
  <2> QED BY <1>3, <2>2, <2>3 DEF SumOf, Retained
<1>6. DOMAIN es = {h \in DOMAIN seen : 0 < h /\ h < th}
  BY <1>2, <1>3, <1>4, <1>5
<1>7. \A h \in DOMAIN es : es[h] = seen[h]
  BY <1>2, <1>3, <1>5
<1> QED BY <1>6, <1>7 DEF es

(* The compact result of a union that has accepted an input: its entries   *)
(* are the table's below a theta that is the threshold, or, when there are *)
(* more than k below the threshold, the k + 1st of them.                   *)
LEMMA ResultShape ==
  ASSUME NEW k, SizeOK(k), NEW rf \in 0 .. 3, NEW start \in 0 .. MaxTheta,
         UnionInv(k, rf, start), ~merging, ~table.isEmpty, NEW o \in BOOLEAN
  PROVE  /\ Result(o).theta \in Nat
         /\ Result(o).theta <= Threshold
         /\ Result(o).entries = Below(table.entries, Result(o).theta)
         /\ Result(o).empty = FALSE
         /\ \/ /\ Result(o).theta = Threshold
               /\ Cardinality(DOMAIN Result(o).entries) <= 2 ^ k
            \/ /\ Result(o).theta < Threshold
               /\ Cardinality(DOMAIN Result(o).entries) = 2 ^ k
               /\ Result(o).theta \in Retained(table)
<1> DEFINE n == 2 ^ k
           es == Below(table.entries, Threshold)
           S == DOMAIN es
           large == Cardinality(S) > n
           kth == IF large THEN KthHash(S, n) ELSE Threshold
           kept == Below(es, kth)
           single == Cardinality(DOMAIN kept) = 1 /\ kth = MaxTheta
<1>1. /\ TableShape(table, k, rf) /\ Threshold \in Nat /\ table.lgNom = k
      /\ Retained(table) \in SUBSET (0 .. MaxTheta)
  BY RetainedFinite DEF UnionInv, Typed, TableShape, Threshold, Lower
<1>2. Result(o) = [entries |-> kept, theta |-> kth, seed |-> Seed,
                   ordered |-> o \/ single, empty |-> FALSE]
  BY <1>1 DEF Result, Threshold
<1>3. n \in Nat
  BY DEF SizeOK
<1>4. /\ S = {h \in Retained(table) : h < Threshold}
      /\ \A h \in S : es[h] = table.entries[h]
      /\ S \in SUBSET (0 .. MaxTheta)
  BY <1>1 DEF Below, Retained
<1> HIDE DEF n, es, S
<1>5. IsFiniteSet(S) /\ Cardinality(S) \in Nat
  <2>1. IsFiniteSet(0 .. MaxTheta)
    BY FS_Interval
  <2> QED BY <1>4, <2>1, FS_Subset, FS_CardinalityType
<1>6. CASE large
  <2>1. \E h \in S : Cardinality({g \in S : g < h}) = n
    <3>1. MaxTheta \in Nat /\ n \in Nat /\ Cardinality(S) > n
      BY <1>3, <1>6
    <3>2. S \in SUBSET (0 .. MaxTheta)
      BY <1>4
    <3> HIDE DEF large, kth
    <3>3. HasKth(S, n)
      BY <3>1, <3>2, KthExists
    <3> QED BY <3>3 DEF HasKth
  <2>2. KthHash(S, n) \in S /\ Cardinality({g \in S : g < KthHash(S, n)}) = n
    BY <2>1 DEF KthHash
  <2>3. kth = KthHash(S, n)
    BY <1>6
  <2> HIDE DEF kth
  <2>4. kth \in Nat /\ kth < Threshold /\ kth \in Retained(table)
    BY <1>1, <1>4, <2>2, <2>3
  <2>5. DOMAIN kept = {g \in S : g < kth}
    BY DEF Below, S
  <2>6. Cardinality(DOMAIN kept) = n
    BY <2>2, <2>3, <2>5
  <2>7. {g \in S : g < kth} = {g \in Retained(table) : g < kth}
    <3>1. \A g \in Retained(table) : g \in Nat
      BY <1>1
    <3> QED BY <1>1, <1>4, <2>4, <3>1
  <2>8. kept = Below(table.entries, kth)
    BY <1>4, <2>7 DEF Below, S, Retained
  <2>9. Result(o).theta = kth /\ Result(o).entries = kept /\ Result(o).empty = FALSE
    BY <1>2
  <2> HIDE DEF kept
  <2> QED BY <1>1, <2>4, <2>6, <2>8, <2>9 DEF n
<1>7. CASE ~large
  <2>1. kth = Threshold
    BY <1>7
  <2> HIDE DEF kth
  <2>2. DOMAIN kept = {g \in S : g < kth}
    BY DEF Below, S
  <2>3. {g \in S : g < kth} = S
    BY <1>4, <2>1
  <2>4. Cardinality(DOMAIN kept) <= n
    BY <1>3, <1>5, <1>7, <2>2, <2>3
  <2>5. kept = Below(table.entries, kth)
    BY <1>4, <2>1, <2>3 DEF Below, S, Retained
  <2>6. Result(o).theta = kth /\ Result(o).entries = kept /\ Result(o).empty = FALSE
    BY <1>2
  <2> HIDE DEF kept
  <2> QED BY <1>1, <2>1, <2>4, <2>5, <2>6 DEF n
<1> QED BY <1>6, <1>7

(* Between two calls the result of the union represents the union of the   *)
(* source sets of its inputs.                                              *)
LEMMA ResultIsUnion ==
  ASSUME NEW k, SizeOK(k), NEW rf \in 0 .. 3, NEW start \in 0 .. MaxTheta,
         UnionInv(k, rf, start)
  PROVE  ResultRepresentsUnion
<1> SUFFICES ASSUME ~merging, NEW o \in BOOLEAN
             PROVE  Represents(Result(o), seen)
  BY DEF ResultRepresentsUnion
<1>1. CASE table.isEmpty
  <2>1. Result(o).entries = NoEntries /\ Result(o).empty
    BY <1>1 DEF Result
  <2>2. DOMAIN seen = {}
    BY <1>1 DEF UnionInv
  <2>3. DOMAIN NoEntries = {}
    BY DEF NoEntries
  <2> QED BY <2>1, <2>2, <2>3 DEF Represents
<1>2. CASE ~table.isEmpty
  <2> DEFINE th == Result(o).theta
             es == Below(table.entries, th)
  <2>1. /\ th \in Nat /\ th <= Threshold
        /\ Result(o).entries = es /\ Result(o).empty = FALSE
    BY <1>2, ResultShape
  <2> HIDE DEF th
  <2>2. /\ DOMAIN es = {h \in DOMAIN seen : 0 < h /\ h < th}
        /\ \A h \in DOMAIN es : es[h] = seen[h]
    BY <2>1, EntriesBelow
  <2> HIDE DEF es
  <2> QED BY <2>1, <2>2 DEF Represents, th
<1> QED BY <1>1, <1>2

(* The theta of the result is the smallest of the inputs unless exactly k *)
(* entries are kept; then it is a key itself.                              *)
LEMMA ResultPaidFor ==
  ASSUME NEW k, SizeOK(k), NEW rf \in 0 .. 3, NEW start \in 0 .. MaxTheta,
         UnionInv(k, rf, start), ~merging
  PROVE  \/ Result(FALSE).theta = minTheta
         \/ /\ Result(FALSE).theta < minTheta
            /\ Cardinality(DOMAIN Result(FALSE).entries) = 2 ^ k
            /\ Result(FALSE).theta \in DOMAIN seen
<1>0. /\ TableShape(table, k, rf) /\ minTheta \in Nat
      /\ table.theta \in Nat /\ unionTheta \in Nat
      /\ unionTheta <= table.theta /\ Accounted /\ Seen(start) /\ DOMAIN todo = {}
  BY DEF UnionInv, Typed, TableShape
<1>1. /\ Threshold <= minTheta
      /\ \/ Threshold = minTheta
         \/ Threshold = table.theta /\ table.theta # start
  BY DEF UnionInv, ThresholdJustified
<1>2. /\ \A h \in Retained(table) : h \in Hashes /\ 0 < h /\ h < table.theta
      /\ table.theta # start => NumRetained(table) >= 2 ^ k
  BY <1>0 DEF UnionInv, Sound, TableShape
<1>3. Threshold \in Nat /\ Threshold = unionTheta
  BY <1>0 DEF Threshold, Lower
<1>4. CASE table.isEmpty
  <2>1. Result(FALSE).theta = unionTheta
    BY <1>4 DEF Result
  <2>2. DOMAIN seen = {}
    BY <1>4 DEF UnionInv
  <2>3. Threshold = minTheta
    BY <1>0, <1>1, <2>2 DEF Seen
  <2> QED BY <1>3, <2>1, <2>3
<1>5. CASE ~table.isEmpty
  <2> DEFINE th == Result(FALSE).theta
             es == Result(FALSE).entries
  <2>1. /\ th \in Nat
        /\ es = Below(table.entries, th)
        /\ \/ th = Threshold /\ Cardinality(DOMAIN es) <= 2 ^ k
           \/ /\ th < Threshold /\ Cardinality(DOMAIN es) = 2 ^ k
              /\ th \in Retained(table)
    <3>1. FALSE \in BOOLEAN
      OBVIOUS
    <3> QED BY <1>5, <3>1, ResultShape
  <2> HIDE DEF th, es
  <2>2. CASE th < Threshold
    <3>1. /\ th < minTheta /\ Cardinality(DOMAIN es) = 2 ^ k
          /\ th \in DOMAIN seen
      BY <1>0, <1>1, <1>3, <2>1, <2>2 DEF Seen
    <3> QED BY <3>1 DEF th, es
  <2>3. CASE th = Threshold /\ Threshold # minTheta
    <3>1. Threshold = table.theta /\ table.theta # start /\ Threshold < minTheta
      BY <1>0, <1>1, <1>3, <2>3
    <3>2. DOMAIN es = Retained(table)
      BY <1>2, <2>1, <2>3, <3>1 DEF Below, Retained
    <3>3. Cardinality(DOMAIN es) >= 2 ^ k
      BY <1>2, <3>1, <3>2 DEF NumRetained
    <3>4. Cardinality(DOMAIN es) \in Nat
      BY <1>0, <3>2, RetainedFinite DEF NumRetained
    <3>5. Cardinality(DOMAIN es) = 2 ^ k
      BY <1>3, <2>1, <2>3, <3>3, <3>4 DEF SizeOK
    <3>6. th \in DOMAIN seen
      BY <1>0, <2>3, <3>1 DEF Seen
    <3> QED BY <2>3, <3>1, <3>5, <3>6 DEF th, es
  <2>4. CASE th = Threshold /\ Threshold = minTheta
    BY <2>4 DEF th
  <2> QED BY <2>1, <2>2, <2>3, <2>4
<1> QED BY <1>4, <1>5

LEMMA ResultIsJustified ==
  ASSUME NEW k, SizeOK(k), NEW rf \in 0 .. 3, NEW start \in 0 .. MaxTheta,
         UnionInv(k, rf, start)
  PROVE  ResultThetaJustified
<1>1. table.lgNom = k
  BY DEF UnionInv, Typed, TableShape
<1> QED BY <1>1, ResultPaidFor DEF ResultThetaJustified

LEMMA UnionNextInv == ASSUME IInv, [Next]_vars PROVE IInv'
<1> DEFINE inv == UnionInv(LgK, LgResize, Start)
<1>0. SizeOK(LgK) /\ LgResize \in 0 .. 3 /\ Start \in 0 .. MaxTheta /\ inv
  BY OwnSizeOK, StartType DEF IInv
<1>1. CASE \E i \in Inputs : BeginUpdate(i) \/ UpdateSkipped(i)
  <2>1. PICK i \in Inputs : BeginUpdate(i) \/ UpdateSkipped(i)
    BY <1>1
  <2>2. HonoursContract(i)
    BY InputsAssumption
  <2>3. CASE BeginUpdate(i)
    BY <1>0, <2>2, <2>3, BeginInv DEF IInv
  <2>4. CASE UpdateSkipped(i)
    BY <1>0, <2>4, StutterInv DEF UpdateSkipped, IInv
  <2> QED BY <2>1, <2>3, <2>4
<1>2. CASE \E h \in DOMAIN todo : VisitEntry(h)
  BY <1>0, <1>2, VisitInv DEF IInv
<1>3. CASE EndUpdate
  BY <1>0, <1>3, EndInv DEF IInv
<1>4. CASE Reset
  BY <1>4, ResetInv
<1>5. CASE UNCHANGED vars
  BY <1>0, <1>5, StutterInv DEF IInv
<1> QED BY <1>1, <1>2, <1>3, <1>4, <1>5 DEF Next

(* The invariant holds in every reachable state, in the middle of a call   *)
(* of update too.                                                          *)
THEOREM Invariance == Spec => []IInv
<1>1. Init => IInv
  BY InitInv
<1>2. IInv /\ [Next]_vars => IInv'
  BY UnionNextInv
<1> QED BY <1>1, <1>2, PTL DEF Spec

(* The table, the loop of update and the history have their types in every *)
(* reachable state of the union (UnionState).                              *)
THEOREM TypeCorrect == Spec => []TypeOK
<1>1. IInv => TypeOK
  BY DEF IInv, UnionInv, Typed, TypeOK, TableOK
<1> QED BY <1>1, Invariance, PTL

(* Between two calls the result of the union represents the union of the   *)
(* source sets of its inputs.                                              *)
THEOREM UnionRepresents == Spec => []ResultRepresentsUnion
<1>1. IInv => ResultRepresentsUnion
  BY ResultIsUnion, OwnSizeOK, StartType DEF IInv
<1> QED BY <1>1, Invariance, PTL

(* The theta of the result is the smallest of the inputs unless exactly k *)
(* entries are kept.                                                       *)
THEOREM UnionThetaJustified == Spec => []ResultThetaJustified
<1>1. IInv => ResultThetaJustified
  BY ResultIsJustified, OwnSizeOK, StartType DEF IInv
<1> QED BY <1>1, Invariance, PTL
-------------------------------------------------------------------------------
(* The intersection *)

(* The intersection's copies of the table's operators are the table's. *)
LEMMA MeetCardinality == \A S : Meet!Cardinality(S) = Cardinality(S)
BY DEF Meet!Cardinality, Cardinality

LEMMA MeetTable ==
  /\ \A t : Meet!Retained(t) = Retained(t)
  /\ \A t : Meet!NumRetained(t) = NumRetained(t)
  /\ \A t, h : Meet!Creates(t, h) <=> Creates(t, h)
  /\ \A t, h, c, m : Meet!UpsertEntry(t, h, c, m) = UpsertEntry(t, h, c, m)
  /\ \A lgCur, lgNom, lgResize, theta, isEmpty :
        Meet!FromRawParts(lgCur, lgNom, lgResize, theta, isEmpty)
          = FromRawParts(lgCur, lgNom, lgResize, theta, isEmpty)
<1>1. \A t : Meet!Retained(t) = Retained(t)
  BY DEF Meet!Retained, Retained
<1>2. \A t : Meet!NumRetained(t) = NumRetained(t)
  BY <1>1, MeetCardinality DEF Meet!NumRetained, NumRetained
<1>3. \A t, h : Meet!Screened(t, h) <=> Screened(t, h)
  BY DEF Meet!Screened, Screened
<1>4. \A t, h : Meet!Creates(t, h) <=> Creates(t, h)
  BY <1>1, <1>3 DEF Meet!Creates, Creates
<1>5. \A t, h, s : Meet!WithEntry(t, h, s) = WithEntry(t, h, s)
  BY DEF Meet!WithEntry, WithEntry
<1>6. \A t : Meet!ResizeOrRebuild(t) = ResizeOrRebuild(t)
  <2>1. \A t : Meet!CapacityThreshold(t) = CapacityThreshold(t)
    BY DEF Meet!CapacityThreshold, CapacityThreshold, Meet!SlotCount, SlotCount
  <2>2. \A t : Meet!Resize(t) = Resize(t)
    BY DEF Meet!Resize, Resize
  <2>3. \A t : Meet!Rebuild(t) = Rebuild(t)
    <3>1. \A S, k : Meet!KthHash(S, k) = KthHash(S, k)
      BY MeetCardinality DEF Meet!KthHash, KthHash
    <3>2. \A es, th : Meet!Below(es, th) = Below(es, th)
      BY DEF Meet!Below, Below
    <3> QED BY <1>1, <3>1, <3>2 DEF Meet!Rebuild, Rebuild
  <2> QED BY <1>2, <2>1, <2>2, <2>3 DEF Meet!ResizeOrRebuild, ResizeOrRebuild
<1>7. \A t, h, c, m : Meet!UpsertEntry(t, h, c, m) = UpsertEntry(t, h, c, m)
  BY <1>1, <1>3, <1>5, <1>6 DEF Meet!UpsertEntry, UpsertEntry
<1>8. \A lgCur, lgNom, lgResize, theta, isEmpty :
        Meet!FromRawParts(lgCur, lgNom, lgResize, theta, isEmpty)
          = FromRawParts(lgCur, lgNom, lgResize, theta, isEmpty)
  BY DEF Meet!FromRawParts, FromRawParts, Meet!Unit, Unit
<1> QED BY <1>1, <1>2, <1>4, <1>7, <1>8

LEMMA MeetViews ==
  /\ Meet!NoEntries = NoEntries
  /\ \A a, b : Meet!Lower(a, b) = Lower(a, b)
  /\ \A f, h : Meet!Without(f, h) = Without(f, h)
  /\ \A f, g : Meet!MergeSum(f, g) = MergeSum(f, g)
  /\ \A f, g : Meet!MeetSum(f, g) = MeetSum(f, g)
  /\ \A todos, sorted, h :
        Meet!MayVisit(todos, sorted, h) <=> MayVisit(todos, sorted, h)
  /\ \A view, source : Meet!Represents(view, source) <=> Represents(view, source)
<1>1. Meet!NoEntries = NoEntries
  BY DEF Meet!NoEntries, NoEntries
<1>2. \A a, b : Meet!Lower(a, b) = Lower(a, b)
  BY DEF Meet!Lower, Lower
<1>3. \A f, h : Meet!Without(f, h) = Without(f, h)
  BY DEF Meet!Without, Without
<1>4. \A f, g : Meet!MergeSum(f, g) = MergeSum(f, g)
  BY DEF Meet!MergeSum, MergeSum, Meet!SumOf, SumOf
<1>5. \A f, g : Meet!MeetSum(f, g) = MeetSum(f, g)
  BY DEF Meet!MeetSum, MeetSum
<1>6. \A todos, sorted, h :
        Meet!MayVisit(todos, sorted, h) <=> MayVisit(todos, sorted, h)
  BY DEF Meet!MayVisit, MayVisit
<1>7. \A view, source : Meet!Represents(view, source) <=> Represents(view, source)
  BY DEF Meet!Represents, Represents, Meet!NeverRetained, NeverRetained
<1> QED BY <1>1, <1>2, <1>3, <1>4, <1>5, <1>6, <1>7

(* A table made for n entries never has to grow for them.                  *)
LEMMA SizeFromCount ==
  ASSUME NEW n \in 1 .. Cardinality(Hashes)
  PROVE  LET lg == Meet!LgSizeFromCountForRebuild(n)
         IN  /\ lg \in Nat \ {0}
             /\ (15 * 2 ^ lg) \div 16 \in Nat
             /\ n <= (15 * 2 ^ lg) \div 16
<1>0. Cardinality(Hashes) \in Nat
  <2>1. IsFiniteSet(Hashes)
    <3>1. IsFiniteSet(0 .. MaxTheta)
      BY FS_Interval
    <3> QED BY <3>1, FS_Subset
  <2> QED BY <2>1, FS_CardinalityType
<1>1. PICK top \in 0 .. Cardinality(Hashes) :
        /\ Cardinality(Hashes) < 2 ^ top
        /\ \A m \in 0 .. top + 1 :
             2 ^ m \in Nat /\ m < 2 ^ m /\ 2 ^ (m + 1) = 2 * 2 ^ m
  BY PowersOfTwoForCounts
<1>2. n \in Nat /\ n >= 1 /\ top \in Nat /\ n < 2 ^ top
  BY <1>0, <1>1
<1>3. n < 2 ^ (top + 1)
  BY <1>1, <1>2
<1> DEFINE IsLog(l) == n < 2 ^ (l + 1) /\ \A m \in 0 .. l - 1 : 2 ^ (m + 1) <= n
           T == {l \in Nat : l <= top /\ n < 2 ^ (l + 1)}
<1>4. \E l \in 0 .. n : IsLog(l)
  <2>1. T \in SUBSET Nat /\ T # {}
    BY <1>2, <1>3
  <2> HIDE DEF T
  <2>2. PICK l \in T : \A m \in T : l <= m
    BY <2>1, LeastNat
  <2> USE DEF T
  <2>3. \A m \in 0 .. l - 1 : 2 ^ (m + 1) <= n
    <3> TAKE m \in 0 .. l - 1
    <3>1. m \in Nat /\ m < l /\ m + 1 \in 0 .. top + 1
      BY <1>2, <2>2
    <3>2. 2 ^ (m + 1) \in Nat /\ m \notin T
      BY <1>1, <2>2, <3>1
    <3> QED BY <1>2, <2>2, <3>1, <3>2
  <2>4. l \in 0 .. n
    <3>1. CASE l = 0
      BY <1>2, <3>1
    <3>2. CASE l # 0
      <4>1. l - 1 \in 0 .. l - 1 /\ (l - 1) + 1 = l /\ l \in 0 .. top + 1
        BY <1>2, <2>2, <3>2
      <4>2. 2 ^ l <= n /\ l < 2 ^ l /\ 2 ^ l \in Nat
        BY <1>1, <2>3, <4>1
      <4> QED BY <1>2, <2>2, <4>2
    <3> QED BY <3>1, <3>2
  <2> QED BY <2>2, <2>3, <2>4
<1> DEFINE L == CHOOSE l \in 0 .. n : IsLog(l)
<1>5. L \in Nat /\ IsLog(L)
  <2> HIDE DEF IsLog
  <2>1. L \in 0 .. n /\ IsLog(L)
    BY <1>4, Zenon
  <2> QED BY <1>2, <2>1
<1>6. Meet!LgSizeFromCountForRebuild(n)
        = L + IF n > (15 * 2 ^ (L + 1)) \div 16 THEN 2 ELSE 1
  BY DEF Meet!LgSizeFromCountForRebuild
<1> HIDE DEF L
<1>7. L <= top
  <2> SUFFICES ASSUME L > top PROVE FALSE
    BY <1>2, <1>5
  <2>1. top \in 0 .. L - 1
    BY <1>2, <1>5
  <2>2. 2 ^ (top + 1) <= n /\ 2 ^ (top + 1) \in Nat
    BY <1>1, <1>2, <1>5, <2>1
  <2> QED BY <1>2, <1>3, <2>2
<1>8. PICK p \in Nat : p = 2 ^ L
  BY <1>1, <1>2, <1>5, <1>7
<1>9. 2 ^ (L + 1) = 2 * p /\ 2 ^ (L + 2) = 4 * p
  <2>1. L \in 0 .. top + 1 /\ L + 1 \in 0 .. top + 1 /\ (L + 1) + 1 = L + 2
    BY <1>2, <1>5, <1>7
  <2>2. 2 ^ (L + 1) = 2 * 2 ^ L /\ 2 ^ ((L + 1) + 1) = 2 * 2 ^ (L + 1)
    BY <1>1, <2>1
  <2> QED BY <1>8, <2>1, <2>2
<1>10. n < 2 * p
  BY <1>5, <1>9
<1>11. CASE n > (15 * (2 * p)) \div 16
  <2>1. Meet!LgSizeFromCountForRebuild(n) = L + 2
    BY <1>6, <1>9, <1>11
  <2>2. (15 * (4 * p)) \div 16 \in Nat /\ n <= (15 * (4 * p)) \div 16
    BY <1>2, <1>8, <1>10
  <2> QED BY <1>5, <1>9, <2>1, <2>2
<1>12. CASE ~(n > (15 * (2 * p)) \div 16)
  <2>1. Meet!LgSizeFromCountForRebuild(n) = L + 1
    BY <1>6, <1>9, <1>12
  <2>2. (15 * (2 * p)) \div 16 \in Nat /\ n <= (15 * (2 * p)) \div 16
    BY <1>2, <1>8, <1>12
  <2> QED BY <1>5, <1>9, <2>1, <2>2
<1> QED BY <1>11, <1>12

(* An empty table, with or without slots. *)
EmptyTable(t, theta, isEmpty) ==
  /\ TableShape(t, t.lgNom, 0)
  /\ Retained(t) = {} /\ t.theta = theta /\ t.isEmpty = isEmpty

LEMMA RawTable ==
  ASSUME NEW lg \in Nat, NEW lgNom \in Nat, lg <= lgNom + 1,
         NEW theta \in 0 .. MaxTheta, NEW isEmpty \in BOOLEAN
  PROVE  /\ EmptyTable(FromRawParts(lg, lgNom, 0, theta, isEmpty), theta, isEmpty)
         /\ FromRawParts(lg, lgNom, 0, theta, isEmpty).lgCur = lg
         /\ FromRawParts(lg, lgNom, 0, theta, isEmpty).lgNom = lgNom
<1> DEFINE t == FromRawParts(lg, lgNom, 0, theta, isEmpty)
<1>1. t = [entries |-> [h \in {} |-> Unit], theta |-> theta, isEmpty |-> isEmpty,
           lgCur |-> lg, lgNom |-> lgNom, lgResize |-> 0]
  BY DEF FromRawParts
<1> HIDE DEF t
<1>2. Retained(t) = {}
  BY <1>1 DEF Retained
<1>3. t.entries \in [Retained(t) -> Nat]
  BY <1>1, <1>2
<1>4. /\ t = [entries |-> t.entries, theta |-> t.theta, isEmpty |-> t.isEmpty,
               lgCur |-> t.lgCur, lgNom |-> lgNom, lgResize |-> 0]
      /\ t.theta = theta /\ t.isEmpty = isEmpty /\ t.lgCur = lg /\ t.lgNom = lgNom
  BY <1>1
<1>5. t.isEmpty \in BOOLEAN
  BY <1>4, Zenon
<1>6. TableShape(t, lgNom, 0)
  BY <1>2, <1>3, <1>4, <1>5 DEF TableShape
<1> QED BY <1>2, <1>4, <1>6 DEF EmptyTable, t

LEMMA DefaultTableEmpty ==
  ASSUME NEW theta \in 0 .. MaxTheta, NEW isEmpty \in BOOLEAN
  PROVE  EmptyTable(Meet!DefaultTable(theta, isEmpty), theta, isEmpty)
<1>1. Meet!DefaultTable(theta, isEmpty) = FromRawParts(0, 0, 0, theta, isEmpty)
  BY MeetTable DEF Meet!DefaultTable
<1>2. 0 \in Nat /\ 0 <= 0 + 1
  OBVIOUS
<1> QED BY <1>1, <1>2, RawTable

LEMMA SizedTableEmpty ==
  ASSUME NEW n \in 1 .. Cardinality(Hashes),
         NEW theta \in 0 .. MaxTheta, NEW isEmpty \in BOOLEAN
  PROVE  LET t == Meet!SizedTable(n, theta, isEmpty)
         IN  /\ EmptyTable(t, theta, isEmpty)
             /\ CapacityThreshold(t) \in Nat /\ n <= CapacityThreshold(t)
<1> DEFINE lg == Meet!LgSizeFromCountForRebuild(n)
           t == Meet!SizedTable(n, theta, isEmpty)
<1>1. t = FromRawParts(lg, lg - 1, 0, theta, isEmpty)
  BY MeetTable DEF Meet!SizedTable
<1>2. /\ lg \in Nat \ {0}
      /\ (15 * 2 ^ lg) \div 16 \in Nat /\ n <= (15 * 2 ^ lg) \div 16
  BY SizeFromCount
<1> HIDE DEF lg, t
<1>3. lg \in Nat /\ lg - 1 \in Nat /\ lg <= (lg - 1) + 1
  BY <1>2
<1>4. EmptyTable(t, theta, isEmpty) /\ t.lgCur = lg /\ t.lgNom = lg - 1
  BY <1>1, <1>3, RawTable
<1>5. CapacityThreshold(t) = (15 * 2 ^ lg) \div 16
  BY <1>2, <1>4 DEF CapacityThreshold, SlotCount
<1> QED BY <1>2, <1>4, <1>5 DEF t

(* Between two calls the table holds the common keys below its theta.      *)
Due == {h \in DOMAIN common : 0 < h /\ h < iTable.theta}

MeetTyped ==
  /\ TableShape(iTable, iTable.lgNom, 0)
  /\ hasResult \in BOOLEAN
  /\ phase \in {"idle", "first", "match", "rebuild"}
  /\ iTodo \in [DOMAIN iTodo -> Nat] /\ DOMAIN iTodo \subseteq Hashes
  /\ numInput \in Nat /\ count \in Nat
  /\ matched \in [DOMAIN matched -> Nat] /\ DOMAIN matched \subseteq Hashes
  /\ common \in [DOMAIN common -> Nat] /\ DOMAIN common \subseteq Hashes
  /\ iMinTheta \in 0 .. MaxTheta
  /\ iUpdates \in 0 .. MaxUpdates

(* Before the first input, and after it. *)
Started ==
  /\ ~hasResult => /\ phase = "idle" /\ iUpdates = 0
                   /\ iTable.theta = MaxTheta /\ ~iTable.isEmpty
                   /\ iMinTheta = MaxTheta
  /\ hasResult => /\ iUpdates > 0
                  /\ iTable.theta = IF iTable.isEmpty THEN MaxTheta ELSE iMinTheta
                  /\ iTable.isEmpty => DOMAIN common \subseteq NeverRetained
  /\ phase # "idle" => ~iTable.isEmpty

Settled ==
  phase = "idle" /\ hasResult =>
    /\ Retained(iTable) = Due
    /\ \A h \in Due : iTable.entries[h] = common[h]

(* While a table is filled, its entries and those to come are the common   *)
(* ones, and it has room for all of them.                                  *)
Copying ==
  phase \in {"first", "rebuild"} =>
    /\ Retained(iTable) \cup DOMAIN iTodo = Due
    /\ Retained(iTable) \cap DOMAIN iTodo = {}
    /\ \A h \in Retained(iTable) : iTable.entries[h] = common[h]
    /\ \A h \in DOMAIN iTodo : iTodo[h] = common[h]
    /\ CapacityThreshold(iTable) \in Nat
    /\ Cardinality(Due) <= CapacityThreshold(iTable)
    /\ phase = "first" => numInput = Cardinality(Due)

(* While an input is matched with the table, a common key has been matched *)
(* or is both in the table and still to be visited.                        *)
Matching ==
  phase = "match" =>
    /\ \A h \in DOMAIN iTodo : 0 < h
    /\ \A h \in Hashes : 0 < h /\ h < iTable.theta =>
         h \in DOMAIN common
           <=> h \in DOMAIN matched \/ h \in Retained(iTable) \cap DOMAIN iTodo
    /\ \A h \in Retained(iTable) \cap DOMAIN iTodo :
         h < iTable.theta => iTable.entries[h] + iTodo[h] = common[h]
    /\ \A h \in DOMAIN matched :
         /\ h \in Due /\ h \in Retained(iTable) /\ h \notin DOMAIN iTodo
         /\ matched[h] = common[h]
    /\ Cardinality(DOMAIN matched) <= count
    /\ count + Cardinality(DOMAIN iTodo) <= numInput
    /\ ~iOrdered => count + Cardinality(DOMAIN iTodo) = numInput

MeetInv ==
  /\ ~failed
  /\ MeetTyped
  /\ Started
  /\ Settled
  /\ Copying
  /\ Matching

(* An intersection that was just built, or dropped. *)
MeetFresh ==
  /\ EmptyTable(iTable, MaxTheta, FALSE)
  /\ hasResult = FALSE /\ phase = "idle" /\ iTodo = NoEntries
  /\ numInput = 0 /\ matched = NoEntries /\ count = 0 /\ failed = FALSE
  /\ common = NoEntries /\ iMinTheta = MaxTheta /\ iUpdates = 0

LEMMA MeetFreshInv == MeetFresh => MeetInv
<1> SUFFICES ASSUME MeetFresh PROVE MeetInv
  OBVIOUS
<1>1. DOMAIN NoEntries = {} /\ NoEntries \in [DOMAIN NoEntries -> Nat]
  BY DEF NoEntries
<1>2. /\ TableShape(iTable, iTable.lgNom, 0)
      /\ iTable.theta = MaxTheta /\ iTable.isEmpty = FALSE
  BY DEF MeetFresh, EmptyTable
<1>3. hasResult = FALSE /\ phase = "idle" /\ ~failed
  BY DEF MeetFresh
<1>4. MeetTyped
  <2>1. hasResult \in BOOLEAN
    BY <1>3, Zenon
  <2> QED BY <1>1, <1>2, <1>3, <2>1 DEF MeetFresh, MeetTyped
<1>5. Started
  BY <1>2, <1>3 DEF MeetFresh, Started
<1> QED BY <1>3, <1>4, <1>5 DEF MeetInv, Settled, Copying, Matching

LEMMA MeetInitInv == Meet!Init => MeetInv
<1>1. Meet!Init => MeetFresh
  <2>1. EmptyTable(Meet!DefaultTable(MaxTheta, FALSE), MaxTheta, FALSE)
    <3>1. MaxTheta \in 0 .. MaxTheta
      OBVIOUS
    <3>2. FALSE \in BOOLEAN
      OBVIOUS
    <3> QED BY <3>1, <3>2, DefaultTableEmpty
  <2> QED BY <2>1, MeetViews DEF Meet!Init, MeetFresh
<1> QED BY <1>1, MeetFreshInv

(* The scalars after an input was accepted. *)
LEMMA AcceptFacts ==
  ASSUME MeetInv, NEW i, HonoursContract(i), Meet!Accept(i)
  PROVE  LET theta == Meet!NewTheta(i.view)
         IN  /\ phase = "idle" /\ ~iTable.isEmpty /\ ~failed'
             /\ theta \in 0 .. MaxTheta /\ i.view.empty \in BOOLEAN
             /\ iUpdates' \in 1 .. MaxUpdates
             /\ iMinTheta' \in 0 .. MaxTheta
             /\ theta = IF i.view.empty THEN MaxTheta ELSE iMinTheta'
             /\ common' = IF hasResult THEN MeetSum(common, i.source) ELSE i.source
             /\ common' \in [DOMAIN common' -> Nat]
             /\ DOMAIN common' \subseteq DOMAIN i.source
             /\ DOMAIN common' \subseteq Hashes
             /\ DOMAIN i.view.entries = {h \in DOMAIN i.source : 0 < h /\ h < i.view.theta}
             /\ \A h \in DOMAIN i.view.entries : i.view.entries[h] = i.source[h]
             /\ i.view.entries \in [DOMAIN i.view.entries -> Nat]
             /\ i.view.empty => DOMAIN i.source \subseteq NeverRetained
             /\ ~i.view.empty => theta = Lower(iTable.theta, i.view.theta)
             /\ i.view.theta \in 0 .. MaxTheta /\ iTable.theta \in 0 .. MaxTheta
<1> DEFINE theta == Meet!NewTheta(i.view)
<1>1. /\ phase = "idle" /\ ~failed /\ iUpdates < MaxUpdates /\ ~iTable.isEmpty
      /\ common' = IF iUpdates = 0 THEN i.source ELSE MeetSum(common, i.source)
      /\ iMinTheta' = IF i.view.empty THEN iMinTheta ELSE Lower(iMinTheta, i.view.theta)
      /\ iUpdates' = iUpdates + 1
      /\ failed' = failed
  BY MeetViews DEF Meet!Accept, Meet!Skips
<1>2. theta = IF i.view.empty THEN MaxTheta ELSE Lower(iTable.theta, i.view.theta)
  BY MeetViews DEF Meet!NewTheta
<1> HIDE DEF theta
<1>3. MeetTyped /\ Started
  BY DEF MeetInv
<1>4. /\ i.source \in [DOMAIN i.source -> Nat] /\ DOMAIN i.source \subseteq Hashes
      /\ i.view.theta \in 0 .. MaxTheta /\ i.view.empty \in BOOLEAN
      /\ i.view.entries \in [DOMAIN i.view.entries -> Nat]
      /\ DOMAIN i.view.entries = {h \in DOMAIN i.source : 0 < h /\ h < i.view.theta}
      /\ \A h \in DOMAIN i.view.entries : i.view.entries[h] = i.source[h]
      /\ i.view.empty => DOMAIN i.source \subseteq NeverRetained
  BY DEF HonoursContract, Represents
<1>5. /\ iTable.theta \in 0 .. MaxTheta /\ iMinTheta \in 0 .. MaxTheta
      /\ iUpdates \in 0 .. MaxUpdates
      /\ common \in [DOMAIN common -> Nat] /\ DOMAIN common \subseteq Hashes
  BY <1>3 DEF MeetTyped, TableShape
<1>6. (iUpdates = 0 <=> ~hasResult) /\ iTable.theta = iMinTheta
  BY <1>1, <1>3, <1>5 DEF Started, MeetTyped
<1>7. common' = IF hasResult THEN MeetSum(common, i.source) ELSE i.source
  BY <1>1, <1>6
<1>8. /\ common' \in [DOMAIN common' -> Nat]
      /\ DOMAIN common' \subseteq DOMAIN i.source
  <2>1. CASE hasResult
    <3>1. \A h \in DOMAIN common \cap DOMAIN i.source :
            common[h] \in Nat /\ i.source[h] \in Nat
      BY <1>4, <1>5
    <3> QED BY <1>7, <2>1, <3>1 DEF MeetSum
  <2>2. CASE ~hasResult
    BY <1>4, <1>7, <2>2
  <2> QED BY <2>1, <2>2
<1>9. theta \in 0 .. MaxTheta /\ iMinTheta' \in 0 .. MaxTheta
      /\ theta = IF i.view.empty THEN MaxTheta ELSE iMinTheta'
  BY <1>1, <1>2, <1>4, <1>5, <1>6 DEF Lower
<1>10. iUpdates' \in 1 .. MaxUpdates
  BY <1>1, <1>5
<1>11. ~failed'
  BY <1>1
<1> QED BY <1>1, <1>2, <1>4, <1>5, <1>7, <1>8, <1>9, <1>10, <1>11 DEF theta

(* Between two calls: what makes up the invariant. *)
LEMMA SettledInv ==
  ASSUME MeetTyped', ~failed', phase' = "idle", hasResult', iUpdates' > 0,
         iTable'.theta = IF iTable'.isEmpty THEN MaxTheta ELSE iMinTheta',
         iTable'.isEmpty => DOMAIN common' \subseteq NeverRetained,
         Retained(iTable') = Due',
         \A h \in Retained(iTable') : iTable'.entries[h] = common'[h]
  PROVE  MeetInv'
<1>1. Started'
  BY DEF Started
<1>2. Settled' /\ Copying' /\ Matching'
  BY DEF Settled, Copying, Matching
<1> QED BY <1>1, <1>2 DEF MeetInv

(* No common key below theta is left. *)
LEMMA NothingDue ==
  ASSUME MeetInv, NEW i, HonoursContract(i), Meet!Accept(i),
         iTable'.theta = Meet!NewTheta(i.view),
         \/ hasResult /\ Retained(iTable) = {}
         \/ DOMAIN i.view.entries = {}
  PROVE  Due' = {}
<1> DEFINE theta == Meet!NewTheta(i.view)
<1>1. /\ theta \in 0 .. MaxTheta /\ phase = "idle"
      /\ common' = IF hasResult THEN MeetSum(common, i.source) ELSE i.source
      /\ DOMAIN common' \subseteq DOMAIN i.source
      /\ DOMAIN common' \subseteq Hashes
      /\ DOMAIN i.view.entries = {h \in DOMAIN i.source : 0 < h /\ h < i.view.theta}
      /\ i.view.empty => DOMAIN i.source \subseteq NeverRetained
      /\ ~i.view.empty => theta = Lower(iTable.theta, i.view.theta)
      /\ i.view.theta \in 0 .. MaxTheta /\ iTable.theta \in 0 .. MaxTheta
  BY AcceptFacts
<1> HIDE DEF theta
<1>2. Due' = {h \in DOMAIN common' : 0 < h /\ h < theta}
  BY DEF Due, theta
<1> SUFFICES ASSUME NEW h \in DOMAIN common', 0 < h, h < theta PROVE FALSE
  BY <1>2
<1>3. h \in Nat /\ h \in DOMAIN i.source
  <2>1. h \in Hashes /\ h \in DOMAIN i.source
    BY <1>1
  <2>2. \A g \in Hashes : g \in Nat
    OBVIOUS
  <2> QED BY <2>1, <2>2
<1>4. ~i.view.empty
  BY <1>1, <1>3 DEF NeverRetained
<1>5. h < iTable.theta /\ h < i.view.theta
  BY <1>1, <1>3, <1>4 DEF Lower
<1>6. DOMAIN i.view.entries # {}
  BY <1>1, <1>3, <1>5
<1>7. hasResult /\ Retained(iTable) = {}
  BY <1>6
<1>8. h \in DOMAIN common
  BY <1>1, <1>7 DEF MeetSum
<1>9. Settled
  BY DEF MeetInv
<1> QED BY <1>1, <1>5, <1>7, <1>8, <1>9 DEF Settled, Due

LEMMA NothingLeftInv ==
  ASSUME MeetInv, NEW i, HonoursContract(i), Meet!UpdateNothingLeft(i)
  PROVE  MeetInv'
<1> DEFINE theta == Meet!NewTheta(i.view)
<1>1. /\ Meet!Accept(i) /\ hasResult /\ NumRetained(iTable) = 0
      /\ iTable' = [iTable EXCEPT !.theta = theta, !.isEmpty = i.view.empty]
      /\ hasResult' = hasResult /\ phase' = phase
      /\ UNCHANGED <<iTodo, iOrdered, numInput, matched, count>>
  BY MeetTable DEF Meet!UpdateNothingLeft, Meet!loop
<1>2. /\ phase = "idle" /\ ~failed'
      /\ theta \in 0 .. MaxTheta /\ i.view.empty \in BOOLEAN
      /\ iUpdates' \in 1 .. MaxUpdates /\ iMinTheta' \in 0 .. MaxTheta
      /\ theta = IF i.view.empty THEN MaxTheta ELSE iMinTheta'
      /\ common' \in [DOMAIN common' -> Nat]
      /\ DOMAIN common' \subseteq DOMAIN i.source
      /\ DOMAIN common' \subseteq Hashes
      /\ i.view.empty => DOMAIN i.source \subseteq NeverRetained
  BY <1>1, AcceptFacts
<1>3. MeetTyped
  BY DEF MeetInv
<1> HIDE DEF theta
<1>4. iTable' = [entries |-> iTable.entries, theta |-> theta, isEmpty |-> i.view.empty,
                 lgCur |-> iTable.lgCur, lgNom |-> iTable.lgNom, lgResize |-> 0]
  <2>1. TableShape(iTable, iTable.lgNom, 0)
    BY <1>3 DEF MeetTyped
  <2>2. iTable' = Rescaled(iTable, theta, i.view.empty)
    BY <1>1, Zenon DEF Rescaled
  <2> QED BY <2>1, <2>2, RescaledFields
<1>5. /\ TableShape(iTable', iTable'.lgNom, 0) /\ Retained(iTable') = Retained(iTable)
      /\ iTable'.theta = theta /\ iTable'.isEmpty = i.view.empty
  BY <1>2, <1>3, <1>4 DEF MeetTyped, TableShape, Retained
<1>6. Retained(iTable) = {}
  <2>1. IsFiniteSet(Retained(iTable))
    BY <1>3, RetainedFinite DEF MeetTyped
  <2> QED BY <1>1, <2>1, FS_EmptySet DEF NumRetained
<1>7. MeetTyped'
  BY <1>1, <1>2, <1>3, <1>5 DEF MeetTyped
<1>8. Due' = {}
  BY <1>1, <1>5, <1>6, NothingDue DEF theta
<1> QED BY <1>1, <1>2, <1>5, <1>6, <1>7, <1>8, SettledInv

LEMMA NothingGivenInv ==
  ASSUME MeetInv, NEW i, HonoursContract(i), Meet!UpdateNothingGiven(i)
  PROVE  MeetInv'
<1> DEFINE theta == Meet!NewTheta(i.view)
<1>1. /\ Meet!Accept(i) /\ DOMAIN i.view.entries = {}
      /\ hasResult' = TRUE
      /\ iTable' = Meet!DefaultTable(theta, i.view.empty)
      /\ phase' = phase
      /\ UNCHANGED <<iTodo, iOrdered, numInput, matched, count>>
  BY DEF Meet!UpdateNothingGiven, Meet!loop
<1>2. /\ phase = "idle" /\ ~failed'
      /\ theta \in 0 .. MaxTheta /\ i.view.empty \in BOOLEAN
      /\ iUpdates' \in 1 .. MaxUpdates /\ iMinTheta' \in 0 .. MaxTheta
      /\ theta = IF i.view.empty THEN MaxTheta ELSE iMinTheta'
      /\ common' \in [DOMAIN common' -> Nat]
      /\ DOMAIN common' \subseteq DOMAIN i.source
      /\ DOMAIN common' \subseteq Hashes
      /\ i.view.empty => DOMAIN i.source \subseteq NeverRetained
  BY <1>1, AcceptFacts
<1>3. MeetTyped
  BY DEF MeetInv
<1> HIDE DEF theta
<1>5. /\ TableShape(iTable', iTable'.lgNom, 0) /\ Retained(iTable') = {}
      /\ iTable'.theta = theta /\ iTable'.isEmpty = i.view.empty
  BY <1>1, <1>2, DefaultTableEmpty DEF EmptyTable
<1>7. MeetTyped'
  <2>1. hasResult' \in BOOLEAN
    BY <1>1, Zenon
  <2> QED BY <1>1, <1>2, <1>3, <1>5, <2>1 DEF MeetTyped
<1>8. Due' = {}
  BY <1>1, <1>5, NothingDue DEF theta
<1> QED BY <1>1, <1>2, <1>5, <1>7, <1>8, SettledInv

(* Hashes are numbers, and sets of them are finite. *)
LEMMA HashSets ==
  /\ \A h \in Hashes : h \in Nat
  /\ \A S : S \subseteq Hashes =>
       /\ IsFiniteSet(S) /\ Cardinality(S) \in 0 .. Cardinality(Hashes)
       /\ S # {} => Cardinality(S) \in 1 .. Cardinality(Hashes)
<1>1. IsFiniteSet(Hashes)
  <2>1. IsFiniteSet(0 .. MaxTheta)
    BY FS_Interval
  <2> QED BY <2>1, FS_Subset
<1>2. ASSUME NEW S, S \subseteq Hashes
      PROVE  /\ IsFiniteSet(S) /\ Cardinality(S) \in 0 .. Cardinality(Hashes)
             /\ S # {} => Cardinality(S) \in 1 .. Cardinality(Hashes)
  <2>1. IsFiniteSet(S) /\ Cardinality(S) <= Cardinality(Hashes)
    BY <1>1, <1>2, FS_Subset
  <2>2. Cardinality(S) \in Nat /\ Cardinality(Hashes) \in Nat
    BY <1>1, <2>1, FS_CardinalityType
  <2>3. S # {} => Cardinality(S) # 0
    BY <2>1, FS_EmptySet
  <2> QED BY <2>1, <2>2, <2>3
<1>3. \A h \in Hashes : h \in Nat
  OBVIOUS
<1> QED BY <1>2, <1>3

(* An empty sketch has no entries. *)
LEMMA EntriesMeanNotEmpty ==
  ASSUME NEW i, HonoursContract(i), DOMAIN i.view.entries # {}
  PROVE  ~i.view.empty
<1>1. /\ DOMAIN i.view.entries = {h \in DOMAIN i.source : 0 < h /\ h < i.view.theta}
      /\ i.view.empty => DOMAIN i.source \subseteq NeverRetained
      /\ DOMAIN i.source \subseteq Hashes /\ i.view.theta \in 0 .. MaxTheta
  BY DEF HonoursContract, Represents
<1>2. PICK h \in DOMAIN i.source : 0 < h /\ h < i.view.theta
  BY <1>1
<1>3. h \in Nat
  BY <1>1, HashSets
<1> QED BY <1>1, <1>2, <1>3 DEF NeverRetained

LEMMA BeginFirstInv ==
  ASSUME MeetInv, NEW i, HonoursContract(i), Meet!BeginFirst(i)
  PROVE  MeetInv'
<1> DEFINE theta == Meet!NewTheta(i.view)
           n == Cardinality(DOMAIN i.view.entries)
<1>1. /\ Meet!Accept(i) /\ ~hasResult /\ DOMAIN i.view.entries # {}
      /\ hasResult' = TRUE
      /\ iTable' = Meet!SizedTable(n, theta, i.view.empty)
      /\ phase' = "first" /\ iTodo' = i.view.entries
      /\ numInput' = n
      /\ matched' = NoEntries /\ count' = 0
  BY MeetViews, MeetCardinality DEF Meet!BeginFirst, Meet!StartLoop
<1>2. /\ ~failed'
      /\ theta \in 0 .. MaxTheta /\ i.view.empty \in BOOLEAN
      /\ iUpdates' \in 1 .. MaxUpdates /\ iMinTheta' \in 0 .. MaxTheta
      /\ theta = IF i.view.empty THEN MaxTheta ELSE iMinTheta'
      /\ common' = i.source
      /\ common' \in [DOMAIN common' -> Nat]
      /\ DOMAIN common' \subseteq Hashes
      /\ DOMAIN i.view.entries = {h \in DOMAIN i.source : 0 < h /\ h < i.view.theta}
      /\ \A h \in DOMAIN i.view.entries : i.view.entries[h] = i.source[h]
      /\ i.view.entries \in [DOMAIN i.view.entries -> Nat]
      /\ ~i.view.empty => theta = Lower(iTable.theta, i.view.theta)
      /\ i.view.theta \in 0 .. MaxTheta /\ iTable.theta \in 0 .. MaxTheta
  BY <1>1, AcceptFacts
<1> HIDE DEF theta
<1>3. /\ ~i.view.empty /\ MeetTyped /\ iTable.theta = MaxTheta
  BY <1>1, EntriesMeanNotEmpty DEF MeetInv, Started
<1>4. theta = i.view.theta /\ theta = iMinTheta'
  BY <1>2, <1>3 DEF Lower
<1>5. DOMAIN i.view.entries \subseteq Hashes /\ n \in 1 .. Cardinality(Hashes)
  <2>1. DOMAIN i.view.entries \subseteq Hashes
    BY <1>2
  <2> QED BY <1>1, <2>1, HashSets
<1>6. n \in Nat
  BY <1>5, HashSets
<1>7. /\ EmptyTable(iTable', theta, i.view.empty)
      /\ CapacityThreshold(iTable') \in Nat /\ n <= CapacityThreshold(iTable')
  <2> HIDE DEF n
  <2> QED BY <1>1, <1>2, <1>5, SizedTableEmpty
<1> HIDE DEF n
<1>8. /\ TableShape(iTable', iTable'.lgNom, 0) /\ Retained(iTable') = {}
      /\ iTable'.theta = theta /\ iTable'.isEmpty = i.view.empty
  BY <1>7 DEF EmptyTable
<1>9. Due' = DOMAIN i.view.entries
  BY <1>2, <1>4, <1>8 DEF Due
<1>10. MeetTyped'
  <2>1. hasResult' \in BOOLEAN
    BY <1>1, Zenon
  <2>2. matched' \in [DOMAIN matched' -> Nat] /\ DOMAIN matched' \subseteq Hashes
    BY <1>1 DEF NoEntries
  <2>3. phase' \in {"idle", "first", "match", "rebuild"}
    BY <1>1
  <2>4. iTodo' \in [DOMAIN iTodo' -> Nat] /\ DOMAIN iTodo' \subseteq Hashes
    BY <1>1, <1>2, <1>5
  <2> QED BY <1>1, <1>2, <1>6, <1>8, <2>1, <2>2, <2>3, <2>4 DEF MeetTyped
<1>11. Started'
  BY <1>1, <1>2, <1>3, <1>4, <1>8 DEF Started
<1>12. Copying'
  <2>1. /\ Retained(iTable') \cup DOMAIN iTodo' = Due'
        /\ Retained(iTable') \cap DOMAIN iTodo' = {}
        /\ Cardinality(Due') = n
    BY <1>1, <1>8, <1>9 DEF n
  <2>2. \A h \in DOMAIN iTodo' : iTodo'[h] = common'[h]
    BY <1>1, <1>2
  <2> QED BY <1>1, <1>7, <1>8, <2>1, <2>2 DEF Copying
<1>13. Settled' /\ Matching'
  BY <1>1 DEF Settled, Matching
<1> QED BY <1>2, <1>10, <1>11, <1>12, <1>13 DEF MeetInv

LEMMA BeginMatchInv ==
  ASSUME MeetInv, NEW i, HonoursContract(i), Meet!BeginMatch(i)
  PROVE  MeetInv'
<1> DEFINE theta == Meet!NewTheta(i.view)
           n == Cardinality(DOMAIN i.view.entries)
<1>1. /\ Meet!Accept(i) /\ hasResult /\ DOMAIN i.view.entries # {}
      /\ hasResult' = hasResult
      /\ iTable' = [iTable EXCEPT !.theta = theta, !.isEmpty = i.view.empty]
      /\ phase' = "match" /\ iTodo' = i.view.entries
      /\ numInput' = n
      /\ matched' = NoEntries /\ count' = 0
  BY MeetViews, MeetCardinality DEF Meet!BeginMatch, Meet!StartLoop
<1>2. /\ phase = "idle" /\ ~failed'
      /\ theta \in 0 .. MaxTheta /\ i.view.empty \in BOOLEAN
      /\ iUpdates' \in 1 .. MaxUpdates /\ iMinTheta' \in 0 .. MaxTheta
      /\ theta = IF i.view.empty THEN MaxTheta ELSE iMinTheta'
      /\ common' = MeetSum(common, i.source)
      /\ common' \in [DOMAIN common' -> Nat]
      /\ DOMAIN common' \subseteq Hashes
      /\ DOMAIN i.view.entries = {h \in DOMAIN i.source : 0 < h /\ h < i.view.theta}
      /\ \A h \in DOMAIN i.view.entries : i.view.entries[h] = i.source[h]
      /\ i.view.entries \in [DOMAIN i.view.entries -> Nat]
      /\ ~i.view.empty => theta = Lower(iTable.theta, i.view.theta)
      /\ i.view.theta \in 0 .. MaxTheta /\ iTable.theta \in 0 .. MaxTheta
  BY <1>1, AcceptFacts
<1> HIDE DEF theta
<1>3. /\ ~i.view.empty /\ MeetTyped /\ Settled
  BY <1>1, EntriesMeanNotEmpty DEF MeetInv
<1>4. theta = Lower(iTable.theta, i.view.theta) /\ theta = iMinTheta'
  BY <1>2, <1>3
<1>5. DOMAIN i.view.entries \subseteq Hashes
  <2>1. DOMAIN i.source \subseteq Hashes
    BY DEF HonoursContract
  <2> QED BY <1>2, <2>1
<1>6. n \in Nat
  BY <1>5, HashSets
<1> HIDE DEF n
<1>7. iTable' = [entries |-> iTable.entries, theta |-> theta, isEmpty |-> i.view.empty,
                 lgCur |-> iTable.lgCur, lgNom |-> iTable.lgNom, lgResize |-> 0]
  <2>1. TableShape(iTable, iTable.lgNom, 0)
    BY <1>3 DEF MeetTyped
  <2>2. iTable' = Rescaled(iTable, theta, i.view.empty)
    BY <1>1, Zenon DEF Rescaled
  <2> QED BY <2>1, <2>2, RescaledFields
<1>8. /\ TableShape(iTable', iTable'.lgNom, 0) /\ Retained(iTable') = Retained(iTable)
      /\ iTable'.theta = theta /\ iTable'.isEmpty = i.view.empty
      /\ iTable'.entries = iTable.entries
  BY <1>2, <1>3, <1>7 DEF MeetTyped, TableShape, Retained
<1>9. DOMAIN matched' = {} /\ matched' \in [DOMAIN matched' -> Nat]
  BY <1>1 DEF NoEntries
<1>10. MeetTyped'
  <2>1. phase' \in {"idle", "first", "match", "rebuild"}
    BY <1>1
  <2>2. iTodo' \in [DOMAIN iTodo' -> Nat] /\ DOMAIN iTodo' \subseteq Hashes
    BY <1>1, <1>2, <1>5
  <2>3. hasResult' \in BOOLEAN
    BY <1>1, <1>3 DEF MeetTyped
  <2> QED BY <1>1, <1>2, <1>6, <1>8, <1>9, <2>1, <2>2, <2>3 DEF MeetTyped
<1>11. Started'
  BY <1>1, <1>2, <1>3, <1>4, <1>8 DEF Started
<1>12. Matching'
  <2>1. \A h \in DOMAIN iTodo' : 0 < h
    BY <1>1, <1>2
  <2>2. ASSUME NEW h \in Hashes, 0 < h, h < iTable'.theta
        PROVE  /\ h \in DOMAIN common' <=> h \in Retained(iTable') \cap DOMAIN iTodo'
               /\ h \in DOMAIN common' => iTable'.entries[h] + iTodo'[h] = common'[h]
    <3>1. h \in Nat /\ h < iTable.theta /\ h < i.view.theta
      <4>1. h \in Nat
        BY HashSets
      <4> QED BY <1>2, <1>4, <1>8, <2>2, <4>1 DEF Lower
    <3>2. /\ h \in DOMAIN common <=> h \in Retained(iTable)
          /\ h \in Retained(iTable) => iTable.entries[h] = common[h]
      BY <1>1, <1>2, <1>3, <2>2, <3>1 DEF Settled, Due
    <3>3. h \in DOMAIN i.source <=> h \in DOMAIN i.view.entries
      BY <1>2, <2>2, <3>1
    <3> QED BY <1>1, <1>2, <1>8, <3>2, <3>3 DEF MeetSum
  <2>3. \A h \in Retained(iTable') \cap DOMAIN iTodo' :
          h < iTable'.theta => iTable'.entries[h] + iTodo'[h] = common'[h]
    BY <1>1, <1>5, <2>1, <2>2
  <2>4. Cardinality(DOMAIN matched') = 0
    BY <1>9, FS_EmptySet
  <2>5. Cardinality(DOMAIN iTodo') = n
    BY <1>1 DEF n
  <2> QED BY <1>1, <1>6, <1>9, <2>1, <2>2, <2>3, <2>4, <2>5 DEF Matching
<1>13. Settled' /\ Copying'
  BY <1>1 DEF Settled, Copying
<1> QED BY <1>2, <1>10, <1>11, <1>12, <1>13 DEF MeetInv
Stored(t, h, v, r) ==
  /\ TableShape(r, r.lgNom, 0)
  /\ r.theta = t.theta /\ r.isEmpty = FALSE
  /\ CapacityThreshold(r) = CapacityThreshold(t)
  /\ Retained(r) = Retained(t) \cup {h}
  /\ r.entries[h] = v
  /\ \A g \in Retained(t) \ {h} : r.entries[g] = t.entries[g]

(* A new entry of a table with room for it is stored; nothing else moves.  *)
LEMMA CopyEffect ==
  ASSUME NEW t, TableShape(t, t.lgNom, 0), NEW h \in Hashes, NEW v \in Nat,
         0 < h, h < t.theta, h \notin Retained(t),
         CapacityThreshold(t) \in Nat,
         Cardinality(Retained(t) \cup {h}) <= CapacityThreshold(t)
  PROVE  Stored(t, h, v, UpsertEntry(t, h, v, t.entries[h]))
<1> DEFINE w == WithEntry(t, h, v)
           r == UpsertEntry(t, h, v, t.entries[h])
<1>1. /\ TableShape(w, t.lgNom, 0) /\ ~w.isEmpty
      /\ w.theta = t.theta /\ w.lgCur = t.lgCur
      /\ Retained(w) = Retained(t) \cup {h}
      /\ w.entries[h] = v
      /\ \A g \in Retained(t) \ {h} : w.entries[g] = t.entries[g]
  <2>1. EntryAdded(t.lgNom, 0, t, h, v, w)
    BY WithEntryFacts
  <2> QED BY <2>1 DEF EntryAdded
<1>2. ~Screened(t, h)
  <2>1. h \in Nat /\ t.theta \in Nat
    BY HashSets DEF TableShape
  <2> QED BY <2>1 DEF Screened
<1>3. r = ResizeOrRebuild(w)
  BY <1>2 DEF UpsertEntry
<1> HIDE DEF w, r
<1>4. w.lgNom = t.lgNom /\ w.isEmpty \in BOOLEAN
  BY <1>1 DEF TableShape
<1>5. CapacityThreshold(w) = CapacityThreshold(t)
  BY <1>1, <1>4 DEF CapacityThreshold
<1>6. NumRetained(w) <= CapacityThreshold(w)
  BY <1>1, <1>5 DEF NumRetained
<1>7. r = w
  BY <1>3, <1>6 DEF ResizeOrRebuild
<1>8. r.isEmpty = FALSE
  BY <1>1, <1>4, <1>7, Zenon
<1> QED BY <1>1, <1>4, <1>5, <1>7, <1>8 DEF r, Stored

LEMMA CopyInv ==
  ASSUME MeetInv, NEW h \in DOMAIN iTodo, Meet!CopyEntry(h)
  PROVE  MeetInv'
<1>1. /\ phase \in {"first", "rebuild"}
      /\ UNCHANGED <<hasResult, common, iMinTheta, iUpdates>>
      /\ Creates(iTable, h) =>
           /\ iTable' = UpsertEntry(iTable, h, iTodo[h], iTable.entries[h])
           /\ iTodo' = Without(iTodo, h)
           /\ UNCHANGED <<phase, iOrdered, numInput, matched, count, failed>>
  BY MeetTable, MeetViews DEF Meet!CopyEntry, Meet!history
<1>2. MeetTyped /\ Started /\ Copying /\ ~failed
  BY DEF MeetInv
<1>3. /\ TableShape(iTable, iTable.lgNom, 0) /\ iTable.theta \in 0 .. MaxTheta
      /\ iTodo \in [DOMAIN iTodo -> Nat] /\ DOMAIN iTodo \subseteq Hashes
      /\ DOMAIN common \subseteq Hashes
      /\ h \in Hashes
  BY <1>2 DEF MeetTyped, TableShape
<1>4. /\ Retained(iTable) \cup DOMAIN iTodo = Due
      /\ Retained(iTable) \cap DOMAIN iTodo = {}
      /\ \A g \in Retained(iTable) : iTable.entries[g] = common[g]
      /\ \A g \in DOMAIN iTodo : iTodo[g] = common[g]
      /\ CapacityThreshold(iTable) \in Nat
      /\ Cardinality(Due) <= CapacityThreshold(iTable)
      /\ phase = "first" => numInput = Cardinality(Due)
  BY <1>1, <1>2 DEF Copying
<1>5. 0 < h /\ h < iTable.theta /\ h \notin Retained(iTable) /\ h \in Nat
  BY <1>3, <1>4, HashSets DEF Due
<1>6. Creates(iTable, h)
  BY <1>3, <1>5 DEF Creates, Screened
<1>7. PICK v \in Nat : v = iTodo[h]
  BY <1>3
<1>8. /\ iTable' = UpsertEntry(iTable, h, v, iTable.entries[h])
      /\ iTodo' = Without(iTodo, h)
      /\ UNCHANGED <<phase, iOrdered, numInput, matched, count, failed>>
  BY <1>1, <1>6, <1>7
<1>9. Cardinality(Retained(iTable) \cup {h}) <= CapacityThreshold(iTable)
  <2>1. Due \subseteq Hashes
    BY <1>3 DEF Due
  <2>2. IsFiniteSet(Due) /\ Cardinality(Due) \in Nat
    BY <2>1, HashSets, FS_CardinalityType
  <2>3. Retained(iTable) \cup {h} \subseteq Due
    BY <1>4
  <2>4. /\ Cardinality(Retained(iTable) \cup {h}) <= Cardinality(Due)
        /\ IsFiniteSet(Retained(iTable) \cup {h})
    BY <2>2, <2>3, FS_Subset
  <2>5. Cardinality(Retained(iTable) \cup {h}) \in Nat
    BY <2>4, FS_CardinalityType
  <2> QED BY <1>4, <2>2, <2>4, <2>5
<1>10. /\ TableShape(iTable', iTable'.lgNom, 0)
       /\ iTable'.theta = iTable.theta /\ iTable'.isEmpty = FALSE
       /\ CapacityThreshold(iTable') = CapacityThreshold(iTable)
       /\ Retained(iTable') = Retained(iTable) \cup {h}
       /\ iTable'.entries[h] = v
       /\ \A g \in Retained(iTable) \ {h} : iTable'.entries[g] = iTable.entries[g]
  <2>1. Stored(iTable, h, v, UpsertEntry(iTable, h, v, iTable.entries[h]))
    BY <1>3, <1>4, <1>5, <1>9, CopyEffect
  <2> QED BY <1>8, <2>1 DEF Stored
<1>11. /\ DOMAIN iTodo' = DOMAIN iTodo \ {h}
       /\ \A g \in DOMAIN iTodo' : iTodo'[g] = iTodo[g]
       /\ iTodo' \in [DOMAIN iTodo' -> Nat]
  BY <1>3, <1>8 DEF Without
<1>12. MeetTyped'
  BY <1>1, <1>2, <1>3, <1>8, <1>10, <1>11 DEF MeetTyped
<1>13. Started'
  BY <1>1, <1>2, <1>8, <1>10 DEF Started
<1>14. Copying'
  <2>1. Due' = Due
    BY <1>1, <1>10 DEF Due
  <2>2. /\ Retained(iTable') \cup DOMAIN iTodo' = Due'
        /\ Retained(iTable') \cap DOMAIN iTodo' = {}
    BY <1>4, <1>10, <1>11, <2>1
  <2>3. \A g \in Retained(iTable') : iTable'.entries[g] = common'[g]
    BY <1>1, <1>4, <1>7, <1>10
  <2>4. \A g \in DOMAIN iTodo' : iTodo'[g] = common'[g]
    BY <1>1, <1>4, <1>11
  <2> QED BY <1>4, <1>8, <1>10, <2>1, <2>2, <2>3, <2>4 DEF Copying
<1>15. Settled' /\ Matching' /\ ~failed'
  BY <1>1, <1>2, <1>8 DEF Settled, Matching
<1> QED BY <1>12, <1>13, <1>14, <1>15 DEF MeetInv

LEMMA EndCopyInv ==
  ASSUME MeetInv, Meet!EndCopy
  PROVE  MeetInv'
<1>1. /\ phase \in {"first", "rebuild"} /\ DOMAIN iTodo = {}
      /\ UNCHANGED <<hasResult, common, iMinTheta, iUpdates>>
      /\ ~(phase = "first" /\ NumRetained(iTable) # numInput) =>
           /\ phase' = "idle"
           /\ UNCHANGED <<iTable, failed, iTodo, iOrdered, numInput, matched, count>>
  BY MeetTable DEF Meet!EndCopy, Meet!history, Meet!loop
<1>2. MeetTyped /\ Started /\ Copying /\ ~failed
  BY DEF MeetInv
<1>3. /\ Retained(iTable) = Due
      /\ \A g \in Retained(iTable) : iTable.entries[g] = common[g]
      /\ phase = "first" => numInput = NumRetained(iTable)
  BY <1>1, <1>2 DEF Copying, NumRetained
<1>4. /\ phase' = "idle"
      /\ UNCHANGED <<iTable, failed, iTodo, iOrdered, numInput, matched, count>>
  BY <1>1, <1>3
<1>5. MeetTyped'
  <2>1. phase' \in {"idle", "first", "match", "rebuild"}
    BY <1>4
  <2> QED BY <1>1, <1>2, <1>4, <2>1 DEF MeetTyped
<1>6. hasResult /\ ~iTable.isEmpty
  BY <1>1, <1>2 DEF Started, MeetTyped
<1>7. Due' = Due
  BY <1>1, <1>4 DEF Due
<1> QED BY <1>1, <1>2, <1>3, <1>4, <1>5, <1>6, <1>7, SettledInv DEF Started

LEMMA MatchInv ==
  ASSUME MeetInv, NEW h \in DOMAIN iTodo, Meet!MatchEntry(h)
  PROVE  MeetInv'
<1> DEFINE hit == h < iTable.theta /\ h \in Retained(iTable)
           n == Cardinality(DOMAIN matched)
<1>1. /\ phase = "match"
      /\ UNCHANGED <<hasResult, common, iMinTheta, iUpdates>>
      /\ ~(hit /\ n = Lower(NumRetained(iTable), numInput)) =>
           /\ matched' = IF hit
                         THEN MergeSum(matched, [g \in {h} |-> iTable.entries[h] + iTodo[h]])
                         ELSE matched
           /\ iTodo' = Without(iTodo, h)
           /\ count' = count + 1
           /\ UNCHANGED <<iTable, phase, iOrdered, numInput, failed>>
  BY MeetTable, MeetViews, MeetCardinality
     DEF Meet!MatchEntry, Meet!history, Meet!MaxMatches
<1>2. MeetTyped /\ Started /\ Matching /\ ~failed
  BY DEF MeetInv
<1>3. /\ TableShape(iTable, iTable.lgNom, 0) /\ iTable.theta \in 0 .. MaxTheta
      /\ iTodo \in [DOMAIN iTodo -> Nat] /\ DOMAIN iTodo \subseteq Hashes
      /\ matched \in [DOMAIN matched -> Nat] /\ DOMAIN matched \subseteq Hashes
      /\ Retained(iTable) \subseteq Hashes
      /\ \A g \in Retained(iTable) : iTable.entries[g] \in Nat
      /\ count \in Nat /\ numInput \in Nat
      /\ h \in Hashes /\ h \in Nat
  BY <1>2, HashSets DEF MeetTyped, TableShape
<1>4. /\ 0 < h
      /\ \A g \in DOMAIN iTodo : 0 < g
      /\ \A g \in Hashes : 0 < g /\ g < iTable.theta =>
           g \in DOMAIN common
             <=> g \in DOMAIN matched \/ g \in Retained(iTable) \cap DOMAIN iTodo
      /\ \A g \in Retained(iTable) \cap DOMAIN iTodo :
           g < iTable.theta => iTable.entries[g] + iTodo[g] = common[g]
      /\ \A g \in DOMAIN matched :
           /\ g \in Due /\ g \in Retained(iTable) /\ g \notin DOMAIN iTodo
           /\ matched[g] = common[g]
      /\ n <= count
      /\ count + Cardinality(DOMAIN iTodo) <= numInput
      /\ ~iOrdered => count + Cardinality(DOMAIN iTodo) = numInput
  BY <1>1, <1>2 DEF Matching
<1>5. PICK v \in Nat : v = iTodo[h]
  BY <1>3
<1>6. /\ IsFiniteSet(DOMAIN iTodo) /\ IsFiniteSet(DOMAIN matched)
      /\ IsFiniteSet(Retained(iTable))
      /\ n \in Nat /\ NumRetained(iTable) \in Nat /\ Cardinality(DOMAIN iTodo) \in Nat
  BY <1>3, HashSets, FS_CardinalityType DEF NumRetained
<1>7. Cardinality(DOMAIN iTodo \ {h}) = Cardinality(DOMAIN iTodo) - 1
  BY <1>6, FS_RemoveElement
<1>8. Cardinality(DOMAIN iTodo \ {h}) \in Nat
  BY <1>3, HashSets, FS_CardinalityType
<1>9. n < numInput
  BY <1>3, <1>4, <1>6, <1>7, <1>8
<1>10. hit => n < NumRetained(iTable)
  <2> SUFFICES ASSUME hit PROVE n < NumRetained(iTable)
    OBVIOUS
  <2>1. DOMAIN matched \subseteq Retained(iTable) \ {h}
    BY <1>4
  <2>2. IsFiniteSet(Retained(iTable) \ {h})
        /\ Cardinality(Retained(iTable) \ {h}) = NumRetained(iTable) - 1
    BY <1>6, FS_RemoveElement DEF NumRetained
  <2>3. n <= Cardinality(Retained(iTable) \ {h})
    BY <2>1, <2>2, FS_Subset
  <2> QED BY <1>6, <2>2, <2>3
<1> HIDE DEF n
<1>11. /\ matched' = IF hit
                     THEN MergeSum(matched, [g \in {h} |-> iTable.entries[h] + v])
                     ELSE matched
       /\ iTodo' = Without(iTodo, h)
       /\ count' = count + 1
       /\ UNCHANGED <<iTable, phase, iOrdered, numInput, failed>>
  <2>1. ~(hit /\ n = Lower(NumRetained(iTable), numInput))
    BY <1>3, <1>6, <1>9, <1>10 DEF Lower
  <2> QED BY <1>1, <1>5, <2>1
<1>12. /\ DOMAIN iTodo' = DOMAIN iTodo \ {h}
       /\ \A g \in DOMAIN iTodo' : iTodo'[g] = iTodo[g]
       /\ iTodo' \in [DOMAIN iTodo' -> Nat]
  BY <1>3, <1>11 DEF Without
<1>13. /\ DOMAIN matched' = DOMAIN matched \cup (IF hit THEN {h} ELSE {})
       /\ \A g \in DOMAIN matched : matched'[g] = matched[g]
       /\ hit => matched'[h] = iTable.entries[h] + v
       /\ matched' \in [DOMAIN matched' -> Nat]
  <2>1. CASE ~hit
    BY <1>3, <1>11, <2>1
  <2>2. CASE hit
    <3> DEFINE e == iTable.entries[h]
    <3>1. e \in Nat /\ h \notin DOMAIN matched
      BY <1>3, <1>4, <2>2
    <3>2. matched' = MergeSum(matched, [g \in {h} |-> e + v])
      BY <1>11, <2>2
    <3> HIDE DEF e
    <3>3. /\ DOMAIN matched' = DOMAIN matched \cup {h}
          /\ \A g \in DOMAIN matched : matched'[g] = matched[g]
          /\ matched'[h] = e + v
          /\ matched' \in [DOMAIN matched' -> Nat]
      BY <1>3, <3>1, <3>2 DEF MergeSum, SumOf
    <3> QED BY <2>2, <3>3 DEF e
  <2> QED BY <2>1, <2>2
<1>14. MeetTyped'
  <2>1. DOMAIN matched' \subseteq Hashes /\ DOMAIN iTodo' \subseteq Hashes
    BY <1>3, <1>12, <1>13
  <2> QED BY <1>1, <1>2, <1>11, <1>12, <1>13, <2>1 DEF MeetTyped
<1>15. Started'
  BY <1>1, <1>2, <1>11 DEF Started
<1>16. Due' = Due
  BY <1>1, <1>11 DEF Due
<1>17. hit => h \in Due /\ iTable.entries[h] + v = common[h]
  BY <1>3, <1>4, <1>5 DEF Due
<1>18. Matching'
  <2>1. \A g \in DOMAIN iTodo' : 0 < g
    BY <1>4, <1>12
  <2>2. ASSUME NEW g \in Hashes, 0 < g, g < iTable'.theta
        PROVE  g \in DOMAIN common'
                 <=> g \in DOMAIN matched' \/ g \in Retained(iTable') \cap DOMAIN iTodo'
    BY <1>1, <1>4, <1>11, <1>12, <1>13, <2>2
  <2>3. \A g \in Retained(iTable') \cap DOMAIN iTodo' :
          g < iTable'.theta => iTable'.entries[g] + iTodo'[g] = common'[g]
    BY <1>1, <1>4, <1>11, <1>12
  <2>4. ASSUME NEW g \in DOMAIN matched'
        PROVE  /\ g \in Due' /\ g \in Retained(iTable') /\ g \notin DOMAIN iTodo'
               /\ matched'[g] = common'[g]
    <3>1. CASE g \in DOMAIN matched
      BY <1>1, <1>4, <1>11, <1>12, <1>13, <1>16, <3>1
    <3>2. CASE hit /\ g = h
      BY <1>1, <1>11, <1>12, <1>13, <1>16, <1>17, <3>2
    <3> QED BY <1>13, <2>4, <3>1, <3>2
  <2>5. Cardinality(DOMAIN matched') <= count'
    <3>1. Cardinality(DOMAIN matched') = IF hit THEN n + 1 ELSE n
      <4>1. h \notin DOMAIN matched
        BY <1>4
      <4>0. DOMAIN matched' = DOMAIN matched \cup (IF hit THEN {h} ELSE {})
        BY <1>13
      <4>a. n = Cardinality(DOMAIN matched)
        BY DEF n
      <4> HIDE DEF hit
      <4>2. CASE ~hit
        <5>1. DOMAIN matched' = DOMAIN matched
          BY <4>0, <4>2
        <5> QED BY <4>2, <4>a, <5>1
      <4>3. CASE hit
        <5>1. DOMAIN matched' = DOMAIN matched \cup {h}
          BY <4>0, <4>3
        <5>2. IsFiniteSet(DOMAIN matched)
          BY <1>6
        <5>3. Cardinality(DOMAIN matched \cup {h}) = Cardinality(DOMAIN matched) + 1
          BY <4>1, <5>2, FS_AddElement
        <5> QED BY <4>3, <4>a, <5>1, <5>3
      <4> QED BY <4>2, <4>3
    <3> QED BY <1>3, <1>4, <1>6, <1>11, <3>1
  <2>6. /\ count' + Cardinality(DOMAIN iTodo') <= numInput'
        /\ ~iOrdered' => count' + Cardinality(DOMAIN iTodo') = numInput'
    BY <1>3, <1>4, <1>6, <1>7, <1>11, <1>12
  <2> QED BY <2>1, <2>2, <2>3, <2>4, <2>5, <2>6 DEF Matching
<1>19. Settled' /\ Copying' /\ ~failed'
  BY <1>1, <1>2, <1>11 DEF Settled, Copying
<1> QED BY <1>14, <1>15, <1>18, <1>19 DEF MeetInv

LEMMA StopEarlyInv ==
  ASSUME MeetInv, NEW h \in DOMAIN iTodo, Meet!StopEarly(h)
  PROVE  MeetInv'
<1>1. /\ phase = "match" /\ iOrdered /\ h >= iTable.theta
      /\ \A g \in DOMAIN iTodo : h <= g
      /\ iTodo' = NoEntries
      /\ UNCHANGED <<iTable, hasResult, phase, iOrdered, numInput, matched, count,
                     failed, common, iMinTheta, iUpdates>>
  BY MeetViews DEF Meet!StopEarly, Meet!history, MayVisit
<1>2. MeetTyped /\ Started /\ Matching /\ ~failed
  BY DEF MeetInv
<1>3. DOMAIN iTodo' = {} /\ iTodo' \in [DOMAIN iTodo' -> Nat]
  BY <1>1 DEF NoEntries
<1>4. MeetTyped'
  BY <1>1, <1>2, <1>3 DEF MeetTyped
<1>5. Started' /\ Settled' /\ Copying'
  BY <1>1, <1>2 DEF Started, Settled, Copying
<1>6. Matching'
  <2>1. \A g \in DOMAIN iTodo : g \in Nat /\ ~(g < iTable.theta)
    <3>1. DOMAIN iTodo \subseteq Hashes /\ iTable.theta \in Nat
      BY <1>2 DEF MeetTyped, TableShape
    <3>2. h \in Nat /\ \A g \in DOMAIN iTodo : g \in Nat
      BY <3>1, HashSets
    <3> QED BY <1>1, <3>1, <3>2
  <2>2. ASSUME NEW g \in Hashes, 0 < g, g < iTable.theta
        PROVE  g \in DOMAIN common <=> g \in DOMAIN matched
    BY <1>1, <1>2, <2>1, <2>2 DEF Matching
  <2>3. /\ Cardinality(DOMAIN iTodo') = 0
        /\ Cardinality(DOMAIN iTodo) \in Nat
    <3>1. DOMAIN iTodo \subseteq Hashes
      BY <1>2 DEF MeetTyped
    <3> QED BY <1>3, <3>1, HashSets, FS_EmptySet, FS_CardinalityType
  <2>4. count' + Cardinality(DOMAIN iTodo') <= numInput'
    BY <1>1, <1>2, <2>3 DEF Matching, MeetTyped
  <2>5. Due' = Due
    BY <1>1 DEF Due
  <2> QED BY <1>1, <1>2, <1>3, <2>2, <2>4, <2>5 DEF Matching
<1> QED BY <1>1, <1>2, <1>4, <1>5, <1>6 DEF MeetInv

LEMMA EndMatchInv ==
  ASSUME MeetInv, Meet!EndMatch
  PROVE  MeetInv'
<1> DEFINE n == Cardinality(DOMAIN matched)
<1>1. /\ phase = "match" /\ DOMAIN iTodo = {}
      /\ UNCHANGED <<hasResult, common, iMinTheta, iUpdates>>
      /\ ~(count > numInput \/ (~iOrdered /\ count < numInput)) =>
           IF DOMAIN matched = {}
           THEN /\ iTable' = Meet!DefaultTable(iTable.theta,
                                              iTable.isEmpty \/ iTable.theta = MaxTheta)
                /\ phase' = "idle"
                /\ UNCHANGED <<failed, iTodo, iOrdered, numInput, matched, count>>
           ELSE /\ iTable' = Meet!SizedTable(n, iTable.theta, iTable.isEmpty)
                /\ phase' = "rebuild" /\ iTodo' = matched
                /\ UNCHANGED <<iOrdered, numInput, matched, count, failed>>
  BY MeetCardinality DEF Meet!EndMatch, Meet!history, Meet!loop
<1>2. MeetTyped /\ Started /\ Matching /\ ~failed
  BY DEF MeetInv
<1>3. /\ iTable.theta \in 0 .. MaxTheta /\ iTable.isEmpty \in BOOLEAN
      /\ iMinTheta \in 0 .. MaxTheta
      /\ iTodo \in [DOMAIN iTodo -> Nat]
      /\ DOMAIN common \subseteq Hashes
      /\ matched \in [DOMAIN matched -> Nat] /\ DOMAIN matched \subseteq Hashes
      /\ count \in Nat /\ numInput \in Nat
  BY <1>2 DEF MeetTyped, TableShape
<1>4. /\ hasResult /\ ~iTable.isEmpty /\ iTable.theta = iMinTheta /\ iUpdates > 0
  BY <1>1, <1>2 DEF Started, MeetTyped
<1>5. Due = DOMAIN matched
  <2>1. \A g \in DOMAIN matched : g \in Due
    BY <1>1, <1>2 DEF Matching
  <2>2. ASSUME NEW g \in Due PROVE g \in DOMAIN matched
    BY <1>1, <1>2, <1>3, <2>2 DEF Matching, Due
  <2> QED BY <2>1, <2>2
<1>6. \A g \in DOMAIN matched : matched[g] = common[g]
  BY <1>1, <1>2 DEF Matching
<1>7. Cardinality(DOMAIN iTodo) = 0
  BY <1>1, FS_EmptySet
<1>8. ~(count > numInput \/ (~iOrdered /\ count < numInput))
  BY <1>1, <1>2, <1>3, <1>7 DEF Matching
<1>9. CASE DOMAIN matched = {}
  <2> DEFINE exact == iTable.theta = MaxTheta
  <2>1. /\ iTable' = Meet!DefaultTable(iTable.theta, exact)
        /\ phase' = "idle"
        /\ UNCHANGED <<failed, iTodo, iOrdered, numInput, matched, count>>
    <3>1. (iTable.isEmpty \/ iTable.theta = MaxTheta) = exact
      BY <1>4
    <3> QED BY <1>1, <1>8, <1>9, <3>1
  <2>2. exact \in BOOLEAN
    OBVIOUS
  <2> HIDE DEF exact
  <2>3. /\ TableShape(iTable', iTable'.lgNom, 0) /\ Retained(iTable') = {}
        /\ iTable'.theta = iTable.theta /\ iTable'.isEmpty = exact
    BY <1>3, <2>1, <2>2, DefaultTableEmpty DEF EmptyTable
  <2>4. MeetTyped'
    <3>1. phase' \in {"idle", "first", "match", "rebuild"}
      BY <2>1
    <3> QED BY <1>1, <1>2, <2>1, <2>3, <3>1 DEF MeetTyped
  <2>5. Due' = {}
    BY <1>1, <1>5, <1>9, <2>3 DEF Due
  <2>6. exact => DOMAIN common \subseteq NeverRetained
    <3> SUFFICES ASSUME exact, NEW g \in DOMAIN common PROVE g \in {0, MaxTheta}
      BY DEF NeverRetained
    <3>1. g \notin Due
      BY <1>5, <1>9
    <3>2. g \in 0 .. MaxTheta
      BY <1>3
    <3>3. iTable.theta = MaxTheta
      BY DEF exact
    <3> QED BY <3>1, <3>2, <3>3 DEF Due
  <2>7. iTable'.theta = IF iTable'.isEmpty THEN MaxTheta ELSE iMinTheta'
    BY <1>1, <1>4, <2>3 DEF exact
  <2> QED BY <1>1, <1>2, <1>4, <2>1, <2>3, <2>4, <2>5, <2>6, <2>7, SettledInv
<1>10. CASE DOMAIN matched # {}
  <2>1. /\ iTable' = Meet!SizedTable(n, iTable.theta, iTable.isEmpty)
        /\ phase' = "rebuild" /\ iTodo' = matched
        /\ UNCHANGED <<iOrdered, numInput, matched, count, failed>>
    BY <1>1, <1>8, <1>10
  <2>2. n \in 1 .. Cardinality(Hashes)
    BY <1>3, <1>10, HashSets
  <2> HIDE DEF n
  <2>3. /\ TableShape(iTable', iTable'.lgNom, 0) /\ Retained(iTable') = {}
        /\ iTable'.theta = iTable.theta /\ iTable'.isEmpty = iTable.isEmpty
        /\ CapacityThreshold(iTable') \in Nat /\ n <= CapacityThreshold(iTable')
    <3>1. /\ EmptyTable(iTable', iTable.theta, iTable.isEmpty)
          /\ CapacityThreshold(iTable') \in Nat /\ n <= CapacityThreshold(iTable')
      BY <1>3, <2>1, <2>2, SizedTableEmpty
    <3> QED BY <3>1 DEF EmptyTable
  <2>4. MeetTyped'
    <3>1. phase' \in {"idle", "first", "match", "rebuild"}
      BY <2>1
    <3> QED BY <1>1, <1>2, <1>3, <2>1, <2>3, <3>1 DEF MeetTyped
  <2>5. Due' = Due
    BY <1>1, <2>3 DEF Due
  <2>6. Started'
    BY <1>1, <1>2, <2>3, <1>4 DEF Started
  <2>7. Copying'
    <3>1. /\ Retained(iTable') \cup DOMAIN iTodo' = Due'
          /\ Retained(iTable') \cap DOMAIN iTodo' = {}
          /\ Cardinality(Due') = n
      BY <1>5, <2>1, <2>3, <2>5 DEF n
    <3>2. \A g \in DOMAIN iTodo' : iTodo'[g] = common'[g]
      BY <1>1, <1>6, <2>1
    <3> QED BY <2>1, <2>3, <3>1, <3>2 DEF Copying
  <2>8. Settled' /\ Matching' /\ ~failed'
    BY <1>2, <2>1 DEF Settled, Matching
  <2> QED BY <2>4, <2>6, <2>7, <2>8 DEF MeetInv
<1> QED BY <1>9, <1>10

LEMMA MeetStutterInv == ASSUME MeetInv, UNCHANGED iVars PROVE MeetInv'
BY DEF iVars, MeetInv, MeetTyped, Started, Settled, Copying, Matching, Due

(* The steps of a call, from whatever input the call was given. *)
LEMMA MeetLoopInv ==
  ASSUME MeetInv,
         \/ \E h \in DOMAIN iTodo :
              Meet!CopyEntry(h) \/ Meet!MatchEntry(h) \/ Meet!StopEarly(h)
         \/ Meet!EndCopy
         \/ Meet!EndMatch
  PROVE  MeetInv'
BY CopyInv, MatchInv, StopEarlyInv, EndCopyInv, EndMatchInv

LEMMA MeetBeginInv ==
  ASSUME MeetInv, NEW i, HonoursContract(i),
         \/ Meet!UpdateNothingLeft(i) \/ Meet!UpdateNothingGiven(i)
         \/ Meet!BeginFirst(i) \/ Meet!BeginMatch(i)
  PROVE  MeetInv'
BY NothingLeftInv, NothingGivenInv, BeginFirstInv, BeginMatchInv

LEMMA MeetNextInv == ASSUME MeetInv, Meet!Next PROVE MeetInv'
<1>1. CASE \E i \in Inputs :
             \/ Meet!UpdateSkipped(i) \/ Meet!UpdateNothingLeft(i)
             \/ Meet!UpdateNothingGiven(i) \/ Meet!BeginFirst(i) \/ Meet!BeginMatch(i)
  <2>1. PICK i \in Inputs :
             \/ Meet!UpdateSkipped(i) \/ Meet!UpdateNothingLeft(i)
             \/ Meet!UpdateNothingGiven(i) \/ Meet!BeginFirst(i) \/ Meet!BeginMatch(i)
    BY <1>1
  <2>2. HonoursContract(i)
    BY InputsAssumption
  <2>3. CASE Meet!UpdateSkipped(i)
    BY <2>3, MeetStutterInv DEF Meet!UpdateSkipped, Meet!vars, iVars
  <2> QED BY <2>1, <2>2, <2>3, MeetBeginInv
<1> QED BY <1>1, MeetLoopInv DEF Meet!Next

(* Between two calls the result of the intersection represents the         *)
(* intersection of the source sets of its inputs.                          *)
LEMMA ResultIsIntersection == MeetInv => ResultRepresentsIntersection
<1> SUFFICES ASSUME MeetInv
             PROVE  /\ ~failed
                    /\ phase = "idle" /\ hasResult =>
                         /\ Represents(Meet!Result(TRUE), common)
                         /\ iTable.theta = IF iTable.isEmpty THEN MaxTheta ELSE iMinTheta
  BY MeetViews DEF ResultRepresentsIntersection, Meet!ResultRepresentsIntersection
<1>1. ~failed /\ MeetTyped /\ Started /\ Settled
  BY DEF MeetInv
<1> SUFFICES ASSUME phase = "idle", hasResult
             PROVE  Represents(Meet!Result(TRUE), common)
  BY <1>1 DEF Started
<1>2. /\ Meet!Result(TRUE).entries = iTable.entries
      /\ Meet!Result(TRUE).theta = iTable.theta
      /\ Meet!Result(TRUE).empty = iTable.isEmpty
  BY DEF Meet!Result
<1> QED BY <1>1, <1>2 DEF Settled, Started, Due, Retained, Represents
-------------------------------------------------------------------------------
(* Jaccard similarity *)

(* The sketch that union_lg_k sizes holds both inputs, or is the largest.  *)
LEMMA UnionSize ==
  ASSUME NEW l \in Nat, NEW r \in Nat
  PROVE  LET k == UnionLgK(l, r)
         IN  /\ k \in Nat /\ MinLgK <= k /\ SizeOK(k)
             /\ k = MaxLgK \/ l + r <= 2 ^ k
<1> DEFINE Fits(lg) == /\ lg = MaxLgK \/ l + r <= 2 ^ lg
                       /\ lg = MinLgK \/ l + r > 2 ^ (lg - 1)
           T == {lg \in Nat : lg >= MinLgK /\ (lg = MaxLgK \/ l + r <= 2 ^ lg)}
<1>0. /\ MaxLgK \in Nat /\ MinLgK \in Nat /\ MaxLgK >= MinLgK
      /\ \A n \in 0 .. MaxLgK + 1 : 2 ^ n \in Nat \ {0} /\ 2 ^ (n + 1) = 2 * 2 ^ n
  BY MaxLgKAssumption, MinLgKAssumption
<1>1. \E lg \in MinLgK .. MaxLgK : Fits(lg)
  <2>1. T \in SUBSET Nat /\ T # {}
    BY <1>0
  <2>2. MaxLgK \in T
    BY <1>0
  <2> HIDE DEF T
  <2>3. PICK lg \in T : \A m \in T : lg <= m
    BY <2>1, LeastNat
  <2> USE DEF T
  <2>4. lg \in MinLgK .. MaxLgK
    BY <1>0, <2>2, <2>3
  <2>5. lg = MinLgK \/ l + r > 2 ^ (lg - 1)
    <3> SUFFICES ASSUME lg # MinLgK PROVE l + r > 2 ^ (lg - 1)
      OBVIOUS
    <3>1. lg - 1 \in Nat /\ lg - 1 >= MinLgK /\ lg - 1 \in 0 .. MaxLgK + 1 /\ ~(lg <= lg - 1)
      BY <1>0, <2>4
    <3>2. lg - 1 \notin T
      BY <2>3, <3>1
    <3>3. ~(l + r <= 2 ^ (lg - 1)) /\ 2 ^ (lg - 1) \in Nat
      BY <1>0, <3>1, <3>2
    <3> QED BY <3>3
  <2> QED BY <2>3, <2>4, <2>5
<1> DEFINE k == UnionLgK(l, r)
<1>2. k \in MinLgK .. MaxLgK /\ Fits(k)
  <2>1. k = CHOOSE lg \in MinLgK .. MaxLgK : Fits(lg)
    BY DEF UnionLgK
  <2> HIDE DEF Fits, k
  <2> QED BY <1>1, <2>1, Zenon
<1> HIDE DEF k
<1>3. k \in Nat /\ MinLgK <= k /\ k \in 0 .. MaxLgK + 1
  BY <1>0, <1>2
<1>4. SizeOK(k)
  BY <1>0, <1>3 DEF SizeOK
<1> QED BY <1>2, <1>3, <1>4 DEF k

(* The keys alone honour the contract, too.                                *)
LEMMA KeysHonourContract ==
  ASSUME NEW i, HonoursContract(i)
  PROVE  /\ HonoursContract(Keys(i))
         /\ DOMAIN Keys(i).source = DOMAIN i.source
         /\ DOMAIN Keys(i).view.entries = DOMAIN i.view.entries
         /\ Keys(i).view.theta = i.view.theta
         /\ Keys(i).view.empty = i.view.empty
<1> DEFINE es == [h \in DOMAIN i.view.entries |-> Unit]
           src == [h \in DOMAIN i.source |-> Unit]
           view == KeysOnly(i.view)
<1>1. /\ i.view = [entries |-> i.view.entries, theta |-> i.view.theta,
                   seed |-> i.view.seed, ordered |-> i.view.ordered, empty |-> i.view.empty]
      /\ DOMAIN i.source \subseteq Hashes
      /\ i.view.theta \in 0 .. MaxTheta
      /\ i.view.ordered \in BOOLEAN /\ i.view.empty \in BOOLEAN
      /\ DOMAIN i.view.entries = {h \in DOMAIN i.source : 0 < h /\ h < i.view.theta}
      /\ i.view.empty => DOMAIN i.source \subseteq NeverRetained
  BY DEF HonoursContract, Represents
<1>2. view = [entries |-> es, theta |-> i.view.theta, seed |-> i.view.seed,
              ordered |-> i.view.ordered, empty |-> i.view.empty]
  BY <1>1 DEF KeysOnly
<1>3. Keys(i).view = view /\ Keys(i).source = src
  BY DEF Keys
<1>4. /\ DOMAIN es = DOMAIN i.view.entries /\ es \in [DOMAIN es -> Nat]
      /\ DOMAIN src = DOMAIN i.source /\ src \in [DOMAIN src -> Nat]
      /\ \A h \in DOMAIN es : es[h] = Unit
      /\ \A h \in DOMAIN src : src[h] = Unit
  BY DEF Unit
<1> HIDE DEF es, src, view
<1>5. view.ordered \in BOOLEAN /\ view.empty \in BOOLEAN
  BY <1>1, <1>2, Zenon
<1>6. /\ view.entries = es /\ view.theta = i.view.theta
      /\ view.empty = i.view.empty
      /\ view = [entries |-> view.entries, theta |-> view.theta, seed |-> view.seed,
                 ordered |-> view.ordered, empty |-> view.empty]
  BY <1>2
<1>7. Represents(view, src)
  BY <1>1, <1>4, <1>6 DEF Represents
<1>8. HonoursContract(Keys(i))
  BY <1>1, <1>3, <1>4, <1>5, <1>6, <1>7 DEF HonoursContract
<1> QED BY <1>3, <1>4, <1>6, <1>8

(* What the union of a call has seen after both inputs.                    *)
UnitedBoth(a, b) ==
  /\ ~merging
  /\ UnionInv(UnionLgK(Count(a.view), Count(b.view)), 3, MaxTheta)
  /\ DOMAIN seen = DOMAIN a.source \cup DOMAIN b.source
  /\ minTheta = Lower(a.view.theta, b.view.theta)

SameKeys(a, b) ==
  /\ DOMAIN a.view.entries = DOMAIN b.view.entries
  /\ a.view.theta = b.view.theta

Fits(a, b) ==
  Cardinality(KeysBelow(DOMAIN a.source \cup DOMAIN b.source,
                        Lower(a.view.theta, b.view.theta))) <= 2 ^ MaxLgK

(* The union's result: at the smaller theta if both inputs fit, and then   *)
(* identical with the inputs exactly if they are the same.                 *)
LEMMA UnionOfBoth ==
  ASSUME NEW a, HonoursContract(a), NEW b, HonoursContract(b), UnitedBoth(a, b)
  PROVE  LET r == Result(FALSE)
             least == Lower(a.view.theta, b.view.theta)
         IN  /\ DOMAIN r.entries = KeysBelow(DOMAIN a.source \cup DOMAIN b.source, r.theta)
             /\ r.theta \in Nat /\ r.theta <= least
             /\ Count(r) \in Nat
             /\ Fits(a, b) => r.theta = least
             /\ Identical(a.view, b.view, r) => SameKeys(a, b)
             /\ SameKeys(a, b) /\ Fits(a, b) => Identical(a.view, b.view, r)
<1> DEFINE A == DOMAIN a.source
           B == DOMAIN b.source
           r == Result(FALSE)
           E == DOMAIN r.entries
           l == Count(a.view)
           m == Count(b.view)
           k == UnionLgK(l, m)
           least == Lower(a.view.theta, b.view.theta)
           all == KeysBelow(A \cup B, least)
<1>1. /\ A \subseteq Hashes /\ B \subseteq Hashes
      /\ a.view.theta \in Nat /\ b.view.theta \in Nat
      /\ DOMAIN a.view.entries = KeysBelow(A, a.view.theta)
      /\ DOMAIN b.view.entries = KeysBelow(B, b.view.theta)
  BY DEF HonoursContract, Represents, KeysBelow
<1>2. /\ IsFiniteSet(KeysBelow(A, a.view.theta)) /\ l \in Nat
      /\ IsFiniteSet(KeysBelow(B, b.view.theta)) /\ m \in Nat
      /\ IsFiniteSet(all) /\ Cardinality(all) \in Nat
  <2>1. \A S, th : S \subseteq Hashes => KeysBelow(S, th) \subseteq Hashes
    BY DEF KeysBelow
  <2>2. A \cup B \subseteq Hashes
    BY <1>1
  <2> QED BY <1>1, <2>1, <2>2, HashSets, FS_CardinalityType DEF Count
<1>3. k \in Nat /\ MinLgK <= k /\ SizeOK(k) /\ (k = MaxLgK \/ l + m <= 2 ^ k)
  <2> HIDE DEF l, m
  <2> QED BY <1>2, UnionSize
<1>4. /\ ~merging /\ UnionInv(k, 3, MaxTheta) /\ DOMAIN seen = A \cup B
      /\ minTheta = least
  BY DEF UnitedBoth
<1> HIDE DEF A, B, k, l, m, least, all
<1>5. /\ least \in Nat /\ least <= a.view.theta /\ least <= b.view.theta
      /\ a.view.theta = b.view.theta => least = a.view.theta
  BY <1>1 DEF Lower, least
<1>6. 3 \in 0 .. 3 /\ MaxTheta \in 0 .. MaxTheta
  OBVIOUS
<1>7. E = KeysBelow(A \cup B, r.theta)
  <2>1. ResultRepresentsUnion
    BY <1>3, <1>4, <1>6, ResultIsUnion
  <2>2. Represents(r, seen)
    BY <1>4, <2>1 DEF ResultRepresentsUnion
  <2> QED BY <1>4, <2>2 DEF Represents, KeysBelow
<1>8. \/ r.theta = least
      \/ /\ r.theta < least /\ Cardinality(E) = 2 ^ k
         /\ r.theta \in A \cup B
  BY <1>3, <1>4, <1>6, ResultPaidFor
<1> HIDE DEF r
<1>9. r.theta \in Nat /\ r.theta <= least
  <2>1. \A h \in A \cup B : h \in Nat
    BY <1>1, HashSets
  <2> QED BY <1>5, <1>8, <2>1
<1>10. /\ E \subseteq Hashes /\ E \subseteq all
       /\ \A h \in A \cup B : h \in Nat
  <2>1. \A h \in A \cup B : h \in Nat /\ h \in Hashes
    BY <1>1, HashSets
  <2> QED BY <1>5, <1>7, <1>9, <2>1 DEF KeysBelow, all
<1>11. IsFiniteSet(E) /\ Count(r) \in Nat /\ Count(r) = Cardinality(E)
  BY <1>10, HashSets, FS_CardinalityType DEF Count
<1>12. all \subseteq KeysBelow(A, a.view.theta) \cup KeysBelow(B, b.view.theta)
  <2> SUFFICES ASSUME NEW h \in all
               PROVE  h \in KeysBelow(A, a.view.theta) \cup KeysBelow(B, b.view.theta)
    OBVIOUS
  <2>1. h \in A \cup B /\ h \in Nat /\ 0 < h /\ h < least
    BY <1>10 DEF KeysBelow, all
  <2>2. h < a.view.theta /\ h < b.view.theta
    BY <1>1, <1>5, <2>1
  <2> QED BY <2>1, <2>2 DEF KeysBelow
<1>13. Cardinality(all) <= l + m
  <2> DEFINE S == KeysBelow(A, a.view.theta)
             U == KeysBelow(B, b.view.theta)
  <2>1. Cardinality(S) = l /\ Cardinality(U) = m
    BY <1>1 DEF Count, l, m
  <2>2. /\ IsFiniteSet(S \cup U) /\ IsFiniteSet(S \cap U)
        /\ Cardinality(S \cup U) = Cardinality(S) + Cardinality(U) - Cardinality(S \cap U)
    BY <1>2, FS_Union, FS_Intersection
  <2> HIDE DEF S, U
  <2>3. Cardinality(S \cap U) \in Nat /\ Cardinality(S \cup U) \in Nat
    BY <2>2, FS_CardinalityType
  <2>4. Cardinality(all) <= Cardinality(S \cup U)
    BY <1>12, <2>2, FS_Subset DEF S, U
  <2> QED BY <1>2, <2>1, <2>2, <2>3, <2>4
<1>14. Fits(a, b) => r.theta = least
  <2> SUFFICES ASSUME Fits(a, b), r.theta # least PROVE FALSE
    OBVIOUS
  <2>1. Cardinality(all) <= 2 ^ MaxLgK
    BY DEF Fits, all, A, B, least
  <2>2. Cardinality(all) <= 2 ^ k
    BY <1>2, <1>3, <1>13, <2>1 DEF SizeOK
  <2>3. r.theta < least /\ Cardinality(E) = 2 ^ k /\ r.theta \in A \cup B
    BY <1>8
  <2>4. E # all
    <3>1. E # {}
      BY <1>3, <2>3, FS_EmptySet DEF SizeOK
    <3>2. PICK h \in E : TRUE
      BY <3>1
    <3>3. h \in Nat /\ 0 < h /\ h < r.theta
      BY <1>7, <1>10, <3>2 DEF KeysBelow
    <3>4. r.theta \in all
      BY <1>9, <2>3, <3>3 DEF KeysBelow, all
    <3>5. r.theta \notin E
      BY <1>7, <1>9 DEF KeysBelow
    <3> QED BY <3>4, <3>5
  <2>5. Cardinality(E) < Cardinality(all)
    <3>1. Cardinality(E) <= Cardinality(all) /\ Cardinality(E) # Cardinality(all)
      BY <1>2, <1>10, <2>4, FS_Subset
    <3>2. Cardinality(E) \in Nat
      BY <1>11
    <3> QED BY <1>2, <3>1, <3>2
  <2> QED BY <1>2, <1>3, <2>2, <2>3, <2>5 DEF SizeOK
<1>15. Identical(a.view, b.view, r) => SameKeys(a, b)
  <2> SUFFICES ASSUME Identical(a.view, b.view, r) PROVE SameKeys(a, b)
    OBVIOUS
  <2>1. /\ Cardinality(E) = Cardinality(KeysBelow(A, a.view.theta))
        /\ Cardinality(E) = Cardinality(KeysBelow(B, b.view.theta))
        /\ r.theta = a.view.theta /\ r.theta = b.view.theta
    BY <1>1, <1>11 DEF Identical, Count
  <2>2. /\ KeysBelow(A, a.view.theta) \subseteq E
        /\ KeysBelow(B, b.view.theta) \subseteq E
    BY <1>7, <2>1 DEF KeysBelow
  <2>3. KeysBelow(A, a.view.theta) = E
    BY <1>2, <1>11, <2>1, <2>2, FS_Subset
  <2>4. KeysBelow(B, b.view.theta) = E
    BY <1>2, <1>11, <2>1, <2>2, FS_Subset
  <2> QED BY <1>1, <2>1, <2>3, <2>4 DEF SameKeys
<1>16. SameKeys(a, b) /\ Fits(a, b) => Identical(a.view, b.view, r)
  <2> SUFFICES ASSUME SameKeys(a, b), Fits(a, b) PROVE Identical(a.view, b.view, r)
    OBVIOUS
  <2>1. /\ a.view.theta = b.view.theta
        /\ KeysBelow(A, a.view.theta) = KeysBelow(B, b.view.theta)
    BY <1>1 DEF SameKeys
  <2>2. r.theta = a.view.theta
    BY <1>5, <1>14, <2>1
  <2>3. E = KeysBelow(A, a.view.theta)
    BY <1>7, <2>1, <2>2 DEF KeysBelow
  <2> QED BY <1>1, <2>1, <2>2, <2>3 DEF Identical, Count
<1> QED BY <1>7, <1>9, <1>11, <1>14, <1>15, <1>16 DEF A, B, least, r

(* What the intersection of a call has computed when it is done: every key *)
(* below the union's theta that both inputs have seen, and no other.       *)
LEMMA BothCounted ==
  ASSUME MeetInv, phase = "idle", NEW A, NEW B, NEW theta \in 0 .. MaxTheta,
         \/ iUpdates = 2 /\ DOMAIN common = A \cap B /\ theta <= iMinTheta
         \/ iUpdates = 1 /\ DOMAIN common = A /\ iTable.isEmpty
  PROVE  CountBelow(theta) = Cardinality(KeysBelow(A \cap B, theta))
<1>1. /\ MeetTyped /\ Started /\ Settled
      /\ iTable.theta \in Nat /\ iTable.isEmpty \in BOOLEAN
  BY DEF MeetInv, MeetTyped, TableShape
<1>2. hasResult /\ Retained(iTable) = Due
  BY <1>1 DEF Started, Settled, MeetTyped
<1>3. Meet!Result(FALSE).entries = iTable.entries
  BY DEF Meet!Result
<1>4. /\ iTable.theta = (IF iTable.isEmpty THEN MaxTheta ELSE iMinTheta)
      /\ iTable.isEmpty => DOMAIN common \subseteq NeverRetained
  BY <1>1, <1>2 DEF Started
<1>5. \A h \in DOMAIN common : h \in Nat
  BY <1>1, HashSets DEF MeetTyped
<1>6. {h \in Retained(iTable) : h < theta} = KeysBelow(A \cap B, theta)
  <2>1. CASE iUpdates = 2 /\ DOMAIN common = A \cap B /\ theta <= iMinTheta
    <3>1. theta <= iTable.theta
      BY <1>4, <2>1
    <3> QED BY <1>1, <1>2, <1>5, <2>1, <3>1 DEF Due, KeysBelow
  <2>2. CASE iUpdates = 1 /\ DOMAIN common = A /\ iTable.isEmpty
    BY <1>2, <1>4, <1>5, <2>2 DEF Due, KeysBelow, NeverRetained
  <2> QED BY <2>1, <2>2
<1> QED BY <1>3, <1>6 DEF CountBelow, Retained

(* The result of a union honours the contract of the sketches it is handed *)
(* on to.                                                                  *)
LEMMA UnionHonoursContract ==
  ASSUME IInv, ~merging, NEW o \in BOOLEAN
  PROVE  HonoursContract([view |-> Result(o), source |-> seen])
<1> DEFINE r == Result(o)
<1>1. /\ SizeOK(LgK) /\ LgResize \in 0 .. 3 /\ Start \in 0 .. MaxTheta
      /\ UnionInv(LgK, LgResize, Start)
  BY OwnSizeOK, StartType DEF IInv
<1>2. /\ TableShape(table, LgK, LgResize) /\ unionTheta \in 0 .. MaxTheta
      /\ seen \in [DOMAIN seen -> Nat] /\ DOMAIN seen \subseteq Hashes
  BY <1>1 DEF UnionInv, Typed
<1>3. Represents(r, seen)
  BY <1>1, ResultIsUnion DEF ResultRepresentsUnion
<1>4. /\ r = [entries |-> r.entries, theta |-> r.theta, seed |-> r.seed,
              ordered |-> r.ordered, empty |-> r.empty]
      /\ r.ordered \in BOOLEAN /\ r.empty \in BOOLEAN
      /\ table.isEmpty => r.theta = unionTheta /\ r.entries = NoEntries
  <2>1. CASE table.isEmpty
    <3>1. r = [entries |-> NoEntries, theta |-> unionTheta, seed |-> Seed,
               ordered |-> TRUE, empty |-> TRUE]
      BY <2>1 DEF Result
    <3> HIDE DEF r
    <3> QED BY <3>1
  <2>2. CASE ~table.isEmpty
    <3>1. PICK es, th, or : /\ or \in BOOLEAN
                            /\ r = [entries |-> es, theta |-> th, seed |-> Seed,
                                    ordered |-> or, empty |-> FALSE]
      BY <2>2, Zenon DEF Result
    <3> HIDE DEF r
    <3>2. r.ordered = or /\ r.empty = FALSE
      BY <3>1
    <3>3. r.ordered \in BOOLEAN /\ r.empty \in BOOLEAN
      BY <3>1, <3>2, Zenon
    <3> QED BY <2>2, <3>1, <3>3
  <2> QED BY <2>1, <2>2
<1>5. r.theta \in 0 .. MaxTheta /\ r.entries \in [DOMAIN r.entries -> Nat]
  <2>1. CASE table.isEmpty
    BY <1>2, <1>4, <2>1 DEF NoEntries
  <2>2. CASE ~table.isEmpty
    <3>1. /\ r.theta \in Nat /\ r.theta <= Threshold
          /\ r.entries = Below(table.entries, r.theta)
      BY <1>1, <2>2, ResultShape
    <3>2. Threshold \in 0 .. MaxTheta
      BY <1>2 DEF Threshold, Lower, TableShape
    <3> HIDE DEF r
    <3>3. table.entries \in [Retained(table) -> Nat]
      BY <1>2 DEF TableShape
    <3>4. r.entries \in [DOMAIN r.entries -> Nat]
      BY <3>1, <3>3 DEF Below, Retained
    <3> QED BY <3>1, <3>2, <3>4
  <2> QED BY <2>1, <2>2
<1> HIDE DEF r
<1> DEFINE i == [view |-> r, source |-> seen]
<1>6. i.view = r /\ i.source = seen
  OBVIOUS
<1> HIDE DEF i
<1>7. HonoursContract(i)
  BY <1>2, <1>3, <1>4, <1>5, <1>6 DEF HonoursContract
<1> QED BY <1>7 DEF i, r
-------------------------------------------------------------------------------
(* The client *)

(* During a call of the Jaccard similarity of a and b its union has seen   *)
(* none, the first or both of them.                                        *)
Uniting(a, b) ==
  /\ call = [kind |-> "unite", a |-> a, b |-> b]
  /\ HonoursContract(a) /\ HonoursContract(b)
  /\ ~a.view.empty /\ ~b.view.empty
  /\ UnionInv(UnionLgK(Count(a.view), Count(b.view)), 3, MaxTheta)
  /\ updates = 0 => DOMAIN seen = {} /\ minTheta = MaxTheta
  /\ updates = 1 => DOMAIN seen = DOMAIN a.source /\ minTheta = a.view.theta
  /\ updates = 2 => /\ DOMAIN seen = DOMAIN a.source \cup DOMAIN b.source
                    /\ minTheta = Lower(a.view.theta, b.view.theta)
  /\ updates \in 0 .. 2
  /\ iUpdates = 0

(* compute goes on after the union.                                        *)
Undecided(a, b) ==
  ~(Identical(a.view, b.view, Result(FALSE)) /\ Count(Result(FALSE)) > 0)

(* Then its intersection, unless the answer is known already.              *)
Intersecting(a, b) ==
  /\ call = [kind |-> "intersect", a |-> a, b |-> b]
  /\ HonoursContract(a) /\ HonoursContract(b)
  /\ ~a.view.empty /\ ~b.view.empty
  /\ UnitedBoth(a, b)
  /\ Undecided(a, b)
  /\ iUpdates = 1 => DOMAIN common = DOMAIN a.source /\ iMinTheta = a.view.theta
  /\ iUpdates = 2 => /\ DOMAIN common = DOMAIN a.source \cap DOMAIN b.source
                     /\ iMinTheta = Lower(a.view.theta, b.view.theta)
  /\ iUpdates \in 0 .. 2

Answered ==
  /\ call.kind = "answer"
  /\ ~merging
  /\ \E k \in Nat, rf \in 0 .. 3, start \in 0 .. MaxTheta :
       SizeOK(k) /\ UnionInv(k, rf, start)
  /\ JaccardExact

(* The client uses its union, or a call of the Jaccard similarity does.    *)
ExprInv ==
  /\ MeetInv
  /\ \/ Idle /\ IInv
     \/ \E a, b : Uniting(a, b) \/ Intersecting(a, b)
     \/ Answered

(* The size of the union that a call of the Jaccard similarity starts.      *)
LEMMA CallSize ==
  ASSUME NEW a, HonoursContract(a), NEW b, HonoursContract(b)
  PROVE  LET k == UnionLgK(Count(a.view), Count(b.view))
         IN  k \in Nat /\ MinLgK <= k /\ SizeOK(k)
<1>1. /\ DOMAIN a.view.entries \subseteq Hashes
      /\ DOMAIN b.view.entries \subseteq Hashes
  BY DEF HonoursContract, Represents
<1>2. Count(a.view) \in Nat /\ Count(b.view) \in Nat
  BY <1>1, HashSets, FS_CardinalityType DEF Count
<1> QED BY <1>2, UnionSize

(* What the invariant says of a state in the middle of a call, or of none. *)
LEMMA WhichCall ==
  ASSUME ExprInv
  PROVE  /\ MeetInv
         /\ Idle => IInv
         /\ call.kind = "unite" => \E a, b : Uniting(a, b)
         /\ call.kind = "intersect" => \E a, b : Intersecting(a, b)
         /\ call.kind = "answer" => Answered
<1>1. \A a, b : Uniting(a, b) => call.kind = "unite"
  BY DEF Uniting
<1>2. \A a, b : Intersecting(a, b) => call.kind = "intersect"
  BY DEF Intersecting
<1>3. Answered => call.kind = "answer"
  BY DEF Answered
<1> QED BY <1>1, <1>2, <1>3 DEF ExprInv, Idle

LEMMA FreshAgain ==
  ASSUME merging \in BOOLEAN, ~merging, DOMAIN todo = {}, todo \in [DOMAIN todo -> Nat], DropUnion
  PROVE  IInv'
<1>1. merging' = FALSE /\ ordered' = FALSE
  <2>1. merging' = merging /\ ordered' = FALSE
    BY Zenon DEF DropUnion
  <2> QED BY <2>1, Zenon
<1>2. ordered' \in BOOLEAN
  BY <1>1, Zenon
<1>3. Fresh(LgK, LgResize, Sampling)'
  BY <1>1, <1>2 DEF Fresh, DropUnion
<1>4. (Fresh(LgK, LgResize, Sampling) => IInv)'
  BY FreshOwn, PTL
<1> QED BY <1>3, <1>4

(* Every step of the client outside a call of the Jaccard similarity.      *)
LEMMA ClientInv ==
  ASSUME ExprInv, Idle,
         \/ Unite \/ Intersect \/ IntersectUnion
         \/ SubtractInputs \/ SubtractFromUnion \/ SubtractFromIntersection
         \/ StoreInput \/ StoreUnion \/ StoreIntersection
  PROVE  ExprInv'
<1>1. MeetInv /\ IInv
  BY WhichCall
<1>2. CASE Unite
  <2>1. IInv'
    BY <1>1, <1>2, UnionNextInv DEF Unite
  <2>2. MeetInv'
    BY <1>1, <1>2, MeetStutterInv DEF Unite
  <2>3. Idle'
    BY <1>2 DEF Unite, Idle, NoCall
  <2> QED BY <2>1, <2>2, <2>3 DEF ExprInv
<1>3. CASE Intersect
  <2>1. IInv'
    BY <1>1, <1>3, UnionNextInv DEF Intersect
  <2>2. MeetInv'
    BY <1>1, <1>3, MeetNextInv DEF Intersect
  <2>3. Idle'
    BY <1>3 DEF Intersect, Idle, NoCall
  <2> QED BY <2>1, <2>2, <2>3 DEF ExprInv
<1>4. CASE IntersectUnion
  <2>1. PICK sorted \in BOOLEAN :
          LET i == [view |-> Result(sorted), source |-> seen]
          IN Meet!BeginFirst(i) \/ Meet!UpdateNothingGiven(i)
    BY <1>4 DEF IntersectUnion
  <2> DEFINE i == [view |-> Result(sorted), source |-> seen]
  <2>2. HonoursContract(i)
    BY <1>1, <1>4, UnionHonoursContract DEF IntersectUnion
  <2>3. Meet!BeginFirst(i) \/ Meet!UpdateNothingGiven(i)
    BY <2>1
  <2> HIDE DEF i
  <2>4. MeetInv'
    BY <1>1, <2>2, <2>3, MeetBeginInv
  <2>5. IInv'
    BY <1>1, <1>4, FreshAgain DEF IntersectUnion, IInv, UnionInv, Typed
  <2>6. Idle'
    BY <1>4 DEF IntersectUnion, Idle, NoCall
  <2> QED BY <2>4, <2>5, <2>6 DEF ExprInv
<1>5. CASE \/ SubtractInputs \/ SubtractFromUnion \/ SubtractFromIntersection
           \/ StoreInput \/ StoreUnion \/ StoreIntersection
  <2>1. UNCHANGED vars /\ UNCHANGED iVars /\ call'.kind \in {"difference", "image"}
    BY <1>5 DEF SubtractInputs, SubtractFromUnion, SubtractFromIntersection,
         StoreInput, StoreUnion, StoreIntersection, Compute, Store
  <2>2. Idle'
    BY <2>1 DEF Idle
  <2>3. IInv'
    BY <1>1, <2>1, UnionNextInv
  <2>4. MeetInv'
    BY <1>1, <2>1, MeetStutterInv
  <2> QED BY <2>2, <2>3, <2>4 DEF ExprInv
<1> QED BY <1>2, <1>3, <1>4, <1>5

(* The early answers, and the union that a call starts with.               *)
LEMMA CallInv == ASSUME ExprInv, JaccardCall PROVE ExprInv'
<1>0. MeetInv /\ IInv /\ Idle /\ updates = 0 /\ table.isEmpty /\ iUpdates = 0
  BY WhichCall DEF JaccardCall, UnionUnused, IntersectionUnused
<1>1. PICK a \in Inputs, b \in Inputs :
        JaccardEarly(a, b) \/ JaccardSeedMismatch(a, b) \/ JaccardUnion(a, b)
  BY DEF JaccardCall
<1>2. UNCHANGED iVars /\ MeetInv'
  BY <1>0, MeetStutterInv DEF JaccardCall
<1>3. HonoursContract(a) /\ HonoursContract(b)
  BY InputsAssumption
<1>4. /\ ~merging /\ DOMAIN todo = {} /\ DOMAIN seen = {}
      /\ Typed(LgK, LgResize) /\ UnionInv(LgK, LgResize, Start)
  BY <1>0 DEF IInv, UnionInv
<1>5. CASE JaccardEarly(a, b) \/ JaccardSeedMismatch(a, b)
  <2>1. UNCHANGED vars
    BY <1>5 DEF JaccardEarly, JaccardSeedMismatch
  <2>2. /\ call'.kind = "answer" /\ call'.a = a /\ call'.b = b
        /\ call'.result \in {"one", "zero", "seed mismatch"}
        /\ call'.result = "one" => a.view.empty
        /\ call'.result = "zero" => a.view.empty \/ b.view.empty
    <3>1. CASE JaccardEarly(a, b) /\ a.view.empty /\ b.view.empty
      BY <3>1 DEF JaccardEarly, Answer
    <3>2. CASE JaccardEarly(a, b) /\ ~(a.view.empty /\ b.view.empty)
      BY <3>2 DEF JaccardEarly, Answer
    <3>3. CASE JaccardSeedMismatch(a, b)
      BY <3>3 DEF JaccardSeedMismatch, Answer
    <3> QED BY <1>5, <3>1, <3>2, <3>3
  <2>3. JaccardExact'
    <3>1. a.view.empty \/ b.view.empty =>
            DOMAIN a.source \cap DOMAIN b.source \subseteq NeverRetained
      BY <1>3 DEF HonoursContract, Represents
    <3> QED BY <2>2, <3>1 DEF JaccardExact
  <2>4. UnionInv(LgK, LgResize, Start)' /\ ~merging'
    BY <1>4, <2>1, StutterInv DEF vars
  <2>5. SizeOK(LgK) /\ LgK \in Nat /\ LgResize \in 0 .. 3 /\ Start \in 0 .. MaxTheta
    BY OwnSizeOK, StartType DEF SizeOK
  <2>6. Answered'
    BY <2>2, <2>3, <2>4, <2>5 DEF Answered
  <2> QED BY <1>2, <2>6 DEF ExprInv
<1>6. CASE JaccardUnion(a, b)
  <2>1. /\ ~a.view.empty /\ ~b.view.empty
        /\ call' = [kind |-> "unite", a |-> a, b |-> b]
        /\ table' = NewTable(UnionLgK(Count(a.view), Count(b.view)), 3, <<1, 1>>)
        /\ unionTheta' = MaxTheta /\ minTheta' = MaxTheta
        /\ UNCHANGED <<todo, ordered, merging, seen, updates>>
    BY <1>6 DEF JaccardUnion
  <2>2. PICK k : k = UnionLgK(Count(a.view), Count(b.view))
    OBVIOUS
  <2>3. k \in Nat /\ MinLgK <= k /\ SizeOK(k)
    BY <1>3, <2>2, CallSize
  <2>4. SamplingOK(<<1, 1>>) /\ StartingTheta(<<1, 1>>) = MaxTheta
    BY DEF SamplingOK, StartingTheta
  <2>5. Fresh(k, 3, <<1, 1>>)'
    <3>1. seen = NoEntries
      BY <1>4 DEF Typed, NoEntries
    <3>2. ordered' \in BOOLEAN /\ merging' = FALSE
      BY <1>4, <2>1, Zenon DEF Typed
    <3> QED BY <1>0, <1>4, <2>1, <2>2, <2>4, <3>1, <3>2 DEF Fresh, Typed
  <2>6. FreshKeeps'
    BY FreshInv, PTL
  <2>7. UnionInv(k, 3, MaxTheta)'
    <3>1. 3 \in 0 .. 3
      OBVIOUS
    <3>2. UnionInv(k, 3, StartingTheta(<<1, 1>>))'
      BY <2>3, <2>4, <2>5, <2>6, <3>1 DEF FreshKeeps
    <3> QED BY <2>4, <3>2
  <2>8. Uniting(a, b)'
    BY <1>0, <1>2, <1>3, <1>4, <2>1, <2>2, <2>7 DEF Uniting, iVars
  <2> QED BY <1>2, <2>8 DEF ExprInv
<1> QED BY <1>1, <1>5, <1>6

LEMMA UniteInv == ASSUME ExprInv, JaccardUnite PROVE ExprInv'
<1>1. MeetInv /\ \E a, b : Uniting(a, b)
  BY WhichCall DEF JaccardUnite
<1>2. PICK a, b : Uniting(a, b)
  BY <1>1
<1>3. /\ call = [kind |-> "unite", a |-> a, b |-> b]
      /\ HonoursContract(a) /\ HonoursContract(b)
      /\ ~a.view.empty /\ ~b.view.empty /\ updates \in 0 .. 2 /\ iUpdates = 0
      /\ UNCHANGED iVars /\ UNCHANGED call /\ MeetInv'
  BY <1>1, <1>2, MeetStutterInv DEF Uniting, JaccardUnite
<1>4. PICK k : k = UnionLgK(Count(a.view), Count(b.view))
  OBVIOUS
<1>5. /\ k \in Nat /\ SizeOK(k) /\ 3 \in 0 .. 3 /\ MaxTheta \in 0 .. MaxTheta
      /\ UnionInv(k, 3, MaxTheta)
  BY <1>2, <1>3, <1>4, CallSize DEF Uniting
<1>6. ASSUME NEW i, BeginUpdate(Keys(i)), HonoursContract(i)
      PROVE  /\ UnionInv(k, 3, MaxTheta)'
             /\ updates' = updates + 1
             /\ DOMAIN seen' = DOMAIN seen \cup DOMAIN i.source
             /\ minTheta' = Lower(minTheta, i.view.theta)
  <2> DEFINE j == Keys(i)
  <2>1. /\ HonoursContract(j) /\ BeginUpdate(j)
        /\ DOMAIN j.source = DOMAIN i.source /\ j.view.theta = i.view.theta
    BY <1>6, KeysHonourContract
  <2> HIDE DEF j
  <2>2. UnionInv(k, 3, MaxTheta)'
    BY <1>5, <2>1, BeginInv
  <2>3. DOMAIN MergeSum(seen, j.source) = DOMAIN seen \cup DOMAIN j.source
    BY DEF MergeSum
  <2> QED BY <2>1, <2>2, <2>3 DEF BeginUpdate
<1>7. CASE updates = 0 /\ BeginUpdate(Keys(call.a))
  <2>1. /\ UnionInv(k, 3, MaxTheta)' /\ updates' = 1
        /\ DOMAIN seen' = DOMAIN a.source
        /\ minTheta' = Lower(MaxTheta, a.view.theta)
    BY <1>2, <1>3, <1>6, <1>7 DEF Uniting
  <2>2. Lower(MaxTheta, a.view.theta) = a.view.theta
    BY <1>3 DEF HonoursContract, Lower
  <2>3. Uniting(a, b)'
    BY <1>3, <1>4, <2>1, <2>2 DEF Uniting, iVars
  <2> QED BY <1>3, <2>3 DEF ExprInv
<1>8. CASE updates = 1 /\ BeginUpdate(Keys(call.b))
  <2>1. /\ UnionInv(k, 3, MaxTheta)' /\ updates' = 2
        /\ DOMAIN seen' = DOMAIN a.source \cup DOMAIN b.source
        /\ minTheta' = Lower(a.view.theta, b.view.theta)
    <3>1. DOMAIN seen = DOMAIN a.source /\ minTheta = a.view.theta
      BY <1>2, <1>8 DEF Uniting
    <3>2. BeginUpdate(Keys(b))
      BY <1>3, <1>8
    <3>3. /\ UnionInv(k, 3, MaxTheta)' /\ updates' = updates + 1
          /\ DOMAIN seen' = DOMAIN seen \cup DOMAIN b.source
          /\ minTheta' = Lower(minTheta, b.view.theta)
      BY <1>3, <1>6, <3>2
    <3> QED BY <1>8, <3>1, <3>3
  <2>2. Uniting(a, b)'
    BY <1>3, <1>4, <2>1 DEF Uniting, iVars
  <2> QED BY <1>3, <2>2 DEF ExprInv
<1>9. CASE (\E h \in DOMAIN todo : VisitEntry(h)) \/ EndUpdate
  <2>1. UnionInv(k, 3, MaxTheta)'
    BY <1>5, <1>9, VisitInv, EndInv
  <2>2. UNCHANGED <<seen, minTheta, updates>>
    BY <1>9 DEF VisitEntry, EndUpdate
  <2>3. Uniting(a, b)'
    BY <1>2, <1>3, <1>4, <2>1, <2>2 DEF Uniting, iVars
  <2> QED BY <1>3, <2>3 DEF ExprInv
<1> QED BY <1>7, <1>8, <1>9 DEF JaccardUnite

(* exactly_equal answers after the union, compute only if the sketches are *)
(* the same and not empty.                                                 *)
LEMMA CompareInv == ASSUME ExprInv, JaccardCompare PROVE ExprInv'
<1>1. MeetInv /\ \E a, b : Uniting(a, b)
  BY WhichCall DEF JaccardCompare
<1>2. PICK a, b : Uniting(a, b)
  BY <1>1
<1>3. /\ call = [kind |-> "unite", a |-> a, b |-> b]
      /\ HonoursContract(a) /\ HonoursContract(b)
      /\ ~a.view.empty /\ ~b.view.empty /\ iUpdates = 0
      /\ updates = 2 /\ ~merging
      /\ UNCHANGED iVars /\ UNCHANGED vars /\ MeetInv'
  BY <1>1, <1>2, MeetStutterInv DEF Uniting, JaccardCompare
<1>4. UnitedBoth(a, b)
  BY <1>2, <1>3 DEF Uniting, UnitedBoth
<1>5. PICK k : k = UnionLgK(Count(a.view), Count(b.view))
  OBVIOUS
<1>6. k \in Nat /\ SizeOK(k) /\ UnionInv(k, 3, MaxTheta)
  BY <1>2, <1>3, <1>5, CallSize DEF Uniting
<1>7. UnionInv(k, 3, MaxTheta)' /\ ~merging'
  BY <1>3, <1>6, StutterInv DEF vars
<1> DEFINE r == Result(FALSE)
           same == Identical(a.view, b.view, r)
<1>8. /\ same => SameKeys(a, b)
      /\ SameKeys(a, b) /\ Fits(a, b) => same
      /\ Count(r) \in Nat
  BY <1>3, <1>4, UnionOfBoth
<1>9. Result(FALSE)' = Result(FALSE)
  BY <1>3 DEF vars, Result
<1> HIDE DEF r
<1>10. CASE \/ Answer(a, b, IF same THEN "equal" ELSE "not equal")
            \/ same /\ Answer(a, b, "one")
  <2>1. /\ call'.kind = "answer" /\ call'.a = a /\ call'.b = b
        /\ call'.result \in {"one", "equal", "not equal"}
        /\ call'.result \in {"one", "equal"} => same
        /\ call'.result = "not equal" => ~same
    <3> HIDE DEF same
    <3>1. CASE Answer(a, b, IF same THEN "equal" ELSE "not equal") /\ same
      BY <3>1 DEF Answer
    <3>2. CASE Answer(a, b, IF same THEN "equal" ELSE "not equal") /\ ~same
      BY <3>2 DEF Answer
    <3>3. CASE same /\ Answer(a, b, "one")
      BY <3>3 DEF Answer
    <3> QED BY <1>10, <3>1, <3>2, <3>3
  <2>2. JaccardExact'
    <3> HIDE DEF same
    <3> QED BY <1>8, <2>1 DEF JaccardExact, SameKeys, Fits
  <2>3. 3 \in 0 .. 3 /\ MaxTheta \in 0 .. MaxTheta
    OBVIOUS
  <2>4. Answered'
    BY <1>6, <1>7, <2>1, <2>2, <2>3 DEF Answered
  <2> QED BY <1>3, <2>4 DEF ExprInv
<1>11. CASE ~(same /\ Count(r) > 0) /\ call' = [call EXCEPT !.kind = "intersect"]
  <2>1. call' = [kind |-> "intersect", a |-> a, b |-> b]
    BY <1>3, <1>11
  <2>2. UnitedBoth(a, b)'
    BY <1>3, <1>4, <1>5, <1>7 DEF UnitedBoth, vars
  <2>3. Undecided(a, b)'
    BY <1>9, <1>11 DEF r, Undecided
  <2>4. iUpdates' = 0
    BY <1>3 DEF iVars
  <2>5. Intersecting(a, b)'
    BY <1>3, <2>1, <2>2, <2>3, <2>4 DEF Intersecting
  <2> QED BY <1>3, <2>5 DEF ExprInv
<1>12. call.a = a /\ call.b = b
  BY <1>3
<1> QED BY <1>10, <1>11, <1>12 DEF JaccardCompare, r

LEMMA IntersectInv == ASSUME ExprInv, JaccardIntersect PROVE ExprInv'
<1>1. MeetInv /\ \E a, b : Intersecting(a, b)
  BY WhichCall DEF JaccardIntersect
<1>2. PICK a, b : Intersecting(a, b)
  BY <1>1
<1>3. /\ call = [kind |-> "intersect", a |-> a, b |-> b]
      /\ HonoursContract(a) /\ HonoursContract(b)
      /\ ~a.view.empty /\ ~b.view.empty /\ UnitedBoth(a, b) /\ iUpdates \in 0 .. 2
      /\ UNCHANGED vars /\ UNCHANGED call
  BY <1>2 DEF Intersecting, JaccardIntersect
<1>4. UnitedBoth(a, b)'
  <2>1. PICK k : k = UnionLgK(Count(a.view), Count(b.view))
    OBVIOUS
  <2>2. UnionInv(k, 3, MaxTheta)'
    BY <1>3, <2>1, StutterInv DEF UnitedBoth
  <2> QED BY <1>3, <2>1, <2>2 DEF UnitedBoth, vars
<1>5. Undecided(a, b)'
  <2>1. Result(FALSE)' = Result(FALSE)
    BY <1>3 DEF vars, Result
  <2> QED BY <1>2, <2>1 DEF Intersecting, Undecided
<1>6. ASSUME NEW i, HonoursContract(i), ~i.view.empty,
             \/ Meet!UpdateNothingLeft(Keys(i)) \/ Meet!UpdateNothingGiven(Keys(i))
             \/ Meet!BeginFirst(Keys(i)) \/ Meet!BeginMatch(Keys(i))
      PROVE  /\ MeetInv' /\ iUpdates' = iUpdates + 1
             /\ DOMAIN common' = IF iUpdates = 0 THEN DOMAIN i.source
                                 ELSE DOMAIN common \cap DOMAIN i.source
             /\ iMinTheta' = Lower(iMinTheta, i.view.theta)
  <2> DEFINE j == Keys(i)
  <2>1. /\ HonoursContract(j) /\ ~j.view.empty
        /\ DOMAIN j.source = DOMAIN i.source /\ j.view.theta = i.view.theta
        /\ \/ Meet!UpdateNothingLeft(j) \/ Meet!UpdateNothingGiven(j)
           \/ Meet!BeginFirst(j) \/ Meet!BeginMatch(j)
    BY <1>6, KeysHonourContract
  <2> HIDE DEF j
  <2>2. MeetInv'
    BY <1>1, <2>1, MeetBeginInv
  <2>3. Meet!Accept(j)
    BY <2>1 DEF Meet!UpdateNothingLeft, Meet!UpdateNothingGiven, Meet!BeginFirst,
                Meet!BeginMatch
  <2>4. DOMAIN MeetSum(common, j.source) = DOMAIN common \cap DOMAIN j.source
    BY DEF MeetSum
  <2>5. /\ common' = IF iUpdates = 0 THEN j.source ELSE MeetSum(common, j.source)
        /\ iMinTheta' = Lower(iMinTheta, j.view.theta)
        /\ iUpdates' = iUpdates + 1
    BY <2>1, <2>3, MeetViews DEF Meet!Accept
  <2> QED BY <2>1, <2>2, <2>4, <2>5
<1>7. CASE \E i \in {Keys(IF iUpdates = 0 THEN call.a ELSE call.b)} :
             /\ iUpdates < 2
             /\ \/ Meet!UpdateNothingLeft(i) \/ Meet!UpdateNothingGiven(i)
                \/ Meet!BeginFirst(i) \/ Meet!BeginMatch(i)
  <2>1. PICK c : c = IF iUpdates = 0 THEN a ELSE b
    OBVIOUS
  <2>2. /\ iUpdates < 2
        /\ \/ Meet!UpdateNothingLeft(Keys(c)) \/ Meet!UpdateNothingGiven(Keys(c))
           \/ Meet!BeginFirst(Keys(c)) \/ Meet!BeginMatch(Keys(c))
    BY <1>3, <1>7, <2>1
  <2>3. HonoursContract(c) /\ ~c.view.empty
    BY <1>3, <2>1
  <2>4. /\ MeetInv' /\ iUpdates' = iUpdates + 1
        /\ DOMAIN common' = IF iUpdates = 0 THEN DOMAIN c.source
                            ELSE DOMAIN common \cap DOMAIN c.source
        /\ iMinTheta' = Lower(iMinTheta, c.view.theta)
    BY <1>6, <2>2, <2>3
  <2>5. CASE iUpdates = 0
    <3>1. iMinTheta = MaxTheta
      BY <1>1, <2>5 DEF MeetInv, Started, MeetTyped
    <3>2. Lower(MaxTheta, a.view.theta) = a.view.theta
      BY <1>3 DEF HonoursContract, Lower
    <3>3. Intersecting(a, b)'
      BY <1>3, <1>4, <1>5, <2>1, <2>4, <2>5, <3>1, <3>2 DEF Intersecting
    <3> QED BY <2>4, <3>3 DEF ExprInv
  <2>6. CASE iUpdates = 1
    <3>1. DOMAIN common = DOMAIN a.source /\ iMinTheta = a.view.theta
      BY <1>2, <2>6 DEF Intersecting
    <3>2. Intersecting(a, b)'
      BY <1>3, <1>4, <1>5, <2>1, <2>4, <2>6, <3>1 DEF Intersecting
    <3> QED BY <2>4, <3>2 DEF ExprInv
  <2> QED BY <1>3, <2>2, <2>5, <2>6
<1>8. CASE \/ \E h \in DOMAIN iTodo :
                Meet!CopyEntry(h) \/ Meet!MatchEntry(h) \/ Meet!StopEarly(h)
           \/ Meet!EndCopy
           \/ Meet!EndMatch
  <2>1. MeetInv'
    BY <1>1, <1>8, MeetLoopInv
  <2>2. UNCHANGED <<common, iMinTheta, iUpdates>>
    BY <1>8 DEF Meet!CopyEntry, Meet!MatchEntry, Meet!StopEarly, Meet!EndCopy,
                Meet!EndMatch, Meet!history
  <2>3. Intersecting(a, b)'
    BY <1>2, <1>3, <1>4, <1>5, <2>2 DEF Intersecting
  <2> QED BY <2>1, <2>3 DEF ExprInv
<1> QED BY <1>7, <1>8 DEF JaccardIntersect

(* The two counts of compute are those of the source sets.                 *)
LEMMA RatioInv == ASSUME ExprInv, JaccardRatio PROVE ExprInv'
<1>1. MeetInv /\ \E a, b : Intersecting(a, b)
  BY WhichCall DEF JaccardRatio
<1>2. PICK a, b : Intersecting(a, b)
  BY <1>1
<1> DEFINE r == Result(FALSE)
           A == DOMAIN a.source
           B == DOMAIN b.source
           least == Lower(a.view.theta, b.view.theta)
<1>3. /\ call.a = a /\ call.b = b
      /\ HonoursContract(a) /\ HonoursContract(b) /\ UnitedBoth(a, b)
      /\ ~(Identical(a.view, b.view, r) /\ Count(r) > 0)
      /\ iUpdates = 1 => DOMAIN common = A
      /\ iUpdates = 2 => DOMAIN common = A \cap B /\ iMinTheta = least
      /\ phase = "idle" /\ (iUpdates = 2 \/ (iUpdates = 1 /\ iTable.isEmpty))
      /\ UNCHANGED vars /\ UNCHANGED iVars
      /\ call' = [kind |-> "answer", a |-> call.a, b |-> call.b, result |-> "ratio",
                  theta |-> r.theta, union |-> Count(r), both |-> CountBelow(r.theta)]
  BY <1>2 DEF Intersecting, Undecided, JaccardRatio, IntersectionDone
<1>4. /\ DOMAIN r.entries = KeysBelow(A \cup B, r.theta)
      /\ r.theta \in Nat /\ r.theta <= least
      /\ Count(r) \in Nat
      /\ Fits(a, b) => r.theta = least
      /\ SameKeys(a, b) /\ Fits(a, b) => Identical(a.view, b.view, r)
  BY <1>3, UnionOfBoth
<1>5. least \in 0 .. MaxTheta
  BY <1>3 DEF HonoursContract, Lower
<1> HIDE DEF r, A, B, least
<1>6. r.theta \in 0 .. MaxTheta
  BY <1>4, <1>5
<1>7. CountBelow(r.theta) = Cardinality(KeysBelow(A \cap B, r.theta))
  <2>1. PICK theta : theta = r.theta
    OBVIOUS
  <2>2. \/ iUpdates = 2 /\ DOMAIN common = A \cap B /\ theta <= iMinTheta
        \/ iUpdates = 1 /\ DOMAIN common = A /\ iTable.isEmpty
    BY <1>3, <1>4, <2>1
  <2> QED BY <1>1, <1>3, <1>6, <2>1, <2>2, BothCounted
<1>8. /\ call'.kind = "answer" /\ call'.result = "ratio" /\ call'.a = a /\ call'.b = b
      /\ call'.theta = r.theta /\ call'.union = Count(r)
      /\ call'.both = CountBelow(r.theta)
  BY <1>3
<1>9. JaccardExact'
  <2>1. /\ Count(r) = Cardinality(KeysBelow(A \cup B, r.theta))
        /\ Count(r) = 0 \/ ~SameKeys(a, b) \/ ~Fits(a, b)
    BY <1>3, <1>4 DEF Count
  <2> QED BY <1>4, <1>7, <1>8, <2>1 DEF JaccardExact, SameKeys, Fits, A, B, least
<1>10. Answered'
  <2>1. PICK k : k = UnionLgK(Count(a.view), Count(b.view))
    OBVIOUS
  <2>2. /\ UnionInv(k, 3, MaxTheta)' /\ k \in Nat /\ SizeOK(k) /\ ~merging'
        /\ 3 \in 0 .. 3 /\ MaxTheta \in 0 .. MaxTheta
    BY <1>3, <2>1, CallSize, StutterInv DEF UnitedBoth, vars
  <2> QED BY <1>8, <1>9, <2>2 DEF Answered
<1>11. MeetInv'
  BY <1>1, <1>3, MeetStutterInv
<1> QED BY <1>10, <1>11 DEF ExprInv

LEMMA ReturnInv == ASSUME ExprInv, JaccardReturn PROVE ExprInv'
<1>1. Answered
  BY WhichCall DEF JaccardReturn
<1>2. /\ merging \in BOOLEAN /\ ~merging
      /\ DOMAIN todo = {} /\ todo \in [DOMAIN todo -> Nat]
  BY <1>1, Zenon DEF Answered, UnionInv, Typed
<1>3. IInv'
  BY <1>2, FreshAgain DEF JaccardReturn
<1>4. Idle'
  BY DEF JaccardReturn, NoCall, Idle
<1>5. MeetFresh'
  <2>1. EmptyTable(Meet!DefaultTable(MaxTheta, FALSE), MaxTheta, FALSE)
    <3>1. MaxTheta \in 0 .. MaxTheta
      OBVIOUS
    <3>2. FALSE \in BOOLEAN
      OBVIOUS
    <3> QED BY <3>1, <3>2, DefaultTableEmpty
  <2> QED BY <2>1 DEF JaccardReturn, MeetFresh
<1>6. (MeetFresh => MeetInv)'
  BY MeetFreshInv, PTL
<1> QED BY <1>3, <1>4, <1>5, <1>6 DEF ExprInv

LEMMA ExprNextInv == ASSUME ExprInv, [ExprNext]_exprVars PROVE ExprInv'
<1>1. CASE \/ Unite \/ Intersect \/ IntersectUnion
           \/ SubtractInputs \/ SubtractFromUnion \/ SubtractFromIntersection
           \/ StoreInput \/ StoreUnion \/ StoreIntersection
  <2>1. Idle
    BY <1>1 DEF Unite, Intersect, IntersectUnion, SubtractInputs, SubtractFromUnion,
         SubtractFromIntersection, StoreInput, StoreUnion, StoreIntersection
  <2> QED BY <1>1, <2>1, ClientInv
<1>2. CASE Jaccard
  BY <1>2, CallInv, UniteInv, CompareInv, IntersectInv, RatioInv, ReturnInv DEF Jaccard
<1>3. CASE UNCHANGED exprVars
  <2>1. UNCHANGED vars /\ UNCHANGED iVars /\ UNCHANGED call
    BY <1>3 DEF exprVars
  <2>2. MeetInv'
    BY <2>1, MeetStutterInv DEF ExprInv
  <2>3. CASE Idle /\ IInv
    BY <2>1, <2>2, <2>3, UnionNextInv DEF ExprInv, Idle
  <2>4. CASE \E a, b : Uniting(a, b) \/ Intersecting(a, b)
    <3>1. PICK a, b : Uniting(a, b) \/ Intersecting(a, b)
      BY <2>4
    <3>2. PICK k : k = UnionLgK(Count(a.view), Count(b.view))
      OBVIOUS
    <3>3. UnionInv(k, 3, MaxTheta)'
      BY <2>1, <3>1, <3>2, StutterInv DEF Uniting, Intersecting, UnitedBoth
    <3>4. Result(FALSE)' = Result(FALSE)
      BY <2>1 DEF vars, Result
    <3>5. (Uniting(a, b) \/ Intersecting(a, b))'
      BY <2>1, <3>1, <3>2, <3>3, <3>4 DEF Uniting, Intersecting, Undecided, UnitedBoth, vars, iVars
    <3> QED BY <2>2, <3>5 DEF ExprInv
  <2>5. CASE Answered
    <3>1. PICK k \in Nat, rf \in 0 .. 3, start \in 0 .. MaxTheta :
            SizeOK(k) /\ UnionInv(k, rf, start)
      BY <2>5 DEF Answered
    <3>2. UnionInv(k, rf, start)'
      BY <2>1, <3>1, StutterInv
    <3>3. JaccardExact'
      BY <2>1, <2>5 DEF Answered, JaccardExact
    <3>4. Answered'
      BY <2>1, <2>5, <3>1, <3>2, <3>3 DEF Answered, vars
    <3> QED BY <2>2, <3>4 DEF ExprInv
  <2> QED BY <2>3, <2>4, <2>5 DEF ExprInv
<1> QED BY <1>1, <1>2, <1>3 DEF ExprNext

(* The invariant holds in every reachable state of the client, in the      *)
(* middle of every call of the operations it composes.                     *)
THEOREM ExprInvariance == ExprSpec => []ExprInv
<1>1. ExprInit => ExprInv
  <2> SUFFICES ASSUME ExprInit PROVE ExprInv
    OBVIOUS
  <2>1. IInv /\ MeetInv
    BY InitInv, MeetInitInv DEF ExprInit
  <2>2. Idle
    BY DEF ExprInit, NoCall, Idle
  <2> QED BY <2>1, <2>2 DEF ExprInv
<1>2. ExprInv /\ [ExprNext]_exprVars => ExprInv'
  BY ExprNextInv
<1> QED BY <1>1, <1>2, PTL DEF ExprSpec

(* The union that a client or a call of the Jaccard similarity uses.       *)
LEMMA UnionInUse ==
  ASSUME ExprInv
  PROVE  ResultRepresentsUnion /\ ResultThetaJustified
<1>1. \E k \in Nat, rf \in 0 .. 3, start \in 0 .. MaxTheta :
        SizeOK(k) /\ UnionInv(k, rf, start)
  <2>1. CASE Idle /\ IInv
    <3>1. SizeOK(LgK) /\ LgK \in Nat /\ LgResize \in 0 .. 3 /\ Start \in 0 .. MaxTheta
      BY OwnSizeOK, StartType DEF SizeOK
    <3>2. UnionInv(LgK, LgResize, Start)
      BY <2>1 DEF IInv
    <3> QED BY <3>1, <3>2
  <2>2. CASE \E a, b : Uniting(a, b) \/ Intersecting(a, b)
    <3>1. PICK a, b : Uniting(a, b) \/ Intersecting(a, b)
      BY <2>2
    <3> DEFINE k == UnionLgK(Count(a.view), Count(b.view))
    <3>2. HonoursContract(a) /\ HonoursContract(b) /\ UnionInv(k, 3, MaxTheta)
      BY <3>1 DEF Uniting, Intersecting, UnitedBoth
    <3>3. k \in Nat /\ SizeOK(k)
      BY <3>2, CallSize
    <3>4. 3 \in 0 .. 3 /\ MaxTheta \in 0 .. MaxTheta
      OBVIOUS
    <3> HIDE DEF k
    <3> QED BY <3>2, <3>3, <3>4
  <2>3. CASE Answered
    BY <2>3 DEF Answered
  <2> QED BY <2>1, <2>2, <2>3 DEF ExprInv
<1> QED BY <1>1, ResultIsUnion, ResultIsJustified

(* The union's contract and its theta hold in every set expression too,    *)
(* and for the union that a call of the Jaccard similarity builds inside.  *)
THEOREM UnionRepresentsInExpressions ==
  ExprSpec => [](ResultRepresentsUnion /\ ResultThetaJustified)
<1>1. ExprInv => ResultRepresentsUnion /\ ResultThetaJustified
  BY UnionInUse
<1> QED BY <1>1, ExprInvariance, PTL

(* Whatever the intersection is given, inputs or the result of a union:    *)
(* between two calls its result represents the intersection of the source  *)
(* sets, and no input is reported as corrupted (IntersectionState).        *)
THEOREM IntersectionRepresents == ExprSpec => []ResultRepresentsIntersection
<1>1. ExprInv => ResultRepresentsIntersection
  BY ResultIsIntersection DEF ExprInv
<1> QED BY <1>1, ExprInvariance, PTL

(* The answers of the Jaccard similarity are exact: both counts are those  *)
(* of the source sets below one theta, and sets are called identical       *)
(* exactly when they are (compute, exactly_equal).                         *)
THEOREM JaccardIsExact == ExprSpec => []JaccardExact
<1>1. ExprInv => JaccardExact
  BY WhichCall DEF Answered, JaccardExact
<1> QED BY <1>1, ExprInvariance, PTL

-------------------------------------------------------------------------------
(* The difference *)

(* The merge-scan keeps the hashes of A below theta that are not in B.     *)
LEMMA MergeScanKeeps ==
  ASSUME NEW a, DOMAIN a.entries \subseteq Nat \ {0},
         NEW b, DOMAIN b.entries \subseteq Nat,
         NEW theta \in 0 .. MaxTheta
  PROVE  Diff!MergeScan(a, b, theta)
           = {h \in DOMAIN a.entries : h < theta /\ h \notin DOMAIN b.entries}
<1> DEFINE A == DOMAIN a.entries
           B == DOMAIN b.entries
           States == [rest : SUBSET B, kept : SUBSET A]
           base == [rest |-> B, kept |-> {}]
           Next1(h, st) == h \in {g \in st.rest : g >= h}
                             /\ \A g \in {g \in st.rest : g >= h} : h <= g
           Visit(h, st) == [rest |-> {g \in st.rest : g >= h},
                            kept |-> IF Next1(h, st) THEN st.kept ELSE st.kept \cup {h}]
           Turn(h, st) == IF h \in A /\ h < theta THEN Visit(h, st) ELSE st
           Scan(f) == f = [h \in Nat |-> IF h = 0 THEN base ELSE Turn(h, f[h - 1])]
           scan == CHOOSE f : Scan(f)
<1>1. Diff!MergeScan(a, b, theta) = scan[MaxTheta].kept
  BY DEF Diff!MergeScan
<1>2. base \in States
  OBVIOUS
<1>3. ASSUME NEW h \in Nat, NEW st \in States PROVE Turn(h, st) \in States
  OBVIOUS
<1>4. \E f : Scan(f)
  <2> DEFINE step == [h \in Nat |-> [st \in States |-> Turn(h + 1, st)]]
  <2> HIDE DEF States, base, Turn
  <2>1. step \in [Nat -> [States -> States]]
    BY <1>3
  <2> HIDE DEF step
  <2>2. PICK f \in [Nat -> States] :
          f[0] = base /\ \A h \in Nat : f[h + 1] = step[h][f[h]]
    <3>1. Recursive(States, base, step)
      BY <1>2, <2>1, Recursion
    <3> QED BY <3>1 DEF Recursive
  <2>3. ASSUME NEW h \in Nat, h # 0 PROVE f[h] = Turn(h, f[h - 1])
    <3>1. h - 1 \in Nat /\ (h - 1) + 1 = h
      BY <2>3
    <3>2. f[h] = step[h - 1][f[h - 1]] /\ f[h - 1] \in States
      BY <2>2, <3>1
    <3> QED BY <3>1, <3>2 DEF step
  <2>4. f = [h \in Nat |-> IF h = 0 THEN base ELSE Turn(h, f[h - 1])]
    BY <2>2, <2>3
  <2> QED BY <2>4
<1>5. Scan(scan)
  <2> HIDE DEF Scan
  <2> QED BY <1>4, Zenon
<1> HIDE DEF scan
<1>6. scan[0] = base /\ \A h \in Nat : scan[h + 1] = Turn(h + 1, scan[h])
  <2> HIDE DEF base, Turn
  <2> QED BY <1>5
<1> DEFINE Done(n) == /\ scan[n].rest \subseteq B
                      /\ {g \in B : g > n} \subseteq scan[n].rest
                      /\ scan[n].kept = {h \in A : h <= n /\ h < theta /\ h \notin B}
           T == {n \in Nat : Done(n)}
<1>7. 0 \in T
  <2>1. \A h \in A : ~(h <= 0)
    OBVIOUS
  <2>2. scan[0].rest = B /\ scan[0].kept = {}
    BY <1>6
  <2> QED BY <2>1, <2>2
<1>8. ASSUME NEW n \in T PROVE n + 1 \in T
  <2> DEFINE h == n + 1
             st == scan[n]
  <2>1. n \in Nat /\ h \in Nat /\ scan[h] = Turn(h, st)
    BY <1>6
  <2>2. /\ st.rest \subseteq B /\ {g \in B : g > n} \subseteq st.rest
        /\ st.kept = {g \in A : g <= n /\ g < theta /\ g \notin B}
    BY <1>8
  <2>3. \A g \in Nat : /\ g <= h <=> g <= n \/ g = h
                       /\ g > n <=> g >= h
                       /\ g > h => g > n
    BY <2>1
  <2> HIDE DEF h, st
  <2>4. \A g \in A : g \in Nat
    OBVIOUS
  <2>5. \A g \in B : g \in Nat
    OBVIOUS
  <2> HIDE DEF A, B, T, Done
  <2>6. CASE h \in A /\ h < theta
    <3>1. {g \in st.rest : g >= h} = {g \in B : g >= h}
      BY <2>2, <2>3, <2>5
    <3>2. Next1(h, st) <=> h \in B
      BY <2>1, <2>5, <3>1
    <3> HIDE DEF Next1
    <3>3. /\ scan[h].rest = {g \in B : g >= h}
          /\ scan[h].kept = IF h \in B THEN st.kept ELSE st.kept \cup {h}
      BY <2>1, <2>6, <3>1, <3>2
    <3>4. {g \in A : g <= h /\ g < theta /\ g \notin B}
            = {g \in A : g <= n /\ g < theta /\ g \notin B} \cup {g \in {h} : h \notin B}
      BY <2>3, <2>4, <2>6
    <3>5. scan[h].kept = {g \in A : g <= h /\ g < theta /\ g \notin B}
      BY <2>2, <3>3, <3>4
    <3>6. /\ scan[h].rest \subseteq B
          /\ {g \in B : g > h} \subseteq scan[h].rest
      BY <2>1, <2>5, <3>3
    <3> QED BY <2>1, <3>5, <3>6 DEF T, Done, h
  <2>7. CASE ~(h \in A /\ h < theta)
    <3>1. scan[h] = st
      BY <2>1, <2>7
    <3>2. {g \in A : g <= h /\ g < theta /\ g \notin B}
            = {g \in A : g <= n /\ g < theta /\ g \notin B}
      BY <2>3, <2>4, <2>7
    <3>3. {g \in B : g > h} \subseteq st.rest
      BY <2>2, <2>3, <2>5
    <3> QED BY <2>1, <2>2, <3>1, <3>2, <3>3 DEF T, Done, h
  <2> QED BY <2>6, <2>7 DEF h
<1>9. MaxTheta \in T
  <2>1. T = Nat
    <3>1. T \in SUBSET Nat
      OBVIOUS
    <3> HIDE DEF T
    <3> QED BY <1>7, <1>8, <3>1, SetInduction
  <2>2. MaxTheta \in Nat
    OBVIOUS
  <2> HIDE DEF T
  <2> QED BY <2>1, <2>2
<1>10. scan[MaxTheta].kept = {h \in A : h <= MaxTheta /\ h < theta /\ h \notin B}
  BY <1>9
<1>11. \A h \in A : h < theta => h <= MaxTheta
  OBVIOUS
<1> HIDE DEF A, B
<1>12. scan[MaxTheta].kept = {h \in A : h < theta /\ h \notin B}
  BY <1>10, <1>11
<1> QED BY <1>1, <1>12 DEF A, B

(* All three scans keep the same hashes.                                   *)
LEMMA AllScansKeep ==
  ASSUME NEW a, DOMAIN a.entries \subseteq Nat \ {0},
         NEW b, DOMAIN b.entries \subseteq Nat,
         NEW theta \in 0 .. MaxTheta
  PROVE  Diff!KeptHashes(a, b, theta)
           = {h \in DOMAIN a.entries : h < theta /\ h \notin DOMAIN b.entries}
<1>1. Diff!HashSetScan(a, b, theta)
        = {h \in DOMAIN a.entries : h < theta /\ h \notin DOMAIN b.entries}
  BY DEF Diff!HashSetScan
<1> QED BY <1>1, MergeScanKeeps DEF Diff!KeptHashes

LEMMA OutcomeIsDifference ==
  ASSUME NEW a, HonoursContract(a), NEW b, HonoursContract(b), NEW o \in BOOLEAN,
         Diff!Outcome(a.view, b.view, o).error = Diff!NoError
  PROVE  Represents(Diff!Outcome(a.view, b.view, o).parts, Minus(a.source, b.source))
<1> DEFINE A == DOMAIN a.source
           B == DOMAIN b.source
           D == Minus(a.source, b.source)
           parts == Diff!Outcome(a.view, b.view, o).parts
<1>1. /\ a.view = [entries |-> a.view.entries, theta |-> a.view.theta,
                   seed |-> a.view.seed, ordered |-> a.view.ordered,
                   empty |-> a.view.empty]
      /\ A \subseteq Hashes /\ B \subseteq Hashes
      /\ a.view.theta \in 0 .. MaxTheta /\ b.view.theta \in 0 .. MaxTheta
      /\ a.view.empty \in BOOLEAN /\ b.view.empty \in BOOLEAN
      /\ DOMAIN a.view.entries = {h \in A : 0 < h /\ h < a.view.theta}
      /\ DOMAIN b.view.entries = {h \in B : 0 < h /\ h < b.view.theta}
      /\ \A h \in DOMAIN a.view.entries : a.view.entries[h] = a.source[h]
      /\ a.view.empty => A \subseteq NeverRetained
      /\ b.view.empty => B \subseteq NeverRetained
  BY DEF HonoursContract, Represents
<1>2. \A h \in A \cup B : h \in Nat /\ h <= MaxTheta
  <2> HIDE DEF A, B
  <2> SUFFICES ASSUME NEW h \in A \cup B PROVE h \in Nat /\ h <= MaxTheta
    OBVIOUS
  <2>1. h \in Hashes
    BY <1>1
  <2> QED BY <2>1
<1>3. DOMAIN D = A \ B /\ \A h \in A \ B : D[h] = a.source[h]
  BY DEF Minus
<1> HIDE DEF A, B, D, parts
<1>4. CASE a.view.empty \/ b.view.empty
  <2>1. parts = Diff!PartsFromSketch(a.view, o)
    BY <1>4 DEF parts, Diff!Outcome, Diff!NoError, Diff!SeedMismatch
  <2>2. /\ parts.entries = a.view.entries /\ parts.theta = a.view.theta
        /\ parts.empty = a.view.empty
    BY <1>1, <2>1 DEF Diff!PartsFromSketch
  <2>3. {h \in A : 0 < h /\ h < a.view.theta} = {h \in A \ B : 0 < h /\ h < a.view.theta}
    <3> SUFFICES ASSUME NEW h \in A, 0 < h, h < a.view.theta PROVE h \notin B
      OBVIOUS
    <3>1. h \in Nat /\ h # 0 /\ h # MaxTheta
      BY <1>1, <1>2
    <3>2. h \notin NeverRetained
      BY <3>1 DEF NeverRetained
    <3> QED BY <1>1, <1>4, <3>2
  <2> QED BY <1>1, <1>3, <2>2, <2>3 DEF Represents, parts, D
<1>5. CASE ~a.view.empty /\ ~b.view.empty
  <2> DEFINE theta == Lower(a.view.theta, b.view.theta)
             kept == Diff!KeptHashes(a.view, b.view, theta)
  <2>1. parts = Diff!Difference(a.view, b.view, o)
    BY <1>5 DEF parts, Diff!Outcome, Diff!NoError, Diff!SeedMismatch
  <2>2. Diff!Lower(a.view.theta, b.view.theta) = theta
    BY DEF Diff!Lower, Lower
  <2>3. /\ theta \in 0 .. MaxTheta /\ theta <= a.view.theta /\ theta <= b.view.theta
    BY <1>1 DEF Lower
  <2>4. /\ parts.entries = [h \in kept |-> a.view.entries[h]] /\ parts.theta = theta
        /\ parts.empty = (kept = {} /\ theta = MaxTheta)
    BY <2>1, <2>2 DEF Diff!Difference
  <2>5. /\ DOMAIN a.view.entries \subseteq Nat \ {0}
        /\ DOMAIN b.view.entries \subseteq Nat
    <3>1. \A h \in DOMAIN a.view.entries : h \in A /\ 0 < h
      BY <1>1
    <3>2. \A h \in DOMAIN b.view.entries : h \in B
      BY <1>1
    <3> QED BY <1>2, <3>1, <3>2
  <2> HIDE DEF theta
  <2>6. kept = {h \in DOMAIN a.view.entries : h < theta /\ h \notin DOMAIN b.view.entries}
    BY <2>3, <2>5, AllScansKeep
  <2> HIDE DEF kept
  <2>7. kept = {h \in A \ B : 0 < h /\ h < theta}
    <3>1. ASSUME NEW h \in A, 0 < h, h < theta
          PROVE  /\ h \in DOMAIN a.view.entries
                 /\ h \in B <=> h \in DOMAIN b.view.entries
      <4>1. h < a.view.theta /\ h < b.view.theta
        BY <1>1, <1>2, <2>3, <3>1
      <4> QED BY <1>1, <3>1, <4>1
    <3>2. \A h \in DOMAIN a.view.entries : h \in A /\ 0 < h
      BY <1>1
    <3> QED BY <2>6, <3>1, <3>2
  <2>8. kept = {} /\ theta = MaxTheta => A \ B \subseteq NeverRetained
    <3> SUFFICES ASSUME kept = {}, theta = MaxTheta, NEW h \in A \ B
                 PROVE  h \in NeverRetained
      OBVIOUS
    <3> QED BY <1>2, <2>7 DEF NeverRetained
  <2>9. \A h \in kept : h \in A \ B /\ a.view.entries[h] = a.source[h]
    BY <1>1, <2>6, <2>7
  <2> QED BY <1>3, <2>4, <2>7, <2>8, <2>9 DEF Represents, parts, D
<1> QED BY <1>1, <1>4, <1>5

(* The result of an intersection honours the contract, too.                *)
LEMMA MeetHonoursContract ==
  ASSUME MeetInv, phase = "idle", hasResult, NEW o \in BOOLEAN
  PROVE  HonoursContract([view |-> Meet!Result(o), source |-> common])
<1> DEFINE r == Meet!Result(o)
<1>1. r = [entries |-> iTable.entries, theta |-> iTable.theta, seed |-> Seed,
           ordered |-> o, empty |-> iTable.isEmpty]
  BY DEF Meet!Result
<1>2. /\ MeetTyped /\ Started /\ Settled
      /\ TableShape(iTable, iTable.lgNom, 0)
      /\ common \in [DOMAIN common -> Nat] /\ DOMAIN common \subseteq Hashes
  BY DEF MeetInv, MeetTyped
<1> HIDE DEF r
<1>3. /\ r.entries = iTable.entries /\ r.theta = iTable.theta
      /\ r.ordered = o /\ r.empty = iTable.isEmpty
      /\ r = [entries |-> r.entries, theta |-> r.theta, seed |-> r.seed,
              ordered |-> r.ordered, empty |-> r.empty]
  BY <1>1
<1>4. /\ r.entries \in [DOMAIN r.entries -> Nat] /\ r.theta \in 0 .. MaxTheta
      /\ r.ordered \in BOOLEAN /\ r.empty \in BOOLEAN
  <2>1. iTable.isEmpty \in BOOLEAN /\ iTable.entries \in [DOMAIN iTable.entries -> Nat]
        /\ iTable.theta \in 0 .. MaxTheta
    BY <1>2, Zenon DEF TableShape, Retained
  <2> QED BY <1>3, <2>1
<1>5. Represents(r, common)
  BY <1>2, <1>3 DEF Settled, Started, Due, Retained, Represents
<1> DEFINE i == [view |-> r, source |-> common]
<1>6. i.view = r /\ i.source = common
  OBVIOUS
<1> HIDE DEF i
<1>7. HonoursContract(i)
  BY <1>2, <1>3, <1>4, <1>5, <1>6 DEF HonoursContract
<1> QED BY <1>7 DEF i, r

LEMMA DifferenceInv ==
  ASSUME ExprInv, ResultRepresentsDifference, [ExprNext]_exprVars
  PROVE  ResultRepresentsDifference'
<1>1. ASSUME NEW a, HonoursContract(a), NEW b, HonoursContract(b), NEW o \in BOOLEAN,
             Compute(a, b, o)
      PROVE  ResultRepresentsDifference'
  <2>1. /\ call'.kind = "difference" /\ call'.a = a.source /\ call'.b = b.source
        /\ call'.outcome = Diff!Outcome(a.view, b.view, o)
    BY <1>1 DEF Compute
  <2> QED BY <1>1, <2>1, OutcomeIsDifference DEF ResultRepresentsDifference
<1>2. CASE SubtractInputs
  <2>1. PICK a \in Inputs, b \in Inputs, o \in BOOLEAN : Compute(a, b, o)
    BY <1>2 DEF SubtractInputs
  <2> QED BY <1>1, <2>1, InputsAssumption
<1>3. CASE SubtractFromUnion
  <2>1. PICK b \in Inputs, sorted \in BOOLEAN, o \in BOOLEAN :
          Compute([view |-> Result(sorted), source |-> seen], b, o)
    BY <1>3 DEF SubtractFromUnion
  <2>2. HonoursContract([view |-> Result(sorted), source |-> seen])
    BY <1>3, WhichCall, UnionHonoursContract DEF SubtractFromUnion
  <2> DEFINE a == [view |-> Result(sorted), source |-> seen]
  <2> HIDE DEF a
  <2>3. Compute(a, b, o) /\ HonoursContract(a)
    BY <2>1, <2>2 DEF a
  <2> QED BY <1>1, <2>3, InputsAssumption
<1>4. CASE SubtractFromIntersection
  <2>1. PICK b \in Inputs, sorted \in BOOLEAN, o \in BOOLEAN :
          Compute([view |-> Meet!Result(sorted), source |-> common], b, o)
    BY <1>4 DEF SubtractFromIntersection
  <2>2. HonoursContract([view |-> Meet!Result(sorted), source |-> common])
    BY <1>4, WhichCall, MeetHonoursContract DEF SubtractFromIntersection
  <2> DEFINE a == [view |-> Meet!Result(sorted), source |-> common]
  <2> HIDE DEF a
  <2>3. Compute(a, b, o) /\ HonoursContract(a)
    BY <2>1, <2>2 DEF a
  <2> QED BY <1>1, <2>3, InputsAssumption
<1>5. CASE UNCHANGED exprVars
  BY <1>5 DEF exprVars, ResultRepresentsDifference
<1>6. ASSUME call'.kind # "difference" PROVE ResultRepresentsDifference'
  BY <1>6 DEF ResultRepresentsDifference
<1>7. \A a, b, result : Answer(a, b, result) => call'.kind = "answer"
  BY DEF Answer
<1>8. CASE Unite \/ Intersect \/ IntersectUnion
  BY <1>6, <1>8 DEF Unite, Intersect, IntersectUnion, NoCall
<1>9. CASE StoreInput \/ StoreUnion \/ StoreIntersection
  BY <1>6, <1>9 DEF StoreInput, StoreUnion, StoreIntersection, Store
<1>10. CASE Jaccard
  <2>1. CASE JaccardCall
    <3>1. PICK a \in Inputs, b \in Inputs :
            JaccardEarly(a, b) \/ JaccardSeedMismatch(a, b) \/ JaccardUnion(a, b)
      BY <2>1 DEF JaccardCall
    <3>2. call'.kind \in {"answer", "unite"}
      <4>1. JaccardUnion(a, b) => call'.kind = "unite"
        BY DEF JaccardUnion
      <4>2. JaccardEarly(a, b) \/ JaccardSeedMismatch(a, b) => call'.kind = "answer"
        BY <1>7 DEF JaccardEarly, JaccardSeedMismatch
      <4> QED BY <3>1, <4>1, <4>2
    <3> QED BY <1>6, <3>2
  <2>2. CASE JaccardUnite \/ JaccardIntersect
    <3>1. call'.kind \in {"unite", "intersect"}
      BY <2>2 DEF JaccardUnite, JaccardIntersect
    <3> QED BY <1>6, <3>1
  <2>3. CASE JaccardCompare
    <3>1. PICK a, b : Uniting(a, b)
      BY <2>3, WhichCall DEF JaccardCompare
    <3>2. call = [kind |-> "unite", a |-> a, b |-> b]
      BY <3>1 DEF Uniting
    <3>3. call'.kind \in {"answer", "intersect"}
      <4>1. [call EXCEPT !.kind = "intersect"].kind = "intersect"
        BY <3>2
      <4> QED BY <1>7, <2>3, <4>1 DEF JaccardCompare
    <3> QED BY <1>6, <3>3
  <2>4. CASE JaccardRatio
    <3>1. call'.kind = "answer"
      BY <2>4 DEF JaccardRatio
    <3> QED BY <1>6, <3>1
  <2>5. CASE JaccardReturn
    <3>1. call'.kind = "none"
      BY <2>5 DEF JaccardReturn, NoCall
    <3> QED BY <1>6, <3>1
  <2> QED BY <1>10, <2>1, <2>2, <2>3, <2>4, <2>5 DEF Jaccard
<1> QED BY <1>2, <1>3, <1>4, <1>5, <1>8, <1>9, <1>10 DEF ExprNext

(* Whichever scan computed it, and whatever its first sketch is the result *)
(* of, the result represents the difference of the source sets (compute).  *)
THEOREM DifferenceRepresents == ExprSpec => []ResultRepresentsDifference
<1>1. ExprInit => ResultRepresentsDifference
  BY DEF ExprInit, NoCall, ResultRepresentsDifference
<1>2. ExprInv /\ ResultRepresentsDifference /\ [ExprNext]_exprVars
        => ResultRepresentsDifference'
  BY DifferenceInv
<1> QED BY <1>1, <1>2, ExprInvariance, PTL DEF ExprSpec
===============================================================================
