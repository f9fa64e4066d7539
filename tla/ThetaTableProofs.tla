---------------------------- MODULE ThetaTableProofs ----------------------------
(***************************************************************************)
(* What the operations of the Theta-family hash table do, for every set of *)
(* hashes, every k, resize factor and sampling probability.  The proofs    *)
(* about the sketch and about the union cite these lemmas.                 *)
(***************************************************************************)
EXTENDS ThetaTable, NatSets

USE MaxThetaAssumption, MinLgKAssumption, HashesAssumption,
    LgKAssumption, LgResizeAssumption

(* Sizes are given by their log2, and resize factors too. *)
SizeOK(lgNom) ==
  /\ lgNom \in Nat
  /\ 2 ^ lgNom \in Nat \ {0}
  /\ 2 ^ (lgNom + 1) = 2 * 2 ^ lgNom

LEMMA OwnSizeOK == SizeOK(LgK) /\ LgResize \in 0 .. 3
BY PowersOfTwo DEF SizeOK

(* The retained hashes of a well-typed table form a finite set. *)
LEMMA RetainedFinite ==
  ASSUME NEW lgNom, NEW lgResize,
         NEW t, TableShape(t, lgNom, lgResize)
  PROVE  /\ Retained(t) \in SUBSET (0 .. MaxTheta)
         /\ IsFiniteSet(Retained(t))
         /\ NumRetained(t) \in Nat
<1>1. Retained(t) \in SUBSET (0 .. MaxTheta)
  BY DEF TableShape
<1>2. IsFiniteSet(0 .. MaxTheta)
  BY FS_Interval
<1>3. IsFiniteSet(Retained(t))
  BY <1>1, <1>2, FS_Subset
<1> QED BY <1>1, <1>3, FS_CardinalityType DEF NumRetained

SamplingOK(p) == p \in (Nat \ {0}) \X (Nat \ {0}) /\ p[1] <= p[2]

(* new and reset make a well-typed table that retains nothing. *)
LEMMA NewTableShape ==
  ASSUME NEW lgNom, SizeOK(lgNom), MinLgK <= lgNom, NEW lgResize \in 0 .. 3,
         NEW p, SamplingOK(p)
  PROVE  LET t == NewTable(lgNom, lgResize, p)
         IN  /\ TableShape(t, lgNom, lgResize) /\ MinLgK <= t.lgCur
             /\ t.entries = [h \in {} |-> Unit] /\ Retained(t) = {}
             /\ t.theta = StartingTheta(p)
             /\ t.isEmpty = TRUE
<1> DEFINE lg == StartingSubMultiple(lgNom + 1, MinLgK, lgResize)
           th == StartingTheta(p)
           t == NewTable(lgNom, lgResize, p)
<1>0. lgNom \in Nat
  BY DEF SizeOK
<1>1. lg \in MinLgK .. lgNom + 1
  <2>1. CASE lgResize = 0
    BY <1>0, <2>1 DEF StartingSubMultiple
  <2>2. CASE lgResize # 0
    <3>1. ((lgNom + 1 - MinLgK) % lgResize) \in 0 .. (lgNom + 1 - MinLgK)
      <4>1. CASE lgResize = 1
        BY <1>0, <4>1
      <4>2. CASE lgResize = 2
        BY <1>0, <4>2
      <4>3. CASE lgResize = 3
        BY <1>0, <4>3
      <4> QED BY <2>2, <4>1, <4>2, <4>3
    <3> QED BY <1>0, <2>2, <3>1 DEF StartingSubMultiple
  <2> QED BY <2>1, <2>2
<1>2. th \in 0 .. MaxTheta
  <2>1. PICK n \in Nat \ {0}, d \in Nat \ {0} : p = <<n, d>> /\ n <= d
    BY DEF SamplingOK
  <2>2. (MaxTheta * n) \div d \in 0 .. MaxTheta
    <3>1. MaxTheta * n \in Nat /\ MaxTheta * n <= MaxTheta * d
      BY <2>1
    <3>2. (MaxTheta * n) \div d \in Nat
      BY <3>1
    <3>3. (MaxTheta * n) \div d <= MaxTheta
      BY <3>1, <3>2
    <3> QED BY <3>2, <3>3
  <2> QED BY <2>1, <2>2 DEF StartingTheta
<1> HIDE DEF lg, th
<1>3. t = [entries |-> [h \in {} |-> Unit], theta |-> th, isEmpty |-> TRUE,
           lgCur |-> lg, lgNom |-> lgNom, lgResize |-> lgResize]
  BY DEF NewTable, FromRawParts, lg, th
<1>4. TableShape(t, lgNom, lgResize) /\ MinLgK <= t.lgCur
  BY <1>0, <1>1, <1>2, <1>3 DEF TableShape, Retained
<1> QED BY <1>3, <1>4 DEF Retained, th

LEMMA NewTableOK ==
  LET t == NewTable(LgK, LgResize, Sampling)
  IN  /\ TableOK(t)
      /\ Retained(t) = {}
      /\ t.theta = StartingTheta(Sampling)
      /\ t.isEmpty = TRUE
<1>1. SizeOK(LgK) /\ LgResize \in 0 .. 3 /\ MinLgK <= LgK
  BY OwnSizeOK
<1>2. SamplingOK(Sampling)
  BY SamplingAssumption DEF SamplingOK
<1> QED BY <1>1, <1>2, NewTableShape DEF TableOK

(* What resizing, rebuilding and trimming have in common: r retains the    *)
(* entries of t below its own theta, unchanged, and if theta moved it      *)
(* moved to a hash of t and exactly k entries stayed.                      *)
Prunes(lgNom, lgResize, t, r) ==
  /\ TableShape(r, lgNom, lgResize)
  /\ t.lgCur <= r.lgCur
  /\ r.isEmpty = t.isEmpty
  /\ Retained(r) = {h \in Retained(t) : h < r.theta}
  /\ \A h \in Retained(r) : r.entries[h] = t.entries[h]
  /\ \/ r.theta = t.theta
     \/ r.theta \in Retained(t) /\ NumRetained(r) = 2 ^ lgNom

(* A table that retains more than k hashes can be rebuilt, and the rebuild *)
(* keeps exactly its k smallest hashes with their summaries.               *)
LEMMA RebuildPrunes ==
  ASSUME NEW lgNom, SizeOK(lgNom), NEW lgResize \in 0 .. 3,
         NEW t, TableShape(t, lgNom, lgResize), NumRetained(t) > 2 ^ lgNom
  PROVE  Prunes(lgNom, lgResize, t, Rebuild(t)) /\ Rebuild(t).theta \in Retained(t)
<1> DEFINE S == Retained(t)
           k == 2 ^ lgNom
           kth == KthHash(S, k)
           r == Rebuild(t)
<1>1. S \in SUBSET (0 .. MaxTheta) /\ Cardinality(S) > k
  BY RetainedFinite DEF NumRetained
<1>2. \E h \in S : Cardinality({g \in S : g < h}) = k
  <2> HIDE DEF S, k
  <2>1. k \in Nat /\ MaxTheta \in Nat
    BY DEF SizeOK, k
  <2>2. S \in SUBSET (0 .. MaxTheta)
    BY <1>1, Zenon
  <2>3. Cardinality(S) > k
    BY <1>1, Zenon
  <2>4. HasKth(S, k)
    BY <2>1, <2>2, <2>3, KthExists
  <2> QED BY <2>4 DEF HasKth
<1>3. kth \in S /\ Cardinality({g \in S : g < kth}) = k
  BY <1>2 DEF KthHash
<1>4. t.lgNom = lgNom
  BY DEF TableShape
<1> HIDE DEF kth
<1>5. r = [t EXCEPT !.theta = kth, !.entries = Below(t.entries, kth)]
  BY <1>4 DEF Rebuild, kth
<1> HIDE DEF r
<1>6. r = [entries |-> Below(t.entries, kth), theta |-> kth,
           isEmpty |-> t.isEmpty, lgCur |-> t.lgCur,
           lgNom |-> lgNom, lgResize |-> lgResize]
  <2>1. t = [entries |-> t.entries, theta |-> t.theta, isEmpty |-> t.isEmpty,
             lgCur |-> t.lgCur, lgNom |-> lgNom, lgResize |-> lgResize]
    BY DEF TableShape
  <2> DEFINE u == [t EXCEPT !.theta = kth]
  <2>2. r = [u EXCEPT !.entries = Below(t.entries, kth)]
    BY <1>5
  <2>3. u = [entries |-> t.entries, theta |-> kth, isEmpty |-> t.isEmpty,
             lgCur |-> t.lgCur, lgNom |-> lgNom, lgResize |-> lgResize]
    BY <2>1
  <2> HIDE DEF u
  <2> QED BY <2>2, <2>3
<1>7. /\ Retained(r) = {g \in S : g < kth}
      /\ \A h \in Retained(r) : r.entries[h] = t.entries[h]
  BY <1>6 DEF Retained, Below
<1>8. TableShape(r, lgNom, lgResize)
  <2>1. \A g \in S : t.entries[g] \in Nat
    BY DEF TableShape
  <2>2. r.entries \in [Retained(r) -> Nat]
    BY <1>6, <1>7, <2>1 DEF Below, Retained
  <2>3. r.theta \in 0 .. MaxTheta
    BY <1>1, <1>3, <1>6
  <2>4. Retained(r) \subseteq Hashes
    BY <1>7 DEF TableShape
  <2>5. t.isEmpty \in BOOLEAN /\ t.lgCur \in 0 .. lgNom + 1
    BY DEF TableShape
  <2> QED BY <1>6, <2>2, <2>3, <2>4, <2>5 DEF TableShape
<1>9. NumRetained(r) = k
  BY <1>3, <1>7 DEF NumRetained
<1>10. t.lgCur <= r.lgCur
  BY <1>6 DEF SizeOK, TableShape
<1> QED BY <1>3, <1>6, <1>7, <1>8, <1>9, <1>10 DEF Prunes, r

(* A table left alone, or only given more slots, is pruned trivially. *)
LEMMA RegrownPrunes ==
  ASSUME NEW lgNom, SizeOK(lgNom), NEW lgResize \in 0 .. 3,
         NEW t, TableShape(t, lgNom, lgResize), \A h \in Retained(t) : h < t.theta,
         NEW lg \in 0 .. lgNom + 1, t.lgCur <= lg
  PROVE  Prunes(lgNom, lgResize, t, [t EXCEPT !.lgCur = lg])
<1> DEFINE r == [t EXCEPT !.lgCur = lg]
<1>1. r = [entries |-> t.entries, theta |-> t.theta, isEmpty |-> t.isEmpty,
           lgCur |-> lg, lgNom |-> lgNom, lgResize |-> lgResize]
  BY DEF TableShape
<1> HIDE DEF r
<1>2. TableShape(r, lgNom, lgResize) /\ Retained(r) = Retained(t) /\ r.entries = t.entries
  BY <1>1 DEF TableShape, Retained
<1>3. Prunes(lgNom, lgResize, t, r)
  BY <1>1, <1>2 DEF Prunes
<1> QED BY <1>3 DEF r

(* The end of upsert_entry: the capacity test, and whichever of resize and *)
(* rebuild it chooses.                                                     *)
LEMMA ResizeOrRebuildPrunes ==
  ASSUME NEW lgNom, SizeOK(lgNom), NEW lgResize \in 0 .. 3,
         NEW t, TableShape(t, lgNom, lgResize), \A h \in Retained(t) : h < t.theta
  PROVE  Prunes(lgNom, lgResize, t, ResizeOrRebuild(t))
<1>1. /\ NumRetained(t) \in Nat
      /\ t.lgCur \in 0 .. lgNom + 1 /\ lgNom \in Nat
      /\ t.lgNom = lgNom
      /\ t.lgResize = lgResize
      /\ t = [t EXCEPT !.lgCur = t.lgCur]
  BY RetainedFinite DEF SizeOK, TableShape
<1>2. CASE NumRetained(t) <= CapacityThreshold(t)
  <2>1. ResizeOrRebuild(t) = [t EXCEPT !.lgCur = t.lgCur]
    BY <1>1, <1>2 DEF ResizeOrRebuild
  <2> QED BY <1>1, <2>1, RegrownPrunes
<1>3. CASE ~(NumRetained(t) <= CapacityThreshold(t)) /\ t.lgCur <= lgNom
  <2>1. PICK lg \in 0 .. lgNom + 1 : t.lgCur <= lg /\ Resize(t) = [t EXCEPT !.lgCur = lg]
    BY <1>1, <1>3 DEF Resize
  <2>2. ResizeOrRebuild(t) = [t EXCEPT !.lgCur = lg]
    BY <1>1, <1>3, <2>1 DEF ResizeOrRebuild
  <2> QED BY <2>1, <2>2, RegrownPrunes
<1>4. CASE ~(NumRetained(t) <= CapacityThreshold(t)) /\ ~(t.lgCur <= lgNom)
  <2>1. t.lgCur = lgNom + 1
    BY <1>1, <1>4
  <2>2. CapacityThreshold(t) = (15 * 2 ^ (lgNom + 1)) \div 16
    BY <1>1, <2>1 DEF CapacityThreshold, SlotCount
  <2>3. CapacityThreshold(t) \in Nat /\ CapacityThreshold(t) >= 2 ^ lgNom
    BY <2>2 DEF SizeOK
  <2>4. NumRetained(t) > 2 ^ lgNom
    BY <1>1, <1>4, <2>3 DEF SizeOK
  <2>5. ResizeOrRebuild(t) = Rebuild(t)
    BY <1>1, <1>4 DEF ResizeOrRebuild
  <2> QED BY <2>4, <2>5, RebuildPrunes
<1> QED BY <1>2, <1>3, <1>4

(* trim, likewise *)
LEMMA TrimPrunes ==
  ASSUME NEW lgNom, SizeOK(lgNom), NEW lgResize \in 0 .. 3,
         NEW t, TableShape(t, lgNom, lgResize), \A h \in Retained(t) : h < t.theta
  PROVE  Prunes(lgNom, lgResize, t, TrimTable(t))
<1>1. /\ NumRetained(t) \in Nat
      /\ t.lgCur \in 0 .. lgNom + 1 /\ lgNom \in Nat
      /\ t.lgNom = lgNom
      /\ t = [t EXCEPT !.lgCur = t.lgCur]
  BY RetainedFinite DEF SizeOK, TableShape
<1>2. CASE NumRetained(t) > 2 ^ lgNom
  BY <1>1, <1>2, RebuildPrunes DEF TrimTable
<1>3. CASE ~(NumRetained(t) > 2 ^ lgNom)
  <2>1. TrimTable(t) = [t EXCEPT !.lgCur = t.lgCur]
    BY <1>1, <1>3 DEF TrimTable
  <2> QED BY <1>1, <2>1, RegrownPrunes
<1> QED BY <1>2, <1>3

-------------------------------------------------------------------------------

(* What RetainedExact, SummaryComplete and EstimationModeFull say of the   *)
(* sketch, of any table t and history off.                                 *)
Sound(lgNom, start, t, off) ==
  /\ Retained(t) = {h \in DOMAIN off : 0 < h /\ h < t.theta}
  /\ \A h \in Retained(t) : t.entries[h] = off[h]
  /\ t.theta # start => NumRetained(t) >= 2 ^ lgNom

(* Pruning keeps a table sound. *)
LEMMA PrunesSound ==
  ASSUME NEW lgNom, SizeOK(lgNom), NEW lgResize \in 0 .. 3,
         NEW start, NEW t, NEW r, NEW off, DOMAIN off \subseteq Nat,
         TableShape(t, lgNom, lgResize), Prunes(lgNom, lgResize, t, r),
         Sound(lgNom, start, t, off)
  PROVE  /\ TableShape(r, lgNom, lgResize) /\ Sound(lgNom, start, r, off)
         /\ r.theta <= t.theta /\ t.lgCur <= r.lgCur
<1>1. /\ TableShape(r, lgNom, lgResize) /\ t.lgCur <= r.lgCur
      /\ Retained(r) = {h \in Retained(t) : h < r.theta}
      /\ \A h \in Retained(r) : r.entries[h] = t.entries[h]
      /\ \/ r.theta = t.theta
         \/ r.theta \in Retained(t) /\ NumRetained(r) = 2 ^ lgNom
  BY DEF Prunes
<1>2. /\ Retained(t) = {h \in DOMAIN off : 0 < h /\ h < t.theta}
      /\ \A h \in Retained(t) : t.entries[h] = off[h]
      /\ t.theta # start => NumRetained(t) >= 2 ^ lgNom
  BY DEF Sound
<1>3. /\ t.theta \in Nat /\ r.theta \in Nat
      /\ Retained(t) \in SUBSET Nat
      /\ NumRetained(t) \in Nat /\ NumRetained(r) \in Nat
  <2>1. t.theta \in 0 .. MaxTheta /\ r.theta \in 0 .. MaxTheta
    BY <1>1 DEF TableShape
  <2>2. Retained(t) \in SUBSET (0 .. MaxTheta)
    BY RetainedFinite
  <2>3. NumRetained(t) \in Nat /\ NumRetained(r) \in Nat
    BY <1>1, RetainedFinite
  <2> QED BY <2>1, <2>2, <2>3
<1>4. r.theta <= t.theta
  BY <1>1, <1>2, <1>3
<1>5. Retained(r) = {h \in DOMAIN off : 0 < h /\ h < r.theta}
  <2>1. ASSUME NEW h PROVE h \in Retained(r) => h \in DOMAIN off /\ 0 < h /\ h < r.theta
    BY <1>1, <1>2
  <2>2. ASSUME NEW h \in DOMAIN off, 0 < h, h < r.theta PROVE h \in Retained(r)
    <3>1. CASE r.theta = t.theta
      BY <1>1, <1>2, <2>2, <3>1
    <3>2. CASE r.theta \in Retained(t)
      <4>1. r.theta < t.theta
        BY <1>2, <3>2
      <4>2. h < t.theta
        BY <1>3, <2>2, <4>1
      <4> QED BY <1>1, <1>2, <2>2, <4>2
    <3> QED BY <1>1, <3>1, <3>2
  <2> QED BY <2>1, <2>2
<1>6. \A h \in Retained(r) : r.entries[h] = off[h]
  BY <1>1, <1>2
<1>7. r.theta # start => NumRetained(r) >= 2 ^ lgNom
  <2>1. CASE r.theta = t.theta
    <3>1. Retained(r) = Retained(t)
      BY <1>1, <1>2, <2>1
    <3> QED BY <1>2, <2>1, <3>1 DEF NumRetained
  <2>2. CASE NumRetained(r) = 2 ^ lgNom
    BY <2>2 DEF SizeOK
  <2> QED BY <1>1, <2>1, <2>2
<1> QED BY <1>1, <1>4, <1>5, <1>6, <1>7 DEF Sound

(* The history after an update. *)
Offer(off, h, v) ==
  [g \in DOMAIN off \cup {h} |->
     (IF g \in DOMAIN off THEN off[g] ELSE 0) + (IF g = h THEN v ELSE 0)]

LEMMA OfferFacts ==
  ASSUME NEW off, off \in [DOMAIN off -> Nat], NEW h, NEW v \in Nat
  PROVE  /\ DOMAIN Offer(off, h, v) = DOMAIN off \cup {h}
         /\ Offer(off, h, v) \in [DOMAIN off \cup {h} -> Nat]
         /\ \A g \in DOMAIN off \ {h} : Offer(off, h, v)[g] = off[g]
         /\ h \in DOMAIN off => Offer(off, h, v)[h] = off[h] + v
         /\ h \notin DOMAIN off => Offer(off, h, v)[h] = v
<1>1. \A g \in DOMAIN off : off[g] \in Nat
  OBVIOUS
<1> QED BY <1>1 DEF Offer

(* Replacing the emptiness flag. *)
LEMMA FlagUpdate ==
  ASSUME NEW lgNom, NEW lgResize,
         NEW t, TableShape(t, lgNom, lgResize), NEW b
  PROVE  [t EXCEPT !.isEmpty = b]
           = [entries |-> t.entries, theta |-> t.theta, isEmpty |-> b,
              lgCur |-> t.lgCur, lgNom |-> lgNom, lgResize |-> lgResize]
<1>1. t = [entries |-> t.entries, theta |-> t.theta, isEmpty |-> t.isEmpty,
           lgCur |-> t.lgCur, lgNom |-> lgNom, lgResize |-> lgResize]
  BY DEF TableShape
<1> QED BY <1>1

(* Replacing theta and the emptiness flag. *)
Rescaled(t, th, b) == [t EXCEPT !.theta = th, !.isEmpty = b]

LEMMA RescaledFields ==
  ASSUME NEW lgNom, NEW lgResize,
         NEW t, TableShape(t, lgNom, lgResize), NEW th, NEW b
  PROVE  Rescaled(t, th, b)
           = [entries |-> t.entries, theta |-> th, isEmpty |-> b,
              lgCur |-> t.lgCur, lgNom |-> lgNom, lgResize |-> lgResize]
<1> DEFINE u == [t EXCEPT !.theta = th]
<1>1. t = [entries |-> t.entries, theta |-> t.theta, isEmpty |-> t.isEmpty,
           lgCur |-> t.lgCur, lgNom |-> lgNom, lgResize |-> lgResize]
  BY DEF TableShape
<1>2. u = [entries |-> t.entries, theta |-> th, isEmpty |-> t.isEmpty,
           lgCur |-> t.lgCur, lgNom |-> lgNom, lgResize |-> lgResize]
  BY <1>1
<1>3. Rescaled(t, th, b) = [u EXCEPT !.isEmpty = b]
  BY DEF Rescaled
<1> HIDE DEF u
<1> QED BY <1>2, <1>3

(* Storing a summary of a hash below theta. *)
EntryAdded(lgNom, lgResize, t, h, s, r) ==
  /\ TableShape(r, lgNom, lgResize)
  /\ ~r.isEmpty
  /\ r.theta = t.theta /\ r.lgCur = t.lgCur
  /\ Retained(r) = Retained(t) \cup {h}
  /\ r.entries[h] = s
  /\ \A g \in Retained(t) \ {h} : r.entries[g] = t.entries[g]

LEMMA WithEntryFacts ==
  ASSUME NEW lgNom, NEW lgResize,
         NEW t, TableShape(t, lgNom, lgResize), NEW h \in Hashes, NEW s \in Nat
  PROVE  EntryAdded(lgNom, lgResize, t, h, s, WithEntry(t, h, s))
<1> DEFINE r == WithEntry(t, h, s)
           es == [g \in DOMAIN t.entries \cup {h} |->
                           IF g = h THEN s ELSE t.entries[g]]
           u == [t EXCEPT !.isEmpty = FALSE]
<1>2. r = [u EXCEPT !.entries = es]
  BY DEF WithEntry
<1>3. u = [entries |-> t.entries, theta |-> t.theta, isEmpty |-> FALSE,
           lgCur |-> t.lgCur, lgNom |-> lgNom, lgResize |-> lgResize]
  BY FlagUpdate
<1> HIDE DEF r, u
<1>4. /\ DOMAIN es = Retained(t) \cup {h}
      /\ es \in [Retained(t) \cup {h} -> Nat]
      /\ es[h] = s
      /\ \A g \in Retained(t) \ {h} : es[g] = t.entries[g]
  BY DEF TableShape, Retained
<1> HIDE DEF es
<1>5. r = [entries |-> es, theta |-> t.theta, isEmpty |-> FALSE,
           lgCur |-> t.lgCur, lgNom |-> lgNom, lgResize |-> lgResize]
  BY <1>2, <1>3
<1>6. Retained(r) = Retained(t) \cup {h}
  BY <1>4, <1>5 DEF Retained
<1>7. TableShape(r, lgNom, lgResize)
  BY <1>4, <1>5, <1>6 DEF TableShape
<1>8. /\ ~r.isEmpty
      /\ r.theta = t.theta /\ r.lgCur = t.lgCur
      /\ r.entries[h] = s
      /\ \A g \in Retained(t) \ {h} : r.entries[g] = t.entries[g]
  BY <1>4, <1>5
<1> QED BY <1>6, <1>7, <1>8 DEF r, EntryAdded

(* One update keeps the table sound with respect to the extended history. *)
LEMMA UpsertSound ==
  ASSUME NEW lgNom, SizeOK(lgNom), NEW lgResize \in 0 .. 3,
         NEW start, NEW t, NEW off, NEW h \in Hashes, NEW v \in Nat,
         TableShape(t, lgNom, lgResize), off \in [DOMAIN off -> Nat], DOMAIN off \subseteq Hashes,
         Sound(lgNom, start, t, off)
  PROVE  LET r == UpsertEntry(t, h, v, t.entries[h] + v)
         IN  /\ TableShape(r, lgNom, lgResize) /\ ~r.isEmpty
             /\ Sound(lgNom, start, r, Offer(off, h, v))
             /\ r.theta <= t.theta /\ t.lgCur <= r.lgCur
             /\ r.theta = t.theta \/ r.theta \in Retained(t) \cup {h}
<1> DEFINE r == UpsertEntry(t, h, v, t.entries[h] + v)
           new == Offer(off, h, v)
<1>1. /\ Retained(t) = {g \in DOMAIN off : 0 < g /\ g < t.theta}
      /\ \A g \in Retained(t) : t.entries[g] = off[g]
      /\ t.theta # start => NumRetained(t) >= 2 ^ lgNom
  BY DEF Sound
<1>2. /\ DOMAIN new = DOMAIN off \cup {h}
      /\ new \in [DOMAIN off \cup {h} -> Nat]
      /\ \A g \in DOMAIN off \ {h} : new[g] = off[g]
      /\ h \in DOMAIN off => new[h] = off[h] + v
      /\ h \notin DOMAIN off => new[h] = v
  BY OfferFacts
<1> HIDE DEF new
<1>3. /\ t.theta \in Nat /\ h \in Nat /\ Retained(t) \subseteq Hashes
      /\ t.lgCur \in Int
      /\ \A g \in Retained(t) : t.entries[g] \in Nat
      /\ IsFiniteSet(Retained(t)) /\ NumRetained(t) \in Nat
  BY RetainedFinite DEF SizeOK, TableShape
<1>4. CASE Screened(t, h)
  <2>1. r = [t EXCEPT !.isEmpty = FALSE]
    BY <1>4 DEF UpsertEntry
  <2> HIDE DEF r
  <2>3. r = [entries |-> t.entries, theta |-> t.theta, isEmpty |-> FALSE,
             lgCur |-> t.lgCur, lgNom |-> lgNom, lgResize |-> lgResize]
    BY <2>1, FlagUpdate
  <2>4. Retained(r) = Retained(t)
    BY <2>3 DEF Retained
  <2>5. TableShape(r, lgNom, lgResize)
    BY <2>3, <2>4 DEF TableShape
  <2>6. ~(0 < h /\ h < t.theta)
    BY <1>3, <1>4 DEF Screened
  <2>7. Retained(t) = {g \in DOMAIN new : 0 < g /\ g < t.theta}
    BY <1>1, <1>2, <2>6
  <2>8. \A g \in Retained(t) : t.entries[g] = new[g]
    BY <1>1, <1>2, <2>6
  <2>9. Sound(lgNom, start, r, new)
    BY <1>1, <2>3, <2>4, <2>7, <2>8 DEF Sound, NumRetained
  <2>10. r.theta = t.theta /\ r.theta <= t.theta /\ t.lgCur <= r.lgCur /\ ~r.isEmpty
    BY <1>3, <2>3
  <2> QED BY <2>5, <2>9, <2>10 DEF r, new
<1>5. CASE ~Screened(t, h) /\ h \in Retained(t)
  <2> DEFINE s == t.entries[h] + v
             w == WithEntry(t, h, s)
  <2>1. r = w
    BY <1>5 DEF UpsertEntry
  <2>2. s \in Nat
    BY <1>3, <1>5
  <2> HIDE DEF r, s
  <2>3. /\ TableShape(w, lgNom, lgResize)
        /\ ~w.isEmpty
        /\ w.theta = t.theta /\ w.lgCur = t.lgCur
        /\ Retained(w) = Retained(t) \cup {h}
        /\ w.entries[h] = s
        /\ \A g \in Retained(t) \ {h} : w.entries[g] = t.entries[g]
    <3>1. EntryAdded(lgNom, lgResize, t, h, s, w)
      BY <2>2, WithEntryFacts
    <3> QED BY <3>1 DEF EntryAdded
  <2> HIDE DEF w
  <2>4. Retained(w) = Retained(t)
    BY <1>5, <2>3
  <2>5. DOMAIN new = DOMAIN off
    BY <1>1, <1>2, <1>5
  <2>6. \A g \in Retained(w) : w.entries[g] = new[g]
    BY <1>1, <1>2, <1>5, <2>3, <2>4 DEF s
  <2>7. Sound(lgNom, start, w, new)
    BY <1>1, <2>3, <2>4, <2>5, <2>6 DEF Sound, NumRetained
  <2>8. r.theta = t.theta /\ r.theta <= t.theta /\ t.lgCur <= r.lgCur
    BY <1>3, <2>1, <2>3
  <2> QED BY <2>1, <2>3, <2>7, <2>8 DEF r, new
<1>6. CASE ~Screened(t, h) /\ h \notin Retained(t)
  <2> DEFINE w == WithEntry(t, h, v)
  <2>1. r = ResizeOrRebuild(w)
    BY <1>6 DEF UpsertEntry
  <2> HIDE DEF r
  <2>2. /\ TableShape(w, lgNom, lgResize)
        /\ ~w.isEmpty
        /\ w.theta = t.theta /\ w.lgCur = t.lgCur
        /\ Retained(w) = Retained(t) \cup {h}
        /\ w.entries[h] = v
        /\ \A g \in Retained(t) \ {h} : w.entries[g] = t.entries[g]
    <3>1. EntryAdded(lgNom, lgResize, t, h, v, w)
      BY WithEntryFacts
    <3> QED BY <3>1 DEF EntryAdded
  <2> HIDE DEF w
  <2>3. 0 < h /\ h < t.theta /\ h \notin DOMAIN off
    BY <1>1, <1>3, <1>6 DEF Screened
  <2>4. Retained(w) = {g \in DOMAIN new : 0 < g /\ g < w.theta}
    BY <1>1, <1>2, <2>2, <2>3
  <2>5. \A g \in Retained(w) : w.entries[g] = new[g]
    BY <1>1, <1>2, <2>2, <2>3
  <2>6. NumRetained(w) = NumRetained(t) + 1
    BY <1>3, <1>6, <2>2, FS_AddElement DEF NumRetained
  <2>7. Sound(lgNom, start, w, new)
    BY <1>1, <1>3, <2>2, <2>4, <2>5, <2>6 DEF SizeOK, Sound
  <2>8. Prunes(lgNom, lgResize, w, r)
    BY <2>1, <2>2, <2>4, ResizeOrRebuildPrunes
  <2>9. DOMAIN new \subseteq Nat
    BY <1>2
  <2>10. /\ TableShape(r, lgNom, lgResize) /\ Sound(lgNom, start, r, new)
         /\ r.theta <= w.theta /\ w.lgCur <= r.lgCur
    BY <2>2, <2>7, <2>8, <2>9, PrunesSound
  <2>11. r.theta <= t.theta /\ t.lgCur <= r.lgCur /\ ~r.isEmpty
    <3>1. r.isEmpty = w.isEmpty
      BY <2>8 DEF Prunes
    <3> QED BY <2>2, <2>10, <3>1
  <2>12. r.theta = t.theta \/ r.theta \in Retained(t) \cup {h}
    BY <2>2, <2>8 DEF Prunes
  <2> QED BY <2>10, <2>11, <2>12 DEF r, new
<1> QED BY <1>4, <1>5, <1>6
===============================================================================
