------------------------------ MODULE ThetaTable ------------------------------
(***************************************************************************)
(* The hash table shared by the Theta and Tuple sketches and by their set  *)
(* operations (thetafamily/common/hash_table.rs), at the level of what it  *)
(* retains: the slots and the probing are left out here and are modelled   *)
(* by SketchHashTable, which implements a machine written with these       *)
(* operators.                                                              *)
(*                                                                         *)
(* A table is a record                                                     *)
(*   entries   function from the retained hashes to their summaries (a     *)
(*             Theta entry has no summary: its users store Unit)           *)
(*   theta     the screening threshold                                     *)
(*   isEmpty   logical emptiness: no update was ever attempted             *)
(*   lgCur     log2 of the number of slots, 0 when there is no slot        *)
(*   lgNom     log2 of the nominal number of entries k                     *)
(*   lgResize  log2 of the resize factor                                   *)
(***************************************************************************)
EXTENDS Integers, FiniteSets

CONSTANTS
  MaxTheta,   \* theta of a sketch in exact mode, 2^63 - 1 in the code
  MinLgK,     \* smallest log2 of a table's size, 5 in the code
  Hashes,     \* the hashes keys may have: hash() shifts out the top bit
  LgK,        \* log2 of the nominal number of entries of the user's table
  LgResize,   \* log2 of its resize factor
  Sampling    \* its sampling probability as <<numerator, denominator>>

ASSUME MaxThetaAssumption == MaxTheta \in Nat \ {0}
ASSUME MinLgKAssumption == MinLgK \in Nat \ {0}
ASSUME HashesAssumption == Hashes \subseteq 0 .. MaxTheta
ASSUME LgKAssumption == LgK \in Nat /\ LgK >= MinLgK
ASSUME LgResizeAssumption == LgResize \in 0 .. 3
ASSUME SamplingAssumption ==
  /\ Sampling \in (Nat \ {0}) \X (Nat \ {0})
  /\ Sampling[1] <= Sampling[2]

(* The two facts about powers of two that the proofs use. *)
ASSUME PowersOfTwo ==
  \A n \in 0 .. LgK + 1 : 2 ^ n \in Nat \ {0} /\ 2 ^ (n + 1) = 2 * 2 ^ n

Unit == 0     \* the payload of a Theta entry

(* Number of slots of a table of the given log size. *)
SlotCount(lg) == IF lg > 0 THEN 2 ^ lg ELSE 0

(* Initial log size such that lgTarget is reached by steps of lgResize. *)
StartingSubMultiple(lgTarget, lgMin, lgResize) ==
  IF lgTarget <= lgMin THEN lgMin
  ELSE IF lgResize = 0 THEN lgTarget
  ELSE ((lgTarget - lgMin) % lgResize) + lgMin

(* The sampling probability p is the pair <<numerator, denominator>>. *)
StartingTheta(p) ==
  IF p[1] < p[2] THEN (MaxTheta * p[1]) \div p[2] ELSE MaxTheta

FromRawParts(lgCur, lgNom, lgResize, theta, isEmpty) ==
  [entries |-> [h \in {} |-> Unit], theta |-> theta, isEmpty |-> isEmpty,
   lgCur |-> lgCur, lgNom |-> lgNom, lgResize |-> lgResize]

NewTable(lgNom, lgResize, p) ==
  FromRawParts(StartingSubMultiple(lgNom + 1, MinLgK, lgResize),
               lgNom, lgResize, StartingTheta(p), TRUE)

Retained(t) == DOMAIN t.entries
NumRetained(t) == Cardinality(Retained(t))

(* Load at which the table grows (1/2) or, at full size, is rebuilt        *)
(* (15/16).                                                                *)
CapacityThreshold(t) ==
  IF t.lgCur <= t.lgNom THEN SlotCount(t.lgCur) \div 2
                        ELSE (15 * SlotCount(t.lgCur)) \div 16

(* The element of S with exactly k smaller ones (select_nth_unstable).     *)
KthHash(S, k) == CHOOSE h \in S : Cardinality({g \in S : g < h}) = k

Below(entries, theta) ==
  [h \in {g \in DOMAIN entries : g < theta} |-> entries[h]]

(* resize re-inserts every entry in a larger slot array. *)
Resize(t) ==
  LET grown == t.lgCur + t.lgResize
      lgMax == t.lgNom + 1
  IN [t EXCEPT !.lgCur = IF grown < lgMax THEN grown ELSE lgMax]

(* Fault: rebuild selects one rank too low and keeps k - 1 entries. *)
RebuildShort(t) ==
  LET kth == KthHash(Retained(t), 2 ^ t.lgNom - 1)
  IN [t EXCEPT !.theta = kth, !.entries = Below(t.entries, kth)]

(* rebuild keeps the k smallest hashes; the next one becomes theta. *)
Rebuild(t) ==
  LET kth == KthHash(Retained(t), 2 ^ t.lgNom)
  IN [t EXCEPT !.theta = kth, !.entries = Below(t.entries, kth)]

ResizeOrRebuild(t) ==
  IF NumRetained(t) <= CapacityThreshold(t) THEN t
  ELSE IF t.lgCur <= t.lgNom THEN Resize(t)
  ELSE Rebuild(t)

(* Fault: a hash equal to theta passes. *)
ScreenedAboveOnly(t, h) == h = 0 \/ h > t.theta

Screened(t, h) == h = 0 \/ h >= t.theta

WithEntry(t, h, s) ==
  [t EXCEPT !.isEmpty = FALSE,
            !.entries = [g \in DOMAIN t.entries \cup {h} |->
                           IF g = h THEN s ELSE t.entries[g]]]

(* upsert_entry: created is the entry its callback makes for a new hash,   *)
(* and merged what it leaves in the entry of a hash already retained.      *)
UpsertEntry(t, h, created, merged) ==
  IF Screened(t, h) THEN [t EXCEPT !.isEmpty = FALSE]
  ELSE IF h \in Retained(t) THEN WithEntry(t, h, merged)
  ELSE ResizeOrRebuild(WithEntry(t, h, created))

(* The value upsert_entry returns: was a new entry created? *)
Creates(t, h) == ~Screened(t, h) /\ h \notin Retained(t)

TrimTable(t) == IF NumRetained(t) > 2 ^ t.lgNom THEN Rebuild(t) ELSE t

(* reset takes the sampling probability the table was built with. *)
ResetTable(t, p) == NewTable(t.lgNom, t.lgResize, p)

(* The sequence-free part of to_compact_parts: a never updated table       *)
(* reports MaxTheta whatever its starting theta, and a compact sketch with *)
(* at most one exact entry is always marked ordered.                       *)
ToCompactParts(t, ordered) ==
  LET theta  == IF t.isEmpty THEN MaxTheta ELSE t.theta
      single == NumRetained(t) = 1 /\ theta = MaxTheta
  IN [entries |-> t.entries, theta |-> theta, empty |-> t.isEmpty,
      ordered |-> ordered \/ t.isEmpty \/ single]

(* What a table of a given nominal size is made of. *)
TableShape(t, lgNom, lgResize) ==
  /\ t = [entries |-> t.entries, theta |-> t.theta, isEmpty |-> t.isEmpty,
          lgCur |-> t.lgCur, lgNom |-> lgNom, lgResize |-> lgResize]
  /\ t.entries \in [Retained(t) -> Nat]
  /\ Retained(t) \subseteq Hashes
  /\ t.theta \in 0 .. MaxTheta
  /\ t.isEmpty \in BOOLEAN
  /\ t.lgCur \in 0 .. lgNom + 1

(* A user's table. *)
TableOK(t) == TableShape(t, LgK, LgResize) /\ MinLgK <= t.lgCur
===============================================================================
