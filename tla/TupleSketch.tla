------------------------------ MODULE TupleSketch ------------------------------
(***************************************************************************)
(* The updatable Tuple sketch (thetafamily/tuple/sketch.rs) with the       *)
(* default additive policy: every retained key carries the sum of the      *)
(* values it was updated with.  An updatable Theta sketch is the case      *)
(* Values = {0}, where the summary carries nothing.                        *)
(*                                                                         *)
(* offered is a history variable: the hashes passed to update since the    *)
(* last reset, each with the sum of its values.  The real sketch forgets   *)
(* it; the properties say what the sketch still knows about it.            *)
(***************************************************************************)
EXTENDS ThetaTable

CONSTANTS
  Values,      \* update values
  MaxOffers    \* bound on the updates between two resets

ASSUME ValuesAssumption == Values \subseteq Nat
ASSUME MaxOffersAssumption == MaxOffers \in Nat

VARIABLES
  table,      \* the hash table
  offered,    \* history: hash -> sum of the values offered for it
  offers      \* number of updates since the last reset

vars == <<table, offered, offers>>

Init ==
  /\ table = NewTable(LgK, LgResize, Sampling)
  /\ offered = [h \in {} |-> 0]
  /\ offers = 0

(* SummaryPolicy::create of the default policy *)
Create == 0

(* Fault: the summary of a retained key is replaced. *)
UpdateReplaces(h, v) ==
  /\ offers < MaxOffers
  /\ offers' = offers + 1
  /\ offered' = [g \in DOMAIN offered \cup {h} |->
                   (IF g \in DOMAIN offered THEN offered[g] ELSE 0)
                     + (IF g = h THEN v ELSE 0)]
  /\ table' = UpsertEntry(table, h, Create + v, v)

Update(h, v) ==
  /\ offers < MaxOffers
  /\ offers' = offers + 1
  /\ offered' = [g \in DOMAIN offered \cup {h} |->
                   (IF g \in DOMAIN offered THEN offered[g] ELSE 0)
                     + (IF g = h THEN v ELSE 0)]
  /\ table' = UpsertEntry(table, h, Create + v, table.entries[h] + v)

Trim ==
  /\ table' = TrimTable(table)
  /\ UNCHANGED <<offered, offers>>

Reset ==
  /\ table' = ResetTable(table, Sampling)
  /\ offered' = [h \in {} |-> 0]
  /\ offers' = 0

Next ==
  \/ \E h \in Hashes, v \in Values : Update(h, v)
  \/ Trim
  \/ Reset

Spec == Init /\ [][Next]_vars

-------------------------------------------------------------------------------

TypeOK ==
  /\ TableOK(table)
  /\ offered \in [DOMAIN offered -> Nat]
  /\ DOMAIN offered \subseteq Hashes
  /\ offers \in 0 .. MaxOffers

(* What the estimate rests on: the retained hashes are exactly the offered *)
(* ones below theta.  No resize, rebuild or trim loses a hash below theta, *)
(* and none lets one at or above theta, or the hash 0, stay               *)
(* (upsert_entry, resize, rebuild).                                        *)
RetainedExact ==
  Retained(table) = {h \in DOMAIN offered : 0 < h /\ h < table.theta}

(* The summary of a retained key accounts for every update of that key     *)
(* since the last reset: a key that a rebuild drops never comes back with  *)
(* a partial summary (upsert_entry's callback, rebuild).                   *)
SummaryComplete ==
  \A h \in Retained(table) : table.entries[h] = offered[h]

(* Once theta has moved from its starting value the sketch retains at      *)
(* least k hashes: the number its error bounds are stated for.             *)
EstimationModeFull ==
  table.theta # StartingTheta(Sampling) => NumRetained(table) >= 2 ^ LgK

(* A hash that was offered and dropped is never retained again, however    *)
(* often it is offered: theta only moves down, until a reset (upsert_entry *)
(* and rebuild).                                                           *)
DroppedStayDropped ==
  [][Retained(table') \subseteq
       Retained(table) \cup (DOMAIN offered' \ DOMAIN offered)]_vars

===============================================================================
