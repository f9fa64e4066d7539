-------------------------- MODULE SetOperationInputs --------------------------
(***************************************************************************)
(* The sketches that the set operations are given, with the source sets    *)
(* they were built from, and the contract between the two.                 *)
(***************************************************************************)
EXTENDS ThetaTable, SketchViews

CONSTANTS
  Inputs,       \* the sketches update may be given, as [view, source]
  Seed,         \* the seed of the set operation
  MaxUpdates    \* bound on the inputs of one union (between two resets) or
                \* intersection

(* The hashes that no sketch retains, whatever its theta: the screening    *)
(* test drops 0 and every hash that is not below theta.                    *)
NeverRetained == {0, MaxTheta}

(* What every sketch promises about its source set, whatever produced it:  *)
(* an updatable sketch (TupleSketch proves it of its table), a compact one *)
(* or the result of a set operation.                                       *)
Represents(view, source) ==
  /\ DOMAIN view.entries = {h \in DOMAIN source : 0 < h /\ h < view.theta}
  /\ \A h \in DOMAIN view.entries : view.entries[h] = source[h]
  /\ view.empty => DOMAIN source \subseteq NeverRetained

HonoursContract(i) ==
  /\ i.view = [entries |-> i.view.entries, theta |-> i.view.theta, seed |-> i.view.seed,
               ordered |-> i.view.ordered, empty |-> i.view.empty]
  /\ i.source \in [DOMAIN i.source -> Nat]
  /\ DOMAIN i.source \subseteq Hashes
  /\ i.view.theta \in 0 .. MaxTheta
  /\ i.view.ordered \in BOOLEAN
  /\ i.view.empty \in BOOLEAN
  /\ i.view.entries \in [DOMAIN i.view.entries -> Nat]
  /\ Represents(i.view, i.source)

ASSUME InputsAssumption == \A i \in Inputs : HonoursContract(i)
ASSUME MaxUpdatesAssumption == MaxUpdates \in Nat

(* What the proofs need of powers of two to size a table for any number of *)
(* hashes.                                                                 *)
ASSUME PowersOfTwoForCounts ==
  /\ 2 ^ 0 = 1
  /\ \E top \in 0 .. Cardinality(Hashes) :
       /\ Cardinality(Hashes) < 2 ^ top
       /\ \A n \in 0 .. top + 1 :
            2 ^ n \in Nat /\ n < 2 ^ n /\ 2 ^ (n + 1) = 2 * 2 ^ n
===============================================================================
