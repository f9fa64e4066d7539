------------------------------ MODULE ThetaANotB ------------------------------
(***************************************************************************)
(* The set difference shared by Theta and Tuple sketches (compute in       *)
(* thetafamily/common/a_not_b.rs).  It keeps no state between calls: a     *)
(* call is the operator Outcome.                                           *)
(***************************************************************************)
EXTENDS SketchViews

CONSTANTS
  MaxTheta,
  Seed        \* the seed of the operator

NoError == "ok"
SeedMismatch == "seed mismatch"

(* parts_from_sketch: a copy of the sketch, sorted if asked to. *)
PartsFromSketch(view, wantOrdered) ==
  [view EXCEPT !.ordered = wantOrdered \/ view.ordered]

(* The merge-scan of two ordered inputs: the loop visits A's hashes in     *)
(* ascending order and stops at theta, and B's cursor skips the hashes     *)
(* below the one of A.  scan[h] is the loop's state when the hashes up to  *)
(* h are behind it: those in front of B's cursor, and those kept of A.     *)
MergeScan(a, b, theta) ==
  LET Visit(h, st) ==
        LET rest == {g \in st.rest : g >= h}
            next == h \in rest /\ \A g \in rest : h <= g
        IN [rest |-> rest, kept |-> IF next THEN st.kept ELSE st.kept \cup {h}]
      scan[h \in Nat] ==
        IF h = 0 THEN [rest |-> DOMAIN b.entries, kept |-> {}]
        ELSE IF h \in DOMAIN a.entries /\ h < theta THEN Visit(h, scan[h - 1])
        ELSE scan[h - 1]
  IN scan[MaxTheta].kept

(* The hash-set path.  With an ordered B the scan of its hashes stops at   *)
(* the first one at or above theta.                                        *)
HashSetScan(a, b, theta) ==
  LET bKeys == {h \in DOMAIN b.entries : h < theta}
  IN {h \in DOMAIN a.entries : h < theta /\ h \notin bKeys}

KeptHashes(a, b, theta) ==
  IF DOMAIN b.entries = {} THEN {h \in DOMAIN a.entries : h < theta}
  ELSE IF a.ordered /\ b.ordered THEN MergeScan(a, b, theta)
  ELSE HashSetScan(a, b, theta)

(* Fault: B's theta is ignored. *)
DifferenceAtThetaOfA(a, b, wantOrdered) ==
  LET kept == KeptHashes(a, b, a.theta)
  IN [entries |-> [h \in kept |-> a.entries[h]], theta |-> a.theta, seed |-> Seed,
      ordered |-> wantOrdered \/ a.ordered,
      empty |-> kept = {} /\ a.theta = MaxTheta]

Difference(a, b, wantOrdered) ==
  LET theta == Lower(a.theta, b.theta)
      kept  == KeptHashes(a, b, theta)
  IN [entries |-> [h \in kept |-> a.entries[h]], theta |-> theta, seed |-> Seed,
      ordered |-> wantOrdered \/ a.ordered,
      empty |-> kept = {} /\ theta = MaxTheta]

(* The outcome of a call: an error or the parts of a compact sketch. *)
Outcome(a, b, wantOrdered) ==
  IF a.empty THEN [error |-> NoError, parts |-> PartsFromSketch(a, wantOrdered)]
  ELSE IF a.seed # Seed THEN [error |-> SeedMismatch]
  ELSE IF b.empty THEN [error |-> NoError, parts |-> PartsFromSketch(a, wantOrdered)]
  ELSE IF b.seed # Seed THEN [error |-> SeedMismatch]
  ELSE [error |-> NoError, parts |-> Difference(a, b, wantOrdered)]
===============================================================================
