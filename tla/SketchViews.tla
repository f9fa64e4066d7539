------------------------------ MODULE SketchViews ------------------------------
(***************************************************************************)
(* The read-only views through which the Theta and Tuple set operations    *)
(* see their inputs (ThetaSketchView, TupleSketchView, SketchScalars).     *)
(*                                                                         *)
(* A view is a record                                                      *)
(*   entries   function from the retained hashes to their summaries        *)
(*   theta     the sketch's threshold                                      *)
(*   empty     logical emptiness                                           *)
(*   ordered   the entries are iterated in ascending order of their hash;  *)
(*             otherwise in an order the view does not specify             *)
(*   seed      identifies the seed the keys were hashed with               *)
(* and a source set is a function from the hashes of its keys to their     *)
(* full summaries.                                                         *)
(***************************************************************************)
EXTENDS Integers, FiniteSets

NoEntries == [h \in {} |-> 0]

(* Summaries are combined by addition. *)
SumOf(f, h) == IF h \in DOMAIN f THEN f[h] ELSE 0

MergeSum(f, g) ==
  [h \in DOMAIN f \cup DOMAIN g |-> SumOf(f, h) + SumOf(g, h)]

MeetSum(f, g) == [h \in DOMAIN f \cap DOMAIN g |-> f[h] + g[h]]

Without(f, h) == [g \in DOMAIN f \ {h} |-> f[g]]

Lower(a, b) == IF a < b THEN a ELSE b

(* An iteration may visit h next. *)
MayVisit(todo, ordered, h) ==
  h \in DOMAIN todo /\ (ordered => \A g \in DOMAIN todo : h <= g)
===============================================================================
