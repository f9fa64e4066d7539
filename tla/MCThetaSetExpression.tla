------------------------- MODULE MCThetaSetExpression -------------------------
(* Bounded instance of ThetaSetExpression: the inputs are all sketches of  *)
(* some source sets at a few thetas, ordered and not, and one of another   *)
(* seed.  31 entries are one more than a table of 32 slots can take.       *)
EXTENDS ThetaSetExpression

MCFullRate == <<1, 1>>
MCHashes == 0 .. MaxTheta

SourceSets == {{1, 4, 7}, {2, 4, MaxTheta}, {3, 5, 6, 7}, {0, MaxTheta}, {}}
Many == 1 .. 39 \ {2, 7, 8, 9, 15, 16, 27, 28}
Thetas == {3, 7, MaxTheta}

ViewOf(S, theta, o, seed) ==
  [entries |-> [h \in {g \in S : 0 < g /\ g < theta} |-> h],
   theta |-> theta, empty |-> S = {}, ordered |-> o, seed |-> seed]

MCInputs ==
  {[view |-> ViewOf(S, theta, o, Seed), source |-> [h \in S |-> h]] :
     S \in SourceSets, theta \in Thetas, o \in BOOLEAN}
  \cup {[view |-> ViewOf({1, 4, 7}, MaxTheta, TRUE, "other"),
         source |-> [h \in {1, 4, 7} |-> h]]}
  \cup {[view |-> ViewOf(Many, MaxTheta, TRUE, Seed), source |-> [h \in Many |-> h]]}
===============================================================================
