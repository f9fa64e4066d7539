-------------------------- MODULE ThetaSetExpression --------------------------
(***************************************************************************)
(* A client that evaluates set expressions: it merges sketches into a      *)
(* union (ThetaUnion), feeds sketches or the union's result to an          *)
(* intersection (ThetaIntersection), and subtracts sketches from either    *)
(* result or from one another (ThetaANotB).  What one operation returns is *)
(* the input of the next, so each result has to honour the contract of     *)
(* SketchViews that the next one relies on.                                *)
(*                                                                         *)
(* A call of the Jaccard similarity (common/jaccard_similarity.rs) is a    *)
(* union and an intersection of its own, which run here in the same state  *)
(* while both are unused, entry by entry.                                  *)
(***************************************************************************)
EXTENDS ThetaUnion, SequencesExt

CONSTANTS
  MaxLgK,     \* largest log2 of a union's nominal size, 26 in the code
  ByteBits    \* bits of a byte of an image

(* The largest size, and the two facts about powers of two again. *)
ASSUME MaxLgKAssumption ==
  /\ MaxLgK \in Nat /\ MaxLgK >= MinLgK
  /\ \A n \in 0 .. MaxLgK + 1 : 2 ^ n \in Nat \ {0} /\ 2 ^ (n + 1) = 2 * 2 ^ n

VARIABLES
  iTable, hasResult, phase, iTodo, iOrdered, numInput, matched, count,
  failed, common, iMinTheta, iUpdates,     \* the intersection's state
  call     \* the last call of A-not-B or Jaccard, the last sketch stored and
           \* loaded, or NoCall

Meet == INSTANCE ThetaIntersection
          WITH table <- iTable, todo <- iTodo, ordered <- iOrdered,
               minTheta <- iMinTheta, updates <- iUpdates

Diff == INSTANCE ThetaANotB

Image == INSTANCE ThetaImage

iVars == <<iTable, hasResult, phase, iTodo, iOrdered, numInput, matched, count,
           failed, common, iMinTheta, iUpdates>>
exprVars == <<vars, iVars, call>>

NoCall == [kind |-> "none"]

ExprInit == Init /\ Meet!Init /\ call = NoCall

Idle == call.kind \notin {"unite", "intersect", "answer"}

IntersectionUnused == iUpdates = 0

UnionUnused == updates = 0 /\ table.isEmpty

------------------------------------------------------------------------------
(* Expressions *)

Unite ==
  /\ Idle /\ IntersectionUnused
  /\ Next
  /\ call' = NoCall /\ UNCHANGED iVars

Intersect ==
  /\ Idle /\ UnionUnused
  /\ Meet!Next
  /\ call' = NoCall /\ UNCHANGED vars

(* The client's next union starts afresh. *)
DropUnion ==
  /\ table' = NewTable(LgK, LgResize, Sampling)
  /\ unionTheta' = StartingTheta(Sampling)
  /\ ordered' = FALSE
  /\ seen' = NoEntries /\ minTheta' = StartingTheta(Sampling) /\ updates' = 0
  /\ UNCHANGED <<todo, merging>>

(* The union's result is the first input of an intersection. *)
IntersectUnion ==
  /\ Idle /\ IntersectionUnused /\ ~merging /\ updates > 0
  /\ \E sorted \in BOOLEAN :
       LET i == [view |-> Result(sorted), source |-> seen]
       IN Meet!BeginFirst(i) \/ Meet!UpdateNothingGiven(i)
  /\ call' = NoCall
  /\ DropUnion

Compute(a, b, wantOrdered) ==
  /\ call' = [kind |-> "difference", a |-> a.source, b |-> b.source,
              outcome |-> Diff!Outcome(a.view, b.view, wantOrdered)]
  /\ UNCHANGED vars /\ UNCHANGED iVars

SubtractInputs ==
  /\ Idle /\ UnionUnused /\ IntersectionUnused
  /\ \E a, b \in Inputs, wantOrdered \in BOOLEAN : Compute(a, b, wantOrdered)

(* A result is handed on as it is, exact or not, empty or not, sorted or   *)
(* in slot order.                                                          *)
SubtractFromUnion ==
  /\ Idle /\ ~merging /\ updates > 0
  /\ \E b \in Inputs, sorted, wantOrdered \in BOOLEAN :
       Compute([view |-> Result(sorted), source |-> seen], b, wantOrdered)

SubtractFromIntersection ==
  /\ Idle /\ phase = "idle" /\ hasResult /\ ~failed
  /\ \E b \in Inputs, sorted, wantOrdered \in BOOLEAN :
       Compute([view |-> Meet!Result(sorted), source |-> common], b, wantOrdered)

------------------------------------------------------------------------------
(* Images *)

(* The compact sketch of a view: in ascending order if it says so, else in *)
(* some other order, for which the descending one stands.                  *)
CompactOf(view) ==
  LET ascending == SelectSeq([h \in 1 .. MaxTheta |-> h], LAMBDA h : h \in DOMAIN view.entries)
      hashes    == IF view.ordered THEN ascending ELSE Reverse(ascending)
  IN [view EXCEPT !.entries = [j \in DOMAIN hashes |-> <<hashes[j], view.entries[hashes[j]]>>]]

(* The sketch without its summaries, as Theta sketches are. *)
KeysOnly(view) == [view EXCEPT !.entries = [h \in DOMAIN @ |-> Unit]]

(* A Tuple sketch has the uncompressed format; the old formats have the    *)
(* keys of ordered sketches only.                                          *)
Images(view) ==
  LET sk   == CompactOf(view)
      keys == CompactOf(KeysOnly(view))
  IN {<<sk, Image!Serialize(sk)>>, <<keys, Image!SerializeCompressed(keys)>>}
       \cup IF view.ordered THEN {<<keys, Image!WriteV1(keys)>>, <<keys, Image!WriteV2(keys)>>}
            ELSE {}

(* A sketch is written and read back by someone who knows its seed. *)
Store(view, source) ==
  /\ \E image \in Images(view) :
       call' = [kind |-> "image", source |-> DOMAIN source, stored |-> image[1],
                version |-> image[2].version,
                loaded |-> Image!Deserialize(image[2], view.seed)]
  /\ UNCHANGED vars /\ UNCHANGED iVars

StoreInput ==
  /\ Idle /\ UnionUnused /\ IntersectionUnused
  /\ \E i \in Inputs : Store(i.view, i.source)

StoreUnion ==
  /\ Idle /\ ~merging /\ updates > 0
  /\ \E sorted \in BOOLEAN : Store(Result(sorted), seen)

StoreIntersection ==
  /\ Idle /\ phase = "idle" /\ hasResult /\ ~failed
  /\ \E sorted \in BOOLEAN : Store(Meet!Result(sorted), common)

------------------------------------------------------------------------------
(* Jaccard similarity *)

(* The sketch as its keys alone. *)
Keys(i) ==
  [view   |-> KeysOnly(i.view),
   source |-> [h \in DOMAIN i.source |-> Unit]]

Count(view) == Cardinality(DOMAIN view.entries)

(* union_lg_k: the smallest size that holds both inputs. *)
UnionLgK(left, right) ==
  CHOOSE lg \in MinLgK .. MaxLgK :
    /\ lg = MaxLgK \/ left + right <= 2 ^ lg
    /\ lg = MinLgK \/ left + right > 2 ^ (lg - 1)

Answer(a, b, result) ==
  call' = [kind |-> "answer", a |-> a, b |-> b, result |-> result]

(* compute and exactly_equal up to their union: the same early returns. *)
JaccardEarly(a, b) ==
  /\ a.view.empty \/ b.view.empty
  /\ Answer(a, b, IF a.view.empty /\ b.view.empty THEN "one" ELSE "zero")
  /\ UNCHANGED vars

JaccardSeedMismatch(a, b) ==
  /\ ~a.view.empty /\ ~b.view.empty
  /\ a.view.seed # Seed \/ b.view.seed # Seed
  /\ Answer(a, b, "seed mismatch")
  /\ UNCHANGED vars

JaccardUnion(a, b) ==
  /\ ~a.view.empty /\ ~b.view.empty
  /\ a.view.seed = Seed /\ b.view.seed = Seed
  /\ call' = [kind |-> "unite", a |-> a, b |-> b]
  /\ table' = NewTable(UnionLgK(Count(a.view), Count(b.view)), 3, <<1, 1>>)
  /\ unionTheta' = MaxTheta /\ minTheta' = MaxTheta
  /\ UNCHANGED <<todo, ordered, merging, seen, updates>>

JaccardCall ==
  /\ Idle /\ UnionUnused /\ IntersectionUnused
  /\ \E a, b \in Inputs :
       JaccardEarly(a, b) \/ JaccardSeedMismatch(a, b) \/ JaccardUnion(a, b)
  /\ UNCHANGED iVars

JaccardUnite ==
  /\ call.kind = "unite"
  /\ \/ updates = 0 /\ BeginUpdate(Keys(call.a))
     \/ updates = 1 /\ BeginUpdate(Keys(call.b))
     \/ \E h \in DOMAIN todo : VisitEntry(h)
     \/ EndUpdate
  /\ UNCHANGED iVars /\ UNCHANGED call

(* identical_sets *)
Identical(a, b, r) ==
  /\ Count(r) = Count(a) /\ Count(r) = Count(b)
  /\ r.theta = a.theta /\ r.theta = b.theta

(* exactly_equal answers here; compute goes on unless the sets are         *)
(* identical and not empty.                                                *)
JaccardCompare ==
  /\ call.kind = "unite" /\ updates = 2 /\ ~merging
  /\ LET r    == Result(FALSE)
         same == Identical(call.a.view, call.b.view, r)
     IN \/ Answer(call.a, call.b, IF same THEN "equal" ELSE "not equal")
        \/ same /\ Count(r) > 0 /\ Answer(call.a, call.b, "one")
        \/ ~(same /\ Count(r) > 0) /\ call' = [call EXCEPT !.kind = "intersect"]
  /\ UNCHANGED vars /\ UNCHANGED iVars

JaccardIntersect ==
  /\ call.kind = "intersect" /\ ~failed
  /\ \/ \E i \in {Keys(IF iUpdates = 0 THEN call.a ELSE call.b)} :
          /\ iUpdates < 2
          /\ \/ Meet!UpdateNothingLeft(i) \/ Meet!UpdateNothingGiven(i)
             \/ Meet!BeginFirst(i) \/ Meet!BeginMatch(i)
     \/ \E h \in DOMAIN iTodo :
          Meet!CopyEntry(h) \/ Meet!MatchEntry(h) \/ Meet!StopEarly(h)
     \/ Meet!EndCopy
     \/ Meet!EndMatch
  /\ UNCHANGED vars /\ UNCHANGED call

(* After an input of an exactly empty result the second one is skipped. *)
IntersectionDone == phase = "idle" /\ (iUpdates = 2 \/ (iUpdates = 1 /\ iTable.isEmpty))

(* Fault: the intersection is counted at its own theta. *)
CountBelowOwnTheta(theta) == Count(Meet!Result(FALSE))

CountBelow(theta) == Cardinality({h \in DOMAIN Meet!Result(FALSE).entries : h < theta})

(* The counts of which ratio_bounds takes the ratio. *)
JaccardRatio ==
  /\ call.kind = "intersect" /\ IntersectionDone /\ ~failed
  /\ LET r == Result(FALSE)
     IN call' = [kind |-> "answer", a |-> call.a, b |-> call.b, result |-> "ratio",
                 theta |-> r.theta, union |-> Count(r), both |-> CountBelow(r.theta)]
  /\ UNCHANGED vars /\ UNCHANGED iVars

JaccardReturn ==
  /\ call.kind = "answer" /\ call' = NoCall
  /\ DropUnion
  /\ iTable' = Meet!DefaultTable(MaxTheta, FALSE)
  /\ hasResult' = FALSE /\ phase' = "idle"
  /\ iTodo' = NoEntries /\ iOrdered' = FALSE /\ numInput' = 0
  /\ matched' = NoEntries /\ count' = 0 /\ failed' = FALSE
  /\ common' = NoEntries /\ iMinTheta' = MaxTheta /\ iUpdates' = 0

Jaccard ==
  \/ JaccardCall \/ JaccardUnite \/ JaccardCompare \/ JaccardIntersect
  \/ JaccardRatio \/ JaccardReturn

ExprNext ==
  \/ Unite \/ Intersect \/ IntersectUnion
  \/ SubtractInputs \/ SubtractFromUnion \/ SubtractFromIntersection
  \/ StoreInput \/ StoreUnion \/ StoreIntersection
  \/ Jaccard

ExprSpec == ExprInit /\ [][ExprNext]_exprVars

------------------------------------------------------------------------------

(* The intersection's contract, for inputs that may be a union's result.   *)
ResultRepresentsIntersection == Meet!ResultRepresentsIntersection

(* The keys of a source set that are not in another, with their summaries. *)
Minus(a, b) == [h \in DOMAIN a \ DOMAIN b |-> a[h]]

(* The result represents the difference of the two source sets, whichever  *)
(* of the three scans computed it (compute), and for an A that is itself   *)
(* the result of a union or an intersection: in particular a key of A that *)
(* B has dropped because of its own theta is not reported as missing in B, *)
(* and no sketch is declared empty that may have lost keys above its theta.*)
ResultRepresentsDifference ==
  call.kind = "difference" /\ call.outcome.error = Diff!NoError =>
    Represents(call.outcome.parts, Minus(call.a, call.b))

(* Whatever a sketch went through, its image in any format is readable and *)
(* gives back its entries in their order, its threshold, seed and flags:   *)
(* deltas, widths and counts are exact over blocks and remainder.  Only    *)
(* what says nothing is lost: the threshold of an empty sketch, and in the *)
(* old formats that a sketch without entries at the full threshold is not  *)
(* empty, which then saw no key that is ever retained (serialize,          *)
(* serialize_compressed, deserialize_with_seed).                           *)
ImagesLossless ==
  call.kind = "image" =>
    LET stored == call.stored
        loaded == call.loaded.sketch
    IN /\ call.loaded.ok
       /\ loaded.entries = stored.entries
       /\ loaded.theta = IF stored.empty THEN MaxTheta ELSE stored.theta
       /\ loaded.seed = stored.seed /\ loaded.ordered = stored.ordered
       /\ \/ loaded.empty = stored.empty
          \/ call.version < 3 /\ loaded.empty /\ call.source \subseteq NeverRetained

KeysBelow(hashes, theta) == {h \in hashes : 0 < h /\ h < theta}

(* The two counts are those of the source sets' union and intersection     *)
(* below one common theta, which is the smaller one of the two sketches    *)
(* unless the union reached the largest size; "one" and "equal" are        *)
(* answered exactly when both retain the same keys at the same theta       *)
(* (compute, exactly_equal, identical_sets).                               *)
JaccardExact ==
  LET A == DOMAIN call.a.source
      B == DOMAIN call.b.source
      least == Lower(call.a.view.theta, call.b.view.theta)
      same == /\ DOMAIN call.a.view.entries = DOMAIN call.b.view.entries
              /\ call.a.view.theta = call.b.view.theta
      fits == Cardinality(KeysBelow(A \cup B, least)) <= 2 ^ MaxLgK
  IN call.kind = "answer" =>
       CASE call.result = "one"       -> call.a.view.empty \/ same
         [] call.result = "zero"      -> A \cap B \subseteq NeverRetained
         [] call.result = "equal"     -> same
         [] call.result = "not equal" -> ~same \/ ~fits
         [] call.result = "ratio"     ->
              /\ call.union = Cardinality(KeysBelow(A \cup B, call.theta))
              /\ call.both = Cardinality(KeysBelow(A \cap B, call.theta))
              /\ fits => call.theta = least
              /\ call.union = 0 \/ call.both < call.union \/ ~same \/ ~fits
         [] OTHER -> TRUE
===============================================================================
