------------------------------- MODULE TDigest -------------------------------
(***************************************************************************)
(* The t-digest (tdigest/sketch.rs): values wait in a buffer until a query *)
(* or a full buffer compresses them into centroids.  It is updated, merged *)
(* with others, frozen and unfrozen, written and read back.                *)
(*                                                                         *)
(* The buffer is either staging, values only, or a compressed prefix       *)
(* followed by unmerged values.  Values of weight one are told apart only  *)
(* by what they are, so those that wait are a bag.  update ignores values  *)
(* that are not finite: no step.                                           *)
(***************************************************************************)
EXTENDS TDigestCentroids, Functions

CONSTANTS
  MaxValue,       \* the values are 1 .. MaxValue
  MaxUnmerged,    \* max_unmerged
  Inputs,         \* the images read or merged, each with the values it stands for
  MaxWeight,      \* bound on the values given to the digest
  None            \* no minimum, no maximum

Values == 1 .. MaxValue
Bags == [Values -> Nat]

ASSUME SizesAssumption == MaxValue \in Nat \ {0} /\ MaxUnmerged \in Nat \ {0}
ASSUME NormalizerAssumption == \A w \in 1 .. MaxWeight : Normalizer[w].den > 0

VARIABLES
  digest,   \* the fields of the digest
  given     \* history: value -> how often it was given to the digest

vars == <<digest, given>>

NoValues == [v \in Values |-> 0]
Joined(b, c) == [v \in Values |-> b[v] + c[v]]

NewDigest ==
  [staging |-> TRUE, prefix |-> <<>>, unmerged |-> NoValues, weight |-> 0,
   reverse |-> FALSE, min |-> None, max |-> None]

UnmergedLen(d) == SumFunction(d.unmerged)
TotalWeight(d) == d.weight + UnmergedLen(d)
IsEmpty(d) == d.prefix = <<>> /\ UnmergedLen(d) = 0

Lower(a, b)  == IF a = None \/ Less(b, a) THEN b ELSE a
Higher(a, b) == IF a = None \/ Less(a, b) THEN b ELSE a

Units(bag) == FlattenSeq([v \in Values |-> [n \in 1 .. bag[v] |-> Unit(v)]])

-------------------------------------------------------------------------------
(* Operations *)

(* Fault: a list compacted from the large end is not turned round again. *)
CompressCentroidsTurned(d, cs, additional) ==
  LET total == d.weight + additional
      out   == IF d.reverse THEN Compacted(Reverse(Sorted(cs)), total)
                            ELSE Compacted(Sorted(cs), total)
  IN [staging |-> FALSE, prefix |-> out, unmerged |-> NoValues, weight |-> total,
      reverse |-> ~d.reverse,
      min |-> Lower(d.min, Mean(out[1])), max |-> Higher(d.max, Mean(Last(out)))]

(* compress_centroids: every other time from the large end. *)
CompressCentroids(d, cs, additional) ==
  LET total == d.weight + additional
      out   == IF d.reverse THEN Reverse(Compacted(Reverse(Sorted(cs)), total))
                            ELSE Compacted(Sorted(cs), total)
  IN [staging |-> FALSE, prefix |-> out, unmerged |-> NoValues, weight |-> total,
      reverse |-> ~d.reverse,
      min |-> Lower(d.min, Mean(out[1])), max |-> Higher(d.max, Mean(Last(out)))]

Compress(d) ==
  IF UnmergedLen(d) = 0 THEN d
  ELSE CompressCentroids(d, Units(d.unmerged) \o d.prefix, UnmergedLen(d))

Updated(d, v) ==
  LET room == IF UnmergedLen(d) >= MaxUnmerged THEN Compress(d) ELSE d
  IN [room EXCEPT !.unmerged[v] = @ + 1,
                  !.min = Lower(@, Frac(v, 1)), !.max = Higher(@, Frac(v, 1))]

Merged(d, other) ==
  IF IsEmpty(other) THEN d
  ELSE CompressCentroids(d,
         Units(d.unmerged) \o Units(other.unmerged) \o other.prefix \o d.prefix,
         UnmergedLen(d) + TotalWeight(other))

(* freeze, then unfreeze. *)
Thawed(d) == [Compress(d) EXCEPT !.staging = FALSE]

-------------------------------------------------------------------------------
(* Images *)

Serialize(d) ==
  LET c == Compress(d)
  IN [empty |-> IsEmpty(c), single |-> TotalWeight(c) = 1, compat |-> FALSE,
      reverse |-> c.reverse, min |-> c.min, max |-> c.max,
      centroids |-> IF TotalWeight(c) > 1 THEN c.prefix ELSE <<>>, buffered |-> NoValues]

(* What other implementations write: values that still wait are kept as    *)
(* such, or the reference implementation's format, without a direction.    *)
SerializeWithBuffer(d) ==
  [empty |-> FALSE, single |-> FALSE, compat |-> FALSE, reverse |-> d.reverse,
   min |-> d.min, max |-> d.max, centroids |-> d.prefix, buffered |-> d.unmerged]

SerializeCompat(d) == [Serialize(d) EXCEPT !.compat = TRUE, !.single = FALSE,
                                           !.centroids = Compress(d).prefix]

(* deserialize of an image whose checks succeed. *)
Deserialize(image) ==
  LET single == <<[sum |-> image.min.num, weight |-> image.min.den]>>
  IN IF image.empty THEN NewDigest
     ELSE [staging  |-> ~image.single /\ ~image.compat /\ image.centroids = <<>>,
           prefix   |-> IF image.single THEN single ELSE image.centroids,
           unmerged |-> image.buffered,
           weight   |-> IF image.single THEN 1 ELSE WeightOf(image.centroids),
           reverse  |-> ~image.compat /\ image.reverse,
           min      |-> image.min,
           max      |-> IF image.single THEN image.min ELSE image.max]

-------------------------------------------------------------------------------

Init == digest = NewDigest /\ given = NoValues

Update(v) ==
  /\ TotalWeight(digest) < MaxWeight
  /\ digest' = Updated(digest, v)
  /\ given' = [given EXCEPT ![v] = @ + 1]

(* rank, quantile, cdf, pmf and serialize compress on their way. *)
Query == digest' = Compress(digest) /\ UNCHANGED given

FreezeUnfreeze == digest' = Thawed(digest) /\ UNCHANGED given

Reload == digest' = Deserialize(Serialize(digest)) /\ UNCHANGED given

Read(input) ==
  /\ IsEmpty(digest)
  /\ digest' = Deserialize(input.image)
  /\ given' = input.given

Merge(input) ==
  /\ TotalWeight(digest) + SumFunction(input.given) <= MaxWeight
  /\ digest' = Merged(digest, Deserialize(input.image))
  /\ given' = Joined(given, input.given)

Next ==
  \/ \E v \in Values : Update(v)
  \/ Query \/ FreezeUnfreeze \/ Reload
  \/ \E input \in Inputs : Read(input) \/ Merge(input)

Spec == Init /\ [][Next]_vars

-------------------------------------------------------------------------------
(* Properties *)

SumOfValues(bag) == MapThenSumSet(LAMBDA v : v * bag[v], Values)
SumOf(cs) == FoldLeft(LAMBDA s, c : s + c.sum, 0, cs)
Seen == {v \in Values : given[v] > 0}

(* No value is lost or counted twice on its way through the buffer, the    *)
(* centroids, merges and images: weights and sums agree with the stream.   *)
(* The centroids are sorted and the outermost two stand for one value      *)
(* each, because merge learns the other digest's extremes from them alone. *)
(* What is written is what is read back.                                   *)
DigestExact ==
  LET d == digest
      c == Compress(d)
      cs == d.prefix
  IN /\ TotalWeight(d) = SumFunction(given) /\ d.weight = WeightOf(cs)
     /\ SumOf(cs) + SumOfValues(d.unmerged) = SumOfValues(given)
     /\ \A i \in 1 .. Len(cs) - 1 : Leq(Mean(cs[i]), Mean(cs[i + 1]))
     /\ cs # <<>> => cs[1].weight = 1 /\ Last(cs).weight = 1
     /\ Seen # {} =>
          /\ d.min = Frac(Min(Seen), 1) /\ Equal(Mean(c.prefix[1]), d.min)
          /\ d.max = Frac(Max(Seen), 1) /\ Equal(Mean(Last(c.prefix)), d.max)
          /\ Deserialize(Serialize(d)) = c

AllUnits(cs) == \A i \in DOMAIN cs : cs[i].weight = 1
CountBelow(v) == SumFunctionOnSet(given, {u \in Values : u < v})

(* Ranks lie between 0 and 1 and never fall as the value rises, so that    *)
(* cdf is monotone and no mass of pmf negative; and while no two values    *)
(* share a centroid, the rank of a value is the exact middle of its ranks. *)
RanksConsistent ==
  LET c == Compress(digest)
      rank == [v \in 1 .. 2 * MaxValue + 1 |-> Rank(c, Frac(v, 2))]
  IN ~IsEmpty(c) =>
       /\ \A v \in DOMAIN rank : Leq(Zero, rank[v]) /\ Leq(rank[v], One)
       /\ \A v \in 1 .. 2 * MaxValue : Leq(rank[v], rank[v + 1])
       /\ AllUnits(c.prefix) =>
            \A v \in Seen : Equal(rank[2 * v], Frac(2 * CountBelow(v) + given[v], 2 * c.weight))

(* Quantiles lie between the minimum and the maximum; and while no two     *)
(* values share a centroid, the quantile is the value at its rank.         *)
QuantilesInRange ==
  LET c == Compress(digest)
      at(i) == Units(given)[i]
  IN ~IsEmpty(c) =>
       \A j \in 0 .. 4 * c.weight :
         LET q == Quantile(c, Frac(j, 4))
         IN /\ Leq(c.min, q) /\ Leq(q, c.max)
            /\ AllUnits(c.prefix) => Equal(q, Mean(at(Min({1 + (j \div 4), c.weight}))))
===============================================================================
