--------------------------- MODULE TDigestCentroids ---------------------------
(***************************************************************************)
(* Centroids of a t-digest (tdigest/sketch.rs): how a sorted list of them  *)
(* is compacted, and how ranks and quantiles are read off it.              *)
(*                                                                         *)
(* A centroid is the exact sum and the weight of the values it stands for; *)
(* the code keeps their rounded mean.  Fractions have positive             *)
(* denominators and are compared by their cross products.                  *)
(***************************************************************************)
EXTENDS Integers, Sequences, SequencesExt, FiniteSetsExt

CONSTANT Normalizer   \* total weight -> scale_function::normalizer for it

Frac(n, d) == [num |-> n, den |-> d]
Leq(a, b)  == a.num * b.den <= b.num * a.den
Less(a, b) == a.num * b.den < b.num * a.den
Equal(a, b) == a.num * b.den = b.num * a.den
Plus(a, b)  == Frac(a.num * b.den + b.num * a.den, a.den * b.den)
Minus(a, b) == Frac(a.num * b.den - b.num * a.den, a.den * b.den)
Times(a, b) == Frac(a.num * b.num, a.den * b.den)
Over(a, b)  == Frac(a.num * b.den, a.den * b.num)      \* for b > 0
Zero == Frac(0, 1)
One  == Frac(1, 1)
Half == Frac(1, 2)

Unit(v) == [sum |-> v, weight |-> 1]
Mean(c) == Frac(c.sum, c.weight)
AddCentroid(c, d) == [sum |-> c.sum + d.sum, weight |-> c.weight + d.weight]

WeightOf(cs) == FoldLeft(LAMBDA w, c : w + c.weight, 0, cs)

(* sort_by is stable: an element goes behind those with the same mean. *)
Sorted(cs) ==
  LET place(out, c) ==
        InsertAt(out, 1 + Cardinality({j \in DOMAIN out : Leq(Mean(out[j]), Mean(c))}), c)
  IN FoldLeft(place, <<>>, cs)

(***************************************************************************)
(* The limit on a centroid between the ranks before and before + weight:   *)
(* total * q * (1 - q) / normalizer, at the stricter of both ends.         *)
(***************************************************************************)
MayHold(weight, before, total) ==
  LET room(w) == w * (total - w)
      n == Normalizer[total]
  IN weight * total * n.num <= Min({room(before), room(before + weight)}) * n.den

(***************************************************************************)
(* The loop of compress_centroids over a sorted list: a centroid joins the *)
(* one before it if the limit allows; the first and the last never do.     *)
(***************************************************************************)
Compacted(cs, total) ==
  LET step(acc, i) ==
        LET top == Len(acc.out)
            proposed == acc.out[top].weight + cs[i].weight
        IN IF i > 2 /\ i < Len(cs) /\ MayHold(proposed, acc.before, total)
           THEN [acc EXCEPT !.out[top] = AddCentroid(@, cs[i])]
           ELSE [out |-> Append(acc.out, cs[i]), before |-> acc.before + acc.out[top].weight]
  IN FoldLeft(step, [out |-> <<cs[1]>>, before |-> 0], [i \in 1 .. Len(cs) - 1 |-> i + 1]).out

-------------------------------------------------------------------------------
(* Queries on a compressed view: min, max, prefix (its centroids), weight. *)

(* Outside the means of the outermost centroids. *)
RankInLeftTail(d, v) ==
  LET first == d.prefix[1]
  IN IF Equal(v, d.min) THEN Frac(1, 2 * d.weight)
     ELSE Plus(One, Times(Over(Minus(v, d.min), Minus(Mean(first), d.min)),
                          Frac(first.weight - 2, 2)))

RankInRightTail(d, v) ==
  LET final == Last(d.prefix)
  IN IF Equal(v, d.max) THEN Frac(2 * d.weight - 1, 2 * d.weight)
     ELSE Minus(One, Over(Plus(One, Times(Over(Minus(d.max, v), Minus(d.max, Mean(final))),
                                          Frac(final.weight - 2, 2))),
                          Frac(d.weight, 1)))

(* Twice the weight up to the middle of centroid i. *)
MiddleTwice(cs, i) == 2 * WeightOf(SubSeq(cs, 1, i - 1)) + cs[i].weight

(***************************************************************************)
(* Between centroids: lower and upper are the indices the two binary       *)
(* searches settle on; the rank is interpolated between their middles.     *)
(***************************************************************************)
(* Fault: the upper index is not moved back onto an equal mean. *)
RankInsidePast(d, v) ==
  LET cs    == d.prefix
      below == Cardinality({i \in DOMAIN cs : Less(Mean(cs[i]), v)})
      upTo  == Cardinality({i \in DOMAIN cs : Leq(Mean(cs[i]), v)})
      lower == IF Less(v, Mean(cs[below + 1])) THEN below ELSE below + 1
      upper == IF upTo = Len(cs) THEN upTo ELSE upTo + 1
      base  == MiddleTwice(cs, lower)
      delta == MiddleTwice(cs, upper) - base
      share == IF Less(Mean(cs[lower]), Mean(cs[upper]))
               THEN Over(Minus(v, Mean(cs[lower])), Minus(Mean(cs[upper]), Mean(cs[lower])))
               ELSE Half
  IN Times(Plus(Frac(base, 1), Times(Frac(delta, 1), share)), Frac(1, 2 * d.weight))

RankInside(d, v) ==
  LET cs    == d.prefix
      below == Cardinality({i \in DOMAIN cs : Less(Mean(cs[i]), v)})
      upTo  == Cardinality({i \in DOMAIN cs : Leq(Mean(cs[i]), v)})
      lower == IF Less(v, Mean(cs[below + 1])) THEN below ELSE below + 1
      upper == IF upTo = Len(cs) \/ Leq(v, Mean(cs[upTo])) THEN upTo ELSE upTo + 1
      base  == MiddleTwice(cs, lower)
      delta == MiddleTwice(cs, upper) - base
      share == IF Less(Mean(cs[lower]), Mean(cs[upper]))
               THEN Over(Minus(v, Mean(cs[lower])), Minus(Mean(cs[upper]), Mean(cs[lower])))
               ELSE Half
  IN Times(Plus(Frac(base, 1), Times(Frac(delta, 1), share)), Frac(1, 2 * d.weight))

Rank(d, v) ==
  IF Less(v, d.min) THEN Zero
  ELSE IF Less(d.max, v) THEN One
  ELSE IF Len(d.prefix) = 1 THEN Half
  ELSE IF Less(v, Mean(d.prefix[1])) THEN RankInLeftTail(d, v)
  ELSE IF Less(Mean(Last(d.prefix)), v) THEN RankInRightTail(d, v)
  ELSE RankInside(d, v)

(* weighted_average(x1, w1, x2, w2). *)
WeightedAverage(x1, w1, x2, w2) ==
  Plus(x1, Times(Minus(x2, x1), Over(w2, Plus(w1, w2))))

(* Fault: a centroid of one value is interpolated like the others. *)
BetweenSmooth(cs, i, weight) ==
  WeightedAverage(Mean(cs[i]), Minus(weight, Frac(MiddleTwice(cs, i), 2)),
                  Mean(cs[i + 1]), Minus(Frac(MiddleTwice(cs, i + 1), 2), weight))

(***************************************************************************)
(* quantile between the middles of centroids i and i + 1: a centroid of    *)
(* one value answers for half a rank on each side of its middle.           *)
(***************************************************************************)
Between(cs, i, weight) ==
  LET before == Minus(weight, Frac(MiddleTwice(cs, i), 2))
      after  == Minus(Frac(MiddleTwice(cs, i + 1), 2), weight)
      own(c) == IF c.weight = 1 THEN Half ELSE Zero
  IN IF cs[i].weight = 1 /\ Less(before, Half) THEN Mean(cs[i])
     ELSE IF cs[i + 1].weight = 1 /\ Leq(after, Half) THEN Mean(cs[i + 1])
     ELSE WeightedAverage(Mean(cs[i]), Minus(before, own(cs[i])),
                          Mean(cs[i + 1]), Minus(after, own(cs[i + 1])))

(* quantile, for weight = rank * total weight. *)
Quantile(d, weight) ==
  LET cs    == d.prefix
      n     == Len(cs)
      rest  == Minus(Frac(d.weight, 1), weight)
      first == Frac(cs[1].weight, 2)
      final == Frac(cs[n].weight, 2)
      past  == {i \in 1 .. n - 1 : Less(weight, Frac(MiddleTwice(cs, i + 1), 2))}
  IN IF n = 1 THEN Mean(cs[1])
     ELSE IF Less(weight, One) THEN d.min
     ELSE IF Less(rest, One) THEN d.max
     ELSE IF cs[1].weight > 1 /\ Less(weight, first)
     THEN Plus(d.min, Times(Over(Minus(weight, One), Minus(first, One)),
                            Minus(Mean(cs[1]), d.min)))
     ELSE IF cs[n].weight > 1 /\ Leq(rest, final)
     THEN Plus(d.max, Times(Over(Minus(rest, One), Minus(final, One)),
                            Minus(d.max, Mean(cs[n]))))
     ELSE IF past # {} THEN Between(cs, Min(past), weight)
     ELSE LET w1 == Minus(Minus(weight, Frac(d.weight, 1)), final)
          IN WeightedAverage(Mean(cs[n]), w1, d.max, Minus(final, w1))
===============================================================================
