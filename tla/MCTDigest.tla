------------------------------ MODULE MCTDigest ------------------------------
(* Digests with k = 10.                                                    *)
EXTENDS TDigest

(* 20 / (4 * ln(n / 20) + 24) in thousandths. *)
MCNormalizer ==
  [w \in 1 .. 13 |-> Frac(<<1664, 1352, 1219, 1139, 1084, 1043, 1010, 984, 961, 942, 926, 911,
                         898>>[w], 1000)]

Of(values) == FoldLeft(Updated, NewDigest, values)
BagOf(values) == [v \in Values |-> Cardinality({i \in DOMAIN values : values[i] = v})]

Ones == <<1, 1, 2, 2, 3>>
Nine == <<1, 1, 1, 2, 2, 2, 3, 3, 3>>

MCInputs ==
  {[image |-> Serialize(NewDigest), given |-> NoValues],
   [image |-> Serialize(Of(<<2>>)), given |-> BagOf(<<2>>)],
   [image |-> SerializeWithBuffer(Of(Ones)), given |-> BagOf(Ones)],
   [image |-> SerializeWithBuffer(Updated(Compress(Of(Ones)), 3)), given |-> BagOf(Ones \o <<3>>)],
   [image |-> SerializeCompat(Of(Nine)), given |-> BagOf(Nine)]}
==============================================================================
