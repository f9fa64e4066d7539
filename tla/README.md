# A TLA+ model of the DataSketches Rust library

The library under `datasketches/` implements streaming sketches: Bloom filter,
Count-Min, CPC, frequent items, HyperLogLog, REQ, t-digest, Theta and Tuple.
This directory holds TLA+ modules that model the state machines of these
sketches, TLC configurations that check them on small instances, and proofs
that TLAPS checks for every value of the constants.

Paths below are relative to `datasketches/src/`.

## 1. The system

The library is single-threaded and synchronous. Sketches are values; the caller
serialises all access through `&mut self`, nothing persists between calls but
the sketch itself, and there are no messages, timers or callbacks other than
the closures and policies passed into one call. What makes the code hard is
elsewhere:

* a call may restructure the container it is working on: a hash table grows or
  is rebuilt in the middle of an insertion, a map is purged in the middle of a
  merge, a threshold drops in the middle of a loop over another sketch;
* a sketch keeps several redundant pieces of state (a count of entries, a count
  of set bits, a threshold, an offset, a total weight, an emptiness flag), and
  answers queries, takes fast paths and chooses image formats on the strength of
  one of them;
* sketches are combined with sketches in other states: ordered or not, exact or
  estimating, of another size, seed or mode;
* the promise of a sketch (a bound on an error) is about the whole history of
  the calls, most of which the sketch has forgotten. In the models that history
  is kept in *history variables*, and the properties relate the sketch to them.

So nearly every property here is a safety property of sequences of calls: nothing
in the code makes a caller call, and no specification assumes that one does. The
loops inside the code are bounded by the container they walk over; where a probe
could run forever (in a full table) the model turns that outcome into a flagged
state and an invariant excludes it. One loop is bounded by the data alone: the
`while` at the end of `Array4::update`. `HllArray4` models its rounds as steps of
their own, and `ShiftingEnds` is the liveness property that it ends. The fairness
assumed for it, weak fairness of that one step, is that of a sequential program:
the loop runs inside `update` and nothing else can happen before it ends.

### Components

| component | source | state | operations | correct when |
|---|---|---|---|---|
| Theta-family hash table | `thetafamily/common/hash_table.rs` | slots, theta, emptiness, count, current/nominal log size, resize factor | `upsert_entry` (with growth and rebuild), `trim`, `reset`, `set_theta`, `set_empty`, `to_compact_parts` | probing finds each retained hash once; exactly the hashes below theta are retained; at least k once theta moved |
| Theta and Tuple sketch | `thetafamily/theta/sketch.rs`, `thetafamily/tuple/sketch.rs`, `policy.rs` | a hash table, a policy | `update`, `trim`, `reset`, `compact`, image formats | summaries complete; dropped keys stay dropped |
| union | `thetafamily/common/union.rs` | a hash table and its own theta | `update`, `reset`, `to_compact_parts` | the result is a sketch of the union of the source sets |
| intersection | `thetafamily/common/intersection.rs` | a hash table, whether there is a result | `update`, `to_compact_parts` | the result is a sketch of the intersection; honest inputs are no error |
| A-not-B | `thetafamily/common/a_not_b.rs` | none | `compute` | the result is a sketch of the difference |
| Jaccard similarity | `thetafamily/common/jaccard_similarity.rs` | none; a union and an intersection inside the call | `compute`, `exactly_equal` | both counts are taken below the same theta |
| Theta and Tuple images | `thetafamily/theta/sketch.rs`, `bit_pack.rs`, `thetafamily/tuple/sketch.rs` | none | `serialize`, `serialize_compressed`, `deserialize` of versions 1 to 4 | nothing but what says nothing is lost |
| frequent items | `frequencies/sketch.rs` | counters, offset, stream weight, capacity | `update_with_count`, `merge`, `reset`, `serialize`/`deserialize`, queries | bounds bracket the true frequency; the error is paid for |
| reverse purge hash map | `frequencies/reverse_purge_item_hash_map.rs` | keys, values, drifts | put, purge, resize, iterate | keys stay findable through deletions |
| Bloom filter | `bloom/sketch.rs` | bit array, cached bit count | `insert`, `union`, `intersect`, `invert`, `reset`, images | no false negatives; the count is exact |
| Count-Min | `countmin/sketch.rs`, `value.rs` | rows of counters, total weight | `update_with_weight`, `merge`, `halve`, `decay`, images | no underestimates; rows stay within the total |
| HyperLogLog sketch | `hll/sketch.rs`, `list.rs`, `hash_set.rs`, `array4.rs`, `array6.rs`, `array8.rs`, `aux_map.rs` | coupon list, coupon set, or an array of 4, 6 or 8 bit registers with counters of registers at the minimum; the 4-bit one has a moving minimum and a table of exceptions | `update`, promotions, `serialize`/`deserialize` | every register is the maximum of its coupons in every mode; counters exact; the minimum keeps up |
| HyperLogLog union | `hll/union.rs` | a gadget sketch, `lg_max_k` | `update`, `update_value`, `to_sketch`, `reset` | the gadget is the sketch of everything offered, at the least precision merged |
| CPC sketch | `cpc/sketch.rs`, `pair_table.rs` | coupon count, pair table, sliding window with its offset, first interesting column, HIP factor | `update`, promotions and window moves | the bit matrix is that of the offered coupons |
| CPC union | `cpc/union.rs` | an accumulator sketch or a bit matrix, k | `update`, `to_sketch` | the union of all inputs at the smallest k |
| CPC images | `cpc/compression.rs`, `serialization.rs`, `compression_data.rs` | none | compression by flavor, the order of fields, and back | every image is readable and lossless |
| REQ sketch and union | `req/` | levels of compactors with sections, cached totals | `update`, `merge`, compression, ranks, `reset`, images | total weight is n; caches exact; the protected end is exact |
| t-digest | `tdigest/` | centroids, values that wait, extremes, direction | `update`, `merge`, compression, freezing, images, `rank`, `quantile` | no value lost; extremes exact; ranks monotone |
| hashing, codec, estimators, bounds | `hash/`, `codec/`, `common/`, `hll/estimator.rs`, `cpc/estimator.rs`, `thetafamily/common/binomial_bounds.rs` | none | pure functions | - |

How they interact: Theta and Tuple sketches, the union and the intersection each
own one hash table (shared state is reached through method calls only). The set
operations read their inputs through a view (theta, emptiness, seed hash,
ordered flag, iterator over entries) that every kind of sketch provides. Jaccard
similarity calls union and intersection. The HyperLogLog union owns one sketch,
its gadget, and reads the registers or coupons of another; a 4-bit array owns one
auxiliary map, which it replaces whenever the minimum rises. The CPC union owns
an accumulator sketch until it needs a bit matrix. The REQ union is a sketch that
only merges, and a merge compacts in the middle. The frequent items sketch owns
one reverse purge map and reads another sketch's map during a merge. Bloom filters
and Count-Min sketches combine pairwise, in place. `PROJECT.json` lists all
components with what is modelled of them, and the hazards with their lines.

## 2. The modules

| module | models | composed with |
|---|---|---|
| `ThetaTable` | the hash table as a function from hashes to summaries, with theta, emptiness and sizes: pure operators | used by `TupleSketch`, `ThetaUnion`, `ThetaIntersection` |
| `TupleSketch` | an additive Tuple sketch; a Theta sketch when all values are 0 | abstract specification for `SketchHashTable` |
| `SketchHashTable` | slots, double hashing, re-insertion on growth, rebuild | implements `TupleSketch`, in lock step |
| `SketchViews` | what the set operations do with the entries of a view: merging, matching, filtering, the order of a scan | used by the three set operations |
| `ThetaUnion` | the union, one step per entry of an input | `ThetaTable` |
| `ThetaIntersection` | the intersection, one step per entry, with its error returns | `ThetaTable` |
| `ThetaANotB` | the difference as an operator with its three scans | `SketchViews` |
| `SetOperationInputs` | the sketches the set operations are given, and the contract between a view and the set it stands for (`Represents`) | used by union, intersection and difference |
| `ThetaSetExpression` | a client: unions feed intersections, differences of inputs and results, Jaccard calls, images | `ThetaUnion`, `ThetaIntersection`, `ThetaANotB`, `ThetaImage` |
| `ThetaImage` | images of compact sketches with the bit packing: pure operators | `ThetaSetExpression` |
| `FrequentItems` | counters as a function of items, growth, purge, merge item by item | abstract specification for `ReversePurgeMap` |
| `ReversePurgeMap` | slots, drifts, back-shifting deletion, purge passes, strided iterator, reload | implements `FrequentItems`, in lock step |
| `BloomFilter` | filters over bit sets with the cached count | |
| `CountMin` | rows of counters and the total weight | |
| `HllArray4` | the 4-bit register array: update, and a round of the loop that raises the minimum | abstract map for `HllAuxMap` |
| `HllAuxMap` | the probing table of exceptions: insert, replace, growth, rebuild at a shift, reload | superposed on `HllArray4`, each step makes the calls of the code |
| `HllArray6` | the packed 6-bit registers that straddle bytes: pure operators | used by `HllModes` |
| `HllModes` | a sketch as a value: list, set and array with the promotions, bulk merges, copies and conversions: pure operators | `HllArray6` |
| `HllImage` | the image of a sketch in each mode, what its reader accepts and makes of it: pure operators | `HllModes` |
| `HllUnion` | the union and the sketch given to it next | `HllImage` |
| `PairTable` | the table of surprising pairs, slot by slot: pure operators | used by `CpcSketch` |
| `CpcSketch` | a sketch as a value: updates, promotions, window moves, HIP factor: pure operators | `PairTable` |
| `CpcCodec`, `CpcImage` | bit streams and codes of the payload; the compressed form of each flavor and its reading | `CpcSketch` |
| `CpcUnion` | a sketch that is updated, stored and merged, and the union it is merged into | `CpcImage` |
| `ReqCompactor` | one level: sections, compaction, merge: pure operators | used by `ReqSketch` |
| `ReqSketch` | the sketch or the union's sketch: updates, compression, merges, reset, images, ranks, the sorted view | `ReqCompactor` |
| `TDigestCentroids` | centroids: compaction, rank and quantile in exact fractions: pure operators | used by `TDigest` |
| `TDigest` | updates, queries, freezing, merges, images in both formats | `TDigestCentroids` |
| `MC*` | instances for TLC | |
| `NatSets`, `*Proofs` | lemmas and theorems | section 5 |

### Theta family

A table is a record (`entries`, `theta`, `isEmpty`, `lgCur`, `lgNom`,
`lgResize`), field by field the fields of `SketchHashTable<E>`; `entries` is a
function from the retained hashes to their summaries. `UpsertEntry(t, h,
created, merged)` is `upsert_entry` with the closure reduced to the two values
it can leave behind. Hashes are numbers up to `MaxTheta`; 0 is a hash the screen
refuses, as in the code. `Sampling` is p as a fraction. `offered` in
`TupleSketch` is the history: each offered hash with the sum of its values.

`SketchHashTable` extends `TupleSketch`, adds the slots, and takes each step of
both at once, so that the sketch-level properties are checked of the slots' own
content, and `ImplementsTupleSketch` says that the step is one of the set-level
sketch. The probe sequence is computed as the code does
it (`GetStride`, `Probe`), the order that `select_nth_unstable` leaves is any
order (`SetToSeqs`), and the calls of `unreachable!`, the assertion of rebuild
and the bounds check of the selection set `panicked`.

`ThetaUnion` and `ThetaIntersection` run a call of `update` in steps because
table and thresholds change inside the loop. An ordered input is visited in
ascending order, any other in any order (`MayVisit`). The inputs are constants:
records of a view and of the source set it was built from, with the assumption
`Represents(view, source)`. `TupleSketch`'s properties `RetainedExact` and
`SummaryComplete` are that contract for an updatable sketch, and the results of
the set operations are shown to fulfil it again; so set expressions of any depth
are covered by one contract. `ThetaSetExpression` composes them: a union's
result, exact or not, sorted or in slot order, is the first input of an
intersection, and either result is the minuend of a difference or is written to
an image. A call of Jaccard similarity is a union and an intersection of the
keys of two inputs; they run in the same variables, entry by entry, while both
are unused, and the call gives them back empty.

A compact sketch in `ThetaImage` is a view whose entries are a sequence. The
compressed format packs deltas in blocks of one routine per width and the rest
value by value; `ByteBits` is the length of a byte and of a block, 8 in the code.
The 126 unrolled routines of `bit_pack.rs` were compared with `PackBlock` and
`UnpackBlock` by a script that reads their shifts and masks: each is the generic
layout of its width. Versions 1 and 2 are only read; what their writers write is
external (`WriteV1`, `WriteV2`).

### Frequent items

`FrequentItems` abstracts the map to a counter per item (0 is absent). What
depends on slot order is a choice: which counters the purge samples, and in
which order a merge visits the other sketch. A merge runs item by item: its
updates may grow or purge the target half-way. `truth` is the weight really
given; `tolerance` the smallest map that contributed to a sketch, which is what
its error is stated for. `ReversePurgeMap` has the slots: probing from a home
slot, the drift stored with each key, the two descending passes of
`keep_only_positive_counts`, the back shift of `hash_delete`, a merge in the order
of the strided iterator, and a reload that replays the counters in slot order as
`deserialize` does. It extends `FrequentItems` and sets the abstract counters to
what the slots hold, so all properties of the sketch are checked of the slots.

### Bloom filter and Count-Min

A bit array is the set of its 1-bits; the double hashing wraps at `HashBits` and
the capacity is rounded up to words of `WordBits`, as in the code. `required` is
the set of items a filter has to recognise: insertion adds to it, union joins,
intersection meets, reset and invert (which documents that it gives the
guarantee up) empty it. `Reload` writes and reads an image: what an image does
not carry is lost.

Count-Min is one module for signed and unsigned counters (`unsigned` is chosen
in `Init`); halving and decaying exist for unsigned ones only, as in the code.
`truth` is merged, halved and decayed like the counters. Overflow: updates and
merges stop where the total would exceed `MaxValue`; no counter gets there first,
since each is within the total (`WithinTotal` in `BloomCountMinProofs`). Its names
(`CountSpec`, `ReloadSketch`, ...) are apart from those of `BloomFilter`, since one
module proves the theorems of both.

### HyperLogLog

A register of `HllArray4` is a nibble in `raw`; `AuxToken` (15 in the code) says
that the value is in `aux`. `UpdateIgnored` are the early returns, `UpdateRaised`
the four cases of the match, `Shift` one round of `shift_to_bigger_cur_min`.
While `Shifting` holds the call of `update` has not returned, and no other action
is enabled. `best` is the history: the largest value offered to each register.
`HllAuxMap` adds the variable `table`, which each step changes by the calls that
`array4.rs` makes on its `AuxMap`; a shift re-inserts the remaining exceptions
into a map of the initial size in the order of the old one (`Reinserted`), and so
does a reload with all of them.

In `HllModes` a sketch is a record. A list and a set are the set of the coupons
they hold (`PartialEq` of the container takes them so), with the size of the
set's array, which decides when it grows and when it becomes an array. An array
has its registers, the count of those at zero and the estimator. The registers of
an 8-bit array are bytes of their own; those of a 6-bit one are packed in bytes as
in `array6.rs`, read and written through a window of two bytes (`HllArray6`); a
4-bit array is taken as a map from registers to values, which `HllArray4` and
`HllAuxMap` justify. Of the estimator, `kxq0` and `kxq1` are sums of the inverse
powers 2^-value, below and from `KxqSplit` on (32 in the code): an integer in units
of 2^-MaxRegister, so that the sums are exact, where the code adds floating-point
numbers. `ooo` is the out-of-order flag, and `hip` says whether the accumulator
`hip_accum` is an estimate of what the sketch saw: it is not after a bulk merge,
and not after `set_out_of_order`, which clears it.

`HllImage` writes and reads the image of each mode: which fields there are, the
reader's conditions on them, and what the reader restores or clears. The cached
counts and sums of an array are in its image and taken from it, not recomputed.

`HllUnion` has the union's gadget and one source sketch at a time, which is built
by updates, taken from the union's own result (as in a tree of unions), reloaded
from its image or read as the image of another implementation's union. `offered`
and `srcOffered` are the coupons that each has been offered; `least` is the least
lg_k of the arrays merged since the last reset.

### CPC

`CpcSketch` is the sketch as a record. The code's sizes (64 columns, a window of
8, k from 16) are constants; where the window starts and moves is computed as in
the code, and the two thresholds before are fractions given as constants, since
small k would otherwise skip flavors. The table is `PairTable`, slot by slot,
with growth, shrinking and the re-insertion of the run behind a deleted pair.
`kxp` is an integer in units of 2^-`NumCols`. `CpcCodec` has the bit streams: a
payload is a sequence of bits in words, the prefix codes are constants of which
only the lengths and the prefix property matter. The tables of
`compression_data.rs` were checked to have what is assumed of them by a script:
prefix codes of at most 12 bits, decoding inverse to encoding, column
permutations inverse to each other; and each entry of `kxp_byte_lookup.rs` is the
sum of 2^-(i+1) over the zero bits i of its index.

An image in `CpcImage` is the flags, the fields as a sequence and the payload as
one sequence of bits. Which fields there are and at which place depends on the
flags: the number of table entries is written only next to a window, and the HIP
fields come before the word counts then and behind them otherwise. `ReadFields` is
what `deserialize` and the wrapper read from those places, and the word counts
cut the payload into window and table. The two HIP fields are one, `kxp`, since
the accumulator is not modelled.

`CpcUnion` has one sketch and one union. The sketch is updated in any order
within `MaxGap`, written and read back; while the union is fresh it moves, and
it is merged, with other sketches built from fixed streams, while it is not. The
union's result may be taken as the next sketch.

### REQ

Only comparisons of items decide what a compactor keeps, so for a threshold
query two values stand for all. The coin of a compaction is a choice.
`halvings` stands for the floating-point section size: it is k / sqrt(2)^halvings,
and the integer rounding agrees with the `f32` arithmetic for every even k from 4
to 1024 (checked by a script). `finest` is the smallest k merged into the sketch.

### t-digest

A centroid is an exact sum with a weight, where the code keeps a rounded mean;
ranks and quantiles are exact fractions compared by cross products. Values that
wait are a bag: nothing depends on their order. The scale function needs a
logarithm: `Normalizer` gives its value per total weight, rounded to thousandths
for k = 10 in the instance, and no comparison up to the bound on the weight is
changed by that rounding (checked by a script). Of the buffer, `staging` tells
values only from centroids with a tail; how much capacity is reserved is left out.

### Faults

Definitions with a comment starting "Fault:" are never used by a specification.
Each is a plausible mistake in the definition that follows it, and the mutants
in `PROJECT.json` name the property that catches it.

## 3. The runs

`tlc -workers 2 -config X.cfg MCX`; `HllArray4.cfg` goes with `HllAuxMap` itself,
`CpcEmptyImage.cfg` with `MCCpcUnion` and `HllUnionForeign.cfg` with `MCHllUnion`.
All runs check `CHECK_DEADLOCK` at its default: no model may stop.

| run | instance | shows |
|---|---|---|
| `hash_table` | k = 4, tables up to 8 slots, p = 7/8, nine hashes that collide in home slot and stride (one above the starting theta), eight offers | `EntriesFindable`, `RetainedExact`, `SummaryComplete`, `EstimationModeFull`, `ImplementsTupleSketch`: growth, rebuilds, trims, resets, and keys offered again after they were dropped |
| `theta_set_expression` | k = 2, 32 inputs, three updates per union and per intersection; every difference, Jaccard call and image of two inputs, and differences and images of results | `ResultRepresentsUnion`, `ResultThetaJustified`, `ResultRepresentsIntersection`, `ResultRepresentsDifference`, `JaccardExact`, `ImagesLossless` |
| `reverse_purge_map` | two sketches with maps of up to 16 and 8 slots, seven items, two layouts of home slots (a cluster that wraps round, two clusters with homes before their heads), counts 0, 1, 2 and 4, eight updates, one merge | `BoundsHold`, `ListsHonourErrorType`, `ErrorPaidFor`, `EntriesFindable`, `ImplementsFrequentItems` |
| `bloom_filter` | three filters of 8 bits, one with another seed, three items, six calls | `NoFalseNegatives`, `CountExact`, `ReloadLossless` |
| `count_min` | two sketches of two rows by three buckets, three items that collide pairwise, weights -2, 0, 1, 3, decays 1/3, 2/3, 1, total up to 5 | `NeverUnderestimates`, `CountReloadLossless` |
| `hll_array4` | four registers, values up to 7, nibbles of 0 to 2 with token 3, an exception table of 2 entries at first | `RegistersExact`, `CountersExact`, `NoPanic`, `TableIsMap`, `ShiftingEnds` |
| `hll_union` | `lg_max_k` 1 and 2, sources of lg_k 1 to 3 and all three types, six coupons, registers up to 3; lists of 2, sets of 4; foreign out-of-order images are HLL_8 | `SourceComplete`, `UnionComplete`, `EstimatorUsable` |
| `req_sketch` | k = 2 and 4, both rank accuracies, sections from one on, streams of up to 16 values, merges of four streams at either k and of the sketch with itself | `AccountsExact`, `RankMatchesView`, `ExactTail`, `ReloadLossless` |
| `cpc_union` | k = 1 and 2, six columns, a window of three, words of two bits; four streams to merge in, two merges | `MatrixExact`, `UnionExact`, `ReloadLossless`, `KxpIsProbability` |
| `tdigest` | k = 10, three values, a buffer of four, five digests to read or merge (empty, one value, with values still waiting, in the reference format), total weight up to 13 | `DigestExact`, `RanksConsistent`, `QuantilesInRange` |
| `hll_union_foreign` | as `hll_union`, but the out-of-order images are HLL_4 or HLL_6 | a disagreement, see section 5a: `EstimatorUsable` fails |
| `cpc_empty_image` | as `cpc_union`, but the image of an empty sketch may be read back | a disagreement, see section 5a: `KxpIsProbability` fails |

Why the bounds suffice: the behaviour of a container depends on its fill
relative to its thresholds and on the order of hashes, not on its size.

*Theta family.* In `hash_table` eight offers pass through growth, a full table,
two rebuilds and a re-offer of a dropped hash, with every stride class. In
`theta_set_expression` a table of the union grows once and is rebuilt repeatedly
within three inputs. The input set has, for four source sets and the set {0}
(whose only key the screen refuses), an exact and two estimating views, ordered
and not, empty ones and one of a foreign seed; three updates cover an input that
comes after a result that is empty, exact or estimating. The 31-entry input is
one more than a table of 32 slots may hold, where the sizing of the intersection
rounds; `MaxLgK = 4` makes the union inside Jaccard of that input estimate, as
the largest k does. With `ByteBits = 4` its image has seven blocks and a
remainder, and widths that do and do not divide a byte.

*Frequent items.* The larger map fills to its threshold of 12 only in part but
grows twice; the smaller one purges on the seventh item, also in the middle of a
merge. Bounds that name a reduction, not a limit of the code: items arrive in
order (only their homes and counts tell them apart), at most `MaxRepeats` again;
each has its own counts (`CountsOf`); `Turn` lets the two sketches move one after
the other until they are merged, since they do not depend on one another, and
`Settled` explores resets and reloads where they can matter.

*HyperLogLog.* In `hll_array4` the state space is finite without any bound on
calls, since registers only rise: the run covers every order of offers. All
minima from 0 to 7 are passed, several registers are exceptions at once, so that
the table of two entries grows, and exceptions return to the array. In
`hll_union` there is no bound on calls either. The constants are small versions
of the code's (8, 5, 8 and 3) that keep their relation
`LgInitSet = LgDirect - SetMargin`: lg_k 1 promotes a list to an array, lg_k
2 a list to a set that is then as large as it may get, lg_k 3 to a set that grows
once. Six coupons, some of which share registers, overfill each container; with
lg_k on both sides of `lg_max_k` each of the union's paths is taken.

*REQ.* A level of k = 2 compacts from four items on; 16 values reach three levels,
doubled sections and merges that compact a level twice. Values arrive in
descending order once the buffer of level 0 is marked unsorted (`Arrives`): the
order of such a buffer is never read.

*CPC.* `MaxGap = 2` bounds how far a row may run ahead of columns still to come,
which keeps late coupons before the window and surprising zeros, the difficult
case, and drops orders that differ by coupons that the code treats alike. The
sketch passes through every flavor and three window positions. One of sketch and
union moves at a time: they meet through merges only. `MaxMerges = 2` lets a
smaller k follow a larger one and a dense input a sparse one, and the reverse.

*t-digest.* With k = 10 two values share a centroid at a total weight
of 9 already; 13 allows it in both directions and after a merge, with ranks that
fall inside and between centroids. A buffer of four makes updates compress on
their own.

Each property is violated within these bounds by the mutant listed for it.
Bounds named in the guards: `MaxOffers`, `MaxUpdates`, `MaxMerges`, `MaxRepeats`,
`MaxCalls` (numbers of calls), `MaxStream`, `MaxWeight` (how much a sketch is
given), `MaxGap`, `MaxValue` (the value type's maximum).

## 4. What each property is about

* `RetainedExact`, `SummaryComplete`: what a Theta or Tuple sketch knows is
  exactly the restriction of the stream to the hashes below theta; a key never
  re-enters with a partial summary.
* `EstimationModeFull`: the error bounds are stated for k retained entries.
* `ResultRepresentsUnion`, `ResultRepresentsIntersection`,
  `ResultRepresentsDifference`: set operations on what the sketches kept give
  what the sketch of the set expression would have kept, at the result's theta;
  and honest input is never answered by a "corrupted input" error.
* `ResultThetaJustified`: that theta is not lower than necessary.
* `JaccardExact`: both counts of the ratio are those of the source sets below one
  theta, the smaller of the inputs' unless the union is at the largest size.
* `ImagesLossless`: an image gives back entries, order, theta, seed and flags. An
  empty sketch has no theta in its image: one built with p < 1 comes back with a
  full threshold. The two old formats cannot tell an empty sketch from one that
  only saw a key with hash 0.
* `BoundsHold`, `ListsHonourErrorType`: the documented guarantees of the frequent
  items sketch. `ErrorPaidFor` is the counting argument behind its documented
  error (`frequencies/mod.rs`: 3.5 / M of the stream weight), also after merges.
* `NoFalseNegatives`, `CountExact`, `NeverUnderestimates`: the guarantees of the
  Bloom filter and Count-Min, and of the caches they trust.
* `ReloadLossless` (three modules), `CountReloadLossless`: an image drops what follows from other fields
  or when a cached value says "empty"; reading it back restores all of it, and
  the checks of the reader accept whatever the writer can produce.
* `EntriesFindable` (two modules): open addressing works after any history of
  growth, rebuild and deletion; no walk runs for ever and no panic is reached;
  the strided iterator yields each key once.
* `RegistersExact`, `CountersExact`: a 4-bit array is a maximum per register, and
  the minimum and its count, from which emptiness, the next rise and the
  estimators follow, are exact; `NoPanic` of `HllArray4` collects what the code's
  `expect`s, `unreachable!`s, assertions and unchecked subtractions rely on.
  `TableIsMap` says the same of the table that stores the exceptions.
* `SourceComplete`, `UnionComplete`: no promotion, copy, downsampling, conversion
  or merge-back loses a coupon or a register, containers have room for the next
  coupon, and the result has the documented precision. `SourceComplete` also says
  that every sketch's image is accepted and read back as the same sketch.
* `EstimatorUsable`: what the estimators read is right. The sums `kxq0` and `kxq1`,
  kept by each update, recomputed by bulk merges and copied by images, are the sums
  over the registers; and since `estimate` answers from the accumulator unless the
  array is out of order, an array in order must have one.
* `AccountsExact`: n, the weights of the retained items, the cached totals and the
  extremes of a REQ sketch agree with the stream, and every call ends below the
  capacity of the levels. `RankMatchesView`: `rank`, which trusts each level's
  sorted flag, and the sorted view agree, and `quantile` is their inverse.
  `ExactTail`: a rank that the code calls exact is answered exactly, also after
  merges.
* `MatrixExact`, `UnionExact`: a CPC sketch is its set of pairs, whatever the
  flavors it went through, and a union that of all its inputs at the smallest k.
  `KxpIsProbability`: the HIP factor is the probability that an update is new.
* `DigestExact`: weights and sums of a t-digest agree with the stream, and the
  outermost centroids stand for one value each, without which a merge, which reads
  the other digest's extremes from them, would lose them. `RanksConsistent`: ranks
  are monotone and within 0 and 1, and exact middles while every centroid is one
  value. `QuantilesInRange`: see 5a for why not more.
* `ImplementsTupleSketch`, `ImplementsFrequentItems`: the slot-level machines
  are refinements of the set-level ones, so that what is proved there holds here.

## 5. Proofs

| module | theorems |
|---|---|
| `NatSets` | least elements, induction, functions by recursion, the element of rank k of a finite set, sums over a finite set; walks with an odd stride, tables in which every key is where its walk ends |
| `ThetaTableProofs` | starting size and theta; growth, rebuild, trim and upsert keep a table well formed and *sound* |
| `SketchHashTableProofs` | `TypeCorrect`, `RetainsExactly`, `SummariesComplete`, `EstimatesFromK`, `NeverReappears` of `TupleSketch`; `SlotsFindable`, `SlotsImplementSketch` of `SketchHashTable` |
| `ThetaSetExpressionProofs` | `UnionRepresents`, `UnionThetaJustified` of `ThetaUnion`; `UnionRepresentsInExpressions`, `IntersectionRepresents`, `DifferenceRepresents`, `JaccardIsExact` of `ThetaSetExpression` |
| `FrequentItemsProofs` | `TypeCorrect`, `FrequencyBounds`, `FrequentItemLists`, `ErrorIsPaidFor` of `FrequentItems`; `MapEntriesFindable`, `MapImplementsSketch`, `MapKeepsPromises` of `ReversePurgeMap` |
| `BloomCountMinProofs` | `CountIsExact`, `RecognisesInserted`, `ReloadsLossless` of `BloomFilter`; `EstimatesCover`, `CountReloadsLossless` of `CountMin` |
| `HllArray4Proofs` | `Array4Invariant`, `Array4RegistersExact`, `Array4CountersExact`, `Array4NoPanic` of `HllArray4`; `AuxTableIsMap`, `TableImplementsArray` of `HllAuxMap` |
| `HllUnionProofs` | `SourceIsComplete`, `UnionIsComplete`, `EstimatorIsUsable` of `HllUnion` |

They hold for every k, resize factor, sampling probability, set of hashes,
inputs (that keep their contract), number of filters, sketches, items, rows and
buckets, and for HyperLogLog for every size and type of the sketches, set of
coupons, and sizes of lists and sets that keep the relation between the code's
constants; the bounds on the number of calls are arbitrary naturals.

*TupleSketch.* The properties are not inductive apart: a rebuild keeps
`EstimationModeFull` only if the table is well formed, and `RetainedExact` and
`SummaryComplete` are needed together because a retained key's summary must be
that of `offered`. `Sound(t, off)` is their conjunction and `IInv` is type
correctness with `Sound`. A rebuild is shown to be a *pruning*: it lowers theta
to the hash of rank k and keeps the hashes below, so k remain (`NatSets`).

*SketchHashTable.* `EntriesFindable` says where walks end; to keep it one has to
know why. A walk of `find_in_entries` advances by an odd stride, which shares no
factor with the number of slots, a power of two (`OddCancels`), so the walk is back
at its first slot after all slots and not before (`WalkLength`, `ProbesCover`).
`Sited` says that every entry is where the walk for its hash first hits. Storing
an entry where its own walk ends keeps that for all others, since no walk passes
through a free slot (`PlaceSites`); so the loop of `resize` and `rebuild` never
lacks a slot while there are fewer hashes than slots (`ReinsertSites`, by
induction along the loop), whatever order `select_nth_unstable` left. `SlotInv`
adds to this that slots and set-level table hold the same entries (`Matches`), that
the two agree in size, count and theta, and that the count is within the
capacity, from which a free slot follows and with it the next walk. Both
sides compare the same count with the same threshold and so grow or rebuild
together; that the entry of rank k has the hash of rank k is `RankOfEntry`.
`SlotsImplementSketch` is then one lemma per step.

*ThetaUnion.* In the middle of a call the table holds part of an input.
`IInv` therefore accounts for every key of `seen`: below both thetas it is
either in the table with the summary that excludes what is still to do, or still
in `todo`. `ThresholdJustified` says that a theta below every input's was paid
for by k entries that are in the table. Early stops of ordered inputs discharge
all remaining entries at once, since they are not below theta.

*ThetaSetExpression.* The intersection's invariant is the union's with the roles
exchanged: below theta every common key is in the table, and the matches made so
far are those of the visited part of the input. That an honest input is
never reported as corrupted needs the table built for the matches to have room
(`SizeFromCount`: a size chosen for a count is above it, also after the load
threshold). The difference is a statement about each of the three scans; the
merge scan is a recursive function, whose run is followed entry by entry. The
composition is one invariant of union, intersection and the last call, because a
result that feeds another operation has to keep the contract that the constants
keep by assumption. An answer of Jaccard is compared with the counts of the
source sets through the union and intersection it builds inside.

*FrequentItems.* `Bracketed` states the bounds with the pending part of a merge
split off: what the target has of the other sketch so far, and what remains in
`todo`. One lemma (`AdjustBrackets`) says that an update with all its possible
growth and purges moves the bracket of one item by the count and touches no
other. `ErrorPaidFor` compares a product with a sum over all items. A purge takes
the median m of the sample from every counter; at least half of the sample is at
least m (`MedianHasHalf`), so the sum falls by at least m times that half
(`MedianPays`) while the offset grows by m. A merge replays the other sketch's
counters one by one and adds its offset at the end: `PayInv` keeps what is still to
be replayed aside, and the tolerance, the size of the smallest map merged in,
decides which half is meant (`HalfGrows`).

*ReversePurgeMap.* A map is `Sound` when the walk of each entry ends at its slot
after as many steps as its state says: a settled table of `NatSets`, with steps of
one slot. `InsertSound` adds an entry; `resize` and the replay of an image insert
entry by entry (`CopyKeepsEntries`). Deletion is the hard part, since it takes away
a slot that other walks pass over, and for as long as `hash_delete` runs the map is
not sound. Seen from a free slot no walk wraps round, so slots can be counted from
it and soundness becomes a statement about intervals (`SoundIsLinear`,
`LinearIsSound`): the slots from an entry's home to the entry are taken.
`Closing` is the invariant of the loop: there is one hole, and the intervals of
the entries already looked at avoid it, while those behind may pass over it. A turn
either fills the hole with an entry that has drifted far enough (`MovesOn`) or
leaves an entry whose home lies behind the hole (`LooksOn`); when the cluster ends
nothing is left to look at, and the map is sound again without its entry
(`HashDeleteRemoves`). `keep_only_positive_counts` deletes several entries in one
descending pass, while deletions move others towards smaller slots: it drops every
zero and loses no positive counter because it starts from a free slot, so that
what a deletion moves has been looked at before and ends where the pass has already
been (`Kept`, `KeepsPositive`). The stride of the iterator is odd (`StrideIsOdd`),
so it meets all slots before its first again. `SlotInv` adds that a map between two
calls is within its load threshold, which leaves the free slot on which all of
this rests; a purge keeps it because at least the median goes. With it every step
is one of `FrequentItems`, one lemma each.

*BloomFilter.* The invariant is that the required items' bits are set and the
count is the cardinality; the latter needs finite bit sets.

*CountMin.* `Cover` (each counter of an item is at least its weight) is
inductive because halving and truncated scaling are monotone; `WithinTotal`
(each counter is within the total in absolute value) is what makes an image
without counters lossless.

*HllArray4.* `CountersExact` is not inductive: which registers are at the minimum
cannot be told from their values alone once the minimum moves. `IInv` ties the
counter to the nibbles that are 0 (`Counted`), the map to the registers at the
token (`Stored`), and both to the history. A shift keeps it because no nibble is 0
when the count is, and because an exception that returns lands on
`AuxToken - 1`, which is not 0: the code does not count it for the new minimum,
and `TokenAssumption` (`AuxToken >= 2`) is what makes that right.

*HllAuxMap.* A table is seen as the slot each place holds (`Hold`) and the walks of
`find` (`Route`), for which `NatSets` has what any such table needs: a walk ends
if a place is free (`EveryWalkEnds`), and storing a key where its walk ends
unsettles no other (`StoreSettles`). `Filed` says that a table is settled and
holds exactly the pairs of a map. `FiledStore` covers insert and replace. The two
loops, of `grow` and of the rebuild, are followed entry by entry: after n entries
the new table holds the part of the map they make up (`Part`), each new one not
seen before because a settled table has no slot twice. `TableInv` adds what
makes the next probe end: the table is at most three quarters full after any
call, and has grown at most once per exception, which bounds its size.

*HllUnion.* `SkOK(sk, lg, type, cs)` says that a sketch of one size and type
represents the coupons `cs`, in whichever mode it is. For a list or a set it is
equality and room for one more coupon. For an array it is a relation, `Tops`:
each register is the value of one of its coupons, or 0, and none of its coupons
is larger. A relation is what joins (`TopsJoin`, a merge of equal sizes) and folds
(`TopsFold`, a downsampling: the slot of a coupon in the smaller array is that of
its slot in the larger one, `SlotShrinks`), and it determines the registers
(`TopsUnique`). `Counted` adds that the estimator's counters are those of the
registers: an update moves one term of a sum over all of them from one value to
another (`SumMoves`), and which half it counts in depends on the split. Under both
are the packed registers: `GetPut` shows that a write of six bits into a window of
two bytes is read back and changes no other register of the byte pair, for every
position. Updates with a set of coupons are a fold in an unknown order, so
`UpdateAllOK` and `UpdateManyOK` go by induction over the finite set, through
the promotions that happen on the way; a full list still fits the first set, and
a set with its three quarters taken has a free place and fits the next
(`UpdateListOK`, `UpdateSetOK`). The invariant `HInv` is `SkOK` for source and
gadget with what each was offered; the gadget's size is `least`, and as long as it
is no array `least` is still `lg_max_k`, which is why a copy may be cut to
`lg_max_k` rather than to the gadget's size (`AfterArrayOK`). `FlagInv` says of
the flags that an array in order has an estimate and that arrays out of order are
8-bit ones; it is inductive only if no packed array arrives that another
implementation marked, and `EstimatorIsUsable` has that as its hypothesis:
`hll_union_foreign` shows what happens otherwise.

Assumptions: those stated with the constants; TLC evaluates each in the run of
its module. `PowersOfTwo`, `PowersOfTwoForCounts`, `PowersOfTwoForExceptions`,
`PowersOfTwoForRegisters`, `TermsAssumption` and `PowersAssumption` are facts
about `2 ^ n` that hold of it and that the provers do not derive;
`SizesAssumption` says the same of map sizes; `NoEntryAssumption` and
`FreeAssumption` say that a free slot is no entry; `InputsAssumption` is the
contract of the sketches that set operations are given, which the theorems about
`TupleSketch` establish for updatable sketches and the ones about the set
operations for their results.

Only model-checked: the images of compact sketches (`ImagesLossless`), and REQ, CPC
and the t-digest (folds over sequences of levels, bits and centroids, recursive
operators, and a bitwise operator in the schedule of compactions). Not provable with the
tools used here: liveness (`ShiftingEnds`), and facts by induction over data.

### 5a. Findings

* `HllUnion`: `copy_or_downsample` is documented to mark its result as out of
  order and to preserve the accumulator. It marks only copies of 8-bit arrays; 4-
  and 6-bit ones are copied by updates of a new array, which is in order, and then
  get the source's accumulator. This is right while the source is in order. A
  source read from an image with the out-of-order flag has had its accumulator
  cleared, and the union that copied it estimates from 0. The library's own union
  never produces such an image (`to_sketch` converts by updates), so only images
  of other implementations lead there (run `hll_union_foreign`).
* `CpcSketch`: the image of an empty sketch says that it has the HIP fields but
  does not carry them, so the factor `kxp` comes back as 0 and the first update
  divides by it: the estimate of a reloaded empty sketch is infinite (run
  `cpc_empty_image`, `cpc/sketch.rs:646`).

Observed while modelling, without a run of their own:

* t-digest: between two centroids `quantile` passes the distance from the left
  mean as the left mean's weight (`tdigest/sketch.rs:1509`), so within such an
  interval a higher rank gives a lower quantile as soon as a centroid stands for
  two values. With k = 10 and the values 1, 1, 1, 2, 2, 2, 3, 3, 3 a centroid of
  weight 2 suffices. `QuantilesInRange` therefore claims range and, while all
  centroids are one value each, exactness, but no monotonicity.
* t-digest: `merge` does not read the other digest's minimum and maximum; it is
  right because the outermost centroids are single values, which holds of every
  digest this library builds. The left tail of `rank` (line 1382) is not divided by
  the total weight and the right tail of `quantile` (line 1481) adds where the left
  one does; both need an outermost centroid of more than one value.
* Count-Min: `lower_bound` is documented as the lower bound on the true frequency
  and returns the estimate, which lies above it after a collision.
* REQ: `is_exact_rank_threshold` of a merged sketch is right for the smallest k
  merged in, which is what `ExactTail` states, not for a larger k of its own.

## 6. Not modelled

* Estimates and confidence bounds: floating-point functions of the state,
  among them `binomial_bounds.rs`, the HyperLogLog interpolation tables (4,800
  lines of data), the CPC estimators, the ratio bounds of Jaccard similarity and
  the rank bounds of REQ.
* The entropy-coding tables of CPC (12,000 lines of data) are constants of the
  model; what the model assumes of them was checked by a script (section 2).
* Byte formats beyond what a property is about: reserved bytes, constant flags, and
  most rejections of malformed images, whose readers do not change any state.
* Hash functions: hashes are constants; collisions that matter are enumerated.
* 64-bit overflow of weights and of the sums in merges; rounding of counters
  above 2^53 when decayed; rounding of the t-digest's means.
* `DRIFT_LIMIT`, a debug assertion on probe lengths of 1024, and the 16 bits a
  drift is stored in: the model keeps it as a number, so its theorems speak of maps
  no walk of which is longer than 65,535 slots.
* REQ's `cdf` and `pmf`, which call `rank` at each split point.
* User-defined Tuple policies; the built-in additive ones are modelled.
* The library is sequential and keeps nothing outside its values: there are no
  interleavings, crashes, lost messages or timeouts to model.

About half of the library's lines are tables and unrolled routines
(`compression_data.rs`, `composite_interpolation.rs`, `bit_pack.rs`), tests within
the modules and documentation of the public interface, for which a state model has
nothing to say.

## 7. Plan

Done: the Theta family with Jaccard similarity and its images, frequent items,
Bloom filter, Count-Min, HyperLogLog, CPC with its images, REQ and t-digest; the
proofs for the Theta family but its images, for frequent items with their slots,
for the Bloom filter and Count-Min, and for HyperLogLog: its modes, images and
union, and the 4-bit array with its table of exceptions.
What is left are proofs, which join the existing proof modules of their family:

1. `ImagesLossless` of the Theta family.
2. `AccountsExact` of REQ as far as sums allow, which needs `ReqCompactor` without
   its bitwise schedule in a module of its own.
