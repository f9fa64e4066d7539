------------------------------ MODULE BloomFilter ------------------------------
(***************************************************************************)
(* Bloom filters (bloom/sketch.rs): bit arrays written by double hashing,  *)
(* with a cached count of the set bits that contains() trusts, and the     *)
(* bitwise operations between filters.                                     *)
(*                                                                         *)
(* required is a history variable: the items a filter still has to         *)
(* recognise.  insert adds to it, union joins, intersect meets, reset and  *)
(* invert (which documents that it gives the guarantee up) empty it.       *)
(***************************************************************************)
EXTENDS Integers, FiniteSets

CONSTANTS
  Filters, Items,
  Seeds, Seed,        \* filter -> its hash seed
  Hash0, Hash1,       \* seed -> item -> the two hashes of compute_hash
  HashBits,           \* width of a hash, 64 in the code
  WordBits,           \* width of a word of the bit array, 64 in the code
  NumBits,            \* filter -> bits asked for
  NumHashes,          \* filter -> number of hash functions
  MaxCalls            \* bound on the mutating calls in a behaviour

ASSUME SeedAssumption == Seed \in [Filters -> Seeds]
ASSUME HashAssumption ==
  Hash0 \in [Seeds -> [Items -> Nat]] /\ Hash1 \in [Seeds -> [Items -> Nat]]
ASSUME WidthAssumption == WordBits \in Nat \ {0} /\ 2 ^ HashBits \in Nat \ {0}
ASSUME SizeAssumption ==
  NumBits \in [Filters -> Nat \ {0}] /\ NumHashes \in [Filters -> Nat \ {0}]
ASSUME MaxCallsAssumption == MaxCalls \in Nat

VARIABLES
  bits,          \* filter -> set of the bit indices that are 1
  numBitsSet,    \* filter -> the cached count
  calls,
  required       \* history: filter -> items it has to recognise

vars == <<bits, numBitsSet, calls, required>>

NumWords(f) == (NumBits[f] + WordBits - 1) \div WordBits
Capacity(f) == NumWords(f) * WordBits
AllBits(f) == 0 .. Capacity(f) - 1

(* compute_bit_index: a wrapping sum, its low bit dropped *)
BitIndex(f, x, i) ==
  (((Hash0[Seed[f]][x] + i * Hash1[Seed[f]][x]) % 2 ^ HashBits) \div 2)
    % Capacity(f)

BitsOf(f, x) == {BitIndex(f, x, i) : i \in 1 .. NumHashes[f]}

CheckBits(f, x) == BitsOf(f, x) \subseteq bits[f]

(* Fault: off by one. *)
IsAlmostEmpty(f) == numBitsSet[f] <= 1

IsEmpty(f) == numBitsSet[f] = 0

Contains(f, x) == ~IsEmpty(f) /\ CheckBits(f, x)

(* Fault: the seeds are not compared. *)
IsSameShape(f, g) ==
  /\ NumWords(f) = NumWords(g)
  /\ NumHashes[f] = NumHashes[g]

IsCompatible(f, g) ==
  /\ NumWords(f) = NumWords(g)
  /\ NumHashes[f] = NumHashes[g]
  /\ Seed[f] = Seed[g]

-------------------------------------------------------------------------------

Init ==
  /\ bits = [f \in Filters |-> {}]
  /\ numBitsSet = [f \in Filters |-> 0]
  /\ calls = 0
  /\ required = [f \in Filters |-> {}]

Call == calls < MaxCalls /\ calls' = calls + 1

(* insert and contains_and_insert: set_bits counts each bit it turns on *)
Insert(f, x) ==
  /\ Call
  /\ bits' = [bits EXCEPT ![f] = @ \cup BitsOf(f, x)]
  /\ numBitsSet' = [numBitsSet EXCEPT ![f] = @ + Cardinality(BitsOf(f, x) \ bits[f])]
  /\ required' = [required EXCEPT ![f] = @ \cup {x}]

Reset(f) ==
  /\ Call
  /\ bits' = [bits EXCEPT ![f] = {}]
  /\ numBitsSet' = [numBitsSet EXCEPT ![f] = 0]
  /\ required' = [required EXCEPT ![f] = {}]

(* Fault: the counts are added as if the bits were disjoint. *)
UnionAddsCounts(f, g) ==
  /\ f # g
  /\ IsCompatible(f, g)
  /\ Call
  /\ bits' = [bits EXCEPT ![f] = @ \cup bits[g]]
  /\ numBitsSet' = [numBitsSet EXCEPT ![f] = @ + numBitsSet[g]]
  /\ required' = [required EXCEPT ![f] = @ \cup required[g]]

Union(f, g) ==
  /\ f # g
  /\ IsCompatible(f, g)
  /\ Call
  /\ bits' = [bits EXCEPT ![f] = @ \cup bits[g]]
  /\ numBitsSet' = [numBitsSet EXCEPT ![f] = Cardinality(bits[f] \cup bits[g])]
  /\ required' = [required EXCEPT ![f] = @ \cup required[g]]

Intersect(f, g) ==
  /\ f # g
  /\ IsCompatible(f, g)
  /\ Call
  /\ bits' = [bits EXCEPT ![f] = @ \cap bits[g]]
  /\ numBitsSet' = [numBitsSet EXCEPT ![f] = Cardinality(bits[f] \cap bits[g])]
  /\ required' = [required EXCEPT ![f] = @ \cap required[g]]

Invert(f) ==
  /\ Call
  /\ bits' = [bits EXCEPT ![f] = AllBits(f) \ @]
  /\ numBitsSet' = [numBitsSet EXCEPT ![f] = Capacity(f) - @]
  /\ required' = [required EXCEPT ![f] = {}]

(* serialize and deserialize: an image flagged empty, by the cached count, *)
(* has no bit array, and the count is taken again from the bits read.      *)
Reload(f) ==
  /\ LET image == IF IsEmpty(f) THEN {} ELSE bits[f]
     IN /\ bits' = [bits EXCEPT ![f] = image]
        /\ numBitsSet' = [numBitsSet EXCEPT ![f] = Cardinality(image)]
  /\ UNCHANGED <<calls, required>>

Next ==
  \/ \E f \in Filters, x \in Items : Insert(f, x)
  \/ \E f \in Filters : Reset(f) \/ Invert(f) \/ Reload(f)
  \/ \E f, g \in Filters : Union(f, g) \/ Intersect(f, g)

Spec == Init /\ [][Next]_vars

-------------------------------------------------------------------------------

TypeOK ==
  /\ bits \in [Filters -> SUBSET Nat]
  /\ \A f \in Filters : bits[f] \subseteq AllBits(f)
  /\ numBitsSet \in [Filters -> Nat]
  /\ required \in [Filters -> SUBSET Items]

(***************************************************************************)
(* No false negatives: contains() is TRUE for every item inserted into the *)
(* filter or into both filters of an intersection, or either of a union,   *)
(* through any sequence of calls, until invert or reset.                   *)
(***************************************************************************)
NoFalseNegatives ==
  \A f \in Filters : \A x \in required[f] : Contains(f, x)

(***************************************************************************)
(* The cached count is the number of bits that are 1.  contains() answers  *)
(* FALSE and serialize drops the bit array on the strength of this cache.  *)
(***************************************************************************)
CountExact == \A f \in Filters : numBitsSet[f] = Cardinality(bits[f])

(* An image read back answers every query as the filter written. *)
ReloadLossless ==
  [][\A f \in Filters : Reload(f) => UNCHANGED <<bits, numBitsSet>>]_vars
===============================================================================
