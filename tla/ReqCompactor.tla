----------------------------- MODULE ReqCompactor -----------------------------
(***************************************************************************)
(* One level of the REQ sketch (req/compactor.rs): a buffer of items, the  *)
(* counter that schedules its compactions and its section layout.  The     *)
(* weight of its items is 2^level, and the level is its place in the       *)
(* sketch's sequence of compactors.                                        *)
(*                                                                         *)
(* Items are integers: the code only compares them.  section_size_raw is   *)
(* k / sqrt(2)^halvings, so halvings stands for it; the rounding           *)
(* below agrees with the f32 arithmetic for every even k up to 1024.       *)
(***************************************************************************)
EXTENDS Integers, Sequences, SequencesExt, Bitwise

CONSTANTS
  InitialSections,   \* INITIAL_SECTIONS_PER_COMPACTOR
  MinK               \* MIN_K, the smallest section size

ASSUME LayoutAssumption == InitialSections \in Nat \ {0} /\ MinK \in Nat \ {0}

Smaller(a, b) == IF a <= b THEN a ELSE b

Ascending(s) == SortSeq(s, <)

IsAscending(s) == \A i \in 1 .. Len(s) - 1 : s[i] <= s[i + 1]

(* nearest_even_section_size of k / sqrt(2)^j: twice the value's half,     *)
(* rounded, where a half goes up.                                          *)
SectionSize(k, j) ==
  2 * Cardinality({m \in 1 .. k : (2 * m - 1) * (2 * m - 1) * 2 ^ j <= k * k})

Compactor(k) ==
  [items |-> <<>>, sorted |-> TRUE, state |-> 0, coin |-> FALSE,
   size |-> SectionSize(k, 0), halvings |-> 0, sections |-> InitialSections]

NominalCapacity(c) == 2 * c.size * c.sections

(* Fault: an append leaves the sorted flag alone. *)
AppendItemUnmarked(c, x) == [c EXCEPT !.items = Append(@, x)]

AppendItem(c, x) ==
  [c EXCEPT !.items = Append(@, x),
            !.sorted = @ /\ Len(c.items) = 0]

SortItems(c) ==
  IF c.sorted THEN c ELSE [c EXCEPT !.items = Ascending(@), !.sorted = TRUE]

(* The two-pointer merge of two sorted runs yields their sorted union;     *)
(* unsorted runs would be interleaved as they come.                        *)
TwoPointer(a, b) ==
  LET take(m, step) ==
        IF m.i < Len(a) /\ (m.j = Len(b) \/ a[m.i + 1] <= b[m.j + 1])
        THEN [m EXCEPT !.i = @ + 1, !.out = Append(@, a[m.i + 1])]
        ELSE [m EXCEPT !.j = @ + 1, !.out = Append(@, b[m.j + 1])]
  IN FoldLeft(take, [i |-> 0, j |-> 0, out |-> <<>>], a \o b).out

MergeSorted(c, run) ==
  IF run = <<>> THEN c
  ELSE [c EXCEPT !.items = TwoPointer(@, run), !.sorted = TRUE]

(* A doubling of the sections: once the counter has reached                *)
(* 2^(sections - 1), unless the sections would become smaller than MIN_K.  *)
WantsSections(c, k) ==
  c.state >= 2 ^ (c.sections - 1) /\ SectionSize(k, c.halvings + 1) >= MinK

EnsureEnoughSections(c, k) ==
  IF WantsSections(c, k)
  THEN [c EXCEPT !.halvings = @ + 1, !.size = SectionSize(k, c.halvings + 1),
                 !.sections = 2 * @]
  ELSE c

(* The loop of merge.  Sections shrink below MIN_K after at most k         *)
(* doublings.                                                              *)
EnsureAllSections(c, k) ==
  FoldLeft(LAMBDA d, i : EnsureEnoughSections(d, k), c, [i \in 1 .. k |-> i])

MergeCompactor(c, other, k) ==
  LET joined == [c EXCEPT !.state = @ | other.state]
      merged == IF other.items = <<>> THEN joined
                ELSE MergeSorted(SortItems(joined), SortItems(other).items)
  IN EnsureAllSections(merged, k)

(* (!state).trailing_zeros(): the trailing ones of the counter. *)
TrailingOnes(n) == CHOOSE t \in 0 .. n : (n + 1) % 2 ^ t = 0 /\ (n + 1) % 2 ^ (t + 1) # 0

SectionsToCompact(c) == Smaller(TrailingOnes(c.state) + 1, c.sections)

(* Fault: an odd number of items is compacted as it is. *)
NonCompactAnyParity(c) ==
  NominalCapacity(c) \div 2 + (c.sections - SectionsToCompact(c)) * c.size

(* Fault: the sections to compact may come out of the protected half. *)
NonCompactUnprotected(c) ==
  LET kept == NominalCapacity(c) \div 2 - SectionsToCompact(c) * c.size
      odd  == Len(c.items) >= kept /\ (Len(c.items) - kept) % 2 = 1
  IN IF odd THEN kept + 1 ELSE kept

(* compute_compaction_range: how many items stay.  The rest is an even     *)
(* number of items, so that half of them stand for all at twice the weight.*)
NonCompact(c) ==
  LET kept == NominalCapacity(c) \div 2 + (c.sections - SectionsToCompact(c)) * c.size
      odd  == Len(c.items) >= kept /\ (Len(c.items) - kept) % 2 = 1
  IN IF odd THEN kept + 1 ELSE kept

NumCompacted(c) ==
  LET excess == Len(c.items) - NonCompact(c)
  IN IF excess < 2 THEN 0 ELSE excess

(* compact_into of a sorted compactor: high-rank accuracy compacts the     *)
(* smallest items and low-rank accuracy the largest; every second item of  *)
(* the range is promoted, from the first or the second one on.             *)
CompactInto(c, hra, random, k) ==
  LET sorted == SortItems(c)
      count  == NumCompacted(sorted)
      start  == IF hra THEN 0 ELSE Len(c.items) - count
      coin   == IF c.state % 2 = 1 THEN ~c.coin ELSE random
      first  == IF coin THEN 2 ELSE 1
  IN IF count = 0 THEN [compactor |-> sorted, promoted |-> <<>>]
     ELSE [compactor |->
             EnsureEnoughSections(
               [sorted EXCEPT !.items = SubSeq(@, 1, start)
                                        \o SubSeq(@, start + count + 1, Len(@)),
                              !.coin = coin, !.state = @ + 1], k),
           promoted |->
             [i \in 1 .. count \div 2 |-> sorted.items[start + 2 * (i - 1) + first]]]

(* count_below: a binary search when the items are claimed to be sorted,   *)
(* which on sorted items finds the end of the leading run.                 *)
CountBelow(c, x, inclusive) ==
  LET below(y) == IF inclusive THEN y <= x ELSE y < x
  IN IF c.sorted
     THEN Cardinality({i \in 1 .. Len(c.items) : \A j \in 1 .. i : below(c.items[j])})
     ELSE Cardinality({i \in 1 .. Len(c.items) : below(c.items[i])})
===============================================================================
