------------------------------- MODULE PairTable -------------------------------
(***************************************************************************)
(* The CPC sketch's hash table of (row, column) pairs (cpc/pair_table.rs): *)
(* linear probing from the slot an item's high bits name, deletion that    *)
(* re-inserts the run behind the freed slot, growth beyond a load of 3/4   *)
(* and shrinking below 1/4.                                                *)
(*                                                                         *)
(* An item is a number below 2^bits.  Slots are numbered from 0.           *)
(***************************************************************************)
EXTENDS Integers, Sequences, SequencesExt

Empty == -1     \* u32::MAX
MinLgSize == 2

Size(t) == 2 ^ t.lgSize

NewTable(lgSize, bits) ==
  [lgSize |-> lgSize, bits |-> bits, numItems |-> 0,
   slots |-> [i \in 0 .. 2 ^ lgSize - 1 |-> Empty]]

(* The slots in probing order from item's home, and the first of them that *)
(* holds item or nothing.  The code's loop ends because a table always has *)
(* an empty slot.                                                          *)
Probed(t, item, d) == (item \div 2 ^ (t.bits - t.lgSize) + d) % Size(t)

Lookup(t, item) ==
  Probed(t, item,
         CHOOSE d \in 0 .. Size(t) - 1 :
           /\ t.slots[Probed(t, item, d)] \in {item, Empty}
           /\ \A e \in 0 .. d - 1 : t.slots[Probed(t, item, e)] \notin {item, Empty})

Holds(t, item) == t.slots[Lookup(t, item)] = item

SlotItems(t) == {t.slots[i] : i \in DOMAIN t.slots} \ {Empty}

(* must_insert: the caller accounts for the item. *)
MustInsert(t, item) == [t EXCEPT !.slots[Lookup(t, item)] = item]

(* rebuild at another size, in the order of the old slots. *)
Rebuild(t, lgSize) ==
  FoldLeft(LAMBDA new, i : IF t.slots[i - 1] = Empty THEN new
                           ELSE MustInsert(new, t.slots[i - 1]),
           [NewTable(lgSize, t.bits) EXCEPT !.numItems = t.numItems],
           [i \in 1 .. Size(t) |-> i])

Grown(t) == IF 4 * t.numItems > 3 * Size(t) THEN Rebuild(t, t.lgSize + 1) ELSE t

RECURSIVE Shrunk(_)
Shrunk(t) ==
  IF 4 * t.numItems < Size(t) /\ t.lgSize > MinLgSize
  THEN Shrunk(Rebuild(t, t.lgSize - 1)) ELSE t

(* maybe_insert of an item that is not there yet; one that is changes      *)
(* nothing.                                                                *)
InsertPair(t, item) ==
  IF Holds(t, item) THEN t ELSE Grown([MustInsert(t, item) EXCEPT !.numItems = @ + 1])

(* The items from the one behind the freed slot to the next empty slot are *)
(* taken out and inserted again, one after the other.                      *)
ReinsertRun(t, index) ==
  LET slot(d) == (index + d) % Size(t)
      step(run, d) ==
        IF run.done \/ run.table.slots[slot(d)] = Empty
        THEN [run EXCEPT !.done = TRUE]
        ELSE [run EXCEPT !.table =
                MustInsert([@ EXCEPT !.slots[slot(d)] = Empty], @.slots[slot(d)])]
  IN FoldLeft(step, [table |-> t, done |-> FALSE], [d \in 1 .. Size(t) |-> d]).table

(* maybe_delete of an item that is there. *)
DeletePair(t, item) ==
  LET index == Lookup(t, item)
  IN IF t.slots[index] = Empty THEN t
     ELSE Shrunk(ReinsertRun([t EXCEPT !.slots[index] = Empty, !.numItems = @ - 1], index))

(* from_slots: a table that is large enough from the start. *)
FromSlots(bits, items) ==
  LET fits(lg) == 4 * Len(items) <= 3 * 2 ^ lg
      lgSize == CHOOSE lg \in MinLgSize .. bits :
                  fits(lg) /\ \A g \in MinLgSize .. lg - 1 : ~fits(g)
  IN FoldLeft(InsertPair, NewTable(lgSize, bits), items)

(* unwrapping_get_items: items with the high bit set that are found before *)
(* the first empty slot have probably wrapped around and go to the end.    *)
UnwrappingGetItems(t) ==
  LET filled(i) == t.slots[i] # Empty
      front == {i \in DOMAIN t.slots : \A j \in 0 .. i : filled(j)}
      high(i) == t.slots[i] >= 2 ^ (t.bits - 1)
      take(out, i) ==
        IF ~filled(i - 1) THEN out
        ELSE IF i - 1 \in front /\ high(i - 1)
        THEN [out EXCEPT !.items[out.r] = t.slots[i - 1], !.r = @ - 1]
        ELSE [out EXCEPT !.items[out.l] = t.slots[i - 1], !.l = @ + 1]
  IN FoldLeft(take,
              [items |-> [n \in 1 .. t.numItems |-> 0], l |-> 1, r |-> t.numItems],
              [i \in 1 .. Size(t) |-> i]).items

------------------------------------------------------------------------------
(* What every reachable table has to satisfy: the count is right, every    *)
(* item is found from its home, there is room, and taking the items out    *)
(* yields each once.                                                       *)
WellFormed(t) ==
  /\ t.numItems = Cardinality(SlotItems(t))
  /\ t.numItems = Cardinality({i \in DOMAIN t.slots : t.slots[i] # Empty})
  /\ \A i \in DOMAIN t.slots : t.slots[i] # Empty => Lookup(t, t.slots[i]) = i
  /\ 4 * t.numItems <= 3 * Size(t) /\ t.lgSize < t.bits
  /\ LET taken == UnwrappingGetItems(t)
     IN Len(taken) = t.numItems /\ ToSet(taken) = SlotItems(t)
===============================================================================
