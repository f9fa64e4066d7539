------------------------------- MODULE HllAuxMap -------------------------------
(***************************************************************************)
(* The open-addressing table that stores the exceptions of HllArray4       *)
(* (hll/aux_map.rs), carried along with the map it stands for: each step   *)
(* of HllArray4 that touches aux makes the calls of array4.rs on table.    *)
(***************************************************************************)
EXTENDS HllArray4, FiniteSetsExt

CONSTANT LgAuxSize   \* lg_aux_arr_ints(lg_config_k): log2 of the initial size

ASSUME LgAuxAssumption == LgAuxSize \in Nat \ {0}

(* The two facts about powers of two that the proofs use; a map grows at   *)
(* most once for each exception in it.                                     *)
ASSUME PowersOfTwoForExceptions ==
  \A n \in 0 .. LgAuxSize + K : 2 ^ n \in Nat \ {0} /\ 2 ^ (n + 1) = 2 * 2 ^ n

VARIABLE table

vars == <<regVars, table>>

Empty == [slot |-> 0, value |-> 0]   \* Coupon::EMPTY

(* None, and AuxMap::new. *)
NoMap == [lg_size |-> 0, count |-> 0, entries |-> <<>>]
Blank(lg) == [i \in 0 .. 2 ^ lg - 1 |-> Empty]
NewMap == [lg_size |-> LgAuxSize, count |-> 0, entries |-> Blank(LgAuxSize)]

GetOrNew(t) == IF t = NoMap THEN NewMap ELSE t

(* find: the probe sequence with an odd stride, from the slot's home until *)
(* an empty entry or the slot itself.  Without either, find panics.        *)
Stride(slot, lg) == LET q == slot \div 2 ^ lg IN IF q % 2 = 0 THEN q + 1 ELSE q
Probe(slot, lg, j) == (slot + j * Stride(slot, lg)) % 2 ^ lg

Nowhere == -1

Find(entries, lg, slot) ==
  LET Stops(j) == LET e == entries[Probe(slot, lg, j)]
                  IN e = Empty \/ e.slot = slot
      stops == {j \in 0 .. 2 ^ lg - 1 : Stops(j)}
  IN IF stops = {} THEN Nowhere ELSE Probe(slot, lg, Min(stops))

Lookup(t, slot) ==
  LET i == Find(t.entries, t.lg_size, slot)
  IN IF i = Nowhere THEN 0 ELSE t.entries[i].value

(* Fault: the entries keep their places in the larger array.               *)
GrowInPlace(t) ==
  [t EXCEPT !.lg_size = @ + 1,
            !.entries = [i \in 0 .. 2 ^ (t.lg_size + 1) - 1 |->
                           IF i < 2 ^ t.lg_size THEN t.entries[i] ELSE Empty]]

(* grow: twice the size, each entry at the first free place of its walk. *)
Place(entries, lg, e) ==
  LET i == Find(entries, lg, e.slot)
  IN IF i = Nowhere THEN entries ELSE [entries EXCEPT ![i] = e]

Grow(t) ==
  LET lg == t.lg_size + 1
      moved[n \in 0 .. 2 ^ t.lg_size] ==
        IF n = 0 THEN Blank(lg)
        ELSE IF t.entries[n - 1] = Empty THEN moved[n - 1]
        ELSE Place(moved[n - 1], lg, t.entries[n - 1])
  IN [t EXCEPT !.lg_size = lg, !.entries = moved[2 ^ t.lg_size]]

(* check_grow: at more than 3/4 of the capacity. *)
CheckGrow(t) == IF 4 * t.count > 3 * 2 ^ t.lg_size THEN Grow(t) ELSE t

Insert(t, slot, v) ==
  CheckGrow([t EXCEPT
    !.count = @ + 1,
    !.entries = Place(@, t.lg_size, [slot |-> slot, value |-> v])])

Replace(t, slot, v) ==
  [t EXCEPT !.entries = Place(@, t.lg_size, [slot |-> slot, value |-> v])]

(* The entries for the slots in keep go, in the order of the array, into a *)
(* new map of the initial size; no map is made for no entry.               *)
Reinserted(t, keep) ==
  LET built[n \in 0 .. 2 ^ t.lg_size] ==
        IF n = 0 THEN NoMap
        ELSE LET e == t.entries[n - 1]
             IN IF e = Empty \/ e.slot \notin keep THEN built[n - 1]
                ELSE Insert(GetOrNew(built[n - 1]), e.slot, e.value)
  IN IF t = NoMap THEN NoMap ELSE built[2 ^ t.lg_size]

(* The second half of shift_to_bigger_cur_min: the exceptions that stay.   *)
Rebuilt(t) == Reinserted(t, {s \in Slots : ~Returns(s)})

(* serialize writes the entries in the order of the array, deserialize     *)
(* inserts them into a new map.                                            *)
Reloaded(t) == Reinserted(t, Slots)

-------------------------------------------------------------------------------

TableInit == Init /\ table = NoMap

TableUpdate(slot, v) ==
  \/ UpdateIgnored(slot, v) /\ UNCHANGED table
  \/ /\ UpdateRaised(slot, v)
     /\ table' = IF Shifted(v) < AuxToken THEN table
                 ELSE IF raw[slot] = AuxToken THEN Replace(table, slot, v)
                 ELSE Insert(GetOrNew(table), slot, v)

TableShift == Shift /\ table' = Rebuilt(table)

(* A round trip through serialize and deserialize, between two updates. *)
Reload ==
  /\ ~Shifting
  /\ table' = Reloaded(table)
  /\ UNCHANGED regVars

TableNext ==
  \/ \E s \in Slots, v \in Values : TableUpdate(s, v)
  \/ TableShift
  \/ Reload

TableSpec == TableInit /\ [][TableNext]_vars /\ WF_regVars(Shift)

-------------------------------------------------------------------------------

(* What the code reads through find is what the map holds: every exception *)
(* is found with its value after any mixture of inserts, replacements,     *)
(* growth, rebuilds and reloads, no other slot is found, count is exact,   *)
(* and an entry stays free for find to stop at (aux_map.rs:142-182).  The  *)
(* map is None exactly when there are no exceptions.                       *)
TableIsMap ==
  /\ table = NoMap <=> DOMAIN aux = {}
  /\ table # NoMap =>
       /\ \A s \in Slots :
            Lookup(table, s) = IF s \in DOMAIN aux THEN aux[s] ELSE 0
       /\ table.count = Cardinality(DOMAIN aux)
       /\ table.count < 2 ^ table.lg_size

===============================================================================
