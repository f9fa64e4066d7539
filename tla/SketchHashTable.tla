---------------------------- MODULE SketchHashTable ----------------------------
(***************************************************************************)
(* The slot array of the table shared by Theta and Tuple sketches          *)
(* (thetafamily/common/hash_table.rs): open addressing with double         *)
(* hashing, growth by re-insertion, and the rebuild that keeps the k       *)
(* smallest hashes.  Driven as an additive Tuple sketch drives it, this    *)
(* machine implements TupleSketch, whose set-level table makes the same    *)
(* steps beside the slots.                                                 *)
(*                                                                         *)
(* A slot holds NoEntry or an entry [hash, summary].  A call that the code *)
(* ends in unreachable!, a failed assertion or an index panic sets         *)
(* panicked.                                                               *)
(***************************************************************************)
EXTENDS TupleSketch, SequencesExt

CONSTANT NoEntry

ASSUME NoEntryAssumption == NoEntry \notin [hash : Hashes, summary : Nat]

VARIABLES
  slots,         \* 0 .. 2^lgCur - 1 -> entry or NoEntry
  lgCur,         \* log2 of the number of slots
  theta,
  isEmpty,
  numRetained,   \* the code's own count of occupied slots
  panicked

slotVars == <<slots, lgCur, theta, isEmpty, numRetained, panicked>>

NotFound == -1
StrideMask == 127

GetStride(key, lg) == 2 * ((key \div 2 ^ lg) % (StrideMask + 1)) + 1

(* The i-th slot that find_in_entries inspects for key. *)
Probe(key, lg, i) == (key + i * GetStride(key, lg)) % 2 ^ lg

(* First inspected slot that is free or holds key; the walk ends when it   *)
(* is back at its first slot.                                              *)
FindInEntries(s, key, lg) ==
  LET back == {i \in 1 .. 2 ^ lg : Probe(key, lg, i) = Probe(key, lg, 0)}
      hits == {i \in 0 .. Min(back) - 1 :
                 LET e == s[Probe(key, lg, i)]
                 IN IF e = NoEntry THEN TRUE ELSE e.hash = key}
  IN IF hits = {} THEN NotFound ELSE Probe(key, lg, Min(hits))

FreeSlots(lg) == [i \in 0 .. 2 ^ lg - 1 |-> NoEntry]

Occupied(s) == {i \in DOMAIN s : s[i] # NoEntry}
EntrySet(s) == {s[i] : i \in Occupied(s)}

(***************************************************************************)
(* The loop of resize and rebuild: insert the entries of a sequence in     *)
(* order, passing over the free slots in it (flatten).  The result is <<>> *)
(* when an entry finds no slot (unreachable!).                             *)
(***************************************************************************)
Reinsert(es, lg) ==
  LET Place(s, e) ==
        IF s = <<>> \/ e = NoEntry THEN s
        ELSE LET i == FindInEntries(s, e.hash, lg)
             IN IF i = NotFound THEN <<>> ELSE [s EXCEPT ![i] = e]
      placed[n \in 0 .. Len(es)] ==
        IF n = 0 THEN FreeSlots(lg) ELSE Place(placed[n - 1], es[n])
  IN placed[Len(es)]

(* The slots as into_iter() yields them. *)
SlotOrder(s) == [j \in 1 .. Cardinality(DOMAIN s) |-> s[j - 1]]

-------------------------------------------------------------------------------
SlotInit ==
  /\ Init
  /\ lgCur = StartingSubMultiple(LgK + 1, MinLgK, LgResize)
  /\ slots = FreeSlots(lgCur)
  /\ theta = StartingTheta(Sampling)
  /\ isEmpty = TRUE
  /\ numRetained = 0
  /\ panicked = FALSE

Panic ==
  /\ panicked' = TRUE
  /\ UNCHANGED <<slots, lgCur, theta, numRetained>>

SlotThreshold ==
  IF lgCur <= LgK THEN Cardinality(DOMAIN slots) \div 2
                  ELSE (15 * Cardinality(DOMAIN slots)) \div 16

(* Fault: entries are copied to the same slots instead of re-inserted. *)
ResizeSlotsInPlace(s) ==
  LET newLg == Min({lgCur + LgResize, LgK + 1})
  IN /\ slots' = [i \in 0 .. 2 ^ newLg - 1 |-> IF i \in DOMAIN s THEN s[i] ELSE NoEntry]
     /\ lgCur' = newLg
     /\ numRetained' = numRetained + 1
     /\ UNCHANGED <<theta, panicked>>

(* resize of the table whose slots s hold one entry more than slots *)
ResizeSlots(s) ==
  LET newLg == Min({lgCur + LgResize, LgK + 1})
      new   == Reinsert(SlotOrder(s), newLg)
  IN IF new = <<>> THEN Panic
     ELSE /\ slots' = new
          /\ lgCur' = newLg
          /\ numRetained' = numRetained + 1
          /\ UNCHANGED <<theta, panicked>>

(* rebuild of the table whose slots are s.  select_nth_unstable leaves the *)
(* k smaller entries in an order it does not specify.                      *)
RebuildSlots(s) ==
  LET k       == 2 ^ LgK
      Rank(e) == Cardinality({f \in EntrySet(s) : f.hash < e.hash})
      kth     == CHOOSE e \in EntrySet(s) : Rank(e) = k
      kept    == {e \in EntrySet(s) : Rank(e) < k}
  IN IF k >= Cardinality(Occupied(s)) THEN Panic
     ELSE \E new \in {Reinsert(order, lgCur) : order \in SetToSeqs(kept)} :
            IF new = <<>> \/ Cardinality(kept) # k THEN Panic
            ELSE /\ theta' = kth.hash
                 /\ slots' = new
                 /\ numRetained' = k
                 /\ UNCHANGED <<lgCur, panicked>>

(* A new entry at slot i, then the resize or the rebuild it may call for. *)
InsertEntry(i, h, v) ==
  LET s == [slots EXCEPT ![i] = [hash |-> h, summary |-> v]]
  IN IF numRetained + 1 <= SlotThreshold
     THEN /\ slots' = s
          /\ numRetained' = numRetained + 1
          /\ UNCHANGED <<lgCur, theta, panicked>>
     ELSE IF lgCur <= LgK
          THEN ResizeSlots(s)
          ELSE RebuildSlots(s)

(* Fault: a hash equal to theta is inserted. *)
UpsertSlotAtTheta(h, v) ==
  /\ isEmpty' = FALSE
  /\ LET i == FindInEntries(slots, h, lgCur)
     IN IF h = 0 \/ h > theta
        THEN UNCHANGED <<slots, lgCur, theta, numRetained, panicked>>
        ELSE IF slots[i] # NoEntry
        THEN /\ slots' = [slots EXCEPT ![i].summary = @ + v]
             /\ UNCHANGED <<lgCur, theta, numRetained, panicked>>
        ELSE InsertEntry(i, h, v)

(* upsert_entry with the callback of an additive Tuple sketch *)
UpsertSlot(h, v) ==
  /\ isEmpty' = FALSE
  /\ LET i == FindInEntries(slots, h, lgCur)
     IN IF h = 0 \/ h >= theta
        THEN UNCHANGED <<slots, lgCur, theta, numRetained, panicked>>
        ELSE IF i = NotFound THEN Panic
        ELSE IF slots[i] # NoEntry
        THEN /\ slots' = [slots EXCEPT ![i].summary = @ + v]
             /\ UNCHANGED <<lgCur, theta, numRetained, panicked>>
        ELSE InsertEntry(i, h, v)

UpdateSlots(h, v) == ~panicked /\ Update(h, v) /\ UpsertSlot(h, v)

TrimSlots ==
  /\ ~panicked /\ Trim
  /\ IF numRetained > 2 ^ LgK
     THEN RebuildSlots(slots)
     ELSE UNCHANGED <<slots, lgCur, theta, numRetained, panicked>>
  /\ UNCHANGED isEmpty

ResetSlots ==
  /\ ~panicked /\ Reset
  /\ lgCur' = StartingSubMultiple(LgK + 1, MinLgK, LgResize)
  /\ slots' = FreeSlots(lgCur')
  /\ numRetained' = 0
  /\ theta' = StartingTheta(Sampling)
  /\ isEmpty' = TRUE
  /\ UNCHANGED panicked

SlotNext ==
  \/ \E h \in Hashes, v \in Values : UpdateSlots(h, v)
  \/ TrimSlots
  \/ ResetSlots

SlotSpec == SlotInit /\ [][SlotNext]_<<vars, slotVars>>

-------------------------------------------------------------------------------

(* A walk for a retained hash ends at its slot, and nowhere earlier: no    *)
(* hash is stored twice and entry(hash) never misses one, after any        *)
(* sequence of growths and rebuilds (find_in_entries).  The counter that   *)
(* the thresholds are compared with is the number of occupied slots, and a *)
(* slot is free.  So no update, trim or rebuild reaches an unreachable!,   *)
(* the assertion that rebuild inserted k entries, or the bounds check of   *)
(* select_nth_unstable.                                                    *)
EntriesFindable ==
  /\ ~panicked
  /\ \A i \in Occupied(slots) : FindInEntries(slots, slots[i].hash, lgCur) = i
  /\ numRetained = Cardinality(Occupied(slots))
  /\ Occupied(slots) # DOMAIN slots

(* What the slots say the table is. *)
AbstractTable ==
  [entries |-> [h \in {e.hash : e \in EntrySet(slots)} |->
                  (CHOOSE e \in EntrySet(slots) : e.hash = h).summary],
   theta |-> theta, isEmpty |-> isEmpty, lgCur |-> lgCur,
   lgNom |-> LgK, lgResize |-> LgResize]

Abstract == INSTANCE TupleSketch WITH table <- AbstractTable

(* Every step of the slot array is a step of the set-level sketch, and the *)
(* same one that the set-level table beside it makes: probing neither      *)
(* loses nor duplicates a hash or an update, and what is said of table     *)
(* holds of the slots.                                                     *)
ImplementsTupleSketch == Abstract!Spec /\ [](AbstractTable = table)
===============================================================================
