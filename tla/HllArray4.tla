------------------------------- MODULE HllArray4 -------------------------------
(***************************************************************************)
(* The 4-bit register array of a HyperLogLog sketch (hll/array4.rs).       *)
(*                                                                         *)
(* A register is stored as its offset from cur_min; an offset that does    *)
(* not fit is stored as AuxToken and the value itself goes to an auxiliary *)
(* map.  When no register is left at cur_min, cur_min rises and the whole  *)
(* array is rewritten, one round at a time: Shift is one round of the      *)
(* while loop at the end of update, and Update waits for the loop to end.  *)
(*                                                                         *)
(* The auxiliary map is a partial function here; HllAuxMap adds the hash   *)
(* table that stores it.                                                   *)
(***************************************************************************)
EXTENDS Integers, FiniteSets

CONSTANTS
  K,         \* number of registers, 2^lg_config_k
  MaxValue,  \* largest value of a coupon (63)
  AuxToken   \* the nibble that stands for "see the auxiliary map" (15)

ASSUME SizeAssumption == K \in Nat \ {0} /\ MaxValue \in Nat

(* A value that leaves the auxiliary map is AuxToken - 1 above the new     *)
(* minimum; were this 0, shift_to_bigger_cur_min would have to count it.   *)
ASSUME TokenAssumption == AuxToken \in Nat /\ AuxToken >= 2

VARIABLES
  raw,             \* the nibble of each register
  cur_min,
  num_at_cur_min,
  aux,             \* register -> value, for the registers at AuxToken
  best             \* history: the largest value offered to each register

regVars == <<raw, cur_min, num_at_cur_min, aux, best>>

Slots == 0 .. K - 1
Values == 1 .. MaxValue
Exceptions == {s \in Slots : raw[s] = AuxToken}

(* get(): the value of a register, with the fallback of the code. *)
Get(s) ==
  IF raw[s] < AuxToken THEN cur_min + raw[s]
  ELSE IF s \in DOMAIN aux THEN aux[s] ELSE cur_min

-------------------------------------------------------------------------------

Init ==
  /\ raw = [s \in Slots |-> 0]
  /\ cur_min = 0
  /\ num_at_cur_min = K
  /\ aux = [s \in {} |-> 0]
  /\ best = [s \in Slots |-> 0]

Shifting == num_at_cur_min = 0

(* The three early returns of update, the last after a look at the map. *)
Rejected(slot, v) ==
  \/ v <= cur_min
  \/ v <= raw[slot] + cur_min
  \/ v <= Get(slot)

Shifted(v) == v - cur_min

(* Cases 1, 3 and 4 of update's match; case 2 is unreachable!, see         *)
(* NoPanic.                                                                *)
ReplaceException(slot, v) ==
  /\ raw[slot] = AuxToken
  /\ Shifted(v) >= AuxToken
  /\ aux' = [aux EXCEPT ![slot] = v]
  /\ UNCHANGED raw

(* Fault: the largest offset of a nibble is stored as such.                *)
PutRawAtToken(slot, v) ==
  /\ raw[slot] # AuxToken
  /\ Shifted(v) <= AuxToken
  /\ raw' = [raw EXCEPT ![slot] = Shifted(v)]
  /\ UNCHANGED aux

AddException(slot, v) ==
  /\ raw[slot] # AuxToken
  /\ Shifted(v) >= AuxToken
  /\ raw' = [raw EXCEPT ![slot] = AuxToken]
  /\ aux' = [s \in DOMAIN aux \cup {slot} |-> IF s = slot THEN v ELSE aux[s]]

PutRaw(slot, v) ==
  /\ raw[slot] # AuxToken
  /\ Shifted(v) < AuxToken
  /\ raw' = [raw EXCEPT ![slot] = Shifted(v)]
  /\ UNCHANGED aux

Offer(slot, v) ==
  best' = [best EXCEPT ![slot] = IF v > @ THEN v ELSE @]

UpdateIgnored(slot, v) ==
  /\ ~Shifting
  /\ Rejected(slot, v)
  /\ Offer(slot, v)
  /\ UNCHANGED <<raw, cur_min, num_at_cur_min, aux>>

UpdateRaised(slot, v) ==
  /\ ~Shifting
  /\ ~Rejected(slot, v)
  /\ \/ ReplaceException(slot, v)
     \/ AddException(slot, v)
     \/ PutRaw(slot, v)
  /\ num_at_cur_min' =
       IF Get(slot) = cur_min THEN num_at_cur_min - 1 ELSE num_at_cur_min
  /\ Offer(slot, v)
  /\ UNCHANGED cur_min

(* shift_to_bigger_cur_min: lower every nibble below the token, then move  *)
(* the exceptions that fit again back into the array.  Only a lowered      *)
(* nibble is counted for the new minimum.                                  *)
(* Fault: the offset is taken from the old minimum.                        *)
ReturnsLate(s) == s \in DOMAIN aux /\ aux[s] - cur_min < AuxToken

Returns(s) == s \in DOMAIN aux /\ aux[s] - (cur_min + 1) < AuxToken

(* Fault: the nibbles at the new minimum are counted before they are       *)
(* lowered, together with those above it.                                  *)
ShiftCountsAll ==
  /\ Shifting
  /\ raw' = [s \in Slots |->
               IF raw[s] < AuxToken THEN raw[s] - 1
               ELSE IF Returns(s) THEN aux[s] - (cur_min + 1) ELSE AuxToken]
  /\ aux' = [s \in {t \in DOMAIN aux : ~Returns(t)} |-> aux[s]]
  /\ cur_min' = cur_min + 1
  /\ num_at_cur_min' = Cardinality({s \in Slots : raw[s] < AuxToken})
  /\ UNCHANGED best

(* Fault: without an auxiliary map the round does nothing.                 *)
ShiftOnlyWithMap ==
  /\ Shifting
  /\ IF DOMAIN aux = {} THEN UNCHANGED <<raw, aux, cur_min, num_at_cur_min>>
     ELSE /\ raw' = [s \in Slots |->
                       IF raw[s] < AuxToken THEN raw[s] - 1
                       ELSE IF Returns(s) THEN aux[s] - (cur_min + 1)
                       ELSE AuxToken]
          /\ aux' = [s \in {t \in DOMAIN aux : ~Returns(t)} |-> aux[s]]
          /\ cur_min' = cur_min + 1
          /\ num_at_cur_min' = Cardinality({s \in Slots : raw[s] = 1})
  /\ UNCHANGED best

Shift ==
  /\ Shifting
  /\ raw' = [s \in Slots |->
               IF raw[s] < AuxToken THEN raw[s] - 1
               ELSE IF Returns(s) THEN aux[s] - (cur_min + 1) ELSE AuxToken]
  /\ aux' = [s \in {t \in DOMAIN aux : ~Returns(t)} |-> aux[s]]
  /\ cur_min' = cur_min + 1
  /\ num_at_cur_min' = Cardinality({s \in Slots : raw[s] = 1})
  /\ UNCHANGED best

Next ==
  \/ \E s \in Slots, v \in Values : UpdateIgnored(s, v) \/ UpdateRaised(s, v)
  \/ Shift

(* The loop runs inside update: nothing else happens until it ends. *)
Spec == Init /\ [][Next]_regVars /\ WF_regVars(Shift)

-------------------------------------------------------------------------------

TypeOK ==
  /\ raw \in [Slots -> 0 .. AuxToken]
  /\ cur_min \in 0 .. MaxValue
  /\ num_at_cur_min \in 0 .. K
  /\ DOMAIN aux \subseteq Slots
  /\ \A s \in DOMAIN aux : aux[s] \in Values
  /\ best \in [Slots -> 0 .. MaxValue]

(* Every register holds the largest value offered to it, whatever mixture  *)
(* of offsets, exceptions and shifts it went through: update and           *)
(* shift_to_bigger_cur_min (array4.rs:148, 227) are a maximum.             *)
RegistersExact == \A s \in Slots : Get(s) = best[s]

(* cur_min is the least register value and num_at_cur_min counts the       *)
(* registers at it; 0 only while a shift is due.  is_empty and the         *)
(* estimators read nothing else (array4.rs:274-296, 308-310).              *)
CountersExact ==
  /\ \A s \in Slots : best[s] >= cur_min
  /\ num_at_cur_min = Cardinality({s \in Slots : best[s] = cur_min})

(* The expect, unreachable!, debug_assert and u8 subtractions of update    *)
(* and shift hold: a register at the token is in the map, and no other;    *)
(* an exception is out of the nibble's range, so that a larger value is an *)
(* exception too; nothing is stored at 0 when the minimum rises.           *)
NoPanic ==
  /\ DOMAIN aux = Exceptions
  /\ \A s \in DOMAIN aux : aux[s] - cur_min >= AuxToken
  /\ Shifting => \A s \in Slots : raw[s] # 0

(* The loop at the end of update ends: from the sketch's first full round  *)
(* of registers on, each shift either stops or comes closer to the least   *)
(* register (array4.rs:213-219).                                           *)
ShiftingEnds == Shifting ~> ~Shifting

===============================================================================
