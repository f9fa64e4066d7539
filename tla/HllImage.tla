-------------------------------- MODULE HllImage -------------------------------
(***************************************************************************)
(* Images of HyperLogLog sketches (hll/sketch.rs, list.rs, hash_set.rs,    *)
(* array6.rs, array8.rs): one layout for each mode.                        *)
(*                                                                         *)
(* An image is a record of the fields the mode writes.  The state byte of  *)
(* the preamble and the count word of a set are both count.  The array of  *)
(* exceptions of a 4-bit array is in HllAuxMap.  Coupons are written in    *)
(* the compact form only; the reader takes the other form as well, which   *)
(* holds the same coupons between empty places.                            *)
(***************************************************************************)
EXTENDS HllModes

SerializeList(sk) ==
  [mode |-> sk.mode, lg_k |-> sk.lg_k, type |-> sk.type,
   empty |-> sk.coupons = {}, count |-> Cardinality(sk.coupons),
   coupons |-> sk.coupons]

SerializeSet(sk) ==
  [mode |-> sk.mode, lg_k |-> sk.lg_k, type |-> sk.type,
   lg_arr |-> sk.lg_size, count |-> Cardinality(sk.coupons),
   coupons |-> sk.coupons]

SerializeArray(arr) ==
  [mode |-> arr.mode, lg_k |-> arr.lg_k, type |-> arr.type,
   ooo |-> arr.ooo, hip |-> arr.hip, kxq0 |-> arr.kxq0, kxq1 |-> arr.kxq1,
   num_zeros |-> arr.num_zeros, aux_count |-> 0, regs |-> arr.regs]

Serialize(sk) ==
  CASE sk.mode = "List" -> SerializeList(sk)
    [] sk.mode = "Set"  -> SerializeSet(sk)
    [] IsArray(sk)      -> SerializeArray(sk)

-------------------------------------------------------------------------------

ListReadable(image) ==
  /\ image.count <= ListCapacity
  /\ image.empty <=> image.count = 0

(* The sizes are those a set can have in a sketch of this lg_k, and a      *)
(* place stays free; coupons that occur twice would leave the set short.   *)
SetReadable(image) ==
  /\ image.lg_arr \in LgInitSet .. image.lg_k - SetMargin
  /\ image.count < 2 ^ image.lg_arr
  /\ Cardinality(image.coupons) = image.count

ArrayReadable(image) ==
  /\ image.num_zeros <= NumRegisters(image.lg_k)
  /\ image.aux_count = 0
  /\ DOMAIN image.regs = DOMAIN NewRegisters(image.lg_k, image.type)

Readable(image) ==
  CASE image.mode = "List"  -> ListReadable(image)
    [] image.mode = "Set"   -> SetReadable(image)
    [] image.mode = "Array" -> ArrayReadable(image)

DeserializeList(image) ==
  [NewSketch(image.lg_k, image.type) EXCEPT !.coupons = image.coupons]

DeserializeSet(image) ==
  [NewSketch(image.lg_k, image.type) EXCEPT
     !.mode = "Set", !.coupons = image.coupons, !.lg_size = image.lg_arr]

(* set_out_of_order, called last, clears the accumulator if the flag is    *)
(* set.                                                                    *)
DeserializeArray(image) ==
  [NewArray(image.lg_k, image.type) EXCEPT
     !.regs = image.regs, !.num_zeros = image.num_zeros,
     !.kxq0 = image.kxq0, !.kxq1 = image.kxq1,
     !.ooo = image.ooo, !.hip = image.hip /\ ~image.ooo]

Deserialize(image) ==
  CASE image.mode = "List"  -> DeserializeList(image)
    [] image.mode = "Set"   -> DeserializeSet(image)
    [] image.mode = "Array" -> DeserializeArray(image)

===============================================================================
