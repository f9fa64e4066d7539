------------------------------- MODULE HllArray6 -------------------------------
(***************************************************************************)
(* The packed registers of a 6-bit HyperLogLog array (hll/array6.rs): a    *)
(* register starts in one byte and may end in the next, so each access     *)
(* goes through the two bytes as one 16-bit number.                        *)
(***************************************************************************)
EXTENDS Integers

ValueBits == 6
ByteBits == 8

(* One byte more than the registers fill, for the window of the last one. *)
NumBytes(k) == (k * ValueBits) \div ByteBits + 1

ByteOf(slot) == (slot * ValueBits) \div ByteBits
ShiftOf(slot) == (slot * ValueBits) % ByteBits

Window(bytes, slot) ==
  bytes[ByteOf(slot)] + bytes[ByteOf(slot) + 1] * 2 ^ ByteBits

GetRaw(bytes, slot) ==
  (Window(bytes, slot) \div 2 ^ ShiftOf(slot)) % 2 ^ ValueBits

(* Fault: the register's old bits stay set. *)
PutRawOver(bytes, slot, v) ==
  LET i == ByteOf(slot)
      w == Window(bytes, slot) + v * 2 ^ ShiftOf(slot)
  IN [bytes EXCEPT ![i] = w % 2 ^ ByteBits,
                   ![i + 1] = (w \div 2 ^ ByteBits) % 2 ^ ByteBits]

PutRaw(bytes, slot, v) ==
  LET i == ByteOf(slot)
      w == Window(bytes, slot) + (v - GetRaw(bytes, slot)) * 2 ^ ShiftOf(slot)
  IN [bytes EXCEPT ![i] = w % 2 ^ ByteBits, ![i + 1] = w \div 2 ^ ByteBits]

===============================================================================
