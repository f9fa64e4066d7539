---------------------------- MODULE HllUnionProofs ----------------------------
(***************************************************************************)
(* Every HyperLogLog sketch that a union holds or is given represents the  *)
(* coupons it was offered, for every configuration size, target type and   *)
(* order of updates, merges, downsamplings, reloads and results fed back.  *)
(*                                                                         *)
(* SkOK says this of one sketch: a list or a set holds the coupons and has *)
(* room for one more, and in an array each register is the largest value   *)
(* of its coupons and the estimator's counters are those of the registers. *)
(* Each operation takes a sketch of cs to a sketch of cs and what it adds, *)
(* so the invariant of the union, HInv, says it of both its sketches.      *)
(*                                                                         *)
(* The lemmas go upwards from the bytes: get and put of packed registers;  *)
(* largest values and how they join and fold; sums over registers; arrays, *)
(* lists and sets, and their promotions; bulk merges, copies and images;   *)
(* the paths of a union's update.                                          *)
(***************************************************************************)
EXTENDS HllUnion, NatSets

-------------------------------------------------------------------------------
(* Packed registers: four of them share three bytes.                       *)
Byte == 0 .. 255
Six == 0 .. 63

LEMMA Widths == 2 ^ 0 = 1 /\ 2 ^ 2 = 4 /\ 2 ^ 4 = 16 /\ 2 ^ 6 = 64 /\ 2 ^ 8 = 256
OBVIOUS

(* The four ways a register lies in the two bytes of its window.           *)
LEMMA Window0 ==
  ASSUME NEW a \in Byte, NEW b \in Byte, NEW v \in Six, NEW w, w = a % 64
  PROVE  /\ ((a + b * 256) \div 1) % 64 = w
         /\ (a + b * 256 + (v - w) * 1) % 256 = (a \div 64) * 64 + v
         /\ (a + b * 256 + (v - w) * 1) \div 256 = b
BY DEF Byte, Six

LEMMA Window1 ==
  ASSUME NEW a \in Byte, NEW b \in Byte, NEW v \in Six, NEW w,
         w = (a \div 64) + 4 * (b % 16)
  PROVE  /\ ((a + b * 256) \div 64) % 64 = w
         /\ (a + b * 256 + (v - w) * 64) % 256 = (a % 64) + 64 * (v % 4)
         /\ (a + b * 256 + (v - w) * 64) \div 256 = (b \div 16) * 16 + (v \div 4)
BY DEF Byte, Six

LEMMA Window2 ==
  ASSUME NEW a \in Byte, NEW b \in Byte, NEW v \in Six, NEW w,
         w = (a \div 16) + 16 * (b % 4)
  PROVE  /\ ((a + b * 256) \div 16) % 64 = w
         /\ (a + b * 256 + (v - w) * 16) % 256 = (a % 16) + 16 * (v % 16)
         /\ (a + b * 256 + (v - w) * 16) \div 256 = (b \div 4) * 4 + (v \div 16)
BY DEF Byte, Six

LEMMA Window3 ==
  ASSUME NEW a \in Byte, NEW b \in Byte, NEW v \in Six, NEW w, w = a \div 4
  PROVE  /\ ((a + b * 256) \div 4) % 64 = w
         /\ (a + b * 256 + (v - w) * 4) % 256 = (a % 4) + 4 * v
         /\ (a + b * 256 + (v - w) * 4) \div 256 = b
BY DEF Byte, Six

(* Where the registers of a group of four begin.                           *)
Group(s) == 3 * (s \div 4)

LEMMA Layout ==
  ASSUME NEW s \in Nat
  PROVE  /\ Group(s) \in Nat
         /\ s % 4 = 0 => ByteOf(s) = Group(s) /\ ShiftOf(s) = 0
         /\ s % 4 = 1 => ByteOf(s) = Group(s) /\ ShiftOf(s) = 6
         /\ s % 4 = 2 => ByteOf(s) = Group(s) + 1 /\ ShiftOf(s) = 4
         /\ s % 4 = 3 => ByteOf(s) = Group(s) + 2 /\ ShiftOf(s) = 2
BY DEF Group, ByteOf, ShiftOf, ValueBits, ByteBits

LEMMA ShiftFacts ==
  ASSUME NEW s \in Nat
  PROVE  2 ^ ShiftOf(s) \in {1, 4, 16, 64}
<1>1. s % 4 = 0 \/ s % 4 = 1 \/ s % 4 = 2 \/ s % 4 = 3
  OBVIOUS
<1>2. ShiftOf(s) = 0 \/ ShiftOf(s) = 2 \/ ShiftOf(s) = 4 \/ ShiftOf(s) = 6
  BY <1>1, Layout
<1>3. ShiftOf(s) = 0 => 2 ^ ShiftOf(s) = 1
  BY Widths
<1>4. ShiftOf(s) = 2 => 2 ^ ShiftOf(s) = 4
  BY Widths
<1>5. ShiftOf(s) = 4 => 2 ^ ShiftOf(s) = 16
  BY Widths
<1>6. ShiftOf(s) = 6 => 2 ^ ShiftOf(s) = 64
  BY Widths
<1> QED BY <1>2, <1>3, <1>4, <1>5, <1>6

(* The bytes of n registers, and the room for the window of each.          *)
BytesOf(n) == [0 .. NumBytes(n) - 1 -> Byte]

LEMMA WindowInside ==
  ASSUME NEW m \in Nat, NEW s \in 0 .. 2 * m - 1
  PROVE  /\ ByteOf(s) \in 0 .. NumBytes(2 * m) - 1
         /\ ByteOf(s) + 1 \in 0 .. NumBytes(2 * m) - 1
BY DEF ByteOf, NumBytes, ValueBits, ByteBits

(* What the accessor reads, by the place of the register in its group.     *)
Reads(bytes, s, v) ==
  LET i == Group(s)
  IN /\ s % 4 = 0 => v = bytes[i] % 64
     /\ s % 4 = 1 => v = (bytes[i] \div 64) + 4 * (bytes[i + 1] % 16)
     /\ s % 4 = 2 => v = (bytes[i + 1] \div 16) + 16 * (bytes[i + 2] % 4)
     /\ s % 4 = 3 => v = bytes[i + 2] \div 4

(* What the accessor writes.                                               *)
Changed(bytes, i, lo, hi, new) ==
  /\ new \in [DOMAIN bytes -> Byte]
  /\ new[i] = lo /\ new[i + 1] = hi
  /\ \A j \in DOMAIN bytes \ {i, i + 1} : new[j] = bytes[j]

Writes(bytes, s, v, new) ==
  LET i == Group(s)
  IN /\ s % 4 = 0 => Changed(bytes, i, (bytes[i] \div 64) * 64 + v, bytes[i + 1], new)
     /\ s % 4 = 1 => Changed(bytes, i, (bytes[i] % 64) + 64 * (v % 4),
                             (bytes[i + 1] \div 16) * 16 + (v \div 4), new)
     /\ s % 4 = 2 => Changed(bytes, i + 1, (bytes[i + 1] % 16) + 16 * (v % 16),
                             (bytes[i + 2] \div 4) * 4 + (v \div 16), new)
     /\ s % 4 = 3 => Changed(bytes, i + 2, (bytes[i + 2] % 4) + 4 * v, bytes[i + 3], new)

LEMMA Access ==
  ASSUME NEW m \in Nat, NEW bytes \in BytesOf(2 * m), NEW s \in 0 .. 2 * m - 1, NEW v \in Six
  PROVE  /\ Reads(bytes, s, GetRaw(bytes, s))
         /\ Writes(bytes, s, v, PutRaw(bytes, s, v))
<1> DEFINE i == ByteOf(s)
           a == bytes[i]
           b == bytes[i + 1]
           g == GetRaw(bytes, s)
           p == 2 ^ ShiftOf(s)
<1>1. a \in Byte /\ b \in Byte
  BY WindowInside DEF BytesOf
<1>2. s \in Nat
  OBVIOUS
<1>3. g = ((a + b * 256) \div p) % 64
  BY Widths DEF GetRaw, Window, ValueBits, ByteBits
<1> DEFINE lo == (a + b * 256 + (v - g) * p) % 256
           hi == (a + b * 256 + (v - g) * p) \div 256
           new == PutRaw(bytes, s, v)
<1>4. new = [bytes EXCEPT ![i] = lo, ![i + 1] = hi]
  BY Widths DEF PutRaw, Window, ByteBits
<1>a. i \in DOMAIN bytes /\ i + 1 \in DOMAIN bytes /\ i \in Nat
  BY WindowInside DEF BytesOf
<1>b. bytes \in [DOMAIN bytes -> Byte]
  BY DEF BytesOf
<1>9. /\ s % 4 = 0 => i = Group(s) /\ ShiftOf(s) = 0
      /\ s % 4 = 1 => i = Group(s) /\ ShiftOf(s) = 6
      /\ s % 4 = 2 => i = Group(s) + 1 /\ ShiftOf(s) = 4
      /\ s % 4 = 3 => i = Group(s) + 2 /\ ShiftOf(s) = 2
      /\ Group(s) \in Nat
  BY <1>2, Layout
<1> HIDE DEF i, a, b, g, p, lo, hi, new
<1>10. a = bytes[i] /\ b = bytes[i + 1] /\ g = GetRaw(bytes, s) /\ new = PutRaw(bytes, s, v)
  BY DEF a, b, g, new
<1>11. ASSUME lo \in Byte, hi \in Byte
       PROVE  /\ new \in [DOMAIN bytes -> Byte] /\ new[i] = lo /\ new[i + 1] = hi
              /\ \A j \in DOMAIN bytes \ {i, i + 1} : new[j] = bytes[j]
  <2> HIDE DEF Byte
  <2>1. i # i + 1
    BY <1>a
  <2> QED BY <1>4, <1>a, <1>b, <1>11, <2>1
<1>5. CASE s % 4 = 0
  <2>1. i = Group(s) /\ i + 1 = Group(s) + 1
    BY <1>9, <1>5
  <2>2. p = 1
    BY <1>9, <1>5, Widths DEF p
  <2>3. g = a % 64
    BY <1>1, <1>3, <2>2, Window0
  <2>4. lo = (a \div 64) * 64 + v /\ hi = b
    BY <1>1, <2>2, <2>3, Window0 DEF lo, hi
  <2>5. Reads(bytes, s, g)
    BY <1>5, <1>10, <2>1, <2>3 DEF Reads
  <2>7. lo \in Byte /\ hi \in Byte
    BY <1>1, <2>4 DEF Byte, Six
  <2>8. Changed(bytes, i, lo, hi, new)
    BY <1>11, <2>7 DEF Changed
  <2>6. Writes(bytes, s, v, new)
    BY <1>5, <1>9, <1>10, <2>1, <2>4, <2>8 DEF Writes
  <2> QED BY <1>10, <2>5, <2>6
<1>6. CASE s % 4 = 1
  <2>1. i = Group(s) /\ i + 1 = Group(s) + 1
    BY <1>9, <1>6
  <2>2. p = 64
    BY <1>9, <1>6, Widths DEF p
  <2>3. g = (a \div 64) + 4 * (b % 16)
    BY <1>1, <1>3, <2>2, Window1
  <2>4. lo = (a % 64) + 64 * (v % 4) /\ hi = (b \div 16) * 16 + (v \div 4)
    BY <1>1, <2>2, <2>3, Window1 DEF lo, hi
  <2>5. Reads(bytes, s, g)
    BY <1>6, <1>10, <2>1, <2>3 DEF Reads
  <2>7. lo \in Byte /\ hi \in Byte
    BY <1>1, <2>4 DEF Byte, Six
  <2>8. Changed(bytes, i, lo, hi, new)
    BY <1>11, <2>7 DEF Changed
  <2>6. Writes(bytes, s, v, new)
    BY <1>6, <1>9, <1>10, <2>1, <2>4, <2>8 DEF Writes
  <2> QED BY <1>10, <2>5, <2>6
<1>7. CASE s % 4 = 2
  <2>1. i = Group(s) + 1 /\ i + 1 = Group(s) + 2
    BY <1>9, <1>7
  <2>2. p = 16
    BY <1>9, <1>7, Widths DEF p
  <2>3. g = (a \div 16) + 16 * (b % 4)
    BY <1>1, <1>3, <2>2, Window2
  <2>4. lo = (a % 16) + 16 * (v % 16) /\ hi = (b \div 4) * 4 + (v \div 16)
    BY <1>1, <2>2, <2>3, Window2 DEF lo, hi
  <2>5. Reads(bytes, s, g)
    BY <1>7, <1>10, <2>1, <2>3 DEF Reads
  <2>7. lo \in Byte /\ hi \in Byte
    BY <1>1, <2>4 DEF Byte, Six
  <2>8. Changed(bytes, i, lo, hi, new)
    BY <1>11, <2>7 DEF Changed
  <2>6. Writes(bytes, s, v, new)
    BY <1>7, <1>9, <1>10, <2>1, <2>4, <2>8 DEF Writes
  <2> QED BY <1>10, <2>5, <2>6
<1>8. CASE s % 4 = 3
  <2>1. i = Group(s) + 2 /\ i + 1 = Group(s) + 3
    BY <1>9, <1>8
  <2>2. p = 4
    BY <1>9, <1>8, Widths DEF p
  <2>3. g = a \div 4
    BY <1>1, <1>3, <2>2, Window3
  <2>4. lo = (a % 4) + 4 * v /\ hi = b
    BY <1>1, <2>2, <2>3, Window3 DEF lo, hi
  <2>5. Reads(bytes, s, g)
    BY <1>8, <1>10, <2>1, <2>3 DEF Reads
  <2>7. lo \in Byte /\ hi \in Byte
    BY <1>1, <2>4 DEF Byte, Six
  <2>8. Changed(bytes, i, lo, hi, new)
    BY <1>11, <2>7 DEF Changed
  <2>6. Writes(bytes, s, v, new)
    BY <1>8, <1>9, <1>10, <2>1, <2>4, <2>8 DEF Writes
  <2> QED BY <1>10, <2>5, <2>6
<1> QED BY <1>2, <1>5, <1>6, <1>7, <1>8

(* A byte split in two fields, of which one is replaced.                   *)
LEMMA Fields ==
  ASSUME NEW b \in Byte, NEW v \in Six
  PROVE  /\ ((b \div 64) * 64 + v) % 64 = v
         /\ ((b \div 64) * 64 + v) \div 64 = b \div 64
         /\ ((b % 64) + 64 * (v % 4)) % 64 = b % 64
         /\ ((b % 64) + 64 * (v % 4)) \div 64 = v % 4
         /\ ((b \div 16) * 16 + (v \div 4)) % 16 = v \div 4
         /\ ((b \div 16) * 16 + (v \div 4)) \div 16 = b \div 16
         /\ ((b % 16) + 16 * (v % 16)) % 16 = b % 16
         /\ ((b % 16) + 16 * (v % 16)) \div 16 = v % 16
         /\ ((b \div 4) * 4 + (v \div 16)) % 4 = v \div 16
         /\ ((b \div 4) * 4 + (v \div 16)) \div 4 = b \div 4
         /\ ((b % 4) + 4 * v) % 4 = b % 4
         /\ ((b % 4) + 4 * v) \div 4 = v
BY DEF Byte, Six

LEMMA SixSplit ==
  ASSUME NEW v \in Six
  PROVE  (v % 4) + 4 * (v \div 4) = v /\ (v % 16) + 16 * (v \div 16) = v
BY DEF Six

(* What is read is in range, and depends on two bytes only.                *)
LEMMA ReadsRange ==
  ASSUME NEW m \in Nat, NEW bytes \in BytesOf(2 * m), NEW s \in 0 .. 2 * m - 1
  PROVE  GetRaw(bytes, s) \in Six
<1> DEFINE i == ByteOf(s)
           w == bytes[i] + bytes[i + 1] * 256
           p == 2 ^ ShiftOf(s)
<1>1. bytes[i] \in Byte /\ bytes[i + 1] \in Byte
  BY WindowInside DEF BytesOf
<1>2. w \in Nat
  <2> DEFINE a == bytes[i]
             b == bytes[i + 1]
  <2>1. a \in Nat /\ b \in Nat
    BY <1>1 DEF Byte
  <2> HIDE DEF a, b
  <2>2. a + b * 256 \in Nat
    BY <2>1
  <2> QED BY <2>2 DEF a, b
<1>3. p \in {1, 64, 16, 4}
  <2>1. s \in Nat
    OBVIOUS
  <2> QED BY <2>1, ShiftFacts
<1>4. GetRaw(bytes, s) = (w \div p) % 64
  BY Widths DEF GetRaw, Window, ValueBits, ByteBits
<1> HIDE DEF w, p
<1>5. w \div p \in Nat
  BY <1>2, <1>3
<1> QED BY <1>4, <1>5 DEF Six

(* put_raw writes one register and no other.                               *)
LEMMA GetPut ==
  ASSUME NEW m \in Nat, NEW bytes \in BytesOf(2 * m),
         NEW s \in 0 .. 2 * m - 1, NEW v \in Six, NEW t \in 0 .. 2 * m - 1
  PROVE  /\ PutRaw(bytes, s, v) \in BytesOf(2 * m)
         /\ GetRaw(PutRaw(bytes, s, v), t) = IF t = s THEN v ELSE GetRaw(bytes, t)
<1> DEFINE new == PutRaw(bytes, s, v)
           old == GetRaw(bytes, t)
           got == GetRaw(new, t)
           i == Group(s)
           j == Group(t)
<1>1. /\ i \in Nat /\ j \in Nat
      /\ s % 4 \in {0, 1, 2, 3} /\ t % 4 \in {0, 1, 2, 3}
      /\ i = j /\ s % 4 = t % 4 => s = t
      /\ i # j => i >= j + 3 \/ j >= i + 3
  BY DEF Group
<1>2. Writes(bytes, s, v, new)
  BY Access
<1>3. new \in BytesOf(2 * m)
  <2>1. DOMAIN bytes = 0 .. NumBytes(2 * m) - 1
    BY DEF BytesOf
  <2>2. new \in [DOMAIN bytes -> Byte]
    BY <1>1, <1>2 DEF Writes, Changed
  <2> QED BY <2>1, <2>2 DEF BytesOf
<1>4. Reads(bytes, t, old) /\ Reads(new, t, got)
  <2> HIDE DEF new
  <2> QED BY <1>3, Access
<1>5. ByteOf(t) \in DOMAIN bytes /\ ByteOf(t) + 1 \in DOMAIN bytes
  BY WindowInside DEF BytesOf
<1>6. \A d \in DOMAIN bytes : bytes[d] \in Byte
  BY DEF BytesOf
<1>7. /\ t % 4 = 0 => ByteOf(t) = j
      /\ t % 4 = 1 => ByteOf(t) = j
      /\ t % 4 = 2 => ByteOf(t) = j + 1
      /\ t % 4 = 3 => ByteOf(t) = j + 2
      /\ s % 4 = 0 => ByteOf(s) = i
      /\ s % 4 = 1 => ByteOf(s) = i
      /\ s % 4 = 2 => ByteOf(s) = i + 1
      /\ s % 4 = 3 => ByteOf(s) = i + 2
  <2>1. t \in Nat /\ s \in Nat
    OBVIOUS
  <2>2. /\ t % 4 = 0 => ByteOf(t) = j
        /\ t % 4 = 1 => ByteOf(t) = j
        /\ t % 4 = 2 => ByteOf(t) = j + 1
        /\ t % 4 = 3 => ByteOf(t) = j + 2
    BY <2>1, Layout
  <2>3. /\ s % 4 = 0 => ByteOf(s) = i
        /\ s % 4 = 1 => ByteOf(s) = i
        /\ s % 4 = 2 => ByteOf(s) = i + 1
        /\ s % 4 = 3 => ByteOf(s) = i + 2
    BY <2>1, Layout
  <2> QED BY <2>2, <2>3
<1>8. ByteOf(s) \in DOMAIN bytes /\ ByteOf(s) + 1 \in DOMAIN bytes
  BY WindowInside DEF BytesOf
<1> HIDE DEF new, old, got, i, j
<1>9. Writes(bytes, s, v, new)
  BY <1>2
(* By the place of s in its group: its own register, the others of the     *)
(* group, the other groups.                                                *)
<1>a. t = s => j = i /\ t % 4 = s % 4
  BY DEF i, j
<1>10. ASSUME s % 4 = 0 PROVE got = IF t = s THEN v ELSE old
  <2>1. Changed(bytes, i, (bytes[i] \div 64) * 64 + v, bytes[i + 1], new)
    BY <1>9, <1>10 DEF Writes, i
  <2>2. bytes[i] \in Byte /\ bytes[i + 1] \in Byte
    BY <1>1, <1>6, <1>7, <1>8, <1>10
  <2>3. new[i] % 64 = v /\ new[i] \div 64 = bytes[i] \div 64
    BY <2>1, <2>2, Fields DEF Changed
  <2>4. \A d \in DOMAIN bytes \ {i} : new[d] = bytes[d]
    BY <1>1, <2>1 DEF Changed
  <2>5. t = s => got = v
    BY <1>4, <1>a, <1>10, <2>3 DEF Reads, j
  <2>6. t # s => got = old
    BY <1>1, <1>4, <1>5, <1>7, <1>10, <2>3, <2>4 DEF Reads, j
  <2> QED BY <2>5, <2>6
<1>11. ASSUME s % 4 = 1 PROVE got = IF t = s THEN v ELSE old
  <2>1. Changed(bytes, i, (bytes[i] % 64) + 64 * (v % 4), (bytes[i + 1] \div 16) * 16 + (v \div 4), new)
    BY <1>9, <1>11 DEF Writes, i
  <2>2. bytes[i] \in Byte /\ bytes[i + 1] \in Byte
    BY <1>1, <1>6, <1>7, <1>8, <1>11
  <2>3. /\ new[i] % 64 = bytes[i] % 64 /\ new[i] \div 64 = v % 4
        /\ new[i + 1] % 16 = v \div 4 /\ new[i + 1] \div 16 = bytes[i + 1] \div 16
    BY <2>1, <2>2, Fields DEF Changed
  <2>4. \A d \in DOMAIN bytes \ {i, i + 1} : new[d] = bytes[d]
    BY <1>1, <2>1 DEF Changed
  <2>5. t = s => got = v
    BY <1>4, <1>a, <1>11, <2>3, SixSplit DEF Reads, j
  <2>6. t # s => got = old
    BY <1>1, <1>4, <1>5, <1>7, <1>11, <2>3, <2>4 DEF Reads, j
  <2> QED BY <2>5, <2>6
<1>12. ASSUME s % 4 = 2 PROVE got = IF t = s THEN v ELSE old
  <2>1. Changed(bytes, i + 1, (bytes[i + 1] % 16) + 16 * (v % 16), (bytes[i + 2] \div 4) * 4 + (v \div 16), new)
    BY <1>9, <1>12 DEF Writes, i
  <2>2. bytes[i + 1] \in Byte /\ bytes[i + 2] \in Byte
    BY <1>1, <1>6, <1>7, <1>8, <1>12
  <2>3. /\ new[i + 1] % 16 = bytes[i + 1] % 16 /\ new[i + 1] \div 16 = v % 16
        /\ new[i + 2] % 4 = v \div 16 /\ new[i + 2] \div 4 = bytes[i + 2] \div 4
    <3>1. (i + 1) + 1 = i + 2
      BY <1>1
    <3>2. /\ new[i + 1] = (bytes[i + 1] % 16) + 16 * (v % 16)
          /\ new[i + 2] = (bytes[i + 2] \div 4) * 4 + (v \div 16)
      BY <2>1, <3>1 DEF Changed
    <3> QED BY <2>2, <3>2, Fields
  <2>4. \A d \in DOMAIN bytes \ {i + 1, i + 2} : new[d] = bytes[d]
    BY <1>1, <2>1 DEF Changed
  <2>5. t = s => got = v
    BY <1>4, <1>a, <1>12, <2>3, SixSplit DEF Reads, j
  <2>6. t # s => got = old
    BY <1>1, <1>4, <1>5, <1>7, <1>12, <2>3, <2>4 DEF Reads, j
  <2> QED BY <2>5, <2>6
<1>13. ASSUME s % 4 = 3 PROVE got = IF t = s THEN v ELSE old
  <2>1. Changed(bytes, i + 2, (bytes[i + 2] % 4) + 4 * v, bytes[i + 3], new)
    BY <1>9, <1>13 DEF Writes, i
  <2>2. bytes[i + 2] \in Byte /\ bytes[i + 3] \in Byte
    BY <1>1, <1>6, <1>7, <1>8, <1>13
  <2>3. new[i + 2] % 4 = bytes[i + 2] % 4 /\ new[i + 2] \div 4 = v
    BY <2>1, <2>2, Fields DEF Changed
  <2>4. \A d \in DOMAIN bytes \ {i + 2} : new[d] = bytes[d]
    BY <1>1, <2>1 DEF Changed
  <2>5. t = s => got = v
    BY <1>4, <1>a, <1>13, <2>3 DEF Reads, j
  <2>6. t # s => got = old
    BY <1>1, <1>4, <1>5, <1>7, <1>13, <2>3, <2>4 DEF Reads, j
  <2> QED BY <2>5, <2>6
<1>14. got = IF t = s THEN v ELSE old
  BY <1>1, <1>10, <1>11, <1>12, <1>13
<1> QED BY <1>3, <1>14 DEF got, old, new

-------------------------------------------------------------------------------
(* Registers and the coupons they stand for.                               *)
Value == 0 .. MaxRegister
AnyCoupon == Nat \X (1 .. MaxRegister)
SlotsOf(lg) == 0 .. 2 ^ lg - 1
Regs(lg) == [SlotsOf(lg) -> Value]

(* Every register is the largest value of the coupons of its slot.         *)
Tops(regs, cs, lg) ==
  /\ regs \in Regs(lg)
  /\ \A c \in cs : ValueOf(c) <= regs[SlotOf(c, lg)]
  /\ \A s \in SlotsOf(lg) :
       regs[s] = 0 \/ \E c \in cs : SlotOf(c, lg) = s /\ ValueOf(c) = regs[s]

LEMMA LgFacts ==
  ASSUME NEW lg \in Lgs
  PROVE  /\ lg \in Nat \ {0} /\ 2 ^ lg \in Nat \ {0}
         /\ 2 ^ (lg - 1) \in Nat /\ 2 ^ lg = 2 * 2 ^ (lg - 1)
<1>1. lg \in Nat \ {0}
  BY SketchesAssumption
<1>2. lg \in 0 .. lg /\ lg - 1 \in 0 .. lg /\ (lg - 1) + 1 = lg
  BY <1>1
<1>3. 2 ^ lg \in Nat \ {0}
  BY <1>2, PowersOfTwoForRegisters
<1>4. 2 ^ (lg - 1) \in Nat \ {0} /\ 2 ^ ((lg - 1) + 1) = 2 * 2 ^ (lg - 1)
  BY <1>2, PowersOfTwoForRegisters
<1> QED BY <1>1, <1>2, <1>3, <1>4

LEMMA SlotsFacts ==
  ASSUME NEW lg \in Lgs
  PROVE  /\ IsFiniteSet(SlotsOf(lg)) /\ Cardinality(SlotsOf(lg)) = 2 ^ lg
         /\ \A n \in Nat : n % 2 ^ lg \in SlotsOf(lg)
         /\ \A s \in SlotsOf(lg) : s \in Nat /\ s % 2 ^ lg = s
<1> DEFINE N == 2 ^ lg
<1>1. N \in Nat \ {0}
  BY LgFacts
<1> HIDE DEF N
<1>2. IsFiniteSet(0 .. N - 1) /\ Cardinality(0 .. N - 1) = N
  <2>1. 0 \in Int /\ N - 1 \in Int /\ ~(0 > N - 1) /\ N - 1 - 0 + 1 = N
    BY <1>1
  <2> QED BY <2>1, FS_Interval
<1>3. \A n \in Nat : n % N \in 0 .. N - 1
  BY <1>1, ModFacts
<1>4. \A s \in 0 .. N - 1 : s \in Nat /\ s % N = s
  BY <1>1, SmallMod
<1> QED BY <1>2, <1>3, <1>4 DEF SlotsOf, N

LEMMA CouponFacts ==
  ASSUME NEW c \in AnyCoupon, NEW lg \in Lgs
  PROVE  SlotOf(c, lg) \in SlotsOf(lg) /\ ValueOf(c) \in Value /\ ValueOf(c) # 0
<1>1. c[1] \in Nat /\ c[2] \in 1 .. MaxRegister
  BY DEF AnyCoupon
<1> QED BY <1>1, SlotsFacts DEF SlotOf, ValueOf, Value

LEMMA ValueFacts == \A v \in Value : v \in Nat /\ v \in Int /\ v >= 0
BY ModeAssumption DEF Value

(* Max picks the largest element.                                          *)
LEMMA MaxIs ==
  ASSUME NEW S \in SUBSET Int, NEW m \in S, \A x \in S : x <= m
  PROVE  Max(S) = m
<1>1. \A x \in S : (\A y \in S : y <= x) => x = m
  OBVIOUS
<1> QED BY <1>1 DEF Max

LEMMA TopsAre ==
  ASSUME NEW lg \in Lgs, NEW cs \in SUBSET AnyCoupon, NEW regs, Tops(regs, cs, lg)
  PROVE  regs = RegistersOf(cs, lg)
<1> SUFFICES ASSUME NEW s \in SlotsOf(lg)
             PROVE  Max({0} \cup {ValueOf(c) : c \in {d \in cs : SlotOf(d, lg) = s}}) = regs[s]
  BY DEF RegistersOf, Tops, Regs, SlotsOf, NumRegisters
<1> DEFINE S == {0} \cup {ValueOf(c) : c \in {d \in cs : SlotOf(d, lg) = s}}
<1>1. regs[s] \in Value
  BY DEF Tops, Regs
<1>2. S \in SUBSET Int
  BY CouponFacts, ValueFacts
<1>3. regs[s] \in S
  BY DEF Tops
<1>4. \A x \in S : x <= regs[s]
  BY <1>1, ValueFacts DEF Tops
<1> HIDE DEF S
<1>5. Max(S) = regs[s]
  BY <1>2, <1>3, <1>4, MaxIs
<1> QED BY <1>5 DEF S

LEMMA TopsUnique ==
  ASSUME NEW lg \in Lgs, NEW cs \in SUBSET AnyCoupon,
         NEW r, NEW q, Tops(r, cs, lg), Tops(q, cs, lg)
  PROVE  r = q
BY TopsAre

LEMMA TopsEmpty ==
  ASSUME NEW lg \in Lgs
  PROVE  Tops([s \in SlotsOf(lg) |-> 0], {}, lg)
BY ModeAssumption DEF Tops, Regs, Value

(* A coupon that raises its register, and one that does not.               *)
LEMMA TopsAdd ==
  ASSUME NEW lg \in Lgs, NEW cs \in SUBSET AnyCoupon, NEW regs, Tops(regs, cs, lg),
         NEW c \in AnyCoupon, NEW s, s = SlotOf(c, lg)
  PROVE  /\ s \in SlotsOf(lg) /\ ValueOf(c) \in Value /\ regs[s] \in Value
         /\ ValueOf(c) <= regs[s] => Tops(regs, cs \cup {c}, lg)
         /\ ~(ValueOf(c) <= regs[s]) => Tops([regs EXCEPT ![s] = ValueOf(c)], cs \cup {c}, lg)
<1> DEFINE v == ValueOf(c)
           new == [regs EXCEPT ![s] = v]
<1>1. s \in SlotsOf(lg) /\ v \in Value
  BY CouponFacts
<1>2. regs \in Regs(lg) /\ regs[s] \in Value
  BY <1>1 DEF Tops, Regs
<1>3. ASSUME v <= regs[s] PROVE Tops(regs, cs \cup {c}, lg)
  BY <1>3 DEF Tops
<1>4. ASSUME ~(v <= regs[s]) PROVE Tops(new, cs \cup {c}, lg)
  <2> HIDE DEF v
  <2>1. new \in Regs(lg) /\ new[s] = v /\ \A t \in SlotsOf(lg) \ {s} : new[t] = regs[t]
    BY <1>1, <1>2 DEF Regs
  <2> HIDE DEF new
  <2>2. ASSUME NEW d \in cs \cup {c} PROVE ValueOf(d) <= new[SlotOf(d, lg)]
    <3>1. CASE SlotOf(d, lg) = s
      <4>1. ValueOf(d) <= regs[s] \/ ValueOf(d) = v
        BY <2>2, <3>1 DEF Tops, v
      <4>2. ValueOf(d) \in Value
        BY CouponFacts
      <4> QED BY <1>1, <1>2, <1>4, <2>1, <3>1, <4>1, <4>2, ValueFacts
    <3>2. CASE SlotOf(d, lg) # s
      <4>1. d \in cs /\ SlotOf(d, lg) \in SlotsOf(lg)
        BY <3>2, CouponFacts
      <4> QED BY <2>1, <3>2, <4>1 DEF Tops
    <3> QED BY <3>1, <3>2
  <2>3. ASSUME NEW t \in SlotsOf(lg)
        PROVE  new[t] = 0 \/ \E d \in cs \cup {c} : SlotOf(d, lg) = t /\ ValueOf(d) = new[t]
    BY <2>1 DEF Tops, v
  <2> QED BY <2>1, <2>2, <2>3 DEF Tops
<1> QED BY <1>1, <1>2, <1>3, <1>4

LEMMA MaxIn ==
  ASSUME NEW S \in SUBSET Value, S # {}
  PROVE  Max(S) \in S /\ Max(S) \in Value /\ \A x \in S : x <= Max(S)
<1>1. MaxRegister + 1 \in Nat /\ Value = 0 .. (MaxRegister + 1) - 1
  BY ModeAssumption DEF Value
<1>2. S \in SUBSET (0 .. (MaxRegister + 1) - 1)
  BY <1>1
<1>3. Max(S) \in S /\ \A x \in S : x <= Max(S)
  BY <1>1, <1>2, MaxOfRange
<1> QED BY <1>3

(* A slot of a large array becomes the slot of a small one.                *)
LEMMA SlotShrinks ==
  ASSUME NEW lo \in Lgs, NEW hi \in Lgs, lo <= hi, NEW c \in AnyCoupon
  PROVE  SlotOf(c, hi) % 2 ^ lo = SlotOf(c, lo)
<1> DEFINE n == c[1]
           N == 2 ^ lo
           q == 2 ^ (hi - lo)
<1>1. n \in Nat
  BY DEF AnyCoupon
<1>2. lo \in 0 .. hi /\ hi - lo \in 0 .. hi
  BY LgFacts
<1>3. N \in Nat \ {0} /\ q \in Nat \ {0} /\ 2 ^ hi = q * N
  BY <1>2, PowersOfTwoForRegisters
<1> HIDE DEF n, N, q
<1>4. q * N \in Nat \ {0} /\ q * N = N * q
  BY <1>3
<1> DEFINE M == q * N
           r == n % M
           k == n \div M
<1>5. r \in Nat /\ k \in Nat /\ n = M * k + r
  <2>1. M \in Nat \ {0}
    BY <1>4
  <2> HIDE DEF M
  <2> QED BY <1>1, <2>1, ModFacts
<1> HIDE DEF r, k
<1>6. n = r + N * (q * k) /\ q * k \in Nat
  <2>2. q * k \in Nat /\ M * k \in Nat /\ M * k = N * (q * k)
    BY <1>3, <1>5
  <2> DEFINE x == M * k
             y == N * (q * k)
  <2>3. x \in Nat /\ x = y /\ n = x + r
    BY <1>5, <2>2
  <2> HIDE DEF x, y
  <2>4. n = r + y
    BY <1>5, <2>3
  <2> QED BY <2>2, <2>4 DEF y
<1>7. n % N = r % N
  <2> DEFINE j == q * k
  <2>1. j \in Nat /\ n = r + N * j
    BY <1>6
  <2> HIDE DEF j
  <2>2. (r + N * j) % N = r % N
    BY <1>3, <1>5, <2>1, ModAdds
  <2> QED BY <2>1, <2>2
<1> QED BY <1>3, <1>7 DEF SlotOf, n, N, r

(* Registers merged one by one, and registers of a larger array folded in. *)
Joined(r, q) == [s \in DOMAIN r |-> Max({r[s], q[s]})]
Folded(r, lo, q, hi) ==
  [s \in DOMAIN r |-> Max({r[s]} \cup {q[t] : t \in {u \in SlotsOf(hi) : u % 2 ^ lo = s}})]

LEMMA TopsJoin ==
  ASSUME NEW lg \in Lgs, NEW ps \in SUBSET AnyCoupon, NEW bs \in SUBSET AnyCoupon,
         NEW r, NEW q, Tops(r, ps, lg), Tops(q, bs, lg)
  PROVE  Tops(Joined(r, q), ps \cup bs, lg)
<1> DEFINE new == Joined(r, q)
<1>1. r \in Regs(lg) /\ q \in Regs(lg) /\ DOMAIN r = SlotsOf(lg)
  BY DEF Tops, Regs
<1>2. ASSUME NEW s \in SlotsOf(lg)
      PROVE  /\ new[s] \in Value /\ new[s] \in {r[s], q[s]}
             /\ r[s] <= new[s] /\ q[s] <= new[s]
  <2> DEFINE S == {r[s], q[s]}
  <2>1. S \in SUBSET Value /\ S # {}
    BY <1>1, <1>2 DEF Regs
  <2>2. new[s] = Max(S)
    BY <1>1, <1>2 DEF Joined
  <2>3. r[s] \in S /\ q[s] \in S
    OBVIOUS
  <2> HIDE DEF S, new
  <2>4. new[s] \in S /\ new[s] \in Value /\ \A x \in S : x <= new[s]
    BY <2>1, <2>2, MaxIn
  <2> QED BY <2>3, <2>4 DEF S
<1>3. new \in Regs(lg)
  BY <1>1, <1>2 DEF Regs, Joined
<1> HIDE DEF new
<1>4. ASSUME NEW c \in ps \cup bs PROVE ValueOf(c) <= new[SlotOf(c, lg)]
  <2> DEFINE s == SlotOf(c, lg)
  <2>1. s \in SlotsOf(lg) /\ ValueOf(c) \in Value
    BY CouponFacts
  <2>2. ValueOf(c) <= r[s] \/ ValueOf(c) <= q[s]
    BY DEF Tops
  <2> HIDE DEF s
  <2>3. r[s] \in Value /\ q[s] \in Value
    BY <1>1, <2>1 DEF Regs
  <2>4. new[s] \in Value /\ r[s] <= new[s] /\ q[s] <= new[s]
    BY <1>2, <2>1
  <2>5. ValueOf(c) <= new[s]
    BY <2>1, <2>2, <2>3, <2>4, ValueFacts
  <2> QED BY <2>5 DEF s
<1>5. ASSUME NEW s \in SlotsOf(lg)
      PROVE  new[s] = 0 \/ \E c \in ps \cup bs : SlotOf(c, lg) = s /\ ValueOf(c) = new[s]
  <2>1. new[s] = r[s] \/ new[s] = q[s]
    BY <1>2
  <2> QED BY <2>1 DEF Tops
<1>6. Tops(new, ps \cup bs, lg)
  BY <1>3, <1>4, <1>5 DEF Tops
<1> QED BY <1>6 DEF new

LEMMA TopsFold ==
  ASSUME NEW lo \in Lgs, NEW hi \in Lgs, lo <= hi,
         NEW ps \in SUBSET AnyCoupon, NEW bs \in SUBSET AnyCoupon,
         NEW r, NEW q, Tops(r, ps, lo), Tops(q, bs, hi)
  PROVE  Tops(Folded(r, lo, q, hi), ps \cup bs, lo)
<1> DEFINE new == Folded(r, lo, q, hi)
           From(s) == {u \in SlotsOf(hi) : u % 2 ^ lo = s}
<1>1. r \in Regs(lo) /\ q \in Regs(hi) /\ DOMAIN r = SlotsOf(lo)
  BY DEF Tops, Regs
<1>2. ASSUME NEW s \in SlotsOf(lo)
      PROVE  /\ new[s] \in Value /\ (new[s] = r[s] \/ \E t \in From(s) : new[s] = q[t])
             /\ r[s] <= new[s] /\ \A t \in From(s) : q[t] <= new[s]
  <2> DEFINE S == {r[s]} \cup {q[t] : t \in From(s)}
  <2>1. S \in SUBSET Value /\ S # {}
    BY <1>1, <1>2 DEF Regs
  <2>2. new[s] = Max(S)
    BY <1>1, <1>2 DEF Folded
  <2>3. r[s] \in S /\ \A t \in From(s) : q[t] \in S
    OBVIOUS
  <2>4. \A x \in S : x = r[s] \/ \E t \in From(s) : x = q[t]
    OBVIOUS
  <2> HIDE DEF S, new, From
  <2>5. new[s] \in S /\ new[s] \in Value /\ \A x \in S : x <= new[s]
    BY <2>1, <2>2, MaxIn
  <2> QED BY <2>3, <2>4, <2>5
<1>3. new \in Regs(lo)
  BY <1>1, <1>2 DEF Regs, Folded
<1> HIDE DEF new
<1>4. ASSUME NEW c \in ps \cup bs PROVE ValueOf(c) <= new[SlotOf(c, lo)]
  <2> DEFINE s == SlotOf(c, lo)
             t == SlotOf(c, hi)
  <2>1. s \in SlotsOf(lo) /\ t \in SlotsOf(hi) /\ ValueOf(c) \in Value
    BY CouponFacts
  <2>2. t \in From(s)
    BY <2>1, SlotShrinks
  <2>3. ValueOf(c) <= r[s] \/ ValueOf(c) <= q[t]
    BY DEF Tops
  <2> HIDE DEF s, t
  <2>4. r[s] \in Value /\ q[t] \in Value
    BY <1>1, <2>1 DEF Regs
  <2>5. new[s] \in Value /\ r[s] <= new[s] /\ q[t] <= new[s]
    BY <1>2, <2>1, <2>2
  <2>6. ValueOf(c) <= new[s]
    BY <2>1, <2>3, <2>4, <2>5, ValueFacts
  <2> QED BY <2>6 DEF s
<1>5. ASSUME NEW s \in SlotsOf(lo)
      PROVE  new[s] = 0 \/ \E c \in ps \cup bs : SlotOf(c, lo) = s /\ ValueOf(c) = new[s]
  <2>1. CASE new[s] = r[s]
    BY <2>1 DEF Tops
  <2>2. CASE \E t \in From(s) : new[s] = q[t]
    <3>1. PICK t \in From(s) : new[s] = q[t]
      BY <2>2
    <3>2. q[t] = 0 \/ \E c \in bs : SlotOf(c, hi) = t /\ ValueOf(c) = q[t]
      BY DEF Tops
    <3> QED BY <3>1, <3>2, SlotShrinks
  <2> QED BY <1>2, <2>1, <2>2
<1>6. Tops(new, ps \cup bs, lo)
  BY <1>3, <1>4, <1>5 DEF Tops
<1> QED BY <1>6 DEF new

(* All registers are zero exactly when there was no coupon.                *)
LEMMA TopsZero ==
  ASSUME NEW lg \in Lgs, NEW cs \in SUBSET AnyCoupon, NEW r, Tops(r, cs, lg)
  PROVE  /\ DOMAIN r = SlotsOf(lg) /\ IsFiniteSet(Zeros(r))
         /\ Cardinality(Zeros(r)) \in Nat /\ Cardinality(Zeros(r)) <= 2 ^ lg
         /\ Cardinality(Zeros(r)) = 2 ^ lg <=> cs = {}
<1> DEFINE Z == Zeros(r)
<1>1. DOMAIN r = SlotsOf(lg) /\ Z \in SUBSET SlotsOf(lg)
  BY DEF Tops, Regs, Zeros
<1>2. /\ IsFiniteSet(Z) /\ Cardinality(Z) \in Nat /\ Cardinality(Z) <= 2 ^ lg
      /\ (Cardinality(Z) = 2 ^ lg => Z = SlotsOf(lg))
  <2>1. IsFiniteSet(SlotsOf(lg)) /\ Cardinality(SlotsOf(lg)) = 2 ^ lg
    BY SlotsFacts
  <2> HIDE DEF Z
  <2>2. /\ IsFiniteSet(Z) /\ Cardinality(Z) <= Cardinality(SlotsOf(lg))
        /\ Cardinality(Z) = Cardinality(SlotsOf(lg)) => Z = SlotsOf(lg)
    BY <1>1, <2>1, FS_Subset
  <2>3. Cardinality(Z) \in Nat
    BY <2>2, FS_CardinalityType
  <2> QED BY <2>1, <2>2, <2>3
<1>3. Z = SlotsOf(lg) => cs = {}
  <2> SUFFICES ASSUME Z = SlotsOf(lg), NEW c \in cs PROVE FALSE
    OBVIOUS
  <2>1. SlotOf(c, lg) \in SlotsOf(lg) /\ ValueOf(c) \in Value /\ ValueOf(c) # 0
    BY CouponFacts
  <2>2. r[SlotOf(c, lg)] = 0
    BY <2>1 DEF Zeros
  <2>3. ValueOf(c) <= 0
    BY <2>2 DEF Tops
  <2> QED BY <2>1, <2>3, ValueFacts
<1>4. cs = {} => Z = SlotsOf(lg)
  BY <1>1 DEF Tops, Zeros
<1>5. Cardinality(SlotsOf(lg)) = 2 ^ lg
  BY SlotsFacts
<1> QED BY <1>1, <1>2, <1>3, <1>4, <1>5

-------------------------------------------------------------------------------
(* The sums of the estimator, as registers change.                         *)
LEMMA TermFacts ==
  ASSUME NEW v \in Value
  PROVE  Kxq0Of(v) \in Nat /\ Kxq1Of(v) \in Nat
<1>1. InvPow2(v) \in Nat
  BY TermsAssumption DEF InvPow2, Value
<1> QED BY <1>1 DEF Kxq0Of, Kxq1Of

Terms(lg) == [SlotsOf(lg) -> Nat]

LEMMA SumFacts ==
  ASSUME NEW lg \in Lgs, NEW f \in Terms(lg)
  PROVE  /\ SumOf(f) \in Nat
         /\ \A c \in Nat : (\A s \in SlotsOf(lg) : f[s] = c) => SumOf(f) = 2 ^ lg * c
<1> DEFINE U == SlotsOf(lg)
<1>1. IsFiniteSet(U) /\ Cardinality(U) = 2 ^ lg
  BY SlotsFacts
<1>2. f \in [U -> Nat] /\ DOMAIN f = U
  BY DEF Terms
<1> HIDE DEF U
<1>3. PICK g : IsSum(U, f, g) /\ MapThenSumSet(LAMBDA x : f[x], U) = g[U]
  BY <1>1, <1>2, SumExists
<1>4. SumOf(f) = g[U]
  BY <1>2, <1>3 DEF SumOf
<1>5. g[U] \in Nat
  BY <1>3 DEF IsSum
<1>6. ASSUME NEW c \in Nat, \A s \in U : f[s] = c PROVE g[U] = Cardinality(U) * c
  BY <1>1, <1>2, <1>3, <1>6, SumOfEqual
<1> QED BY <1>1, <1>4, <1>5, <1>6 DEF U

LEMMA SumMoves ==
  ASSUME NEW lg \in Lgs, NEW f \in Terms(lg), NEW h \in Terms(lg), NEW s \in SlotsOf(lg),
         \A x \in SlotsOf(lg) \ {s} : h[x] = f[x]
  PROVE  SumOf(h) = SumOf(f) - f[s] + h[s]
<1> DEFINE U == SlotsOf(lg)
<1>1. IsFiniteSet(U) /\ s \in U /\ \A x \in U \ {s} : h[x] = f[x]
  BY SlotsFacts
<1>2. f \in [U -> Nat] /\ DOMAIN f = U /\ h \in [U -> Nat] /\ DOMAIN h = U
  BY DEF Terms
<1> HIDE DEF U
<1>3. PICK a : IsSum(U, f, a) /\ MapThenSumSet(LAMBDA x : f[x], U) = a[U]
  BY <1>1, <1>2, SumExists
<1>4. PICK b : IsSum(U, h, b) /\ MapThenSumSet(LAMBDA x : h[x], U) = b[U]
  BY <1>1, <1>2, SumExists
<1>5. SumOf(f) = a[U] /\ SumOf(h) = b[U]
  BY <1>2, <1>3, <1>4 DEF SumOf
<1>6. b[U] = a[U] - f[s] + h[s]
  BY <1>1, <1>2, <1>3, <1>4, SumOfChanged
<1> QED BY <1>5, <1>6

(* The terms of registers, and what of them a new value changes.           *)
Terms0(regs) == [s \in DOMAIN regs |-> Kxq0Of(regs[s])]
Terms1(regs) == [s \in DOMAIN regs |-> Kxq1Of(regs[s])]

LEMMA TermsOfRegs ==
  ASSUME NEW lg \in Lgs, NEW regs \in Regs(lg)
  PROVE  /\ Terms0(regs) \in Terms(lg) /\ Terms1(regs) \in Terms(lg)
         /\ Kxq0(regs) = SumOf(Terms0(regs)) /\ Kxq1(regs) = SumOf(Terms1(regs))
         /\ \A s \in SlotsOf(lg) : /\ Terms0(regs)[s] = Kxq0Of(regs[s])
                                   /\ Terms1(regs)[s] = Kxq1Of(regs[s])
<1>1. DOMAIN regs = SlotsOf(lg) /\ \A s \in SlotsOf(lg) : regs[s] \in Value
  BY DEF Regs
<1>2. \A s \in SlotsOf(lg) : Kxq0Of(regs[s]) \in Nat /\ Kxq1Of(regs[s]) \in Nat
  BY <1>1, TermFacts
<1>3. Terms0(regs) \in Terms(lg) /\ Terms1(regs) \in Terms(lg)
  BY <1>1, <1>2 DEF Terms, Terms0, Terms1
<1> QED BY <1>1, <1>3 DEF Terms0, Terms1, Kxq0, Kxq1

LEMMA KxqFacts ==
  ASSUME NEW lg \in Lgs, NEW regs \in Regs(lg)
  PROVE  Kxq0(regs) \in Nat /\ Kxq1(regs) \in Nat
BY TermsOfRegs, SumFacts

LEMMA KxqZero ==
  ASSUME NEW lg \in Lgs, NEW regs \in Regs(lg), \A s \in SlotsOf(lg) : regs[s] = 0
  PROVE  Kxq0(regs) = 2 ^ lg * InvPow2(0) /\ Kxq1(regs) = 0
<1>1. Kxq0Of(0) = InvPow2(0) /\ Kxq1Of(0) = 0 /\ 0 \in Value
  BY ModeAssumption DEF Kxq0Of, Kxq1Of, Value
<1>2. InvPow2(0) \in Nat
  BY <1>1, TermFacts
<1>3. /\ \A s \in SlotsOf(lg) : Terms0(regs)[s] = InvPow2(0)
      /\ \A s \in SlotsOf(lg) : Terms1(regs)[s] = 0
  BY <1>1, TermsOfRegs
<1>4. Terms0(regs) \in Terms(lg) /\ Terms1(regs) \in Terms(lg)
  BY TermsOfRegs
<1>5. SumOf(Terms0(regs)) = 2 ^ lg * InvPow2(0)
  BY <1>2, <1>3, <1>4, SumFacts
<1>6. SumOf(Terms1(regs)) = 2 ^ lg * 0
  BY <1>3, <1>4, SumFacts
<1>7. 2 ^ lg \in Nat
  BY LgFacts
<1>8. 2 ^ lg * 0 = 0
  BY <1>7
<1> QED BY <1>5, <1>6, <1>8, TermsOfRegs

LEMMA KxqMoves ==
  ASSUME NEW lg \in Lgs, NEW regs \in Regs(lg), NEW s \in SlotsOf(lg), NEW v \in Value,
         NEW new, new = [regs EXCEPT ![s] = v]
  PROVE  /\ Kxq0(new) = Kxq0(regs) - Kxq0Of(regs[s]) + Kxq0Of(v)
         /\ Kxq1(new) = Kxq1(regs) - Kxq1Of(regs[s]) + Kxq1Of(v)
<1>1. new \in Regs(lg) /\ new[s] = v /\ \A x \in SlotsOf(lg) \ {s} : new[x] = regs[x]
  BY DEF Regs
<1>2. /\ Terms0(regs) \in Terms(lg) /\ Terms1(regs) \in Terms(lg)
      /\ Terms0(new) \in Terms(lg) /\ Terms1(new) \in Terms(lg)
  BY <1>1, TermsOfRegs
<1>3. ASSUME NEW x \in SlotsOf(lg) \ {s}
      PROVE  Terms0(new)[x] = Terms0(regs)[x] /\ Terms1(new)[x] = Terms1(regs)[x]
  <2>1. Terms0(new)[x] = Kxq0Of(new[x]) /\ Terms1(new)[x] = Kxq1Of(new[x])
    BY <1>1, TermsOfRegs
  <2>2. Terms0(regs)[x] = Kxq0Of(regs[x]) /\ Terms1(regs)[x] = Kxq1Of(regs[x])
    BY TermsOfRegs
  <2> QED BY <1>1, <2>1, <2>2
<1>4. /\ Terms0(regs)[s] = Kxq0Of(regs[s]) /\ Terms0(new)[s] = Kxq0Of(v)
      /\ Terms1(regs)[s] = Kxq1Of(regs[s]) /\ Terms1(new)[s] = Kxq1Of(v)
  <2>1. Terms0(regs)[s] = Kxq0Of(regs[s]) /\ Terms1(regs)[s] = Kxq1Of(regs[s])
    BY TermsOfRegs
  <2>2. Terms0(new)[s] = Kxq0Of(new[s]) /\ Terms1(new)[s] = Kxq1Of(new[s])
    BY <1>1, TermsOfRegs
  <2> QED BY <1>1, <2>1, <2>2
<1>5. /\ Kxq0(regs) = SumOf(Terms0(regs)) /\ Kxq1(regs) = SumOf(Terms1(regs))
      /\ Kxq0(new) = SumOf(Terms0(new)) /\ Kxq1(new) = SumOf(Terms1(new))
  BY <1>1, TermsOfRegs
<1>6. SumOf(Terms0(new)) = SumOf(Terms0(regs)) - Terms0(regs)[s] + Terms0(new)[s]
  BY <1>2, <1>3, SumMoves
<1>7. SumOf(Terms1(new)) = SumOf(Terms1(regs)) - Terms1(regs)[s] + Terms1(new)[s]
  BY <1>2, <1>3, SumMoves
<1> QED BY <1>4, <1>5, <1>6, <1>7

(* The count of zero registers, as a register takes a value.               *)
LEMMA ZerosMove ==
  ASSUME NEW lg \in Lgs, NEW regs \in Regs(lg), NEW s \in SlotsOf(lg), NEW v \in Value, v # 0,
         NEW new, new = [regs EXCEPT ![s] = v]
  PROVE  Cardinality(Zeros(new)) = IF regs[s] = 0 THEN Cardinality(Zeros(regs)) - 1
                                   ELSE Cardinality(Zeros(regs))
<1> DEFINE Z == Zeros(regs)
<1>1. Zeros(new) = Z \ {s} /\ (s \in Z <=> regs[s] = 0)
  BY DEF Zeros, Regs
<1>2. Z \in SUBSET SlotsOf(lg) /\ IsFiniteSet(SlotsOf(lg))
  BY SlotsFacts DEF Zeros, Regs
<1> HIDE DEF Z
<1>3. IsFiniteSet(Z)
  BY <1>2, FS_Subset
<1>4. s \in Z => Cardinality(Z \ {s}) = Cardinality(Z) - 1
  BY <1>3, FS_RemoveElement
<1>5. s \notin Z => Z \ {s} = Z
  OBVIOUS
<1> QED BY <1>1, <1>4, <1>5 DEF Z

-------------------------------------------------------------------------------
(* Arrays that hold the largest values of some coupons.                    *)
RegSet(lg, type) == IF type = "Hll6" THEN BytesOf(2 ^ lg) ELSE Regs(lg)

Arrays(lg, type) ==
  [lg_k : {lg}, type : {type}, mode : {"Array"}, coupons : {{}}, lg_size : {0},
   regs : RegSet(lg, type), num_zeros : Nat, ooo : BOOLEAN, hip : BOOLEAN,
   kxq0 : Nat, kxq1 : Nat]

Counted(a) ==
  /\ a.num_zeros = Cardinality(Zeros(Registers(a)))
  /\ a.kxq0 = Kxq0(Registers(a)) /\ a.kxq1 = Kxq1(Registers(a))

ArrOK(a, lg, type, cs) ==
  a \in Arrays(lg, type) /\ Tops(Registers(a), cs, lg) /\ Counted(a)

(* What get reads in every slot, and what put stores.                      *)
Read(type, r, s) == IF type = "Hll6" THEN GetRaw(r, s) ELSE r[s]
ReadAll(lg, type, r) == [s \in SlotsOf(lg) |-> Read(type, r, s)]
Stored(type, r, s, v) == IF type = "Hll6" THEN PutRaw(r, s, v) ELSE [r EXCEPT ![s] = v]

LEMMA ReadStored ==
  ASSUME NEW lg \in Lgs, NEW type, NEW r \in RegSet(lg, type),
         NEW s \in SlotsOf(lg), NEW v \in Value
  PROVE  /\ Stored(type, r, s, v) \in RegSet(lg, type)
         /\ ReadAll(lg, type, Stored(type, r, s, v)) = [ReadAll(lg, type, r) EXCEPT ![s] = v]
<1> DEFINE new == Stored(type, r, s, v)
<1>1. CASE type = "Hll6"
  <2> DEFINE m == 2 ^ (lg - 1)
  <2>1. m \in Nat /\ 2 ^ lg = 2 * m
    BY LgFacts
  <2> HIDE DEF m
  <2>2. v \in Six
    <3>1. 2 ^ ValueBits - 1 = 63
      BY Widths DEF ValueBits
    <3>2. MaxRegister \in 0 .. 63
      BY <3>1, ModeAssumption
    <3> QED BY <3>2 DEF Value, Six
  <2>3. SlotsOf(lg) = 0 .. 2 * m - 1 /\ r \in BytesOf(2 * m)
    BY <1>1, <2>1 DEF SlotsOf, RegSet
  <2>4. s \in 0 .. 2 * m - 1
    BY <2>3
  <2>5. \A t \in 0 .. 2 * m - 1 :
          /\ PutRaw(r, s, v) \in BytesOf(2 * m)
          /\ GetRaw(PutRaw(r, s, v), t) = IF t = s THEN v ELSE GetRaw(r, t)
    BY <2>1, <2>2, <2>3, <2>4, GetPut
  <2>6. new = PutRaw(r, s, v)
    BY <1>1 DEF Stored
  <2> HIDE DEF new
  <2>7. new \in BytesOf(2 * m) /\ \A t \in SlotsOf(lg) : GetRaw(new, t) = IF t = s THEN v ELSE GetRaw(r, t)
    BY <2>3, <2>4, <2>5, <2>6
  <2>8. new \in RegSet(lg, type)
    BY <1>1, <2>1, <2>7 DEF RegSet
  <2>9. ReadAll(lg, type, new) = [ReadAll(lg, type, r) EXCEPT ![s] = v]
    BY <1>1, <2>7 DEF ReadAll, Read
  <2> QED BY <2>8, <2>9 DEF new
<1>2. CASE type # "Hll6"
  <2>1. r \in Regs(lg) /\ new = [r EXCEPT ![s] = v]
    BY <1>2 DEF RegSet, Stored
  <2>2. new \in Regs(lg) /\ \A t \in SlotsOf(lg) : new[t] = IF t = s THEN v ELSE r[t]
    BY <2>1 DEF Regs
  <2> HIDE DEF new
  <2>3. new \in RegSet(lg, type)
    BY <1>2, <2>2 DEF RegSet
  <2>4. ReadAll(lg, type, new) = [ReadAll(lg, type, r) EXCEPT ![s] = v]
    BY <1>2, <2>2 DEF ReadAll, Read
  <2> QED BY <2>3, <2>4 DEF new
<1> QED BY <1>1, <1>2

LEMMA ArrayFacts ==
  ASSUME NEW lg \in Lgs, NEW type, NEW a \in Arrays(lg, type)
  PROVE  /\ a.lg_k = lg /\ a.type = type /\ IsArray(a) /\ a.regs \in RegSet(lg, type)
         /\ Slots(a) = SlotsOf(lg) /\ Registers(a) = ReadAll(lg, type, a.regs)
         /\ \A s \in SlotsOf(lg) : Get(a, s) = Registers(a)[s]
<1>1. a.lg_k = lg /\ a.type = type /\ IsArray(a) /\ a.regs \in RegSet(lg, type)
  BY DEF Arrays, IsArray
<1>2. Slots(a) = SlotsOf(lg)
  BY <1>1 DEF Slots, SlotsOf, NumRegisters
<1>3. \A s : Get(a, s) = Read(type, a.regs, s)
  BY <1>1 DEF Get, Read
<1>4. Registers(a) = ReadAll(lg, type, a.regs)
  BY <1>2, <1>3 DEF Registers, ReadAll
<1>5. \A s \in SlotsOf(lg) : Get(a, s) = Registers(a)[s]
  BY <1>2 DEF Registers
<1> QED BY <1>1, <1>2, <1>4, <1>5

(* The flags of an update are those of the array.                          *)
SameFlags(a, b) == a.ooo = b.ooo /\ a.hip = b.hip

LEMMA UpdateArrayOK ==
  ASSUME NEW lg \in Lgs, NEW type, NEW cs \in SUBSET AnyCoupon, NEW a, ArrOK(a, lg, type, cs),
         NEW c \in AnyCoupon
  PROVE  /\ ArrOK(UpdateArray(a, c), lg, type, cs \cup {c})
         /\ SameFlags(UpdateArray(a, c), a)
<1> DEFINE regs == Registers(a)
           s == SlotOf(c, lg)
           v == ValueOf(c)
           old == regs[s]
<1>1. a \in Arrays(lg, type) /\ Tops(regs, cs, lg) /\ Counted(a) /\ regs \in Regs(lg)
  BY DEF ArrOK, Tops
<1>2. /\ s \in SlotsOf(lg) /\ v \in Value /\ v # 0 /\ old \in Value
      /\ v <= old => Tops(regs, cs \cup {c}, lg)
      /\ ~(v <= old) => Tops([regs EXCEPT ![s] = v], cs \cup {c}, lg)
  <2> HIDE DEF regs
  <2> QED BY <1>1, TopsAdd, CouponFacts
<1>3. /\ a.lg_k = lg /\ a.type = type /\ a.regs \in RegSet(lg, type)
      /\ regs = ReadAll(lg, type, a.regs) /\ Get(a, s) = old
  BY <1>1, <1>2, ArrayFacts
<1>4. CASE v <= old
  <2>1. UpdateArray(a, c) = a
    BY <1>3, <1>4 DEF UpdateArray
  <2>2. ArrOK(a, lg, type, cs \cup {c})
    BY <1>1, <1>2, <1>4 DEF ArrOK
  <2> QED BY <2>1, <2>2 DEF SameFlags
<1>5. CASE ~(v <= old)
  <2> DEFINE new == [regs EXCEPT ![s] = v]
             z == IF old = 0 THEN a.num_zeros - 1 ELSE a.num_zeros
             b == [a EXCEPT !.regs = Stored(type, a.regs, s, v), !.num_zeros = z,
                            !.kxq0 = @ - Kxq0Of(old) + Kxq0Of(v),
                            !.kxq1 = @ - Kxq1Of(old) + Kxq1Of(v)]
  <2>1. UpdateArray(a, c) = b
    <3> DEFINE k == UpdateKxq(a, old, v)
    <3>1. k = [a EXCEPT !.kxq0 = @ - Kxq0Of(old) + Kxq0Of(v), !.kxq1 = @ - Kxq1Of(old) + Kxq1Of(v)]
      BY DEF UpdateKxq
    <3>2. Put(k, s, v) = [k EXCEPT !.regs = Stored(type, a.regs, s, v)]
      <4>1. k.type = type /\ k.regs = a.regs
        BY <1>1, <1>3, <3>1 DEF Arrays
      <4> HIDE DEF k
      <4> QED BY <4>1 DEF Put, Stored
    <3>3. UpdateArray(a, c) = [Put(k, s, v) EXCEPT !.num_zeros = IF old = 0 THEN @ - 1 ELSE @]
      BY <1>3, <1>5 DEF UpdateArray
    <3> HIDE DEF k, s, v, old, regs
    <3> QED BY <1>1, <3>1, <3>2, <3>3 DEF Arrays
  <2>2. /\ Stored(type, a.regs, s, v) \in RegSet(lg, type)
        /\ ReadAll(lg, type, Stored(type, a.regs, s, v)) = new
    <3> HIDE DEF s, v, regs
    <3> QED BY <1>2, <1>3, ReadStored
  <2>3. Tops(new, cs \cup {c}, lg)
    BY <1>2, <1>5
  <2>4. /\ Kxq0(new) = a.kxq0 - Kxq0Of(old) + Kxq0Of(v)
        /\ Kxq1(new) = a.kxq1 - Kxq1Of(old) + Kxq1Of(v)
        /\ Cardinality(Zeros(new)) = z
    <3>1. a.kxq0 = Kxq0(regs) /\ a.kxq1 = Kxq1(regs) /\ a.num_zeros = Cardinality(Zeros(regs))
      BY <1>1 DEF Counted
    <3> HIDE DEF s, v, regs
    <3> QED BY <1>1, <1>2, <3>1, KxqMoves, ZerosMove
  <2>5. Kxq0(new) \in Nat /\ Kxq1(new) \in Nat /\ Cardinality(Zeros(new)) \in Nat
    <3>1. new \in Regs(lg) /\ cs \cup {c} \in SUBSET AnyCoupon
      BY <2>3 DEF Tops
    <3> HIDE DEF new
    <3> QED BY <2>3, <3>1, KxqFacts, TopsZero
  <2>6. b \in Arrays(lg, type)
    <3> HIDE DEF s, v, regs, new, z
    <3> QED BY <1>1, <2>2, <2>4, <2>5 DEF Arrays
  <2>7. /\ b.regs = Stored(type, a.regs, s, v) /\ b.num_zeros = Cardinality(Zeros(new))
        /\ b.kxq0 = Kxq0(new) /\ b.kxq1 = Kxq1(new) /\ SameFlags(b, a)
    <3> HIDE DEF s, v, regs, new, z
    <3> QED BY <1>1, <2>4 DEF Arrays, SameFlags
  <2> HIDE DEF b, new
  <2>8. Registers(b) = new
    BY <2>2, <2>6, <2>7, ArrayFacts
  <2>9. ArrOK(b, lg, type, cs \cup {c})
    BY <2>3, <2>6, <2>7, <2>8 DEF ArrOK, Counted
  <2> QED BY <2>1, <2>7, <2>9
<1> QED BY <1>4, <1>5

LEMMA NewArrayOK ==
  ASSUME NEW lg \in Lgs, NEW type \in Types
  PROVE  /\ ArrOK(NewArray(lg, type), lg, type, {})
         /\ NewArray(lg, type).ooo = FALSE /\ NewArray(lg, type).hip = TRUE
<1> DEFINE n == 2 ^ lg
           r == NewRegisters(lg, type)
           a == [lg_k |-> lg, type |-> type, mode |-> "Array", coupons |-> {},
                 lg_size |-> 0, regs |-> r, num_zeros |-> n,
                 ooo |-> FALSE, hip |-> TRUE, kxq0 |-> n * InvPow2(0), kxq1 |-> 0]
           zero == [s \in SlotsOf(lg) |-> 0]
<1>0. NumRegisters(lg) = n
  BY DEF NumRegisters
<1>1. NewArray(lg, type) = a
  <2> DEFINE k == n * InvPow2(0)
  <2> HIDE DEF n, r, k
  <2>1. NumRegisters(lg) * InvPow2(0) = k
    BY <1>0 DEF k
  <2> DEFINE Only == [lg_k : {lg}, type : {type}, mode : {"Array"}, coupons : {{}},
                      lg_size : {0}, regs : {r}, num_zeros : {n},
                      ooo : {FALSE}, hip : {TRUE}, kxq0 : {k}, kxq1 : {0}]
             new == NewArray(lg, type)
  <2>2. new \in Only
    BY <1>0, <2>1 DEF NewArray, NewSketch, r
  <2> HIDE DEF new
  <2>3. new = [lg_k |-> lg, type |-> type, mode |-> "Array", coupons |-> {},
               lg_size |-> 0, regs |-> r, num_zeros |-> n,
               ooo |-> FALSE, hip |-> TRUE, kxq0 |-> k, kxq1 |-> 0]
    BY <2>2
  <2> QED BY <2>3 DEF k, new
<1>2. r \in RegSet(lg, type) /\ ReadAll(lg, type, r) = zero
  <2>1. CASE type = "Hll6"
    <3> DEFINE m == 2 ^ (lg - 1)
    <3>1. m \in Nat /\ 2 ^ lg = 2 * m
      BY LgFacts
    <3> HIDE DEF m
    <3>2. r = [i \in 0 .. NumBytes(2 * m) - 1 |-> 0] /\ SlotsOf(lg) = 0 .. 2 * m - 1
      BY <2>1, <3>1 DEF NewRegisters, NumRegisters, SlotsOf
    <3> HIDE DEF r
    <3>3. r \in BytesOf(2 * m)
      BY <3>2 DEF BytesOf, Byte
    <3>4. ASSUME NEW s \in SlotsOf(lg) PROVE GetRaw(r, s) = 0
      <4>1. s \in 0 .. 2 * m - 1 /\ s \in Nat
        BY <3>2, SlotsFacts
      <4>2. /\ ByteOf(s) \in 0 .. NumBytes(2 * m) - 1
            /\ ByteOf(s) + 1 \in 0 .. NumBytes(2 * m) - 1
        BY <3>1, <4>1, WindowInside
      <4>3. Window(r, s) = 0
        <5>1. r[ByteOf(s)] = 0 /\ r[ByteOf(s) + 1] = 0
          BY <3>2, <4>2
        <5> DEFINE p == 2 ^ ByteBits
        <5>2. p = 256
          BY Widths DEF ByteBits
        <5> HIDE DEF p
        <5>3. Window(r, s) = 0 + 0 * p
          BY <5>1 DEF Window, p
        <5> QED BY <5>2, <5>3
      <4>4. 2 ^ ShiftOf(s) \in {1, 4, 16, 64}
        BY <4>1, ShiftFacts
      <4>5. 0 \div 2 ^ ShiftOf(s) = 0
        BY <4>4
      <4> QED BY <4>3, <4>5, Widths DEF GetRaw, ValueBits
    <3>5. r \in RegSet(lg, type)
      BY <2>1, <3>1, <3>3 DEF RegSet
    <3> QED BY <2>1, <3>4, <3>5 DEF ReadAll, Read
  <2>2. CASE type # "Hll6"
    <3>1. r = zero
      BY <2>2 DEF NewRegisters, NumRegisters, SlotsOf
    <3>2. zero \in Regs(lg)
      BY TopsEmpty DEF Tops
    <3> QED BY <2>2, <3>1, <3>2 DEF RegSet, ReadAll, Read
  <2> QED BY <2>1, <2>2
<1>3. Tops(zero, {}, lg) /\ zero \in Regs(lg) /\ \A s \in SlotsOf(lg) : zero[s] = 0
  BY TopsEmpty DEF Tops
<1> HIDE DEF zero
<1>4. Kxq0(zero) = n * InvPow2(0) /\ Kxq1(zero) = 0 /\ Kxq0(zero) \in Nat
  BY <1>3, KxqZero, KxqFacts
<1>5. Cardinality(Zeros(zero)) = n /\ n \in Nat
  <2>1. {} \in SUBSET AnyCoupon
    OBVIOUS
  <2> QED BY <1>3, <2>1, TopsZero, LgFacts
<1>6. a \in Arrays(lg, type) /\ a.regs = r
  <2> HIDE DEF r, n
  <2> QED BY <1>2, <1>4, <1>5 DEF Arrays
<1>7. a.num_zeros = n /\ a.kxq0 = n * InvPow2(0) /\ a.kxq1 = 0
  OBVIOUS
<1> HIDE DEF a, n
<1>8. Registers(a) = zero
  BY <1>2, <1>6, ArrayFacts
<1>9. ArrOK(a, lg, type, {})
  BY <1>3, <1>4, <1>5, <1>6, <1>7, <1>8 DEF ArrOK, Counted
<1> QED BY <1>1, <1>9 DEF a

(* A sequence of updates, in the order in which the fold makes them.       *)
LEMMA UpdateAllOK ==
  ASSUME NEW lg \in Lgs, NEW type, NEW cs \in SUBSET AnyCoupon, NEW a, ArrOK(a, lg, type, cs),
         NEW ds \in SUBSET AnyCoupon, IsFiniteSet(ds)
  PROVE  /\ ArrOK(UpdateArrayAll(a, ds), lg, type, cs \cup ds)
         /\ SameFlags(UpdateArrayAll(a, ds), a)
<1> DEFINE A == {b \in Arrays(lg, type) : \E es \in SUBSET AnyCoupon : ArrOK(b, lg, type, es)}
           step == [c \in ds |-> [b \in A |-> UpdateArray(b, c)]]
           Iter(g) == g = [S \in SUBSET ds |->
                             IF S = {} THEN a ELSE UpdateArray(g[S \ {First(S)}], First(S))]
           iter == CHOOSE g : Iter(g)
<1>1. UpdateArrayAll(a, ds) = iter[ds]
  BY DEF UpdateArrayAll, FoldSet, MapThenFoldSet, First
<1>2. \A S \in SUBSET ds : S # {} => First(S) \in S
  BY DEF First
<1>3. a \in A
  BY DEF ArrOK
<1>4. step \in [ds -> [A -> A]]
  <2>1. ASSUME NEW c \in ds, NEW b \in A PROVE UpdateArray(b, c) \in A
    <3>1. PICK es \in SUBSET AnyCoupon : ArrOK(b, lg, type, es)
      OBVIOUS
    <3>2. ArrOK(UpdateArray(b, c), lg, type, es \cup {c})
      BY <3>1, UpdateArrayOK
    <3>3. es \cup {c} \in SUBSET AnyCoupon
      OBVIOUS
    <3> QED BY <3>2, <3>3 DEF ArrOK
  <2> HIDE DEF A
  <2> QED BY <2>1
<1>5. \E g : Iter(g)
  <2>1. SetRecursive(ds, A, a, step)
    <3> HIDE DEF A, step
    <3> QED BY <1>3, <1>4, SetRecursion
  <2>2. PICK g \in [SUBSET ds -> A] :
          /\ g[{}] = a
          /\ \A S \in SUBSET ds : S # {} => g[S] = step[First(S)][g[S \ {First(S)}]]
    <3> HIDE DEF A, step
    <3> QED BY <2>1 DEF SetRecursive
  <2>3. ASSUME NEW S \in SUBSET ds, S # {}
        PROVE  g[S] = UpdateArray(g[S \ {First(S)}], First(S))
    <3>1. First(S) \in ds /\ S \ {First(S)} \in SUBSET ds
      BY <1>2, <2>3
    <3>2. g[S \ {First(S)}] \in A
      <4> HIDE DEF A
      <4> QED BY <3>1
    <3> HIDE DEF A
    <3> QED BY <2>2, <2>3, <3>1, <3>2
  <2>4. g = [S \in SUBSET ds |->
               IF S = {} THEN a ELSE UpdateArray(g[S \ {First(S)}], First(S))]
    <3>1. g = [S \in SUBSET ds |-> g[S]]
      <4> HIDE DEF A
      <4> QED OBVIOUS
    <3>2. \A S \in SUBSET ds :
            g[S] = IF S = {} THEN a ELSE UpdateArray(g[S \ {First(S)}], First(S))
      BY <2>2, <2>3
    <3> HIDE DEF A
    <3> QED BY <3>1, <3>2
  <2> QED BY <2>4
<1>6. iter = [S \in SUBSET ds |->
                IF S = {} THEN a ELSE UpdateArray(iter[S \ {First(S)}], First(S))]
  <2>1. Iter(iter)
    <3> HIDE DEF Iter
    <3> QED BY <1>5, Zenon
  <2> QED BY <2>1
<1> HIDE DEF iter
<1>7. /\ iter[{}] = a
      /\ \A S \in SUBSET ds : S # {} => iter[S] = UpdateArray(iter[S \ {First(S)}], First(S))
  BY <1>6
<1> DEFINE P == {S \in SUBSET ds : ArrOK(iter[S], lg, type, cs \cup S) /\ SameFlags(iter[S], a)}
<1>8. {} \in P
  BY <1>7 DEF SameFlags
<1>9. ASSUME NEW S \in SUBSET ds, S # {}, \A x \in S : S \ {x} \in P PROVE S \in P
  <2> DEFINE x == First(S)
             R == S \ {x}
             b == iter[R]
  <2>1. x \in S /\ x \in AnyCoupon
    BY <1>2, <1>9
  <2>2. ArrOK(b, lg, type, cs \cup R) /\ SameFlags(b, a)
    BY <1>9, <2>1
  <2>3. cs \cup R \in SUBSET AnyCoupon /\ (cs \cup R) \cup {x} = cs \cup S
    BY <2>1
  <2>4. iter[S] = UpdateArray(b, x)
    BY <1>7, <1>9
  <2> HIDE DEF x, R, b
  <2>5. ArrOK(UpdateArray(b, x), lg, type, (cs \cup R) \cup {x}) /\ SameFlags(UpdateArray(b, x), b)
    BY <2>1, <2>2, <2>3, UpdateArrayOK
  <2>6. ArrOK(iter[S], lg, type, cs \cup S) /\ SameFlags(iter[S], a)
    BY <2>2, <2>3, <2>4, <2>5 DEF SameFlags
  <2> QED BY <2>6
<1>10. P \in SUBSET SUBSET ds
  OBVIOUS
<1>11. P = SUBSET ds
  <2> HIDE DEF P
  <2> QED BY <1>8, <1>9, <1>10, SubsetInduction
<1>12. ds \in P
  BY <1>11
<1> QED BY <1>1, <1>12

-------------------------------------------------------------------------------
(* Sketches in every mode that have been offered some coupons.             *)
Containers(lg, type, mode) ==
  [lg_k : {lg}, type : {type}, mode : {mode}, coupons : SUBSET AnyCoupon, lg_size : Nat,
   regs : {NoRegisters}, num_zeros : {0}, ooo : {FALSE}, hip : {TRUE}, kxq0 : {0}, kxq1 : {0}]

Held(sk, lg, type, mode, cs) ==
  sk \in Containers(lg, type, mode) /\ sk.coupons = cs /\ IsFiniteSet(cs)

ListOK(sk, lg, type, cs) ==
  /\ Held(sk, lg, type, "List", cs)
  /\ sk.lg_size = 0 /\ Cardinality(cs) < ListCapacity

(* A set has two places at least, so that after doubling it a coupon more  *)
(* fits.                                                                   *)
SetOK(sk, lg, type, cs) ==
  /\ Held(sk, lg, type, "Set", cs)
  /\ sk.lg_size \in LgInitSet .. lg - SetMargin
  /\ 4 * Cardinality(cs) <= 3 * 2 ^ sk.lg_size /\ 2 <= 2 ^ sk.lg_size

SkOK(sk, lg, type, cs) ==
  /\ cs \in SUBSET AnyCoupon
  /\ \/ ListOK(sk, lg, type, cs)
     \/ SetOK(sk, lg, type, cs)
     \/ ArrOK(sk, lg, type, cs) /\ cs # {}

LEMMA HeldFacts ==
  ASSUME NEW lg, NEW type, NEW mode, NEW cs, NEW sk, Held(sk, lg, type, mode, cs)
  PROVE  cs \in SUBSET AnyCoupon /\ IsFiniteSet(cs) /\ Cardinality(cs) \in Nat
<1>1. IsFiniteSet(cs)
  BY DEF Held
<1>2. Cardinality(cs) \in Nat
  BY <1>1, FS_CardinalityType
<1> QED BY <1>1, <1>2 DEF Held, Containers

LEMMA WithCouponFacts ==
  ASSUME NEW lg, NEW type, NEW mode, NEW cs, NEW sk, Held(sk, lg, type, mode, cs),
         NEW c \in AnyCoupon
  PROVE  /\ Held(WithCoupon(sk, c), lg, type, mode, cs \cup {c})
         /\ WithCoupon(sk, c).lg_size = sk.lg_size /\ SameFlags(WithCoupon(sk, c), sk)
         /\ Cardinality(cs \cup {c}) \in Nat
         /\ Cardinality(cs \cup {c}) <= Cardinality(cs) + 1
<1>1. IsFiniteSet(cs) /\ Cardinality(cs) \in Nat /\ cs \in SUBSET AnyCoupon
  BY HeldFacts
<1>2. /\ IsFiniteSet(cs \cup {c})
      /\ Cardinality(cs \cup {c}) = IF c \in cs THEN Cardinality(cs) ELSE Cardinality(cs) + 1
  BY <1>1, FS_AddElement
<1>3. /\ Cardinality(cs \cup {c}) \in Nat
      /\ Cardinality(cs \cup {c}) <= Cardinality(cs) + 1
  BY <1>1, <1>2
<1>4. cs \cup {c} \in SUBSET AnyCoupon
  BY <1>1
<1> DEFINE ds == cs \cup {c}
<1> HIDE DEF ds
<1>5. WithCoupon(sk, c) = [sk EXCEPT !.coupons = ds]
  BY DEF WithCoupon, Held, ds
<1>6. ds \in SUBSET AnyCoupon /\ IsFiniteSet(ds)
  BY <1>2, <1>4 DEF ds
<1>7. /\ Held([sk EXCEPT !.coupons = ds], lg, type, mode, ds)
      /\ [sk EXCEPT !.coupons = ds].lg_size = sk.lg_size
      /\ SameFlags([sk EXCEPT !.coupons = ds], sk)
  BY <1>6 DEF Held, Containers, SameFlags
<1> QED BY <1>3, <1>5, <1>7 DEF ds

LEMMA PromoteOK ==
  ASSUME NEW lg \in Lgs, NEW type \in Types, NEW mode, NEW cs, NEW sk,
         Held(sk, lg, type, mode, cs)
  PROVE  /\ ArrOK(PromoteToArray(sk), lg, type, cs)
         /\ SameFlags(PromoteToArray(sk), sk)
<1> DEFINE new == NewArray(lg, type)
           all == UpdateArrayAll(new, cs)
<1>1. /\ sk.lg_k = lg /\ sk.type = type /\ sk.coupons = cs /\ sk.ooo = FALSE /\ sk.hip = TRUE
      /\ cs \in SUBSET AnyCoupon /\ IsFiniteSet(cs)
  BY DEF Held, Containers
<1>2. ArrOK(new, lg, type, {}) /\ new.ooo = FALSE /\ new.hip = TRUE /\ {} \in SUBSET AnyCoupon
  BY NewArrayOK
<1>3. PromoteToArray(sk) = [all EXCEPT !.hip = TRUE]
  BY <1>1 DEF PromoteToArray
<1> HIDE DEF new
<1>4. ArrOK(all, lg, type, {} \cup cs) /\ SameFlags(all, new)
  BY <1>1, <1>2, UpdateAllOK
<1>5. ArrOK(all, lg, type, cs) /\ all.ooo = FALSE /\ all.hip = TRUE
  BY <1>2, <1>4 DEF SameFlags
<1> HIDE DEF all
<1>6. [all EXCEPT !.hip = TRUE] = all
  BY <1>5 DEF ArrOK, Arrays
<1> QED BY <1>1, <1>3, <1>5, <1>6 DEF SameFlags

LEMMA UpdateListOK ==
  ASSUME NEW lg \in Lgs, NEW type \in Types, NEW cs, NEW sk, ListOK(sk, lg, type, cs),
         NEW c \in AnyCoupon
  PROVE  SkOK(UpdateList(sk, c), lg, type, cs \cup {c}) /\ SameFlags(UpdateList(sk, c), sk)
<1> DEFINE ds == cs \cup {c}
           l == WithCoupon(sk, c)
<1>1. Held(sk, lg, type, "List", cs) /\ sk.lg_size = 0 /\ Cardinality(cs) < ListCapacity
  BY DEF ListOK
<1>2. sk.lg_k = lg /\ sk.coupons = cs /\ Cardinality(cs) \in Nat
  BY <1>1, HeldFacts DEF Held, Containers
<1>3. /\ Held(l, lg, type, "List", ds) /\ l.lg_size = 0 /\ SameFlags(l, sk)
      /\ Cardinality(ds) \in Nat /\ Cardinality(ds) <= Cardinality(cs) + 1
  BY <1>1, WithCouponFacts
<1>4. l.coupons = ds /\ ds \in SUBSET AnyCoupon /\ ds # {}
  BY <1>3 DEF Held, Containers
<1>5. UpdateList(sk, c) =
        IF Cardinality(l.coupons) < ListCapacity THEN l
        ELSE IF lg < LgDirect THEN PromoteToArray(l) ELSE PromoteToSet(l)
  BY <1>1, <1>2 DEF UpdateList
<1> HIDE DEF l, ds
<1>6. CASE Cardinality(ds) < ListCapacity
  <2>1. UpdateList(sk, c) = l
    BY <1>4, <1>5, <1>6
  <2>2. ListOK(l, lg, type, ds)
    BY <1>3, <1>6 DEF ListOK
  <2>3. SkOK(l, lg, type, ds)
    BY <1>4, <2>2 DEF SkOK
  <2> QED BY <1>3, <2>1, <2>3 DEF ds
<1>7. CASE ~(Cardinality(ds) < ListCapacity) /\ lg < LgDirect
  <2>1. UpdateList(sk, c) = PromoteToArray(l)
    BY <1>4, <1>5, <1>7
  <2>2. ArrOK(PromoteToArray(l), lg, type, ds) /\ SameFlags(PromoteToArray(l), l)
    BY <1>3, PromoteOK
  <2>3. SkOK(PromoteToArray(l), lg, type, ds)
    BY <1>4, <2>2 DEF SkOK
  <2> QED BY <1>3, <2>1, <2>2, <2>3 DEF ds, SameFlags
<1>8. CASE ~(Cardinality(ds) < ListCapacity) /\ ~(lg < LgDirect)
  <2> DEFINE new == [l EXCEPT !.mode = "Set", !.lg_size = LgInitSet]
             P == 2 ^ LgInitSet
  <2>1. UpdateList(sk, c) = new
    BY <1>4, <1>5, <1>8 DEF PromoteToSet
  <2>2. lg \in Nat
    BY LgFacts
  <2>3. /\ LgInitSet \in 0 .. lg /\ LgInitSet \in LgInitSet .. lg - SetMargin
        /\ LgInitSet \in Nat /\ ListCapacity \in Nat \ {0} /\ 4 * ListCapacity <= 3 * P
    BY <1>8, <2>2, ModeAssumption
  <2>4. P \in Nat \ {0}
    BY <2>3, PowersOfTwoForRegisters
  <2> HIDE DEF P
  <2>5. Cardinality(ds) <= ListCapacity
    BY <1>1, <1>2, <1>3, <2>3
  <2>6. 4 * Cardinality(ds) <= 3 * P /\ 2 <= P
    BY <1>3, <2>3, <2>4, <2>5
  <2>7. Held(new, lg, type, "Set", ds) /\ new.lg_size = LgInitSet /\ SameFlags(new, l)
    BY <1>3, <2>3 DEF Held, Containers, SameFlags
  <2> HIDE DEF new
  <2>8. SetOK(new, lg, type, ds)
    BY <2>3, <2>6, <2>7 DEF SetOK, P
  <2>9. SkOK(new, lg, type, ds)
    BY <1>4, <2>8 DEF SkOK
  <2> QED BY <1>3, <2>1, <2>7, <2>9 DEF ds, SameFlags
<1> QED BY <1>6, <1>7, <1>8

LEMMA UpdateSetOK ==
  ASSUME NEW lg \in Lgs, NEW type \in Types, NEW cs, NEW sk, SetOK(sk, lg, type, cs),
         NEW c \in AnyCoupon
  PROVE  SkOK(UpdateSet(sk, c), lg, type, cs \cup {c}) /\ SameFlags(UpdateSet(sk, c), sk)
<1> DEFINE ds == cs \cup {c}
           l == WithCoupon(sk, c)
           n == sk.lg_size
           P == 2 ^ n
<1>1. /\ Held(sk, lg, type, "Set", cs) /\ n \in LgInitSet .. lg - SetMargin
      /\ 4 * Cardinality(cs) <= 3 * P /\ 2 <= P
  BY DEF SetOK
<1>2. sk.lg_k = lg /\ sk.coupons = cs /\ Cardinality(cs) \in Nat
  BY <1>1, HeldFacts DEF Held, Containers
<1>3. /\ Held(l, lg, type, "Set", ds) /\ l.lg_size = n /\ SameFlags(l, sk)
      /\ Cardinality(ds) \in Nat /\ Cardinality(ds) <= Cardinality(cs) + 1
  BY <1>1, WithCouponFacts
<1>4. l.coupons = ds /\ l.lg_k = lg /\ ds \in SUBSET AnyCoupon /\ ds # {}
  BY <1>3 DEF Held, Containers
<1>5. UpdateSet(sk, c) =
        IF ~Crowded(l) THEN l
        ELSE IF n = lg - SetMargin THEN PromoteToArray(l) ELSE GrowSet(l)
  BY <1>3, <1>4 DEF UpdateSet
<1> HIDE DEF l, n
<1>6. lg \in Nat /\ n \in Nat /\ n \in 0 .. lg /\ SetMargin \in Nat
  <2>1. lg \in Nat /\ LgInitSet \in Nat /\ SetMargin \in Nat
    BY LgFacts, ModeAssumption
  <2> QED BY <1>1, <2>1
<1>7. P \in Nat \ {0} /\ 2 ^ (n + 1) = 2 * P
  BY <1>6, PowersOfTwoForRegisters
<1> HIDE DEF P, ds
<1>8. Crowded(l) <=> 4 * Cardinality(ds) > 3 * P
  BY <1>3, <1>4 DEF Crowded, P
<1>9. CASE ~Crowded(l)
  <2>1. UpdateSet(sk, c) = l
    BY <1>5, <1>9
  <2>2. 4 * Cardinality(ds) <= 3 * P
    BY <1>3, <1>7, <1>8, <1>9
  <2>3. SetOK(l, lg, type, ds)
    BY <1>1, <1>3, <2>2 DEF SetOK, P
  <2>4. SkOK(l, lg, type, ds)
    BY <1>4, <2>3 DEF SkOK
  <2> QED BY <1>3, <2>1, <2>4 DEF ds
<1>10. CASE Crowded(l) /\ n = lg - SetMargin
  <2>1. UpdateSet(sk, c) = PromoteToArray(l)
    BY <1>5, <1>10
  <2>2. ArrOK(PromoteToArray(l), lg, type, ds) /\ SameFlags(PromoteToArray(l), l)
    BY <1>3, PromoteOK
  <2>3. SkOK(PromoteToArray(l), lg, type, ds)
    BY <1>4, <2>2 DEF SkOK
  <2> QED BY <1>3, <2>1, <2>2, <2>3 DEF ds, SameFlags
<1>11. CASE Crowded(l) /\ n # lg - SetMargin
  <2> DEFINE new == [l EXCEPT !.lg_size = n + 1]
  <2>1. UpdateSet(sk, c) = new
    BY <1>3, <1>5, <1>11 DEF GrowSet
  <2>2. n + 1 \in Nat /\ n + 1 \in LgInitSet .. lg - SetMargin
    <3>1. LgInitSet \in Nat
      BY ModeAssumption
    <3> QED BY <1>1, <1>6, <1>11, <3>1
  <2>3. 4 * Cardinality(ds) <= 3 * (2 * P) /\ 2 <= 2 * P
    BY <1>1, <1>2, <1>3, <1>7
  <2>4. Held(new, lg, type, "Set", ds) /\ new.lg_size = n + 1 /\ SameFlags(new, l)
    BY <1>3, <2>2 DEF Held, Containers, SameFlags
  <2> HIDE DEF new
  <2>5. SetOK(new, lg, type, ds)
    BY <1>7, <2>2, <2>3, <2>4 DEF SetOK
  <2>6. SkOK(new, lg, type, ds)
    BY <1>4, <2>5 DEF SkOK
  <2> QED BY <1>3, <2>1, <2>4, <2>6 DEF ds, SameFlags
<1> QED BY <1>9, <1>10, <1>11

(* Updates keep the flags, and an array an array.                          *)
Follows(new, old) == SameFlags(new, old) /\ (IsArray(old) => IsArray(new))

LEMMA UpdateOK ==
  ASSUME NEW lg \in Lgs, NEW type \in Types, NEW cs, NEW sk, SkOK(sk, lg, type, cs),
         NEW c \in AnyCoupon
  PROVE  /\ SkOK(UpdateWithCoupon(sk, c), lg, type, cs \cup {c})
         /\ Follows(UpdateWithCoupon(sk, c), sk)
<1>1. CASE ListOK(sk, lg, type, cs)
  <2>1. sk.mode = "List"
    BY <1>1 DEF ListOK, Held, Containers
  <2>2. UpdateWithCoupon(sk, c) = UpdateList(sk, c)
    BY <2>1 DEF UpdateWithCoupon, IsArray
  <2>3. SkOK(UpdateList(sk, c), lg, type, cs \cup {c}) /\ SameFlags(UpdateList(sk, c), sk)
    BY <1>1, UpdateListOK
  <2> QED BY <2>1, <2>2, <2>3 DEF Follows, IsArray
<1>2. CASE SetOK(sk, lg, type, cs)
  <2>1. sk.mode = "Set"
    BY <1>2 DEF SetOK, Held, Containers
  <2>2. UpdateWithCoupon(sk, c) = UpdateSet(sk, c)
    BY <2>1 DEF UpdateWithCoupon, IsArray
  <2>3. SkOK(UpdateSet(sk, c), lg, type, cs \cup {c}) /\ SameFlags(UpdateSet(sk, c), sk)
    BY <1>2, UpdateSetOK
  <2> QED BY <2>1, <2>2, <2>3 DEF Follows, IsArray
<1>3. CASE ArrOK(sk, lg, type, cs)
  <2>1. sk.mode = "Array"
    BY <1>3 DEF ArrOK, Arrays
  <2>2. UpdateWithCoupon(sk, c) = UpdateArray(sk, c)
    BY <2>1 DEF UpdateWithCoupon, IsArray
  <2>3. cs \in SUBSET AnyCoupon
    BY DEF SkOK
  <2>4. /\ ArrOK(UpdateArray(sk, c), lg, type, cs \cup {c})
        /\ SameFlags(UpdateArray(sk, c), sk)
    BY <1>3, <2>3, UpdateArrayOK
  <2>5. SkOK(UpdateArray(sk, c), lg, type, cs \cup {c})
    BY <2>3, <2>4 DEF SkOK
  <2>6. IsArray(UpdateArray(sk, c))
    BY <2>4 DEF ArrOK, Arrays, IsArray
  <2> QED BY <2>2, <2>4, <2>5, <2>6 DEF Follows
<1> QED BY <1>1, <1>2, <1>3 DEF SkOK

(* The coupons of another sketch, in the order in which the fold takes     *)
(* them; the sketch may change its mode on the way.                        *)
LEMMA UpdateManyOK ==
  ASSUME NEW lg \in Lgs, NEW type \in Types, NEW cs, NEW a, SkOK(a, lg, type, cs),
         NEW ds \in SUBSET AnyCoupon, IsFiniteSet(ds)
  PROVE  /\ SkOK(UpdateWithCoupons(a, ds), lg, type, cs \cup ds)
         /\ Follows(UpdateWithCoupons(a, ds), a)
<1> DEFINE Any == Containers(lg, type, "List") \cup Containers(lg, type, "Set") \cup Arrays(lg, type)
           A == {b \in Any : \E es \in SUBSET AnyCoupon : SkOK(b, lg, type, es)}
           step == [c \in ds |-> [b \in A |-> UpdateWithCoupon(b, c)]]
           Iter(g) == g = [S \in SUBSET ds |->
                             IF S = {} THEN a ELSE UpdateWithCoupon(g[S \ {First(S)}], First(S))]
           iter == CHOOSE g : Iter(g)
<1>1. UpdateWithCoupons(a, ds) = iter[ds]
  BY DEF UpdateWithCoupons, FoldSet, MapThenFoldSet, First
<1>2. \A S \in SUBSET ds : S # {} => First(S) \in S
  BY DEF First
<1>a. ASSUME NEW b, NEW es, SkOK(b, lg, type, es) PROVE b \in A
  <2>1. b \in Any
    BY <1>a DEF SkOK, ListOK, SetOK, Held, ArrOK
  <2>2. es \in SUBSET AnyCoupon
    BY <1>a DEF SkOK
  <2> HIDE DEF Any
  <2> QED BY <1>a, <2>1, <2>2
<1>3. a \in A
  BY <1>a
<1>4. step \in [ds -> [A -> A]]
  <2>1. ASSUME NEW c \in ds, NEW b \in A PROVE UpdateWithCoupon(b, c) \in A
    <3>1. PICK es \in SUBSET AnyCoupon : SkOK(b, lg, type, es)
      OBVIOUS
    <3>2. SkOK(UpdateWithCoupon(b, c), lg, type, es \cup {c})
      BY <3>1, UpdateOK
    <3> HIDE DEF A
    <3> QED BY <1>a, <3>2
  <2> HIDE DEF A
  <2> QED BY <2>1
<1>5. \E g : Iter(g)
  <2>1. SetRecursive(ds, A, a, step)
    <3> HIDE DEF A, step
    <3> QED BY <1>3, <1>4, SetRecursion
  <2>2. PICK g \in [SUBSET ds -> A] :
          /\ g[{}] = a
          /\ \A S \in SUBSET ds : S # {} => g[S] = step[First(S)][g[S \ {First(S)}]]
    <3> HIDE DEF A, step
    <3> QED BY <2>1 DEF SetRecursive
  <2>3. ASSUME NEW S \in SUBSET ds, S # {}
        PROVE  g[S] = UpdateWithCoupon(g[S \ {First(S)}], First(S))
    <3>1. First(S) \in ds /\ S \ {First(S)} \in SUBSET ds
      BY <1>2, <2>3
    <3>2. g[S \ {First(S)}] \in A
      <4> HIDE DEF A
      <4> QED BY <3>1
    <3> HIDE DEF A
    <3> QED BY <2>2, <2>3, <3>1, <3>2
  <2>4. g = [S \in SUBSET ds |->
               IF S = {} THEN a ELSE UpdateWithCoupon(g[S \ {First(S)}], First(S))]
    <3>1. g = [S \in SUBSET ds |-> g[S]]
      <4> HIDE DEF A
      <4> QED OBVIOUS
    <3>2. \A S \in SUBSET ds :
            g[S] = IF S = {} THEN a ELSE UpdateWithCoupon(g[S \ {First(S)}], First(S))
      BY <2>2, <2>3
    <3> HIDE DEF A
    <3> QED BY <3>1, <3>2
  <2> QED BY <2>4
<1>6. iter = [S \in SUBSET ds |->
                IF S = {} THEN a ELSE UpdateWithCoupon(iter[S \ {First(S)}], First(S))]
  <2>1. Iter(iter)
    <3> HIDE DEF Iter
    <3> QED BY <1>5, Zenon
  <2> QED BY <2>1
<1> HIDE DEF iter
<1>7. /\ iter[{}] = a
      /\ \A S \in SUBSET ds : S # {} => iter[S] = UpdateWithCoupon(iter[S \ {First(S)}], First(S))
  BY <1>6
<1> DEFINE P == {S \in SUBSET ds : SkOK(iter[S], lg, type, cs \cup S) /\ Follows(iter[S], a)}
<1>8. {} \in P
  BY <1>7 DEF Follows, SameFlags
<1>9. ASSUME NEW S \in SUBSET ds, S # {}, \A x \in S : S \ {x} \in P PROVE S \in P
  <2> DEFINE x == First(S)
             R == S \ {x}
             b == iter[R]
  <2>1. x \in S /\ x \in AnyCoupon
    BY <1>2, <1>9
  <2>2. SkOK(b, lg, type, cs \cup R) /\ Follows(b, a)
    BY <1>9, <2>1
  <2>3. (cs \cup R) \cup {x} = cs \cup S
    BY <2>1
  <2>4. iter[S] = UpdateWithCoupon(b, x)
    BY <1>7, <1>9
  <2> HIDE DEF x, R, b
  <2>5. SkOK(UpdateWithCoupon(b, x), lg, type, (cs \cup R) \cup {x}) /\ Follows(UpdateWithCoupon(b, x), b)
    BY <2>1, <2>2, UpdateOK
  <2>6. SkOK(iter[S], lg, type, cs \cup S) /\ Follows(iter[S], a)
    BY <2>2, <2>3, <2>4, <2>5 DEF Follows, SameFlags
  <2> QED BY <2>6
<1>10. P \in SUBSET SUBSET ds
  OBVIOUS
<1>11. P = SUBSET ds
  <2> HIDE DEF P
  <2> QED BY <1>8, <1>9, <1>10, SubsetInduction
<1>12. ds \in P
  BY <1>11
<1> QED BY <1>1, <1>12

-------------------------------------------------------------------------------
(* Bulk merges.  Only the registers of the array and its counters change;  *)
(* what they held goes into the new counters.                              *)
LEMMA RebuildOK ==
  ASSUME NEW lg \in Lgs, NEW cs \in SUBSET AnyCoupon, NEW dst \in Arrays(lg, "Hll8"),
         NEW regs, Tops(regs, cs, lg)
  PROVE  LET new == RebuildEstimator([dst EXCEPT !.regs = regs])
         IN ArrOK(new, lg, "Hll8", cs) /\ new.ooo = TRUE /\ new.hip = FALSE
<1> DEFINE z == Cardinality(Zeros(regs))
           k0 == Kxq0(regs)
           k1 == Kxq1(regs)
           a == [dst EXCEPT !.regs = regs]
           new == RebuildEstimator(a)
<1>1. regs \in Regs(lg) /\ RegSet(lg, "Hll8") = Regs(lg)
  BY DEF Tops, RegSet
<1>2. z \in Nat /\ k0 \in Nat /\ k1 \in Nat
  BY <1>1, TopsZero, KxqFacts
<1>3. a.regs = regs
  BY DEF Arrays
<1>4. new = [dst EXCEPT !.regs = regs, !.num_zeros = z, !.kxq0 = k0, !.kxq1 = k1,
                        !.ooo = TRUE, !.hip = FALSE]
  <2> HIDE DEF z, k0, k1
  <2>1. Recount(a) = [a EXCEPT !.num_zeros = z, !.kxq0 = k0, !.kxq1 = k1]
    <3> HIDE DEF a
    <3> QED BY <1>3 DEF Recount, z, k0, k1
  <2>2. new = [Recount(a) EXCEPT !.ooo = TRUE, !.hip = FALSE]
    BY DEF RebuildEstimator
  <2> QED BY <2>1, <2>2
<1> HIDE DEF z, k0, k1, new
<1>5. /\ new \in Arrays(lg, "Hll8") /\ new.regs = regs /\ new.num_zeros = z
      /\ new.kxq0 = k0 /\ new.kxq1 = k1 /\ new.ooo = TRUE /\ new.hip = FALSE
  BY <1>1, <1>2, <1>4 DEF Arrays
<1>6. Registers(new) = regs
  <2>1. Registers(new) = ReadAll(lg, "Hll8", regs)
    BY <1>5, ArrayFacts
  <2> QED BY <1>1, <2>1 DEF ReadAll, Read, Regs
<1>7. ArrOK(new, lg, "Hll8", cs)
  BY <1>5, <1>6 DEF ArrOK, Counted, z, k0, k1
<1> QED BY <1>5, <1>7 DEF new

(* The registers of an 8-bit array are its bytes.                          *)
LEMMA BytesAreRegisters ==
  ASSUME NEW lg \in Lgs, NEW a \in Arrays(lg, "Hll8")
  PROVE  Registers(a) = a.regs /\ DOMAIN a.regs = SlotsOf(lg)
<1>1. a.regs \in Regs(lg)
  BY ArrayFacts DEF RegSet
<1>2. Registers(a) = ReadAll(lg, "Hll8", a.regs)
  BY ArrayFacts
<1> QED BY <1>1, <1>2 DEF ReadAll, Read, Regs

Merged(new, lg, cs) == ArrOK(new, lg, "Hll8", cs) /\ new.ooo = TRUE /\ new.hip = FALSE

LEMMA MergeSameOK ==
  ASSUME NEW lg \in Lgs, NEW ps \in SUBSET AnyCoupon, NEW bs \in SUBSET AnyCoupon,
         NEW type, NEW dst, ArrOK(dst, lg, "Hll8", ps), NEW sk, ArrOK(sk, lg, type, bs)
  PROVE  Merged(MergeSameLgK(dst, sk), lg, ps \cup bs)
<1> DEFINE r == Registers(dst)
           q == Registers(sk)
           regs == [s \in DOMAIN dst.regs |-> Max({dst.regs[s], Get(sk, s)})]
<1>1. /\ dst \in Arrays(lg, "Hll8") /\ Tops(r, ps, lg)
      /\ sk \in Arrays(lg, type) /\ Tops(q, bs, lg)
  BY DEF ArrOK
<1>2. regs = Joined(r, q)
  <2>1. r = dst.regs /\ DOMAIN dst.regs = SlotsOf(lg)
    BY <1>1, BytesAreRegisters
  <2>2. \A s \in SlotsOf(lg) : Get(sk, s) = q[s]
    BY <1>1, ArrayFacts
  <2> HIDE DEF r, q
  <2> QED BY <2>1, <2>2 DEF Joined
<1> HIDE DEF r, q
<1>3. Tops(Joined(r, q), ps \cup bs, lg)
  BY <1>1, TopsJoin
<1> HIDE DEF regs
<1>4. Tops(regs, ps \cup bs, lg) /\ ps \cup bs \in SUBSET AnyCoupon
  BY <1>2, <1>3
<1>5. Merged(RebuildEstimator([dst EXCEPT !.regs = regs]), lg, ps \cup bs)
  BY <1>1, <1>4, RebuildOK DEF Merged
<1> QED BY <1>5 DEF MergeSameLgK, regs

LEMMA MergeDownOK ==
  ASSUME NEW lo \in Lgs, NEW hi \in Lgs, lo <= hi,
         NEW ps \in SUBSET AnyCoupon, NEW bs \in SUBSET AnyCoupon,
         NEW type, NEW dst, ArrOK(dst, lo, "Hll8", ps), NEW sk, ArrOK(sk, hi, type, bs)
  PROVE  Merged(MergeWithDownsample(dst, sk), lo, ps \cup bs)
<1> DEFINE r == Registers(dst)
           q == Registers(sk)
           regs == [s \in DOMAIN dst.regs |->
                      Max({dst.regs[s]} \cup
                          {Get(sk, t) : t \in {u \in Slots(sk) : u % 2 ^ dst.lg_k = s}})]
<1>1. /\ dst \in Arrays(lo, "Hll8") /\ Tops(r, ps, lo)
      /\ sk \in Arrays(hi, type) /\ Tops(q, bs, hi)
  BY DEF ArrOK
<1>2. regs = Folded(r, lo, q, hi)
  <2>1. r = dst.regs /\ DOMAIN dst.regs = SlotsOf(lo) /\ dst.lg_k = lo
    BY <1>1, BytesAreRegisters, ArrayFacts
  <2>2. Slots(sk) = SlotsOf(hi) /\ \A t \in SlotsOf(hi) : Get(sk, t) = q[t]
    BY <1>1, ArrayFacts
  <2> HIDE DEF r, q
  <2>3. \A s : {Get(sk, t) : t \in {u \in Slots(sk) : u % 2 ^ lo = s}}
                 = {q[t] : t \in {u \in SlotsOf(hi) : u % 2 ^ lo = s}}
    BY <2>2
  <2> QED BY <2>1, <2>3 DEF Folded
<1> HIDE DEF r, q
<1>3. Tops(Folded(r, lo, q, hi), ps \cup bs, lo)
  BY <1>1, TopsFold
<1> HIDE DEF regs
<1>4. Tops(regs, ps \cup bs, lo) /\ ps \cup bs \in SUBSET AnyCoupon
  BY <1>2, <1>3
<1>5. Merged(RebuildEstimator([dst EXCEPT !.regs = regs]), lo, ps \cup bs)
  BY <1>1, <1>4, RebuildOK DEF Merged
<1> QED BY <1>5 DEF MergeWithDownsample, regs

-------------------------------------------------------------------------------
(* Copies.  The registers of an array, as coupons, give the same registers *)
(* again in a new array of any type.                                       *)
LEMMA AsCouponsFacts ==
  ASSUME NEW lg \in Lgs, NEW type, NEW cs \in SUBSET AnyCoupon, NEW sk, ArrOK(sk, lg, type, cs)
  PROVE  /\ AsCoupons(sk) \in SUBSET AnyCoupon /\ IsFiniteSet(AsCoupons(sk))
         /\ Tops(Registers(sk), AsCoupons(sk), lg)
<1> DEFINE regs == Registers(sk)
           used == SlotsOf(lg) \ Zeros(regs)
           ds == {<<s, regs[s]>> : s \in used}
<1>1. sk \in Arrays(lg, type) /\ regs \in Regs(lg)
  BY DEF ArrOK, Tops
<1>2. AsCoupons(sk) = ds
  <2>1. Slots(sk) = SlotsOf(lg)
    BY <1>1, ArrayFacts
  <2> QED BY <2>1 DEF AsCoupons
<1> HIDE DEF regs
<1>3. ASSUME NEW s \in used
      PROVE  s \in SlotsOf(lg) /\ s \in Nat /\ regs[s] \in 1 .. MaxRegister /\ s % 2 ^ lg = s
  <2>1. s \in SlotsOf(lg) /\ regs[s] \in Value /\ regs[s] # 0
    BY <1>1 DEF Zeros, Regs
  <2>2. regs[s] \in 1 .. MaxRegister
    BY <2>1, ModeAssumption DEF Value
  <2> QED BY <2>1, <2>2, SlotsFacts
<1>4. ds \in SUBSET AnyCoupon
  BY <1>3 DEF AnyCoupon
<1>5. IsFiniteSet(ds)
  <2>1. IsFiniteSet(used)
    <3>1. IsFiniteSet(SlotsOf(lg))
      BY SlotsFacts
    <3> QED BY <3>1, FS_Subset
  <2> DEFINE f == [s \in used |-> <<s, regs[s]>>]
  <2>2. f \in Surjection(used, ds)
    BY DEF Surjection
  <2> HIDE DEF used, ds, f
  <2> QED BY <2>1, <2>2, FS_Surjection
<1>6. \A c \in ds : \E s \in used : c = <<s, regs[s]>> /\ SlotOf(c, lg) = s /\ ValueOf(c) = regs[s]
  BY <1>3 DEF SlotOf, ValueOf
<1>7. \A s \in used : <<s, regs[s]>> \in ds
  OBVIOUS
<1> HIDE DEF ds
<1>8. ASSUME NEW c \in ds PROVE ValueOf(c) <= regs[SlotOf(c, lg)]
  <2>1. PICK s \in used : SlotOf(c, lg) = s /\ ValueOf(c) = regs[s]
    BY <1>6
  <2>2. regs[s] \in 1 .. MaxRegister
    BY <1>3
  <2> QED BY <2>1, <2>2
<1>9. ASSUME NEW s \in SlotsOf(lg)
      PROVE  regs[s] = 0 \/ \E c \in ds : SlotOf(c, lg) = s /\ ValueOf(c) = regs[s]
  <2>1. CASE s \in used
    <3>1. SlotOf(<<s, regs[s]>>, lg) = s /\ ValueOf(<<s, regs[s]>>) = regs[s]
      BY <1>3, <2>1 DEF SlotOf, ValueOf
    <3> QED BY <1>7, <2>1, <3>1
  <2>2. CASE s \notin used
    BY <1>1, <2>2 DEF Zeros, Regs
  <2> QED BY <2>1, <2>2
<1>10. Tops(regs, ds, lg)
  BY <1>1, <1>8, <1>9 DEF Tops
<1> QED BY <1>2, <1>4, <1>5, <1>10 DEF regs

ViaCoupons(sk, lg, to) == UpdateArrayAll(NewArray(lg, to), AsCoupons(sk))
Fresh(new, lg, to, cs) == ArrOK(new, lg, to, cs) /\ new.ooo = FALSE /\ new.hip = TRUE

LEMMA ViaCouponsOK ==
  ASSUME NEW lg \in Lgs, NEW type, NEW to \in Types, NEW cs \in SUBSET AnyCoupon,
         NEW sk, ArrOK(sk, lg, type, cs)
  PROVE  Fresh(ViaCoupons(sk, lg, to), lg, to, cs)
<1> DEFINE new == ViaCoupons(sk, lg, to)
           ds == AsCoupons(sk)
           start == NewArray(lg, to)
           regs == Registers(sk)
<1>1. ds \in SUBSET AnyCoupon /\ IsFiniteSet(ds) /\ Tops(regs, ds, lg)
  BY AsCouponsFacts
<1>2. ArrOK(start, lg, to, {}) /\ start.ooo = FALSE /\ start.hip = TRUE /\ {} \in SUBSET AnyCoupon
  BY NewArrayOK
<1>a. new = UpdateArrayAll(start, ds) /\ Tops(regs, cs, lg)
  BY DEF ArrOK, ViaCoupons
<1> HIDE DEF new, ds, start, regs
<1>3. ArrOK(new, lg, to, {} \cup ds) /\ SameFlags(new, start)
  BY <1>1, <1>2, <1>a, UpdateAllOK
<1>4. new \in Arrays(lg, to) /\ Tops(Registers(new), ds, lg) /\ Counted(new)
  BY <1>3 DEF ArrOK
<1> DEFINE q == Registers(new)
<1> HIDE DEF q
<1>5. q = regs
  <2>1. Tops(q, ds, lg)
    BY <1>4 DEF q
  <2> QED BY <1>1, <2>1, TopsUnique
<1>6. ArrOK(new, lg, to, cs)
  BY <1>4, <1>5, <1>a DEF ArrOK, q
<1> QED BY <1>2, <1>3, <1>6 DEF SameFlags, Fresh, new

Flagged(a, o, h) == [a EXCEPT !.ooo = o, !.hip = h]
FlagsAre(a, o, h) == a.ooo = o /\ a.hip = h

LEMMA FlaggedOK ==
  ASSUME NEW lg \in Lgs, NEW type, NEW cs \in SUBSET AnyCoupon, NEW a, ArrOK(a, lg, type, cs),
         NEW o \in BOOLEAN, NEW h \in BOOLEAN
  PROVE  /\ ArrOK(Flagged(a, o, h), lg, type, cs)
         /\ FlagsAre(Flagged(a, o, h), o, h)
<1> DEFINE new == Flagged(a, o, h)
<1>1. a \in Arrays(lg, type) /\ Tops(Registers(a), cs, lg) /\ Counted(a)
  BY DEF ArrOK
<1>2. /\ new \in Arrays(lg, type) /\ new.regs = a.regs /\ new.num_zeros = a.num_zeros
      /\ new.kxq0 = a.kxq0 /\ new.kxq1 = a.kxq1 /\ new.ooo = o /\ new.hip = h
  BY <1>1 DEF Arrays, Flagged
<1> HIDE DEF new
<1>3. Registers(new) = Registers(a)
  <2>1. Registers(new) = ReadAll(lg, type, new.regs)
    BY <1>2, ArrayFacts
  <2>2. Registers(a) = ReadAll(lg, type, a.regs)
    BY <1>1, ArrayFacts
  <2> QED BY <1>2, <2>1, <2>2
<1>4. ArrOK(new, lg, type, cs)
  BY <1>1, <1>2, <1>3 DEF ArrOK, Counted
<1> QED BY <1>2, <1>4 DEF FlagsAre, new

(* A copy is smaller if it has to be, and out of order unless it was made  *)
(* by updates, in which case it has the source's accumulator.              *)
Copied(new, lo, cs, sk, type) ==
  /\ ArrOK(new, lo, "Hll8", cs)
  /\ new.ooo \/ (type # "Hll8" /\ new.hip = sk.hip)

LEMMA CopyOK ==
  ASSUME NEW hi \in Lgs, NEW top \in Lgs, NEW type, NEW cs \in SUBSET AnyCoupon,
         NEW sk, ArrOK(sk, hi, type, cs)
  PROVE  Copied(CopyOrDownsample(sk, top), IF hi > top THEN top ELSE hi, cs, sk, type)
<1> DEFINE new == CopyOrDownsample(sk, top)
<1>1. sk.lg_k = hi /\ sk.type = type /\ sk.hip \in BOOLEAN
  BY DEF ArrOK, Arrays
<1>2. {} \in SUBSET AnyCoupon /\ {} \cup cs = cs /\ "Hll8" \in Types
  BY DEF Types
<1>3. hi \in Nat /\ top \in Nat
  BY LgFacts
<1>4. CASE hi > top
  <2> DEFINE start == NewArray(top, "Hll8")
  <2>1. new = MergeWithDownsample(start, sk)
    BY <1>1, <1>4 DEF CopyOrDownsample
  <2>2. ArrOK(start, top, "Hll8", {})
    BY <1>2, NewArrayOK
  <2> HIDE DEF start
  <2>3. Merged(MergeWithDownsample(start, sk), top, {} \cup cs)
    BY <1>2, <1>3, <1>4, <2>2, MergeDownOK
  <2> QED BY <1>2, <1>4, <2>1, <2>3 DEF Merged, Copied
<1>5. CASE ~(hi > top) /\ type = "Hll8"
  <2> DEFINE start == NewArray(hi, "Hll8")
             m == MergeSameLgK(start, sk)
  <2>1. new = [m EXCEPT !.hip = sk.hip]
    BY <1>1, <1>5 DEF CopyOrDownsample
  <2>2. ArrOK(start, hi, "Hll8", {})
    BY <1>2, NewArrayOK
  <2> HIDE DEF start
  <2>3. Merged(m, hi, {} \cup cs)
    BY <1>2, <2>2, MergeSameOK
  <2> HIDE DEF m
  <2>4. ArrOK(m, hi, "Hll8", cs) /\ m.ooo = TRUE
    BY <1>2, <2>3 DEF Merged
  <2> DEFINE o == TRUE
  <2>5. o \in BOOLEAN /\ o = TRUE
    OBVIOUS
  <2> HIDE DEF o
  <2>6. new = Flagged(m, o, sk.hip)
    BY <2>1, <2>4, <2>5 DEF ArrOK, Arrays, Flagged
  <2> HIDE DEF new
  <2>7. ArrOK(new, hi, "Hll8", cs) /\ FlagsAre(new, o, sk.hip)
    <3>1. ArrOK(m, hi, "Hll8", cs) /\ o \in BOOLEAN /\ sk.hip \in BOOLEAN
      BY <1>1, <2>4, <2>5
    <3> HIDE DEF m
    <3> QED BY <2>6, <3>1, FlaggedOK
  <2> QED BY <1>5, <2>5, <2>7 DEF Copied, FlagsAre, new
<1>6. CASE ~(hi > top) /\ type # "Hll8"
  <2> DEFINE m == ViaCoupons(sk, hi, "Hll8")
  <2>1. new = [m EXCEPT !.hip = sk.hip]
    BY <1>1, <1>6 DEF CopyOrDownsample, ViaCoupons
  <2> HIDE DEF m
  <2>2. ArrOK(m, hi, "Hll8", cs) /\ m.ooo = FALSE
    <3>1. Fresh(m, hi, "Hll8", cs)
      BY <1>2, ViaCouponsOK DEF m
    <3> QED BY <3>1 DEF Fresh
  <2> DEFINE o == FALSE
  <2>3. o \in BOOLEAN /\ o = FALSE
    OBVIOUS
  <2> HIDE DEF o
  <2>4. new = Flagged(m, o, sk.hip)
    BY <2>1, <2>2, <2>3 DEF ArrOK, Arrays, Flagged
  <2> HIDE DEF new
  <2>5. ArrOK(new, hi, "Hll8", cs) /\ FlagsAre(new, o, sk.hip)
    <3>1. ArrOK(m, hi, "Hll8", cs) /\ o \in BOOLEAN /\ sk.hip \in BOOLEAN
      BY <1>1, <2>2, <2>3
    <3> QED BY <2>4, <3>1, FlaggedOK
  <2>6. new.hip = sk.hip
    BY <2>5 DEF FlagsAre
  <2> QED BY <1>6, <2>5, <2>6 DEF Copied, new
<1> QED BY <1>4, <1>5, <1>6

-------------------------------------------------------------------------------
(* Images.  The reader accepts what was written, and gives the sketch back *)
(* with the accumulator cleared if the flag is set.                        *)
LEMMA ImageOfContainer ==
  ASSUME NEW lg \in Lgs, NEW type \in Types, NEW cs, NEW sk,
         ListOK(sk, lg, type, cs) \/ SetOK(sk, lg, type, cs)
  PROVE  Readable(Serialize(sk)) /\ Deserialize(Serialize(sk)) = sk
<1> DEFINE image == Serialize(sk)
           new == NewSketch(lg, type)
           n == Cardinality(cs)
<1>1. new \in Containers(lg, type, "List") /\ new.lg_size = 0
  BY DEF NewSketch, Containers
<1>2. n \in Nat /\ (n = 0 <=> cs = {})
  <2>1. IsFiniteSet(cs)
    BY DEF ListOK, SetOK, Held
  <2> QED BY <2>1, FS_CardinalityType, FS_EmptySet
<1>3. CASE ListOK(sk, lg, type, cs)
  <2>1. /\ sk \in Containers(lg, type, "List") /\ sk.coupons = cs /\ sk.lg_size = 0
        /\ n < ListCapacity
    BY <1>3 DEF ListOK, Held
  <2>2. sk.mode = "List" /\ sk.lg_k = lg /\ sk.type = type
    BY <2>1 DEF Containers
  <2> HIDE DEF n
  <2>3. image = [mode |-> "List", lg_k |-> lg, type |-> type, empty |-> cs = {},
                 count |-> n, coupons |-> cs]
    <3>1. image = SerializeList(sk)
      BY <2>2 DEF Serialize, IsArray
    <3> QED BY <2>1, <2>2, <3>1 DEF SerializeList, n
  <2> HIDE DEF image
  <2>4. /\ image.mode = "List" /\ image.lg_k = lg /\ image.type = type
        /\ (image.empty <=> cs = {}) /\ image.count = n /\ image.coupons = cs
    BY <2>3
  <2>5. Readable(image)
    <3>1. n <= ListCapacity
      BY <1>2, <2>1, ModeAssumption
    <3> QED BY <1>2, <2>4, <3>1 DEF Readable, ListReadable
  <2>6. Deserialize(image) = [new EXCEPT !.coupons = cs]
    BY <2>4 DEF Deserialize, DeserializeList
  <2> HIDE DEF new
  <2>7. [new EXCEPT !.coupons = cs] = sk
    BY <1>1, <2>1 DEF Containers
  <2> QED BY <2>5, <2>6, <2>7 DEF image
<1>4. CASE SetOK(sk, lg, type, cs)
  <2> DEFINE k == sk.lg_size
  <2>1. /\ sk \in Containers(lg, type, "Set") /\ sk.coupons = cs
        /\ k \in LgInitSet .. lg - SetMargin /\ 4 * n <= 3 * 2 ^ k
    BY <1>4 DEF SetOK, Held
  <2>2. sk.mode = "Set" /\ sk.lg_k = lg /\ sk.type = type
    BY <2>1 DEF Containers
  <2> HIDE DEF n, k
  <2>3. image = [mode |-> "Set", lg_k |-> lg, type |-> type, lg_arr |-> k,
                 count |-> n, coupons |-> cs]
    <3>1. image = SerializeSet(sk)
      BY <2>2 DEF Serialize, IsArray
    <3> QED BY <2>1, <2>2, <3>1 DEF SerializeSet, n, k
  <2> HIDE DEF image
  <2>4. /\ image.mode = "Set" /\ image.lg_k = lg /\ image.type = type
        /\ image.lg_arr = k /\ image.count = n /\ image.coupons = cs
    BY <2>3
  <2>5. n < 2 ^ k
    <3>1. lg \in Nat /\ LgInitSet \in Nat /\ SetMargin \in Nat
      BY LgFacts, ModeAssumption
    <3>2. k \in 0 .. lg
      BY <2>1, <3>1
    <3>3. 2 ^ k \in Nat \ {0}
      BY <3>2, PowersOfTwoForRegisters
    <3> QED BY <1>2, <2>1, <3>3
  <2>6. Readable(image)
    BY <2>1, <2>4, <2>5 DEF Readable, SetReadable, n
  <2>7. Deserialize(image) = [new EXCEPT !.mode = "Set", !.coupons = cs, !.lg_size = k]
    BY <2>4 DEF Deserialize, DeserializeSet
  <2> HIDE DEF new
  <2>8. [new EXCEPT !.mode = "Set", !.coupons = cs, !.lg_size = k] = sk
    <3> DEFINE Only == [lg_k : {lg}, type : {type}, mode : {"Set"}, coupons : {cs},
                        lg_size : {k}, regs : {NoRegisters}, num_zeros : {0}, ooo : {FALSE},
                        hip : {TRUE}, kxq0 : {0}, kxq1 : {0}]
    <3>1. [new EXCEPT !.mode = "Set", !.coupons = cs, !.lg_size = k] \in Only
      BY <1>1 DEF Containers
    <3>2. sk \in Only
      BY <2>1 DEF Containers, k
    <3>3. ASSUME NEW r \in Only
          PROVE  r = [lg_k |-> lg, type |-> type, mode |-> "Set", coupons |-> cs,
                      lg_size |-> k, regs |-> NoRegisters, num_zeros |-> 0, ooo |-> FALSE,
                      hip |-> TRUE, kxq0 |-> 0, kxq1 |-> 0]
      BY <3>3
    <3> HIDE DEF Only
    <3> QED BY <3>1, <3>2, <3>3
  <2> QED BY <2>6, <2>7, <2>8 DEF image
<1> QED BY <1>3, <1>4

(* The fields of an array, as the image has them but for the flag.         *)
ImageHas(image, sk, o) ==
  /\ image.mode = "Array" /\ image.lg_k = sk.lg_k /\ image.type = sk.type
  /\ image.ooo = o /\ image.hip = sk.hip /\ image.kxq0 = sk.kxq0 /\ image.kxq1 = sk.kxq1
  /\ image.num_zeros = sk.num_zeros /\ image.aux_count = 0 /\ image.regs = sk.regs

LEMMA ImageOfArray ==
  ASSUME NEW lg \in Lgs, NEW type \in Types, NEW cs \in SUBSET AnyCoupon,
         NEW sk, ArrOK(sk, lg, type, cs), NEW o \in BOOLEAN, NEW image, ImageHas(image, sk, o)
  PROVE  Readable(image) /\ Deserialize(image) = Flagged(sk, o, sk.hip /\ ~o)
<1> DEFINE new == NewArray(lg, type)
           h == sk.hip /\ ~o
<1>1. sk \in Arrays(lg, type) /\ Tops(Registers(sk), cs, lg) /\ Counted(sk)
  BY DEF ArrOK
<1>2. sk.lg_k = lg /\ sk.type = type /\ sk.regs \in RegSet(lg, type) /\ h \in BOOLEAN
  BY <1>1 DEF Arrays
<1>3. new \in Arrays(lg, type) /\ new.regs = NewRegisters(lg, type)
  <2>1. ArrOK(new, lg, type, {})
    BY NewArrayOK
  <2>2. NewSketch(lg, type) \in Containers(lg, type, "List")
    BY DEF NewSketch, Containers
  <2>3. new.regs = NewRegisters(lg, type)
    BY <2>2 DEF NewArray, Containers
  <2> QED BY <2>1, <2>3 DEF ArrOK
<1> HIDE DEF new
<1>4. DOMAIN sk.regs = DOMAIN NewRegisters(lg, type)
  <2>1. new.regs \in RegSet(lg, type)
    BY <1>3 DEF Arrays
  <2> QED BY <1>2, <1>3, <2>1 DEF RegSet, BytesOf, Regs
<1>5. sk.num_zeros <= NumRegisters(lg)
  <2>1. sk.num_zeros = Cardinality(Zeros(Registers(sk)))
    BY <1>1 DEF Counted
  <2>2. Cardinality(Zeros(Registers(sk))) <= 2 ^ lg
    BY <1>1, TopsZero
  <2> QED BY <2>1, <2>2 DEF NumRegisters
<1>6. Readable(image)
  BY <1>2, <1>4, <1>5 DEF Readable, ArrayReadable, ImageHas
<1>7. Deserialize(image) = DeserializeArray(image)
  BY DEF Deserialize, ImageHas
<1> HIDE DEF h
<1>8. DeserializeArray(image) =
        [new EXCEPT !.regs = sk.regs, !.num_zeros = sk.num_zeros, !.kxq0 = sk.kxq0,
                    !.kxq1 = sk.kxq1, !.ooo = o, !.hip = h]
  <2>1. NewArray(image.lg_k, image.type) = new
    BY <1>2 DEF ImageHas, new
  <2>2. (image.hip /\ ~image.ooo) = h
    BY DEF ImageHas, h
  <2>3. /\ image.regs = sk.regs /\ image.num_zeros = sk.num_zeros /\ image.kxq0 = sk.kxq0
        /\ image.kxq1 = sk.kxq1 /\ image.ooo = o
    BY DEF ImageHas
  <2> QED BY <2>1, <2>2, <2>3 DEF DeserializeArray
<1>9. [new EXCEPT !.regs = sk.regs, !.num_zeros = sk.num_zeros, !.kxq0 = sk.kxq0,
                  !.kxq1 = sk.kxq1, !.ooo = o, !.hip = h] = Flagged(sk, o, h)
  <2> DEFINE full == [lg_k |-> lg, type |-> type, mode |-> "Array", coupons |-> {},
                      lg_size |-> 0, regs |-> sk.regs, num_zeros |-> sk.num_zeros,
                      ooo |-> o, hip |-> h, kxq0 |-> sk.kxq0, kxq1 |-> sk.kxq1]
             Only == [lg_k : {lg}, type : {type}, mode : {"Array"}, coupons : {{}},
                      lg_size : {0}, regs : {sk.regs}, num_zeros : {sk.num_zeros},
                      ooo : {o}, hip : {h}, kxq0 : {sk.kxq0}, kxq1 : {sk.kxq1}]
  <2>1. [new EXCEPT !.regs = sk.regs, !.num_zeros = sk.num_zeros, !.kxq0 = sk.kxq0,
                    !.kxq1 = sk.kxq1, !.ooo = o, !.hip = h] \in Only
    BY <1>3 DEF Arrays
  <2>2. Flagged(sk, o, h) \in Only
    BY <1>1 DEF Arrays, Flagged
  <2>3. ASSUME NEW r \in Only PROVE r = full
    BY <2>3
  <2> HIDE DEF Only
  <2> QED BY <2>1, <2>2, <2>3
<1> QED BY <1>6, <1>7, <1>8, <1>9 DEF h

LEMMA SerializeFields ==
  ASSUME NEW lg \in Lgs, NEW type, NEW sk \in Arrays(lg, type)
  PROVE  /\ ImageHas(Serialize(sk), sk, sk.ooo)
         /\ ImageHas([Serialize(sk) EXCEPT !.ooo = TRUE], sk, TRUE)
<1>1. sk.mode = "Array"
  BY DEF Arrays
<1>2. Serialize(sk) = SerializeArray(sk)
  BY <1>1 DEF Serialize, IsArray
<1> QED BY <1>1, <1>2 DEF SerializeArray, ImageHas

Reloads(sk, lg, type, cs) ==
  /\ Readable(Serialize(sk))
  /\ Deserialize(Serialize(sk)) = [sk EXCEPT !.hip = @ /\ ~sk.ooo]
  /\ Deserialize(Serialize(sk)) = Flagged(sk, sk.ooo, sk.hip /\ ~sk.ooo)
  /\ SkOK(Deserialize(Serialize(sk)), lg, type, cs)

LEMMA ReloadOK ==
  ASSUME NEW lg \in Lgs, NEW type \in Types, NEW cs, NEW sk, SkOK(sk, lg, type, cs)
  PROVE  Reloads(sk, lg, type, cs)
<1> USE DEF Reloads
<1> DEFINE new == Deserialize(Serialize(sk))
           h == sk.hip /\ ~sk.ooo
<1>1. CASE ListOK(sk, lg, type, cs) \/ SetOK(sk, lg, type, cs)
  <2>1. Readable(Serialize(sk)) /\ new = sk
    BY <1>1, ImageOfContainer
  <2>2. \E mode : sk \in Containers(lg, type, mode)
    BY <1>1 DEF ListOK, SetOK, Held
  <2>3. [sk EXCEPT !.hip = @ /\ ~sk.ooo] = sk /\ Flagged(sk, sk.ooo, h) = sk
    BY <2>2 DEF Containers, Flagged
  <2> QED BY <2>1, <2>3
<1>2. CASE ArrOK(sk, lg, type, cs) /\ cs # {}
  <2>1. sk \in Arrays(lg, type) /\ sk.ooo \in BOOLEAN /\ h \in BOOLEAN
    BY <1>2 DEF ArrOK, Arrays
  <2>2. cs \in SUBSET AnyCoupon
    BY DEF SkOK
  <2>3. ImageHas(Serialize(sk), sk, sk.ooo)
    BY <2>1, SerializeFields
  <2>4. Readable(Serialize(sk)) /\ new = Flagged(sk, sk.ooo, h)
    BY <1>2, <2>1, <2>2, <2>3, ImageOfArray
  <2> HIDE DEF new, h
  <2>5. [sk EXCEPT !.hip = h] = Flagged(sk, sk.ooo, h)
    BY <2>1 DEF Arrays, Flagged
  <2>6. ArrOK(new, lg, type, cs)
    BY <1>2, <2>1, <2>2, <2>4, FlaggedOK
  <2>7. SkOK(new, lg, type, cs)
    BY <1>2, <2>2, <2>6 DEF SkOK
  <2> QED BY <2>4, <2>5, <2>7 DEF new, h
<1> QED BY <1>1, <1>2 DEF SkOK

-------------------------------------------------------------------------------
(* What holds of a sketch in whichever mode it is.                         *)
LEMMA SkFacts ==
  ASSUME NEW lg \in Lgs, NEW type, NEW cs, NEW sk, SkOK(sk, lg, type, cs)
  PROVE  /\ sk.lg_k = lg /\ sk.type = type /\ cs \in SUBSET AnyCoupon
         /\ IsArray(sk) => ArrOK(sk, lg, type, cs) /\ cs # {}
         /\ ~IsArray(sk) => /\ ListOK(sk, lg, type, cs) \/ SetOK(sk, lg, type, cs)
                            /\ sk.coupons = cs /\ IsFiniteSet(cs)
         /\ sk.ooo \in BOOLEAN /\ sk.hip \in BOOLEAN
<1>1. ASSUME NEW mode \in {"List", "Set"}, Held(sk, lg, type, mode, cs)
      PROVE  /\ sk.lg_k = lg /\ sk.type = type /\ ~IsArray(sk)
             /\ sk.coupons = cs /\ IsFiniteSet(cs)
             /\ sk.ooo \in BOOLEAN /\ sk.hip \in BOOLEAN
  <2>1. sk \in Containers(lg, type, mode) /\ sk.coupons = cs /\ IsFiniteSet(cs)
    BY <1>1 DEF Held
  <2>2. sk.lg_k = lg /\ sk.type = type /\ sk.mode = mode
    BY <2>1 DEF Containers
  <2>3. sk.ooo \in BOOLEAN
    BY <2>1 DEF Containers
  <2>4. sk.hip \in BOOLEAN
    BY <2>1 DEF Containers
  <2> QED BY <2>1, <2>2, <2>3, <2>4 DEF IsArray
<1>2. cs \in SUBSET AnyCoupon
  BY DEF SkOK
<1>3. CASE ListOK(sk, lg, type, cs)
  <2>1. Held(sk, lg, type, "List", cs)
    BY <1>3 DEF ListOK
  <2> QED BY <1>1, <1>2, <1>3, <2>1
<1>4. CASE SetOK(sk, lg, type, cs)
  <2>1. Held(sk, lg, type, "Set", cs)
    BY <1>4 DEF SetOK
  <2> QED BY <1>1, <1>2, <1>4, <2>1
<1>5. CASE ArrOK(sk, lg, type, cs) /\ cs # {}
  <2>1. sk \in Arrays(lg, type)
    BY <1>5 DEF ArrOK
  <2>2. sk.lg_k = lg /\ sk.type = type /\ sk.mode = "Array"
    BY <2>1 DEF Arrays
  <2>3. sk.ooo \in BOOLEAN
    BY <2>1 DEF Arrays
  <2>4. sk.hip \in BOOLEAN
    BY <2>1 DEF Arrays
  <2> QED BY <1>2, <1>5, <2>2, <2>3, <2>4 DEF IsArray
<1> QED BY <1>3, <1>4, <1>5 DEF SkOK

LEMMA SkHead ==
  ASSUME NEW lg \in Lgs, NEW type, NEW cs, NEW sk, SkOK(sk, lg, type, cs)
  PROVE  sk.lg_k = lg /\ sk.type = type /\ cs \in SUBSET AnyCoupon
BY SkFacts

LEMMA SkArray ==
  ASSUME NEW lg \in Lgs, NEW type, NEW cs, NEW sk, SkOK(sk, lg, type, cs), IsArray(sk)
  PROVE  ArrOK(sk, lg, type, cs) /\ cs # {}
BY SkFacts

LEMMA SkCoupons ==
  ASSUME NEW lg \in Lgs, NEW type, NEW cs, NEW sk, SkOK(sk, lg, type, cs), ~IsArray(sk)
  PROVE  sk.coupons = cs /\ IsFiniteSet(cs)
BY SkFacts

LEMMA EmptyMeansNone ==
  ASSUME NEW lg \in Lgs, NEW type, NEW cs, NEW sk, SkOK(sk, lg, type, cs)
  PROVE  IsEmpty(sk) <=> cs = {}
<1>1. CASE ~IsArray(sk)
  BY <1>1, SkFacts DEF IsEmpty
<1>2. CASE IsArray(sk)
  <2>1. ArrOK(sk, lg, type, cs) /\ sk.lg_k = lg /\ cs \in SUBSET AnyCoupon
    BY <1>2, SkFacts
  <2>2. /\ sk.num_zeros = Cardinality(Zeros(Registers(sk)))
        /\ Tops(Registers(sk), cs, lg)
    BY <2>1 DEF ArrOK, Counted
  <2>3. Cardinality(Zeros(Registers(sk))) = 2 ^ lg <=> cs = {}
    BY <2>1, <2>2, TopsZero
  <2> QED BY <1>2, <2>1, <2>2, <2>3 DEF IsEmpty, NumRegisters
<1> QED BY <1>1, <1>2

LEMMA NewSketchOK ==
  ASSUME NEW lg \in Lgs, NEW type
  PROVE  /\ SkOK(NewSketch(lg, type), lg, type, {})
         /\ NewSketch(lg, type).lg_k = lg /\ NewSketch(lg, type).type = type
         /\ NewSketch(lg, type).ooo = FALSE /\ NewSketch(lg, type).hip = TRUE
         /\ ~IsArray(NewSketch(lg, type))
<1> DEFINE new == NewSketch(lg, type)
<1>1. /\ new \in Containers(lg, type, "List") /\ new.coupons = {} /\ new.lg_size = 0
      /\ new.lg_k = lg /\ new.type = type /\ new.ooo = FALSE /\ new.hip = TRUE
      /\ new.mode = "List"
  BY DEF NewSketch, Containers
<1> HIDE DEF new
<1>2. IsFiniteSet({}) /\ Cardinality({}) = 0 /\ 0 < ListCapacity
  BY FS_EmptySet, ModeAssumption
<1>3. SkOK(new, lg, type, {})
  BY <1>1, <1>2 DEF SkOK, ListOK, Held
<1> QED BY <1>1, <1>3 DEF IsArray, new

(* A list or a set given another type.                                     *)
Retyped(sk, to) == [sk EXCEPT !.type = to]
Unmerged(new, lg, to, cs) ==
  SkOK(new, lg, to, cs) /\ ~IsArray(new) /\ new.ooo = FALSE /\ new.hip = TRUE

LEMMA RetypeOK ==
  ASSUME NEW lg \in Lgs, NEW type, NEW to, NEW cs, NEW sk, SkOK(sk, lg, type, cs), ~IsArray(sk)
  PROVE  Unmerged(Retyped(sk, to), lg, to, cs)
<1> DEFINE new == Retyped(sk, to)
<1>0. new = [sk EXCEPT !.type = to]
  BY DEF Retyped
<1> HIDE DEF new
<1>1. /\ ListOK(sk, lg, type, cs) \/ SetOK(sk, lg, type, cs)
      /\ cs \in SUBSET AnyCoupon /\ sk.coupons = cs /\ IsFiniteSet(cs)
  BY SkFacts
<1>2. ASSUME ListOK(sk, lg, type, cs) PROVE Unmerged(new, lg, to, cs)
  <2>1. sk \in Containers(lg, type, "List") /\ sk.lg_size = 0 /\ Cardinality(cs) < ListCapacity
    BY <1>2 DEF ListOK, Held
  <2>2. /\ new \in Containers(lg, to, "List") /\ new.lg_size = 0 /\ new.coupons = cs
        /\ new.mode = "List" /\ new.ooo = FALSE /\ new.hip = TRUE
    BY <1>0, <1>1, <2>1 DEF Containers
  <2>3. SkOK(new, lg, to, cs)
    BY <1>1, <2>1, <2>2 DEF SkOK, ListOK, Held
  <2> QED BY <2>2, <2>3 DEF IsArray, Unmerged
<1>3. ASSUME SetOK(sk, lg, type, cs) PROVE Unmerged(new, lg, to, cs)
  <2>1. /\ sk \in Containers(lg, type, "Set") /\ sk.lg_size \in LgInitSet .. lg - SetMargin
        /\ 4 * Cardinality(cs) <= 3 * 2 ^ sk.lg_size /\ 2 <= 2 ^ sk.lg_size
    BY <1>3 DEF SetOK, Held
  <2>2. /\ new \in Containers(lg, to, "Set") /\ new.lg_size = sk.lg_size /\ new.coupons = cs
        /\ new.mode = "Set" /\ new.ooo = FALSE /\ new.hip = TRUE
    BY <1>0, <1>1, <2>1 DEF Containers
  <2>3. SetOK(new, lg, to, cs)
    BY <1>1, <2>1, <2>2 DEF SetOK, Held
  <2>4. SkOK(new, lg, to, cs)
    BY <1>1, <2>3 DEF SkOK
  <2> QED BY <2>2, <2>4 DEF IsArray, Unmerged
<1> QED BY <1>1, <1>2, <1>3 DEF new

(* What the invariants say of a sketch that was offered cs.                *)
LEMMA Complete ==
  ASSUME NEW lg \in Lgs, NEW type, NEW cs, NEW sk, SkOK(sk, lg, type, cs)
  PROVE  HasRoom(sk) /\ Represents(sk, cs)
<1>1. sk.lg_k = lg /\ cs \in SUBSET AnyCoupon
  BY SkFacts
<1>2. CASE IsArray(sk)
  <2>1. Tops(Registers(sk), cs, lg) /\ Counted(sk)
    BY <1>2, SkFacts DEF ArrOK
  <2> DEFINE regs == Registers(sk)
  <2> HIDE DEF regs
  <2>2. regs = RegistersOf(cs, lg)
    BY <1>1, <2>1, TopsAre DEF regs
  <2>3. sk.mode # "List" /\ sk.mode # "Set"
    BY <1>2 DEF IsArray
  <2> QED BY <1>1, <1>2, <2>1, <2>2, <2>3 DEF Represents, HasRoom, Counted, regs
<1>3. CASE ~IsArray(sk)
  <2>1. /\ ListOK(sk, lg, type, cs) \/ SetOK(sk, lg, type, cs)
        /\ sk.coupons = cs /\ IsFiniteSet(cs)
    BY <1>3, SkFacts
  <2>2. Represents(sk, cs)
    BY <1>3, <2>1 DEF Represents
  <2>3. CASE ListOK(sk, lg, type, cs)
    <3>1. sk.mode = "List" /\ Cardinality(cs) < ListCapacity
      BY <2>3 DEF ListOK, Held, Containers
    <3> QED BY <2>1, <2>2, <3>1 DEF HasRoom
  <2>4. CASE SetOK(sk, lg, type, cs)
    <3> DEFINE k == sk.lg_size
               n == Cardinality(cs)
    <3>1. sk.mode = "Set" /\ k \in LgInitSet .. lg - SetMargin /\ 4 * n <= 3 * 2 ^ k
      BY <2>4 DEF SetOK, Held, Containers
    <3>2. n \in Nat
      BY <2>1, FS_CardinalityType
    <3> HIDE DEF n
    <3>3. lg \in Nat /\ LgInitSet \in Nat /\ SetMargin \in Nat
      BY LgFacts, ModeAssumption
    <3>4. k \in 0 .. lg /\ k <= lg - SetMargin
      BY <3>1, <3>3
    <3>5. 2 ^ k \in Nat \ {0}
      BY <3>4, PowersOfTwoForRegisters
    <3>6. n < 2 ^ k
      BY <3>1, <3>2, <3>5
    <3> QED BY <1>1, <2>1, <2>2, <3>1, <3>4, <3>6 DEF HasRoom, n
  <2> QED BY <2>1, <2>3, <2>4
<1> QED BY <1>2, <1>3

-------------------------------------------------------------------------------
(* An array merged into the gadget.                                        *)
AfterArray(g, sk, top) ==
  IF IsEmpty(g) THEN CopyOrDownsample(sk, top)
  ELSE IF ~IsArray(g) THEN UpdateArrayAll(CopyOrDownsample(sk, top), g.coupons)
  ELSE IF sk.lg_k < g.lg_k
  THEN MergeSameLgK(MergeWithDownsample(NewArray(sk.lg_k, "Hll8"), g), sk)
  ELSE MergeIntoArray8(g, sk)

(* The least precision, and an accumulator that is not used or the         *)
(* source's.                                                               *)
MergedIn(new, lo, cs, sk, type) ==
  SkOK(new, lo, "Hll8", cs) /\ IsArray(new) /\ (new.ooo \/ (type # "Hll8" /\ new.hip = sk.hip))

LEMMA AfterArrayOK ==
  ASSUME NEW top \in Lgs, NEW glg \in Lgs, NEW hi \in Lgs, NEW type,
         NEW ps, NEW g, SkOK(g, glg, "Hll8", ps), IsArray(g) \/ glg = top,
         NEW bs, NEW sk, SkOK(sk, hi, type, bs), IsArray(sk)
  PROVE  MergedIn(AfterArray(g, sk, top), IF hi < glg THEN hi ELSE glg, ps \cup bs, sk, type)
<1> DEFINE copy == CopyOrDownsample(sk, top)
           new == AfterArray(g, sk, top)
           lo == IF hi < glg THEN hi ELSE glg
           cs == ps \cup bs
<1>1. /\ sk.lg_k = hi /\ ArrOK(sk, hi, type, bs) /\ bs # {} /\ bs \in SUBSET AnyCoupon
      /\ g.lg_k = glg /\ ps \in SUBSET AnyCoupon
  <2>1. sk.lg_k = hi /\ bs \in SUBSET AnyCoupon
    BY SkHead
  <2>2. ArrOK(sk, hi, type, bs) /\ bs # {}
    BY SkArray
  <2>3. g.lg_k = glg
    BY SkHead
  <2>4. ps \in SUBSET AnyCoupon
    BY SkHead
  <2> QED BY <2>1, <2>2, <2>3, <2>4
<1>2. cs \in SUBSET AnyCoupon /\ cs # {} /\ lo \in Lgs /\ {} \in SUBSET AnyCoupon
      /\ hi \in Nat /\ glg \in Nat
  <2>1. cs \in SUBSET AnyCoupon /\ cs # {} /\ {} \in SUBSET AnyCoupon
    BY <1>1
  <2>2. hi \in Nat /\ glg \in Nat
    BY LgFacts
  <2> QED BY <2>1, <2>2
<1>3. IsEmpty(g) <=> ps = {}
  BY EmptyMeansNone
<1>4. ~IsArray(g) => glg = top /\ g.coupons = ps /\ IsFiniteSet(ps)
  BY SkCoupons
<1>5. IsArray(g) => ArrOK(g, glg, "Hll8", ps) /\ ps # {}
  BY SkFacts
<1>6. ~IsArray(g) => lo = IF hi > top THEN top ELSE hi
  BY <1>2, <1>4
<1>7. ~IsArray(g) => Copied(copy, lo, bs, sk, type)
  <2>1. Copied(copy, IF hi > top THEN top ELSE hi, bs, sk, type)
    BY <1>1, CopyOK
  <2> QED BY <1>6, <2>1
<1>a. ASSUME NEW r, ArrOK(r, lo, "Hll8", cs) PROVE SkOK(r, lo, "Hll8", cs) /\ IsArray(r)
  BY <1>2, <1>a DEF SkOK, ArrOK, Arrays, IsArray
<1> HIDE DEF new, copy, lo
<1>8. CASE IsEmpty(g)
  <2>1. new = copy /\ cs = bs /\ ~IsArray(g)
    BY <1>3, <1>5, <1>8 DEF AfterArray, new, copy
  <2>2. ArrOK(new, lo, "Hll8", cs) /\ (new.ooo \/ (type # "Hll8" /\ new.hip = sk.hip))
    BY <1>7, <2>1 DEF Copied
  <2> QED BY <1>a, <2>2 DEF MergedIn, new, lo
<1>9. CASE ~IsEmpty(g) /\ ~IsArray(g)
  <2>1. new = UpdateArrayAll(copy, ps)
    BY <1>4, <1>9 DEF AfterArray, new, copy
  <2>2. ArrOK(copy, lo, "Hll8", bs) /\ (copy.ooo \/ (type # "Hll8" /\ copy.hip = sk.hip))
    BY <1>7, <1>9 DEF Copied
  <2>3. ArrOK(new, lo, "Hll8", bs \cup ps) /\ SameFlags(new, copy)
    BY <1>1, <1>2, <1>4, <1>9, <2>1, <2>2, UpdateAllOK
  <2>4. bs \cup ps = cs
    OBVIOUS
  <2>5. SkOK(new, lo, "Hll8", cs) /\ IsArray(new)
    BY <1>a, <2>3, <2>4
  <2> QED BY <2>2, <2>3, <2>5 DEF MergedIn, SameFlags, new, lo
<1>10. CASE IsArray(g) /\ ~IsEmpty(g) /\ hi < glg
  <2> DEFINE start == NewArray(hi, "Hll8")
             small == MergeWithDownsample(start, g)
  <2>1. new = MergeSameLgK(small, sk) /\ lo = hi
    BY <1>1, <1>10 DEF AfterArray, new, lo
  <2>2. ArrOK(start, hi, "Hll8", {})
    <3>1. "Hll8" \in Types
      BY DEF Types
    <3> QED BY <3>1, NewArrayOK
  <2> HIDE DEF start
  <2>3. Merged(small, hi, {} \cup ps)
    <3>1. hi <= glg
      BY <1>2, <1>10
    <3> QED BY <1>1, <1>2, <1>5, <1>10, <2>2, <3>1, MergeDownOK
  <2> HIDE DEF small
  <2>4. ArrOK(small, hi, "Hll8", ps)
    BY <2>3 DEF Merged
  <2>5. Merged(MergeSameLgK(small, sk), hi, ps \cup bs)
    BY <1>1, <2>4, MergeSameOK
  <2>6. ArrOK(new, lo, "Hll8", cs) /\ new.ooo = TRUE
    BY <2>1, <2>5 DEF Merged
  <2> QED BY <1>a, <2>6 DEF MergedIn, new, lo
<1>11. CASE IsArray(g) /\ ~IsEmpty(g) /\ ~(hi < glg)
  <2>1. new = (IF hi = glg THEN MergeSameLgK(g, sk) ELSE MergeWithDownsample(g, sk)) /\ lo = glg
    BY <1>1, <1>11 DEF AfterArray, MergeIntoArray8, new, lo
  <2>2. ArrOK(g, glg, "Hll8", ps)
    BY <1>5, <1>11
  <2>3. hi = glg => Merged(MergeSameLgK(g, sk), glg, ps \cup bs)
    BY <1>1, <2>2, MergeSameOK
  <2>4. hi # glg => Merged(MergeWithDownsample(g, sk), glg, ps \cup bs)
    <3>1. glg <= hi
      BY <1>2, <1>11
    <3> QED BY <1>1, <2>2, <3>1, MergeDownOK
  <2>5. ArrOK(new, lo, "Hll8", cs) /\ new.ooo = TRUE
    BY <2>1, <2>3, <2>4 DEF Merged
  <2> QED BY <1>a, <2>5 DEF MergedIn, new, lo
<1> QED BY <1>8, <1>9, <1>10, <1>11

-------------------------------------------------------------------------------
(* The result of the union, for each type.                                 *)
Usable(sk) == sk.ooo \/ sk.hip
InOrder(sk) == sk.type = "Hll8" \/ ~sk.ooo

ResultOK(r, lg, to, cs, sk) ==
  /\ SkOK(r, lg, to, cs)
  /\ InOrder(r) /\ (Usable(sk) => Usable(r))

LEMMA ToSketchOK ==
  ASSUME NEW lg \in Lgs, NEW cs, SkOK(gadget, lg, "Hll8", cs), NEW to \in Types
  PROVE  ResultOK(ToSketch(to), lg, to, cs, gadget)
<1> DEFINE r == ToSketch(to)
           t8 == "Hll8"
<1>1. SkOK(gadget, lg, t8, cs) /\ t8 \in Types
  BY DEF Types
<1> HIDE DEF t8
<1>2. gadget.lg_k = lg /\ gadget.type = t8
  BY <1>1, SkHead
<1>3. CASE to = t8
  <2>1. r = gadget
    BY <1>2, <1>3 DEF ToSketch
  <2> QED BY <1>1, <1>2, <1>3, <2>1 DEF ResultOK, InOrder, Usable, t8
<1>4. CASE to # t8 /\ IsArray(gadget)
  <2>1. r = ViaCoupons(gadget, lg, to)
    BY <1>2, <1>4 DEF ToSketch, ConvertArray8, ViaCoupons
  <2>2. ArrOK(gadget, lg, t8, cs) /\ cs # {}
    BY <1>1, <1>4, SkArray
  <2>3. cs \in SUBSET AnyCoupon
    BY <1>1, SkHead
  <2>4. Fresh(ViaCoupons(gadget, lg, to), lg, to, cs)
    BY <2>2, <2>3, ViaCouponsOK
  <2> HIDE DEF r
  <2>5. ArrOK(r, lg, to, cs) /\ r.ooo = FALSE /\ r.hip = TRUE
    BY <2>1, <2>4 DEF Fresh
  <2>6. SkOK(r, lg, to, cs)
    BY <2>2, <2>3, <2>5 DEF SkOK
  <2> QED BY <2>5, <2>6 DEF ResultOK, InOrder, Usable, r
<1>5. CASE to # t8 /\ ~IsArray(gadget)
  <2>1. r = [gadget EXCEPT !.type = to]
    BY <1>2, <1>5 DEF ToSketch
  <2> HIDE DEF r
  <2>2. Unmerged(Retyped(gadget, to), lg, to, cs)
    BY <1>1, <1>5, RetypeOK
  <2>3. Unmerged(r, lg, to, cs)
    BY <2>1, <2>2 DEF Retyped
  <2> QED BY <2>3 DEF Unmerged, ResultOK, InOrder, Usable, r
<1> QED BY <1>3, <1>4, <1>5

-------------------------------------------------------------------------------
(* The inductive invariant: both sketches represent what they have been    *)
(* offered; while the gadget is no array, no precision has been lost.      *)
SourceOK(sk, cs) ==
  sk.lg_k \in Lgs /\ sk.type \in Types /\ SkOK(sk, sk.lg_k, sk.type, cs)

GadgetOK(g, lo, top, cs) ==
  lo \in Lgs /\ (IsArray(g) \/ lo = top) /\ SkOK(g, lo, "Hll8", cs)

HInv ==
  /\ lg_max_k \in LgMaxes
  /\ SourceOK(src, srcOffered)
  /\ GadgetOK(gadget, least, lg_max_k, offered)

LEMMA CouponsAre == Coupons \subseteq AnyCoupon
<1> SUFFICES ASSUME NEW c \in Coupons PROVE c \in AnyCoupon
  OBVIOUS
<1>1. c = <<c[1], c[2]>> /\ c[1] \in Nat /\ c[2] \in 1 .. MaxRegister
  BY CouponsAssumption
<1>2. <<c[1], c[2]>> \in Nat \X (1 .. MaxRegister)
  BY <1>1
<1> QED BY <1>1, <1>2 DEF AnyCoupon

LEMMA SourceIs ==
  ASSUME NEW lg \in Lgs, NEW type \in Types, NEW cs, NEW sk, SkOK(sk, lg, type, cs)
  PROVE  SourceOK(sk, cs)
<1>1. sk.lg_k = lg /\ sk.type = type
  BY SkHead
<1> QED BY <1>1 DEF SourceOK

LEMMA NewSourceOK ==
  ASSUME NEW lg \in SourceLgs, NEW type \in SourceTypes
  PROVE  SourceOK(NewSketch(lg, type), {}) /\ Usable(NewSketch(lg, type)) /\ InOrder(NewSketch(lg, type))
<1> DEFINE new == NewSketch(lg, type)
<1>1. lg \in Lgs /\ type \in Types
  BY SketchesAssumption DEF Lgs
<1>2. SkOK(new, lg, type, {}) /\ new.ooo = FALSE
  <2>1. SkOK(new, lg, type, {})
    BY <1>1, NewSketchOK
  <2>2. new.ooo = FALSE
    BY DEF NewSketch
  <2> QED BY <2>1, <2>2
<1>3. new.hip = TRUE
  BY DEF NewSketch
<1> HIDE DEF new
<1>4. SourceOK(new, {})
  BY <1>1, <1>2, SourceIs
<1> QED BY <1>2, <1>3, <1>4 DEF Usable, InOrder, new

LEMMA NewGadgetOK ==
  ASSUME NEW top \in LgMaxes
  PROVE  GadgetOK(NewSketch(top, "Hll8"), top, top, {}) /\ Usable(NewSketch(top, "Hll8"))
<1> DEFINE t8 == "Hll8"
           new == NewSketch(top, t8)
<1> HIDE DEF t8
<1>1. top \in Lgs
  BY DEF Lgs
<1>2. SkOK(new, top, t8, {}) /\ new.hip = TRUE
  BY <1>1, NewSketchOK
<1> HIDE DEF new
<1> QED BY <1>1, <1>2 DEF GadgetOK, Usable, new, t8

LEMMA InitOK == Init => HInv /\ Usable(src) /\ InOrder(src) /\ Usable(gadget)
<1> SUFFICES ASSUME Init PROVE HInv /\ Usable(src) /\ InOrder(src) /\ Usable(gadget)
  OBVIOUS
<1>1. /\ lg_max_k \in LgMaxes /\ gadget = NewSketch(lg_max_k, "Hll8") /\ offered = {}
      /\ least = lg_max_k /\ srcOffered = {}
  BY DEF Init
<1>2. SourceOK(src, srcOffered) /\ Usable(src) /\ InOrder(src)
  <2>1. PICK lg \in SourceLgs, type \in SourceTypes : src = NewSketch(lg, type)
    BY DEF Init
  <2> QED BY <1>1, <2>1, NewSourceOK
<1>3. GadgetOK(gadget, least, lg_max_k, offered) /\ Usable(gadget)
  BY <1>1, NewGadgetOK
<1> QED BY <1>1, <1>2, <1>3 DEF HInv

(* Steps of the source.                                                    *)
LEMMA UpdateSourceOK ==
  ASSUME NEW cs, NEW sk, SourceOK(sk, cs), NEW c \in Coupons
  PROVE  /\ SourceOK(UpdateWithCoupon(sk, c), cs \cup {c})
         /\ Usable(sk) => Usable(UpdateWithCoupon(sk, c))
         /\ InOrder(sk) => InOrder(UpdateWithCoupon(sk, c))
<1> DEFINE new == UpdateWithCoupon(sk, c)
           lg == sk.lg_k
           type == sk.type
<1>1. lg \in Lgs /\ type \in Types /\ SkOK(sk, lg, type, cs) /\ c \in AnyCoupon
  BY CouponsAre DEF SourceOK
<1> HIDE DEF lg, type
<1>2. SkOK(new, lg, type, cs \cup {c}) /\ Follows(new, sk)
  BY <1>1, UpdateOK
<1> HIDE DEF new
<1>3. SourceOK(new, cs \cup {c})
  BY <1>1, <1>2, SourceIs
<1>4. new.type = sk.type
  BY <1>1, <1>2, SkHead
<1> QED BY <1>2, <1>3, <1>4 DEF Follows, SameFlags, Usable, InOrder, new

LEMMA FlagsOfSketch ==
  ASSUME NEW lg \in Lgs, NEW type, NEW cs, NEW sk, SkOK(sk, lg, type, cs), NEW o, NEW h
  PROVE  FlagsAre(Flagged(sk, o, h), o, h)
<1>1. ASSUME NEW mode, sk \in Containers(lg, type, mode) PROVE FlagsAre(Flagged(sk, o, h), o, h)
  BY <1>1 DEF Containers, Flagged, FlagsAre
<1>2. ASSUME sk \in Arrays(lg, type) PROVE FlagsAre(Flagged(sk, o, h), o, h)
  BY <1>2 DEF Arrays, Flagged, FlagsAre
<1>3. (\E mode : sk \in Containers(lg, type, mode)) \/ sk \in Arrays(lg, type)
  BY DEF SkOK, ListOK, SetOK, Held, ArrOK
<1> QED BY <1>1, <1>2, <1>3

LEMMA ReloadSourceOK ==
  ASSUME NEW cs, NEW sk, SourceOK(sk, cs)
  PROVE  /\ Readable(Serialize(sk))
         /\ Deserialize(Serialize(sk)) = [sk EXCEPT !.hip = @ /\ ~sk.ooo]
         /\ SourceOK(Deserialize(Serialize(sk)), cs)
         /\ Usable(sk) => Usable(Deserialize(Serialize(sk)))
         /\ InOrder(sk) => InOrder(Deserialize(Serialize(sk)))
<1> DEFINE new == Deserialize(Serialize(sk))
           lg == sk.lg_k
           type == sk.type
<1>1. lg \in Lgs /\ type \in Types /\ SkOK(sk, lg, type, cs)
  BY DEF SourceOK
<1> HIDE DEF lg, type
<1>2. Reloads(sk, lg, type, cs)
  BY <1>1, ReloadOK
<1>3. Readable(Serialize(sk)) /\ new = [sk EXCEPT !.hip = @ /\ ~sk.ooo]
  BY <1>2 DEF Reloads
<1>4. SkOK(new, lg, type, cs)
  BY <1>2 DEF Reloads
<1>5. new = Flagged(sk, sk.ooo, sk.hip /\ ~sk.ooo)
  BY <1>2 DEF Reloads
<1> HIDE DEF new
<1>6. SourceOK(new, cs)
  BY <1>1, <1>4, SourceIs
<1>7. new.type = sk.type
  BY <1>1, <1>4, SkHead
<1>8. FlagsAre(new, sk.ooo, sk.hip /\ ~sk.ooo)
  BY <1>1, <1>5, FlagsOfSketch
<1> QED BY <1>3, <1>6, <1>7, <1>8 DEF FlagsAre, Usable, InOrder, new

LEMMA ForeignOK ==
  ASSUME NEW cs, NEW sk, SourceOK(sk, cs), IsArray(sk)
  PROVE  /\ SourceOK(Deserialize([Serialize(sk) EXCEPT !.ooo = TRUE]), cs)
         /\ Usable(Deserialize([Serialize(sk) EXCEPT !.ooo = TRUE]))
         /\ Deserialize([Serialize(sk) EXCEPT !.ooo = TRUE]).type = sk.type
<1> DEFINE image == [Serialize(sk) EXCEPT !.ooo = TRUE]
           new == Deserialize(image)
           lg == sk.lg_k
           type == sk.type
           o == TRUE
           h == sk.hip /\ ~o
<1>1. lg \in Lgs /\ type \in Types /\ SkOK(sk, lg, type, cs)
  BY DEF SourceOK
<1> HIDE DEF lg, type
<1>2. ArrOK(sk, lg, type, cs) /\ cs # {}
  BY <1>1, SkArray
<1>3. cs \in SUBSET AnyCoupon
  BY <1>1, SkHead
<1>4. ImageHas(image, sk, o)
  BY <1>1, <1>2, SerializeFields DEF ArrOK
<1>5. o \in BOOLEAN
  OBVIOUS
<1>6. h \in BOOLEAN
  OBVIOUS
<1> HIDE DEF image, o
<1>7. new = Flagged(sk, o, h)
  BY <1>1, <1>2, <1>3, <1>4, <1>5, ImageOfArray
<1> HIDE DEF new, h
<1>8. ArrOK(new, lg, type, cs) /\ FlagsAre(new, o, h)
  BY <1>1, <1>2, <1>3, <1>5, <1>6, <1>7, FlaggedOK
<1>9. SkOK(new, lg, type, cs)
  BY <1>2, <1>3, <1>8 DEF SkOK
<1>10. SourceOK(new, cs)
  BY <1>1, <1>9, SourceIs
<1>11. new.type = sk.type
  BY <1>1, <1>9, SkHead
<1>12. Usable(new)
  BY <1>8 DEF FlagsAre, Usable, o
<1> QED BY <1>10, <1>11, <1>12 DEF new, image

(* A step of the union: along every path, and with its flags.              *)
UnionStep(g, lo, top, cs, sk) ==
  /\ GadgetOK(g, lo, top, cs)
  /\ Usable(sk) /\ InOrder(sk) /\ Usable(gadget) => Usable(g)

LEMMA MergeArrayOK ==
  ASSUME HInv, IsArray(src), NEW g, g = AfterArray(gadget, src, lg_max_k)
  PROVE  UnionStep(g, IF src.lg_k < least THEN src.lg_k ELSE least, lg_max_k,
                   offered \cup srcOffered, src)
<1> DEFINE hi == src.lg_k
           type == src.type
           t8 == "Hll8"
           lo == IF hi < least THEN hi ELSE least
           cs == offered \cup srcOffered
<1>1. /\ hi \in Lgs /\ SkOK(src, hi, type, srcOffered) /\ lg_max_k \in Lgs
      /\ least \in Lgs /\ (IsArray(gadget) \/ least = lg_max_k)
      /\ SkOK(gadget, least, "Hll8", offered)
  BY DEF HInv, SourceOK, GadgetOK, Lgs
<1> HIDE DEF hi, type
<1>2. MergedIn(g, lo, cs, src, type)
  BY <1>1, AfterArrayOK
<1>3. lo \in Lgs
  BY <1>1
<1> HIDE DEF lo, cs
<1>4. GadgetOK(g, lo, lg_max_k, cs)
  BY <1>2, <1>3 DEF MergedIn, GadgetOK
<1>5. g.ooo \/ (type # "Hll8" /\ g.hip = src.hip)
  BY <1>2 DEF MergedIn
<1>6. Usable(src) /\ InOrder(src) => Usable(g)
  BY <1>5 DEF Usable, InOrder, type
<1> QED BY <1>4, <1>6 DEF UnionStep, lo, cs, hi

LEMMA MergeCouponsOK ==
  ASSUME HInv, ~IsEmpty(src), ~IsArray(src), NEW g,
         g = IF IsEmpty(gadget) /\ src.lg_k = gadget.lg_k
             THEN Retyped(src, "Hll8")
             ELSE UpdateWithCoupons(gadget, src.coupons)
  PROVE  UnionStep(g, least, lg_max_k, offered \cup srcOffered, src)
<1> DEFINE lg == src.lg_k
           type == src.type
           t8 == "Hll8"
           cs == offered \cup srcOffered
<1>1. /\ lg \in Lgs /\ type \in Types /\ SkOK(src, lg, type, srcOffered)
      /\ least \in Lgs /\ (IsArray(gadget) \/ least = lg_max_k)
      /\ SkOK(gadget, least, t8, offered) /\ t8 \in Types
  BY DEF HInv, SourceOK, GadgetOK, Types
<1> HIDE DEF lg, type, t8
<1>2. gadget.lg_k = least /\ gadget.type = t8
  BY <1>1, SkHead
<1>3. CASE IsEmpty(gadget) /\ lg = least
  <2>1. g = Retyped(src, t8)
    BY <1>2, <1>3 DEF t8, lg
  <2>2. Unmerged(Retyped(src, t8), lg, t8, srcOffered)
    BY <1>1, RetypeOK
  <2>3. offered = {}
    BY <1>1, <1>3, EmptyMeansNone
  <2>4. ~IsArray(gadget)
    BY <1>1, <2>3, SkArray
  <2>5. SkOK(g, least, t8, cs) /\ g.hip = TRUE
    BY <1>3, <2>1, <2>2, <2>3 DEF Unmerged
  <2>6. least = lg_max_k
    BY <1>1, <2>4
  <2> QED BY <1>1, <2>5, <2>6 DEF UnionStep, GadgetOK, Usable, t8
<1>4. CASE ~(IsEmpty(gadget) /\ lg = least)
  <2>1. src.coupons = srcOffered /\ IsFiniteSet(srcOffered)
    BY <1>1, SkCoupons
  <2>2. srcOffered \in SUBSET AnyCoupon
    BY <1>1, SkHead
  <2>3. g = UpdateWithCoupons(gadget, srcOffered)
    BY <1>2, <1>4, <2>1 DEF lg
  <2>4. SkOK(g, least, t8, cs) /\ Follows(g, gadget)
    BY <1>1, <2>1, <2>2, <2>3, UpdateManyOK
  <2>5. GadgetOK(g, least, lg_max_k, cs)
    BY <1>1, <2>4 DEF GadgetOK, Follows, t8
  <2>6. Usable(gadget) => Usable(g)
    BY <2>4 DEF Follows, SameFlags, Usable
  <2> QED BY <2>5, <2>6 DEF UnionStep
<1> QED BY <1>3, <1>4

-------------------------------------------------------------------------------
(* The flags of both sketches, if no array that another implementation     *)
(* merged and marked arrives in a packed type.                             *)
FlagInv == Usable(src) /\ InOrder(src) /\ Usable(gadget)

LEMMA UpdateUnionOK ==
  ASSUME HInv, UpdateUnion
  PROVE  HInv' /\ (FlagInv => FlagInv')
<1>1. /\ ~IsEmpty(src) /\ offered' = offered \cup srcOffered
      /\ lg_max_k' = lg_max_k /\ src' = src /\ srcOffered' = srcOffered
  BY DEF UpdateUnion, sourceVars
<1>2. UnionStep(gadget', least', lg_max_k, offered', src)
  <2>1. CASE IsArray(src)
    <3>1. gadget' = AfterArray(gadget, src, lg_max_k)
      BY <2>1 DEF UpdateUnion, UpdateFromArray, ShrinkAndMerge, AfterArray
    <3>2. least' = IF src.lg_k < least THEN src.lg_k ELSE least
      BY <2>1 DEF UpdateUnion
    <3> QED BY <1>1, <2>1, <3>1, <3>2, MergeArrayOK
  <2>2. CASE ~IsArray(src)
    <3>1. gadget' = IF IsEmpty(gadget) /\ src.lg_k = gadget.lg_k
                    THEN Retyped(src, "Hll8")
                    ELSE UpdateWithCoupons(gadget, src.coupons)
      BY <2>2 DEF UpdateUnion, UpdateFromListOrSet, Retyped
    <3>2. least' = least
      BY <2>2 DEF UpdateUnion
    <3> QED BY <1>1, <2>2, <3>1, <3>2, MergeCouponsOK
  <2> QED BY <2>1, <2>2
<1>3. SourceOK(src', srcOffered') /\ lg_max_k' \in LgMaxes
  BY <1>1 DEF HInv
<1>4. GadgetOK(gadget', least', lg_max_k', offered')
  BY <1>1, <1>2 DEF UnionStep
<1>5. FlagInv => FlagInv'
  BY <1>1, <1>2 DEF FlagInv, UnionStep
<1> QED BY <1>3, <1>4, <1>5 DEF HInv

LEMMA UpdateValueOK ==
  ASSUME HInv, NEW c \in Coupons, UpdateValue(c)
  PROVE  HInv' /\ (FlagInv => FlagInv')
<1> DEFINE new == UpdateWithCoupon(gadget, c)
           t8 == "Hll8"
<1>1. /\ gadget' = new /\ offered' = offered \cup {c} /\ least' = least
      /\ lg_max_k' = lg_max_k /\ src' = src /\ srcOffered' = srcOffered
  BY DEF UpdateValue, sourceVars
<1>2. /\ least \in Lgs /\ (IsArray(gadget) \/ least = lg_max_k) /\ t8 \in Types
      /\ SkOK(gadget, least, t8, offered) /\ c \in AnyCoupon
  BY CouponsAre DEF HInv, GadgetOK, Types
<1> HIDE DEF t8
<1>3. SkOK(new, least, t8, offered \cup {c}) /\ Follows(new, gadget)
  BY <1>2, UpdateOK
<1> HIDE DEF new
<1>4. GadgetOK(gadget', least', lg_max_k', offered')
  BY <1>1, <1>2, <1>3 DEF GadgetOK, Follows, t8
<1>5. Usable(gadget) => Usable(gadget')
  BY <1>1, <1>3 DEF Follows, SameFlags, Usable
<1> QED BY <1>1, <1>4, <1>5 DEF HInv, FlagInv

LEMMA SourceStepOK ==
  ASSUME HInv,
         (\E lg \in SourceLgs, type \in SourceTypes : NewSource(lg, type))
           \/ (\E c \in Coupons : UpdateSource(c)) \/ ReloadSource \/ ReadForeignUnion
  PROVE  HInv' /\ (FlagInv /\ ForeignTypes \subseteq {"Hll8"} => FlagInv')
<1> DEFINE Goal ==
      /\ UNCHANGED <<lg_max_k, gadget, offered, least>>
      /\ SourceOK(src', srcOffered')
      /\ Usable(src) => Usable(src')
      /\ InOrder(src) /\ ForeignTypes \subseteq {"Hll8"} => InOrder(src')
<1>1. ASSUME NEW lg \in SourceLgs, NEW type \in SourceTypes, NewSource(lg, type) PROVE Goal
  BY <1>1, NewSourceOK DEF NewSource, unionVars
<1>2. SourceOK(src, srcOffered)
  BY DEF HInv
<1>3. ASSUME NEW c \in Coupons, UpdateSource(c) PROVE Goal
  <2>1. /\ src' = UpdateWithCoupon(src, c) /\ srcOffered' = srcOffered \cup {c}
        /\ UNCHANGED <<lg_max_k, gadget, offered, least>>
    BY <1>3 DEF UpdateSource, unionVars
  <2> QED BY <1>2, <2>1, UpdateSourceOK
<1>4. ASSUME ReloadSource PROVE Goal
  <2>1. /\ src' = Deserialize(Serialize(src)) /\ srcOffered' = srcOffered
        /\ UNCHANGED <<lg_max_k, gadget, offered, least>>
    BY <1>4 DEF ReloadSource, unionVars
  <2> QED BY <1>2, <2>1, ReloadSourceOK
<1>5. ASSUME ReadForeignUnion PROVE Goal
  <2>1. /\ IsArray(src) /\ src.type \in ForeignTypes
        /\ src' = Deserialize([Serialize(src) EXCEPT !.ooo = TRUE])
        /\ srcOffered' = srcOffered /\ UNCHANGED <<lg_max_k, gadget, offered, least>>
    BY <1>5 DEF ReadForeignUnion, unionVars
  <2>2. SourceOK(src', srcOffered) /\ Usable(src') /\ src'.type = src.type
    BY <1>2, <2>1, ForeignOK
  <2>3. ForeignTypes \subseteq {"Hll8"} => InOrder(src')
    BY <2>1, <2>2 DEF InOrder
  <2> QED BY <2>1, <2>2, <2>3
<1>6. Goal
  BY <1>1, <1>3, <1>4, <1>5
<1>7. HInv'
  BY <1>6 DEF HInv
<1>8. FlagInv /\ ForeignTypes \subseteq {"Hll8"} => FlagInv'
  BY <1>6 DEF FlagInv
<1> QED BY <1>7, <1>8

LEMMA TakeResultOK ==
  ASSUME HInv, NEW type \in SourceTypes, TakeResult(type)
  PROVE  HInv' /\ (FlagInv => FlagInv')
<1>1. /\ src' = ToSketch(type) /\ srcOffered' = offered
      /\ UNCHANGED <<lg_max_k, gadget, offered, least>>
  BY DEF TakeResult, unionVars
<1>2. type \in Types /\ least \in Lgs /\ SkOK(gadget, least, "Hll8", offered)
  BY SketchesAssumption DEF HInv, GadgetOK
<1>3. ResultOK(ToSketch(type), least, type, offered, gadget)
  BY <1>2, ToSketchOK
<1>4. ResultOK(src', least, type, srcOffered', gadget)
  BY <1>1, <1>3
<1>5. SkOK(src', least, type, srcOffered') /\ InOrder(src') /\ (Usable(gadget) => Usable(src'))
  BY <1>4 DEF ResultOK
<1>6. SourceOK(src', srcOffered')
  BY <1>2, <1>5, SourceIs
<1>7. HInv'
  BY <1>1, <1>6 DEF HInv
<1>8. FlagInv => FlagInv'
  BY <1>1, <1>5 DEF FlagInv
<1> QED BY <1>7, <1>8

LEMMA ResetOK ==
  ASSUME HInv, Reset
  PROVE  HInv' /\ (FlagInv => FlagInv')
<1>1. /\ gadget' = NewSketch(lg_max_k, "Hll8") /\ offered' = {} /\ least' = lg_max_k
      /\ lg_max_k' = lg_max_k /\ src' = src /\ srcOffered' = srcOffered
  BY DEF Reset, sourceVars
<1>2. lg_max_k \in LgMaxes
  BY DEF HInv
<1>3. GadgetOK(gadget', least', lg_max_k, offered') /\ Usable(gadget')
  BY <1>1, <1>2, NewGadgetOK
<1> QED BY <1>1, <1>3 DEF HInv, FlagInv

LEMMA StepOK ==
  ASSUME HInv, [Next]_vars
  PROVE  HInv' /\ (FlagInv /\ ForeignTypes \subseteq {"Hll8"} => FlagInv')
<1> DEFINE Goal == HInv' /\ (FlagInv /\ ForeignTypes \subseteq {"Hll8"} => FlagInv')
<1>1. ASSUME \/ \E lg \in SourceLgs, type \in SourceTypes : NewSource(lg, type)
             \/ \E c \in Coupons : UpdateSource(c)
             \/ ReloadSource \/ ReadForeignUnion
      PROVE  Goal
  BY <1>1, SourceStepOK
<1>2. ASSUME NEW c \in Coupons, UpdateValue(c) PROVE Goal
  BY <1>2, UpdateValueOK
<1>3. ASSUME UpdateUnion PROVE Goal
  BY <1>3, UpdateUnionOK
<1>4. ASSUME NEW type \in SourceTypes, TakeResult(type) PROVE Goal
  BY <1>4, TakeResultOK
<1>5. ASSUME Reset PROVE Goal
  BY <1>5, ResetOK
<1>6. ASSUME UpdateSkipped \/ UNCHANGED vars PROVE Goal
  <2>1. UNCHANGED <<lg_max_k, gadget, src, offered, srcOffered, least>>
    BY <1>6 DEF UpdateSkipped, vars
  <2> QED BY <2>1 DEF HInv, FlagInv
<1> HIDE DEF Goal
<1>7. Goal
  BY <1>1, <1>2, <1>3, <1>4, <1>5, <1>6 DEF Next
<1> QED BY <1>7 DEF Goal

(* In every reachable state both sketches represent what they have been    *)
(* offered.                                                                *)
THEOREM Invariance == Spec => []HInv
<1>1. Init => HInv
  BY InitOK
<1>2. HInv /\ [Next]_vars => HInv'
  BY StepOK
<1> QED BY <1>1, <1>2, PTL DEF Spec

(* Updates promote a sketch from list to set to array, at every size and   *)
(* for every target type, without losing a coupon and with room for the    *)
(* next, also after its image has been read back or a result of the union  *)
(* has been taken; its own image is accepted and read as the same sketch   *)
(* (sketch.rs:215-244, 309-445, 461-510).                                  *)
THEOREM SourceIsComplete == Spec => []SourceComplete
<1>1. HInv => SourceComplete
  <2> SUFFICES ASSUME HInv PROVE SourceComplete
    OBVIOUS
  <2>1. SourceOK(src, srcOffered)
    BY DEF HInv
  <2>2. Readable(Serialize(src)) /\ Deserialize(Serialize(src)) = [src EXCEPT !.hip = @ /\ ~src.ooo]
    BY <2>1, ReloadSourceOK
  <2>3. HasRoom(src) /\ Represents(src, srcOffered)
    BY <2>1, Complete DEF SourceOK
  <2> QED BY <2>2, <2>3 DEF SourceComplete
<1> QED BY <1>1, Invariance, PTL

(* The gadget and every result made from it are the sketch of all that has *)
(* been offered to the union since the last reset, in the least precision  *)
(* of lg_max_k and the arrays merged, for every order of updates, merges   *)
(* and results fed back (union.rs:47-49, 140-295, 529-617).                *)
THEOREM UnionIsComplete == Spec => []UnionComplete
<1>1. HInv => UnionComplete
  <2> SUFFICES ASSUME HInv PROVE UnionComplete
    OBVIOUS
  <2>1. least \in Lgs /\ SkOK(gadget, least, "Hll8", offered)
    BY DEF HInv, GadgetOK
  <2>2. gadget.type = "Hll8" /\ gadget.lg_k = least
    BY <2>1, SkHead
  <2>3. HasRoom(gadget) /\ Represents(gadget, offered)
    BY <2>1, Complete
  <2>4. ASSUME NEW to \in Types
        PROVE  ToSketch(to).type = to /\ ToSketch(to).lg_k = least /\ Represents(ToSketch(to), offered)
    <3> DEFINE r == ToSketch(to)
    <3>1. SkOK(r, least, to, offered)
      BY <2>1, ToSketchOK DEF ResultOK
    <3> HIDE DEF r
    <3>2. r.lg_k = least /\ r.type = to
      BY <2>1, <3>1, SkHead
    <3>3. Represents(r, offered)
      BY <2>1, <3>1, Complete
    <3> QED BY <3>2, <3>3 DEF r
  <2> QED BY <2>2, <2>3, <2>4 DEF UnionComplete
<1> QED BY <1>1, Invariance, PTL

(* The sums that the estimators read are those of the registers, however   *)
(* the array came about, and an array that is not marked out of order has  *)
(* a HIP accumulator that is an estimate, as long as no 4- or 6-bit array  *)
(* marked by another implementation is read                                *)
(* (estimator.rs:77-122, 292-299; array8.rs:229-250; union.rs:583-617).    *)
THEOREM EstimatorIsUsable ==
  ASSUME ForeignTypes \subseteq {"Hll8"}
  PROVE  Spec => []EstimatorUsable
<1>1. Init => HInv /\ FlagInv
  BY InitOK DEF FlagInv
<1>2. (HInv /\ FlagInv) /\ [Next]_vars => (HInv /\ FlagInv)'
  BY StepOK
<1>3. HInv /\ FlagInv => EstimatorUsable
  <2> SUFFICES ASSUME HInv, FlagInv, NEW sk \in {src, gadget}, IsArray(sk)
               PROVE  /\ ~sk.ooo => sk.hip
                      /\ sk.kxq0 = Kxq0(Registers(sk)) /\ sk.kxq1 = Kxq1(Registers(sk))
    BY DEF EstimatorUsable
  <2>1. ~sk.ooo => sk.hip
    BY DEF FlagInv, Usable
  <2>2. \E lg \in Lgs : \E type, cs : SkOK(sk, lg, type, cs)
    BY DEF HInv, SourceOK, GadgetOK
  <2>3. Counted(sk)
    BY <2>2, SkArray DEF ArrOK
  <2> QED BY <2>1, <2>3 DEF Counted
<1> QED BY <1>1, <1>2, <1>3, PTL DEF Spec
=============================================================================
