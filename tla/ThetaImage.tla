------------------------------ MODULE ThetaImage ------------------------------
(***************************************************************************)
(* The images of compact Theta and Tuple sketches: serialize,              *)
(* serialize_compressed and deserialize_with_seed of theta/sketch.rs, the  *)
(* bit packing of theta/bit_pack.rs, and serialize and                     *)
(* deserialize_with_seed of tuple/sketch.rs, whose layout is that of the   *)
(* uncompressed Theta image with a summary behind each hash.               *)
(*                                                                         *)
(* A compact sketch is a view of SketchViews whose entries are a sequence  *)
(* of <<hash, summary>>, in the order in which they are stored.            *)
(***************************************************************************)
EXTENDS Integers, FiniteSets, SequencesExt, SketchViews

CONSTANTS
  MaxTheta,
  ByteBits      \* the bits of a byte, and BLOCK_WIDTH: 8 in the code

Low(v, bits) == v % 2 ^ bits

(* Numbers written one behind the other, each with the given width, most   *)
(* significant first, and such a row of digits read back.                  *)
Join(digits, bits) == FoldLeft(LAMBDA row, d : row * 2 ^ bits + d, 0, digits)
Split(row, n, bits) == [j \in 1 .. n |-> Low(row \div 2 ^ (bits * (n - j)), bits)]

(***************************************************************************)
(* BitPacker: used bits of the last byte are taken.  pack_value fills that *)
(* byte, appends whole bytes, and starts one with what is left.            *)
(***************************************************************************)
EmptyPacker == [bytes |-> <<>>, used |-> 0]

PackValue(p, v, bits) ==
  LET room  == IF p.used > 0 THEN ByteBits - p.used ELSE 0
      rest  == bits - room
      whole == rest \div ByteBits
      tail  == rest % ByteBits
      Fill(part) == [p.bytes EXCEPT ![Len(p.bytes)] = @ + Low(part, room)]
  IN IF bits < room
     THEN [bytes |-> Fill(v * 2 ^ (room - bits)), used |-> p.used + bits]
     ELSE [bytes |-> (IF room = 0 THEN p.bytes ELSE Fill(v \div 2 ^ rest))
                       \o Split(v \div 2 ^ tail, whole, ByteBits)
                       \o (IF tail = 0 THEN <<>>
                           ELSE <<Low(v * 2 ^ (ByteBits - tail), ByteBits)>>),
           used |-> tail]

(* BitUnpacker: the first used bits of the byte at index are read.         *)
UnpackValue(u, bits) ==
  LET avail == ByteBits - u.used
      chunk == Min({avail, bits})
      first == Low(u.bytes[u.index] \div 2 ^ (avail - chunk), chunk)
      next  == IF chunk = avail THEN u.index + 1 ELSE u.index
      whole == (bits - chunk) \div ByteBits
      tail  == (bits - chunk) % ByteBits
      value == Join(<<first>> \o SubSeq(u.bytes, next, next + whole - 1), ByteBits)
  IN [bytes |-> u.bytes,
      index |-> next + whole,
      used  |-> IF tail > 0 THEN tail ELSE (u.used + chunk) % ByteBits,
      value |-> IF tail = 0 THEN value
                ELSE value * 2 ^ tail + u.bytes[next + whole] \div 2 ^ (ByteBits - tail)]

(* pack_bits_block and unpack_bits_block: the unrolled routine of each     *)
(* width writes a block of ByteBits values as that many bytes as a value   *)
(* has bits.                                                               *)
PackBlock(values, bits) == Split(Join(values, bits), bits, ByteBits)
UnpackBlock(bytes, bits) == Split(Join(bytes, ByteBits), ByteBits, bits)

-------------------------------------------------------------------------------

Deltas(hashes) ==
  [j \in DOMAIN hashes |-> hashes[j] - (IF j = 1 THEN 0 ELSE hashes[j - 1])]

(* compute_entry_bits: the width of the widest delta. *)
EntryBits(hashes) ==
  CHOOSE bits \in 0 .. MaxTheta :
    /\ \A j \in DOMAIN hashes : Deltas(hashes)[j] < 2 ^ bits
    /\ bits = 0 \/ \E j \in DOMAIN hashes : Deltas(hashes)[j] >= 2 ^ (bits - 1)

(* num_entries_bytes, and the count in that many bytes. *)
NumEntriesBytes(n) ==
  CHOOSE b \in 0 .. MaxTheta : n < 2 ^ (ByteBits * b) /\ (b = 0 \/ n >= 2 ^ (ByteBits * (b - 1)))

CountBytes(n) == Reverse(Split(n, NumEntriesBytes(n), ByteBits))

(* Fault: the deltas of every block start from zero. *)
PackDeltasBlockwise(hashes, bits) ==
  LET full == (Len(hashes) \div ByteBits) * ByteBits
      Block(b) == Deltas(SubSeq(hashes, (b - 1) * ByteBits + 1, b * ByteBits))
  IN FlattenSeq([b \in 1 .. full \div ByteBits |-> PackBlock(Block(b), bits)])
       \o FoldLeft(LAMBDA p, d : PackValue(p, d, bits), EmptyPacker,
                   SubSeq(Deltas(hashes), full + 1, Len(hashes))).bytes

(* Whole blocks first, the rest value by value. *)
PackDeltas(hashes, bits) ==
  LET full == (Len(hashes) \div ByteBits) * ByteBits
      Block(b) == SubSeq(Deltas(hashes), (b - 1) * ByteBits + 1, b * ByteBits)
  IN FlattenSeq([b \in 1 .. full \div ByteBits |-> PackBlock(Block(b), bits)])
       \o FoldLeft(LAMBDA p, d : PackValue(p, d, bits), EmptyPacker,
                   SubSeq(Deltas(hashes), full + 1, Len(hashes))).bytes

UnpackDeltas(bytes, n, bits) ==
  LET blocks == n \div ByteBits
      tail   == [bytes |-> SubSeq(bytes, blocks * bits + 1, Len(bytes)),
                 index |-> 1, used |-> 0, value |-> 0]
      Unpack(st, j) == LET v == UnpackValue(st[1], bits) IN <<v, st[2] \o <<v.value>>>>
  IN FlattenSeq([b \in 1 .. blocks |->
                   UnpackBlock(SubSeq(bytes, (b - 1) * bits + 1, b * bits), bits)])
       \o FoldLeft(Unpack, <<tail, <<>>>>, [j \in 1 .. n % ByteBits |-> j])[2]

Sums(deltas) == [j \in DOMAIN deltas |-> FoldLeft(+, 0, SubSeq(deltas, 1, j))]

-------------------------------------------------------------------------------
(* Writing *)

HashesOf(sk) == [j \in DOMAIN sk.entries |-> sk.entries[j][1]]

IsEstimationMode(sk) == sk.theta < MaxTheta

PreambleLongs(sk, compressed) ==
  IF compressed THEN IF IsEstimationMode(sk) THEN 2 ELSE 1
  ELSE IF IsEstimationMode(sk) THEN 3
  ELSE IF sk.empty \/ Len(sk.entries) = 1 THEN 1
  ELSE 2

IsSuitableForCompression(sk) ==
  /\ sk.ordered
  /\ sk.entries # <<>>
  /\ Len(sk.entries) # 1 \/ IsEstimationMode(sk)

(* Fields the image does not have are 0. *)
Serialize(sk) ==
  LET preLongs == PreambleLongs(sk, FALSE)
  IN [version |-> 3, preLongs |-> preLongs,
      empty |-> sk.empty, ordered |-> sk.ordered, seed |-> sk.seed,
      count |-> IF preLongs > 1 THEN Len(sk.entries) ELSE 0,
      theta |-> IF IsEstimationMode(sk) THEN sk.theta ELSE 0,
      payload |-> sk.entries]

SerializeV4(sk) ==
  LET hashes == HashesOf(sk)
      bits   == EntryBits(hashes)
  IN [version |-> 4, preLongs |-> PreambleLongs(sk, TRUE),
      empty |-> FALSE, ordered |-> TRUE, seed |-> sk.seed,
      entryBits |-> bits, count |-> CountBytes(Len(hashes)),
      theta |-> IF IsEstimationMode(sk) THEN sk.theta ELSE 0,
      payload |-> PackDeltas(hashes, bits)]

SerializeCompressed(sk) ==
  IF IsSuitableForCompression(sk) THEN SerializeV4(sk) ELSE Serialize(sk)

(***************************************************************************)
(* The older formats, which only other implementations write: version 1    *)
(* has no seed and no flags, version 2 tells an empty and an exact sketch  *)
(* by its preamble; their sketches are ordered, and an empty one has the   *)
(* full threshold.                                                         *)
(***************************************************************************)
WriteV1(sk) ==
  [version |-> 1, preLongs |-> 3, count |-> Len(sk.entries),
   theta |-> IF sk.empty THEN MaxTheta ELSE sk.theta,
   payload |-> sk.entries]

WriteV2(sk) ==
  [version |-> 2, seed |-> sk.seed, count |-> Len(sk.entries), theta |-> sk.theta,
   preLongs |-> IF sk.empty THEN 1 ELSE IF IsEstimationMode(sk) THEN 3 ELSE 2,
   payload |-> sk.entries]

-------------------------------------------------------------------------------
(* Reading *)

Unreadable == [ok |-> FALSE]

Loaded(entries, theta, seed, ordered, empty) ==
  [ok |-> TRUE,
   sketch |-> [entries |-> entries, theta |-> theta, seed |-> seed,
               ordered |-> ordered, empty |-> empty]]

(* read_entries, and the checks on what was unpacked. *)
Valid(entries, n, theta) ==
  /\ Len(entries) >= n
  /\ \A j \in 1 .. n : 0 < entries[j][1] /\ entries[j][1] < theta

Checked(img, n, theta, seed, ordered, empty) ==
  IF Valid(img.payload, n, theta)
  THEN Loaded(SubSeq(img.payload, 1, n), theta, seed, ordered, empty)
  ELSE Unreadable

DeserializeV1(img, expected) ==
  LET empty == img.count = 0 /\ img.theta = MaxTheta
  IN Checked(img, img.count, img.theta, expected, TRUE, empty)

DeserializeV2(img, expected) ==
  IF img.seed # expected THEN Unreadable
  ELSE CASE img.preLongs = 1 -> Loaded(<<>>, MaxTheta, img.seed, TRUE, TRUE)
         [] img.preLongs = 2 ->
              Checked(img, img.count, MaxTheta, img.seed, TRUE, img.count = 0)
         [] img.preLongs = 3 ->
              Checked(img, img.count, img.theta, img.seed, TRUE,
                      img.count = 0 /\ img.theta = MaxTheta)

DeserializeV3(img, expected) ==
  IF img.empty THEN Loaded(<<>>, MaxTheta, img.seed, img.ordered, TRUE)
  ELSE IF img.seed # expected THEN Unreadable
  ELSE Checked(img, IF img.preLongs = 1 THEN 1 ELSE img.count,
               IF img.preLongs > 2 THEN img.theta ELSE MaxTheta,
               img.seed, img.ordered, FALSE)

(* A compressed image has hashes only. *)
DeserializeV4(img, expected) ==
  LET n      == Join(Reverse(img.count), ByteBits)
      theta  == IF img.preLongs > 1 THEN img.theta ELSE MaxTheta
      hashes == Sums(UnpackDeltas(img.payload, n, img.entryBits))
      entries == [j \in DOMAIN hashes |-> <<hashes[j], 0>>]
  IN IF ~img.empty /\ img.seed # expected THEN Unreadable
     ELSE IF n > 0 /\ img.entryBits = 0 THEN Unreadable
     ELSE IF Valid(entries, n, theta)
     THEN Loaded(entries, theta, img.seed, img.ordered, img.empty)
     ELSE Unreadable

Deserialize(img, expected) ==
  CASE img.version = 1 -> DeserializeV1(img, expected)
    [] img.version = 2 -> DeserializeV2(img, expected)
    [] img.version = 3 -> DeserializeV3(img, expected)
    [] img.version = 4 -> DeserializeV4(img, expected)
===============================================================================
