------------------------------- MODULE CpcCodec -------------------------------
(***************************************************************************)
(* The compressed payload of a CPC image (cpc/compression.rs): pairs as    *)
(* deltas to a predicted row and column, a column delta in a prefix code   *)
(* and a row delta in a Golomb code, and window bytes in a prefix code     *)
(* chosen by the phase of the sketch.                                      *)
(*                                                                         *)
(* A payload is a sequence of bits, filled up to whole words.  The code    *)
(* tables of compression_data.rs are constants: prefix codes of at most    *)
(* MaxCode bits, which a reader looks up after peeking MaxCode bits, so    *)
(* that a payload has to be padded for its last code word.                 *)
(***************************************************************************)
EXTENDS Integers, Sequences, SequencesExt

CONSTANTS
  NumCols,      \* columns of the bit matrix (64)
  ColSpan,      \* a pair is row * ColSpan + column (64)
  ColumnCode,   \* column delta -> bits (the length-limited unary code)
  WindowCode,   \* phase -> set of window bits -> bits
  MaxCode,      \* the longest code word (12)
  UnaryPeek,    \* bits read_unary looks at in one go (8)
  WordBits      \* bits of a payload word (32)

ASSUME CodeAssumption ==
  \A x \in DOMAIN ColumnCode : Len(ColumnCode[x]) \in 1 .. MaxCode

Row(pair) == pair \div ColSpan
Col(pair) == pair % ColSpan

Zeros(n) == [i \in 1 .. n |-> 0]

Unary(n) == Append(Zeros(n), 1)

Binary(v, count) == [i \in 1 .. count |-> (v \div 2 ^ (i - 1)) % 2]
Number(bits) == FoldLeftDomain(LAMBDA v, i : v + bits[i] * 2 ^ (i - 1), 0, bits)

(* finish: the last word is filled up. *)
Finished(bits) == bits \o Zeros((WordBits - (Len(bits) % WordBits)) % WordBits)

FloorLog2(x) == CHOOSE p \in 0 .. x : 2 ^ p <= x /\ x < 2 ^ (p + 1)

(* golomb_choose_number_of_base_bits *)
BaseBits(k, count) ==
  LET quotient == (k - count) \div count
  IN IF quotient = 0 THEN 0 ELSE FloorLog2(quotient)

(* Fault: the padding forgets that reading a code word peeks further.      *)
NoPairPadding(base) == 0

(* pad(10 - num_base_bits), saturating at zero. *)
PairPadding(base) == IF base > MaxCode - 2 THEN 0 ELSE MaxCode - 2 - base

(* Pairs in ascending order. *)
EncodePairs(pairs, k) ==
  LET base == BaseBits(k + Len(pairs), Len(pairs))
      code(prev, pair) ==
        LET dy == Row(pair) - prev.row
            dx == Col(pair) - (IF dy = 0 THEN prev.col ELSE 0)
        IN ColumnCode[dx] \o Unary(dy \div 2 ^ base) \o Binary(dy % 2 ^ base, base)
      step(out, pair) ==
        [row |-> Row(pair), col |-> Col(pair) + 1, bits |-> out.bits \o code(out, pair)]
      coded == FoldLeft(step, [row |-> 0, col |-> 0, bits |-> <<>>], pairs)
  IN Finished(coded.bits \o Zeros(PairPadding(base)))

CanPeek(bits, pos, count) == pos + count <= Len(bits)

(* The code word at pos. *)
Decoded(code, bits, pos) ==
  CHOOSE v \in DOMAIN code : SubSeq(bits, pos + 1, pos + Len(code[v])) = code[v]

ZeroRun(bits, pos) == CHOOSE z \in 0 .. Len(bits) - pos - 1 :
                        bits[pos + z + 1] = 1 /\ \A y \in 1 .. z : bits[pos + y] = 0

CanReadUnary(bits, pos) ==
  /\ \E i \in pos + 1 .. Len(bits) : bits[i] = 1
  /\ CanPeek(bits, pos, (ZeroRun(bits, pos) \div UnaryPeek + 1) * UnaryPeek)

Failed == [ok |-> FALSE]

(* decode_pairs: a stream that ends early, or a row or column out of range *)
(* is an error.                                                            *)
DecodePairs(bits, count, k) ==
  LET base == BaseBits(k + count, count)
      step(in, n) ==
        IF ~in.ok \/ ~CanPeek(bits, in.pos, MaxCode) THEN Failed
        ELSE LET dx   == Decoded(ColumnCode, bits, in.pos)
                 high == in.pos + Len(ColumnCode[dx])
             IN IF ~CanReadUnary(bits, high) THEN Failed
                ELSE LET z   == ZeroRun(bits, high)
                         low == high + z + 1
                         dy  == z * 2 ^ base + Number(SubSeq(bits, low + 1, low + base))
                         row == in.row + dy
                         col == dx + (IF dy > 0 THEN 0 ELSE in.col)
                     IN IF ~CanPeek(bits, low, base) \/ row >= k \/ col >= NumCols THEN Failed
                        ELSE [ok |-> TRUE, pos |-> low + base, row |-> row, col |-> col + 1,
                              pairs |-> Append(in.pairs, row * ColSpan + col)]
  IN IF count = 0 THEN [ok |-> TRUE, pairs |-> <<>>]
     ELSE FoldLeft(step, [ok |-> TRUE, pos |-> 0, row |-> 0, col |-> 0, pairs |-> <<>>],
                   [n \in 1 .. count |-> n])

EncodeWindow(window, k, phase) ==
  Finished(FlattenSeq([r \in 1 .. k |-> WindowCode[phase][window[r - 1]]])
           \o Zeros(MaxCode - 1))

DecodeWindow(bits, k, phase) ==
  LET step(in, r) ==
        IF ~in.ok \/ ~CanPeek(bits, in.pos, MaxCode) THEN Failed
        ELSE LET byte == Decoded(WindowCode[phase], bits, in.pos)
             IN [ok |-> TRUE, pos |-> in.pos + Len(WindowCode[phase][byte]),
                 window |-> Append(in.window, byte)]
      read == FoldLeft(step, [ok |-> TRUE, pos |-> 0, window |-> <<>>], [r \in 1 .. k |-> r])
  IN IF read.ok THEN [ok |-> TRUE, window |-> [r \in 0 .. k - 1 |-> read.window[r + 1]]]
     ELSE Failed
===============================================================================
