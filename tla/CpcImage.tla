-------------------------------- MODULE CpcImage --------------------------------
(***************************************************************************)
(* The image of a CPC sketch: serialize and deserialize of cpc/sketch.rs   *)
(* and the read-only view of cpc/wrapper.rs.  The table is written as      *)
(* sorted pairs whose columns depend on the flavor, and everything that    *)
(* follows from k and the number of coupons is left out.  An image is a    *)
(* record of its flags, the sequence of fields behind them and the bits of *)
(* the payload.                                                            *)
(***************************************************************************)
EXTENDS CpcSketch

Sorted(pairs) == SortSeq(pairs, <)

(* determine_pseudo_phase *)
PseudoPhase(k, coupons) ==
  LET below(n, d) == d * coupons < n * k
  IN IF ~below(2375, 1000) THEN ((16 * coupons) \div k) % 16
     ELSE IF below(3, 4) THEN 16
     ELSE IF below(11, 10) THEN 17
     ELSE IF below(132, 100) THEN 18
     ELSE IF below(5, 3) THEN 19
     ELSE IF below(1965, 1000) THEN 20
     ELSE IF below(2275, 1000) THEN 21
     ELSE 6

(* The columns outside the window, numbered from the one behind it on and  *)
(* wrapping to those before it, then permuted.                             *)
SlidColumn(col, offset) == (col + NumCols - WindowBits - offset) % NumCols
UnslidColumn(col, offset) == (col + offset + WindowBits) % NumCols

Permuted(phase, col) == Permutation[phase][col]
Unpermuted(phase, col) == CHOOSE c \in DOMAIN Permutation[phase] : Permutation[phase][c] = col

WindowPairs(window) ==
  FlattenSeq([n \in 1 .. Cardinality(DOMAIN window) |->
                SelectSeq([c \in 1 .. WindowBits |-> Pair(n - 1, c - 1)],
                          LAMBDA pair : Col(pair) \in window[n - 1])])

(* The pairs serialize writes. *)
ImagePairs(sk) ==
  LET table == IF sk.coupons = 0 THEN <<>> ELSE UnwrappingGetItems(sk.table)
      phase == PseudoPhase(sk.k, sk.coupons)
  IN Sorted(
       CASE FlavorOf(sk) \in {"empty", "sparse"} -> table
         [] FlavorOf(sk) = "hybrid" -> table \o WindowPairs(sk.window)
         [] FlavorOf(sk) = "pinned" -> [n \in DOMAIN table |-> table[n] - WindowBits]
         [] FlavorOf(sk) = "sliding" ->
              [n \in DOMAIN table |->
                 Pair(Row(table[n]), Permuted(phase, SlidColumn(Col(table[n]), sk.offset)))])

HasWindow(sk) == FlavorOf(sk) \in {"pinned", "sliding"}

HasData(img) == img.hasTable \/ img.hasWindow
HasBoth(img) == img.hasTable /\ img.hasWindow

(* make_preamble_ints *)
PreambleInts(coupons, img) ==
  LET ints(flag, n) == IF flag THEN n ELSE 0
  IN 2 + ints(coupons > 0, 1 + ints(img.hasHip, 4) + ints(img.hasTable, 1)
                             + ints(HasBoth(img), 1) + ints(img.hasWindow, 1))

Optional(flag, field) == IF flag THEN <<field>> ELSE <<>>

(* Fault: the HIP fields stand behind the word counts in every image.      *)
FieldsHipLast(img, f) ==
  <<f.coupons>> \o Optional(HasBoth(img), f.entries)
     \o Optional(img.hasTable, f.tableWords) \o Optional(img.hasWindow, f.windowWords)
     \o Optional(img.hasHip, f.kxp)

(* The fields of an image that is not empty, in their order; the number of *)
(* table entries is only written next to a window, and the HIP fields come *)
(* before the word counts then.  kxp stands for both of them.              *)
Fields(img, f) ==
  <<f.coupons>> \o Optional(HasBoth(img), f.entries)
     \o Optional(img.hasHip /\ HasBoth(img), f.kxp)
     \o Optional(img.hasTable, f.tableWords) \o Optional(img.hasWindow, f.windowWords)
     \o Optional(img.hasHip /\ ~HasBoth(img), f.kxp)

Serialize(sk) ==
  LET pairs  == ImagePairs(sk)
      table  == IF pairs = <<>> THEN <<>> ELSE EncodePairs(pairs, sk.k)
      window == IF HasWindow(sk)
                THEN EncodeWindow(sk.window, sk.k, PseudoPhase(sk.k, sk.coupons)) ELSE <<>>
      flags  == [hasHip |-> ~sk.merged, hasTable |-> pairs # <<>>, hasWindow |-> HasWindow(sk)]
      values == [coupons |-> sk.coupons, entries |-> Len(pairs), kxp |-> sk.kxp,
                 tableWords |-> Len(table) \div WordBits,
                 windowWords |-> Len(window) \div WordBits]
  IN flags @@ [k |-> sk.k, fic |-> sk.fic, ints |-> PreambleInts(sk.coupons, flags),
               fields  |-> IF sk.coupons = 0 THEN <<>> ELSE Fields(flags, values),
               payload |-> window \o table]

-------------------------------------------------------------------------------

(* The values of the fields, each at the place its flags give it.  An      *)
(* image without a table and a window has none, whatever its HIP flag      *)
(* says, and kxp is then zero.                                             *)
ReadFields(img) ==
  LET at(flag, place) == IF flag THEN img.fields[place] ELSE 0
      words   == IF ~HasBoth(img) THEN 2 ELSE IF img.hasHip THEN 4 ELSE 3
      coupons == at(HasData(img), 1)
  IN [coupons |-> coupons,
      entries |-> IF img.hasWindow THEN at(img.hasTable, 2) ELSE coupons,
      kxp     |-> at(img.hasHip /\ HasData(img), 3),
      tableWords  |-> at(img.hasTable, words),
      windowWords |-> at(img.hasWindow, IF img.hasTable THEN words + 1 ELSE words)]

(* The fields and the two parts of the payload, the window first. *)
Parsed(img) ==
  LET f     == ReadFields(img)
      split == f.windowWords * WordBits
  IN f @@ [k |-> img.k, window |-> SubSeq(img.payload, 1, split),
           table |-> SubSeq(img.payload, split + 1, split + f.tableWords * WordBits)]

(* CpcWrapper::new, which reads the same fields once more, and no payload. *)
Wrapper(img) == [k |-> img.k, merged |-> ~img.hasHip, coupons |-> ReadFields(img).coupons]

ReadPairs(in) == DecodePairs(in.table, in.entries, in.k)

ReadTable(in, pairs) ==
  LET phase  == PseudoPhase(in.k, in.coupons)
      flavor == Flavor(in.k, in.coupons)
      offset == CorrectOffset(in.k, in.coupons)
  IN FromSlots(PairBits(in.k),
       CASE flavor = "empty" -> <<>>
         [] flavor = "sparse" -> pairs
         [] flavor = "hybrid" -> SelectSeq(pairs, LAMBDA pair : Col(pair) >= WindowBits)
         [] flavor = "pinned" -> [n \in DOMAIN pairs |-> pairs[n] + WindowBits]
         [] flavor = "sliding" ->
              [n \in DOMAIN pairs |->
                 Pair(Row(pairs[n]), UnslidColumn(Unpermuted(phase, Col(pairs[n])), offset))])

ReadWindow(in, pairs) ==
  CASE Flavor(in.k, in.coupons) \in {"empty", "sparse"} -> None
    [] Flavor(in.k, in.coupons) = "hybrid" ->
         [r \in Rows(in.k) |-> {c \in 0 .. WindowBits - 1 : Pair(r, c) \in ToSet(pairs)}]
    [] OTHER ->
         DecodeWindow(in.window, in.k, PseudoPhase(in.k, in.coupons)).window

(* The checks of deserialize; the columns of pinned and sliding pairs must *)
(* be encoded ones.                                                        *)
Readable(img) ==
  LET f      == ReadFields(img)
      flavor == Flavor(img.k, f.coupons)
      in     == Parsed(img)
      pairs  == ReadPairs(in)
  IN /\ img.ints = PreambleInts(f.coupons, img)
     /\ f.coupons <= NumCols * img.k
     /\ img.hasWindow = (flavor \in {"pinned", "sliding"})
     /\ flavor \in {"sparse", "hybrid"} => img.hasTable
     /\ f.entries <= f.coupons
     /\ f.entries <= f.tableWords * WordBits
     /\ img.hasWindow => f.windowWords * WordBits >= img.k
     /\ (f.windowWords + f.tableWords) * WordBits <= Len(img.payload)
     /\ pairs.ok
     /\ img.hasWindow =>
          /\ DecodeWindow(in.window, in.k, PseudoPhase(in.k, in.coupons)).ok
          /\ \A n \in DOMAIN pairs.pairs : Col(pairs.pairs[n]) < NumCols - WindowBits
     /\ Cardinality(ToSet(pairs.pairs)) = Len(pairs.pairs)

Deserialize(img) ==
  LET in    == Parsed(img)
      pairs == ReadPairs(in).pairs
  IN [k |-> in.k, fic |-> img.fic, coupons |-> in.coupons,
      table |-> ReadTable(in, pairs), offset |-> CorrectOffset(in.k, in.coupons),
      window |-> ReadWindow(in, pairs), merged |-> ~img.hasHip, kxp |-> in.kxp]
===============================================================================
