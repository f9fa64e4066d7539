------------------------------ MODULE MCCpcUnion ------------------------------
(* Six columns, a window of three and one, two or four rows.               *)
EXTENDS CpcUnion

MCColumnCode == [x \in 0 .. NumCols - 1 |->
                   IF x = NumCols - 1 THEN Zeros(x) ELSE Unary(x)]

WindowSets == SUBSET (0 .. WindowBits - 1)

(* An even phase has the short code words for small bytes, an odd one for  *)
(* large bytes.                                                            *)
MCWindowCode ==
  [phase \in 0 .. 21 |->
     [byte \in WindowSets |->
        LET rank == IF phase % 2 = 0 THEN Cardinality(byte) ELSE WindowBits - Cardinality(byte)
            number == SumSet({2 ^ c : c \in byte})
        IN Unary(rank) \o Binary(number, IF rank \in {0, WindowBits} THEN 0 ELSE WindowBits)]]

MCPermutation ==
  [phase \in 0 .. 15 |->
     [c \in 0 .. NumCols - WindowBits - 1 |->
        IF phase % 2 = 0 THEN c ELSE NumCols - WindowBits - 1 - c]]

MCSparseLimit == <<3, 2>>
MCHybridLimit == <<2, 1>>

MCInputs == {<<0>>, <<8, 1>>, <<3, 13, 9, 2>>, <<0, 8, 16, 1, 9, 25, 5, 13, 2, 10, 3>>}
===============================================================================
