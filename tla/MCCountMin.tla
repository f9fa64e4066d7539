------------------------------ MODULE MCCountMin ------------------------------
(* Two rows of three buckets; items 1 and 2 collide in the first row,      *)
(* items 2 and 3 in the second.                                            *)
EXTENDS CountMin

MCBucket == <<<<0, 0, 2>>, <<1, 0, 0>>>>
MCWeights == {-2, 0, 1, 3}
MCDecays == {<<1, 3>>, <<2, 3>>, <<1, 1>>}
===============================================================================
