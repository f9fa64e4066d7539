---------------------------- MODULE MCBloomFilter ----------------------------
(* Three filters of 6 bits, rounded up to two words of 4; h has another    *)
(* seed.  Hashes are 5 bits wide so that the double hashing wraps.         *)
EXTENDS BloomFilter, TLC

MCSeed == "f" :> 1 @@ "g" :> 1 @@ "h" :> 2
MCNumBits == "f" :> 6 @@ "g" :> 7 @@ "h" :> 6
MCNumHashes == "f" :> 2 @@ "g" :> 2 @@ "h" :> 2
MCHash0 == 1 :> <<3, 30, 9>> @@ 2 :> <<21, 8, 14>>
MCHash1 == 1 :> <<10, 5, 3>> @@ 2 :> <<7, 31, 4>>
==============================================================================
