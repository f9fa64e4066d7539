-------------------------- MODULE MCReversePurgeMap --------------------------
(* Two sketches, with maps of up to 16 and 8 slots, and the hash layouts   *)
(* of their items in order of arrival.                                     *)
EXTENDS ReversePurgeMap, TLC, Sequences

MCLgMax == "left" :> 4 @@ "right" :> 3

MCCountsOf == <<{0, 1}, {1}, {4}, {1}, {2}, {1}, {2}>>

MCHomes ==
  {<<6, 6, 3, 7, 7, 0, 6>>,     \* one cluster that wraps round
   <<3, 7, 3, 7, 2, 6, 2>>}     \* two clusters, homes before their heads
==============================================================================
