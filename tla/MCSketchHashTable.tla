--------------------------- MODULE MCSketchHashTable ---------------------------
(* Bounded instance of SketchHashTable. *)
EXTENDS SketchHashTable

(* The starting theta is 24 of 28, so that the hash 25 is never retained. *)
MCSampled == <<7, 8>>
===============================================================================
