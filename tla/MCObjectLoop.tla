---------------------------- MODULE MCObjectLoop ----------------------------
(* A small world for ObjectLoop: three objects at the start, one to come. *)
EXTENDS ObjectLoop

CONSTANTS lamp, sword, corpse, coin

MCWorld == <<lamp, sword, corpse>>
=============================================================================
