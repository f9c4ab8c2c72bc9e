----------------------------- MODULE MCCharLoop -----------------------------
(* A small world for CharLoop: a player, a guard and a rat at the start,   *)
(* another rat to come.                                                    *)
EXTENDS CharLoop

CONSTANTS hero, guard, rat, ratling

MCWorld == <<hero, rat, guard>>
=============================================================================
