------------------------------ MODULE MCCombat ------------------------------
(* A fight of three for Combat. *)
EXTENDS Combat

CONSTANTS brute, orc, troll
=============================================================================
