----------------------------- MODULE MCInputLoop -----------------------------
(* Three connections for InputLoop. *)
EXTENDS InputLoop

CONSTANTS anna, bert, carl
=============================================================================
