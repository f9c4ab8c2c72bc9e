-------------------------------- MODULE Walks --------------------------------
(***************************************************************************)
(* Walking along an intrusive list: every element has a pointer to the     *)
(* next one, and a pointer to the element to go on with is kept while the  *)
(* present one is dealt with.  The list is a sequence without repetitions. *)
(***************************************************************************)
EXTENDS Integers, SequencesExt

(* Where e is. *)
Place(s, e) == CHOOSE i \in 1..Len(s) : s[i] = e

(* e->next; null is what stands for a null pointer *)
After(s, e, null) == IF Place(s, e) < Len(s) THEN s[Place(s, e) + 1] ELSE null

(* The head of the list. *)
First(s, null) == IF s = <<>> THEN null ELSE s[1]

(* e and everything behind it: what a walk that is at e still comes to. *)
From(s, e) ==
  {s[i] : i \in {j \in 1..Len(s) : \E k \in 1..j : s[k] = e}}
=============================================================================
