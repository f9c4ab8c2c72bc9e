----------------------------- MODULE MCSessions -----------------------------
(* Small instances of Sessions: a mortal character and two immortals. *)
EXTENDS Sessions, TLC

CONSTANTS mortal, god, elder

MCLevel == (mortal :> 0) @@ (god :> 1) @@ (elder :> 2)

Sym == Permutations(Session) \cup Permutations(Person) \cup Permutations(Beast)

=============================================================================
