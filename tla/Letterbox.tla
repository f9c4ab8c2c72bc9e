----------------------------- MODULE Letterbox -----------------------------
(***************************************************************************)
(* What players may rely on when they write to each other: a letter that   *)
(* was accepted is handed to its addressee, to nobody else and never       *)
(* twice, or it is lost, and nobody is handed a letter that nobody wrote.  *)
(***************************************************************************)
CONSTANTS Id,        \* what tells letters apart
          Name,      \* whom a letter can be for
          Reader     \* those of them that somebody bears

VARIABLES waiting,   \* letters accepted and neither handed over nor lost
          given      \* letters handed over, with the reader they came to

letterboxVars == <<waiting, given>>

LetterboxInit == waiting = {} /\ given = {}

(* A letter has an id that none has that is waiting or was handed over. *)
Accept(id, to) ==
  /\ \A l \in waiting \cup given : l.id # id
  /\ waiting' = waiting \cup {[id |-> id, to |-> to]}
  /\ given' = given

Hand(l) ==
  /\ l.to \in Reader
  /\ waiting' = waiting \ {l}
  /\ given' = given \cup {l}

Lose ==
  /\ waiting' \in SUBSET waiting
  /\ given' = given

LetterboxNext ==
  \/ \E id \in Id, to \in Name : Accept(id, to)
  \/ \E l \in waiting : Hand(l)
  \/ Lose

LetterboxSpec == LetterboxInit /\ [][LetterboxNext]_letterboxVars
=============================================================================
