-------------------------------- MODULE Roll --------------------------------
(***************************************************************************)
(* What logging in and out promises about characters: a character is out   *)
(* of the game, in it without a link, or played by one connection; it      *)
(* passes from one connection to another only when the second one was      *)
(* asked "Reconnect?" and said yes; a lost link keeps it in the game.      *)
(***************************************************************************)
CONSTANTS Player,    \* connections
          Character,
          Nobody

VARIABLES plays,     \* the character each connection plays
          asks,      \* the character each connection was asked about
          linkdead   \* the characters in the game that nobody plays

vars == <<plays, asks, linkdead>>

Init ==
  /\ plays = [p \in Player |-> Nobody]
  /\ asks = [p \in Player |-> Nobody]
  /\ linkdead = {}

Idle(p) == plays[p] = Nobody /\ asks[p] = Nobody
InGame(c) == c \in linkdead \/ \E p \in Player : plays[p] = c

(* The character comes from its file. *)
Enter(p, c) ==
  /\ Idle(p)
  /\ ~InGame(c)
  /\ plays' = [plays EXCEPT ![p] = c]
  /\ UNCHANGED <<asks, linkdead>>

(* It is in the game without a link, and nobody else claims it. *)
Resume(p, c) ==
  /\ Idle(p)
  /\ c \in linkdead
  /\ \A q \in Player : asks[q] # c
  /\ plays' = [plays EXCEPT ![p] = c]
  /\ linkdead' = linkdead \ {c}
  /\ UNCHANGED asks

(* Somebody is connected with it. *)
Ask(p, c) ==
  /\ Idle(p)
  /\ asks' = [asks EXCEPT ![p] = c]
  /\ UNCHANGED <<plays, linkdead>>

(* The answer is yes: everybody else who plays the character or was asked  *)
(* about it is thrown out.                                                 *)
Displace(p, c) ==
  /\ asks[p] = c
  /\ InGame(c)
  /\ plays' = [q \in Player |-> IF q = p THEN c
                                ELSE IF plays[q] = c THEN Nobody ELSE plays[q]]
  /\ asks' = [q \in Player |-> IF asks[q] = c THEN Nobody ELSE asks[q]]
  /\ linkdead' = linkdead \ {c}

(* The answer is yes, but the character has left the game: the question    *)
(* stays, and only the others who were asked are thrown out.               *)
FindNobody(p, c) ==
  /\ asks[p] = c
  /\ ~InGame(c)
  /\ asks' = [q \in Player |-> IF q # p /\ asks[q] = c THEN Nobody ELSE asks[q]]
  /\ UNCHANGED <<plays, linkdead>>

Withdraw(p) ==
  /\ asks[p] # Nobody
  /\ asks' = [asks EXCEPT ![p] = Nobody]
  /\ UNCHANGED <<plays, linkdead>>

LoseLink(p, c) ==
  /\ plays[p] = c
  /\ plays' = [plays EXCEPT ![p] = Nobody]
  /\ linkdead' = linkdead \cup {c}
  /\ UNCHANGED asks

Quit(p) ==
  /\ plays[p] # Nobody
  /\ plays' = [plays EXCEPT ![p] = Nobody]
  /\ UNCHANGED <<asks, linkdead>>

(* Characters without a link are put back into their files. *)
Expire(C) ==
  /\ linkdead' = linkdead \ C
  /\ UNCHANGED <<plays, asks>>

Next ==
  \/ \E p \in Player, c \in Character :
       \/ Enter(p, c) \/ Resume(p, c) \/ Ask(p, c) \/ Displace(p, c)
       \/ FindNobody(p, c) \/ LoseLink(p, c)
  \/ \E p \in Player : Withdraw(p) \/ Quit(p)
  \/ \E C \in SUBSET Character : Expire(C)

Spec == Init /\ [][Next]_vars

=============================================================================
