------------------------------ MODULE InputLoop ------------------------------
(***************************************************************************)
(* A pulse of the game (sys/socket.cc, handleTimeAndSockets()): a new      *)
(* connection, and four walks over descriptor_list that close, read,       *)
(* process (sys/connect.cc, processAllInput()) and write.  What a line of  *)
(* input makes the game do may delete any other connection, and moves the  *)
(* pointer next_to_process from within ~Descriptor().                      *)
(*                                                                         *)
(* What select() found is not kept: at each walk a connection is ready or  *)
(* not, also a new one.  Who may cut whose link is not modelled.           *)
(***************************************************************************)
EXTENDS Walks

CONSTANTS Connection,
          Client,      \* connections with m_bIsClient
          MaxLines,    \* bound: lines waiting in one input queue
          MaxWait,     \* bound: pulses one is made to wait
          Nobody

ASSUME NobodyAssumption == Nobody \notin Connection
ASSUME ClientAssumption == Client \subseteq Connection
ASSUME BoundAssumption == MaxLines \in Nat \ {0} /\ MaxWait \in Nat \ {0}

VARIABLES list,     \* descriptor_list
          next,     \* next_to_process
          point,    \* the d or point of the walk at hand
          phase,    \* "rest" of the game; the walks "except", "read",
                    \* "process" and "output"; in "process" also "command"
                    \* while a line is dealt with, and "forget" when it has
                    \* cost the player its character
          playing,  \* connected = CON_PLYNG: lines go to parseCommand()
          lines,    \* length of input of each connection
          wait,     \* pulses until the next line
          due       \* history: who the walk at hand has still to come to

vars == <<list, next, point, phase, playing, lines, wait, due>>

Init ==
  /\ list = <<>>
  /\ next = Nobody
  /\ point = Nobody
  /\ phase = "rest"
  /\ playing = {}
  /\ lines = [c \in Connection |-> 0]
  /\ wait = [c \in Connection |-> 1]
  /\ due = {}

Behind(c) == After(list, c, Nobody)

-----------------------------------------------------------------------------
(* ~Descriptor() *)

(* Mutant of Past: next_to_process is left alone. *)
PastNone(n, c) == n

(* Mutant of Past: the walk is over. *)
PastAll(n, c) == IF n = c THEN Nobody ELSE n

Past(n, c) == IF n = c THEN Behind(c) ELSE n

(* n is next_to_process at the time. *)
Delete(c, n) ==
  /\ list' = RemoveAt(list, Place(list, c))
  /\ next' = Past(n, c)
  /\ due' = due \ {c}
  /\ playing' = playing \ {c}
  /\ lines' = [lines EXCEPT ![c] = 0]
  /\ wait' = [wait EXCEPT ![c] = 1]

-----------------------------------------------------------------------------
(* The beginning of a pulse. *)

BeginWalk(name, s) ==
  /\ phase' = name
  /\ point' = First(s, Nobody)
  /\ due' = Range(s)

Select ==
  /\ phase = "rest"
  /\ BeginWalk("except", list)
  /\ UNCHANGED <<list, next, playing, lines, wait>>

(* newDescriptor() *)
Accept(c) ==
  /\ phase = "rest"
  /\ c \notin Range(list)
  /\ list' = <<c>> \o list
  /\ BeginWalk("except", <<c>> \o list)
  /\ \E n \in 0..MaxLines : lines' = [lines EXCEPT ![c] = n]
  /\ UNCHANGED <<next, playing, wait>>

(* Whatever the walk does with point, it went on to what was behind it. *)
GoOn ==
  /\ point # Nobody
  /\ next' = Behind(point)
  /\ point' = Behind(point)
  /\ due' = due \ {point}

DeleteAndGoOn ==
  /\ point # Nobody
  /\ Delete(point, Behind(point))
  /\ point' = next'

(* An exceptional condition, a failed read: the connection is closed. *)
Close ==
  /\ phase \in {"except", "read"}
  /\ DeleteAndGoOn
  /\ UNCHANGED phase

NoException ==
  /\ phase = "except"
  /\ GoOn
  /\ UNCHANGED <<list, phase, playing, lines, wait>>

(* inputProcessing() *)
Read ==
  /\ phase = "read"
  /\ GoOn
  /\ \E n \in lines[point]..MaxLines : lines' = [lines EXCEPT ![point] = n]
  /\ UNCHANGED <<list, phase, playing, wait>>

(* A walk is over, the next begins. *)
EndWalk ==
  /\ point = Nobody
  /\ \/ phase = "except" /\ BeginWalk("read", list)
     \/ phase = "read" /\ BeginWalk("process", list)
     \/ phase = "process" /\ BeginWalk("output", list)
     \/ phase = "output" /\ phase' = "rest" /\ UNCHANGED <<point, due>>
  /\ UNCHANGED <<list, next, playing, lines, wait>>

-----------------------------------------------------------------------------
(* processAllInput() *)

(* Mutant of Ready: --(d->wait) < 0. *)
ReadyNever(c) == wait[c] - 1 < 0 /\ lines[c] > 0

(* --(d->wait) <= 0 && !d->input.empty() *)
Ready(c) == wait[c] - 1 <= 0 /\ lines[c] > 0

(* Mutant of Rested: d->wait = 1 is missing. *)
RestedBelow(c) == wait[c] - 1

(* d->wait of a connection whose turn passes. *)
Rested(c) == IF wait[c] - 1 <= 0 THEN 1 ELSE wait[c] - 1

TurnPasses ==
  /\ phase = "process"
  /\ GoOn
  /\ ~Ready(point)
  /\ wait' = [wait EXCEPT ![point] = Rested(point)]
  /\ UNCHANGED <<list, phase, playing, lines>>

TurnBegins ==
  /\ phase = "process"
  /\ point # Nobody
  /\ Ready(point)
  /\ phase' = "command"
  /\ next' = Behind(point)
  /\ due' = due \ {point}
  /\ lines' = [lines EXCEPT ![point] = @ - 1]
  /\ wait' = [wait EXCEPT ![point] = 1]
  /\ UNCHANGED <<list, point, playing>>

(* What a command, or between two pulses a monster, a fight or a timer,    *)
(* does to connections: addToWait() and setWait(), ...                     *)
Delay(c) ==
  /\ phase \in {"rest", "command"}
  /\ c \in playing
  /\ \E n \in 1..MaxWait : wait' = [wait EXCEPT ![c] = n]
  /\ UNCHANGED <<list, next, point, phase, playing, lines, due>>

(* ... cutlink, purge, wipe, a confirmed reconnect, an idle player, ...    *)
Cut(c) ==
  /\ \/ phase = "command" /\ c # point
     \/ phase = "rest" /\ c \in playing
  /\ c \in Range(list)
  /\ Delete(c, next)
  /\ UNCHANGED <<point, phase>>

(* ... and the death of a player: ~TBeing() calls doAccountMenu(), which   *)
(* tells it to delete the connection if it is a client.                    *)
LosesBody(c) ==
  IF c \in Client THEN Delete(c, next)
  ELSE playing' = playing \ {c} /\ UNCHANGED <<list, next, lines, wait, due>>

Dies(c) ==
  /\ \/ phase = "command" /\ c # point
     \/ phase = "rest"
  /\ c \in playing
  /\ LosesBody(c)
  /\ UNCHANGED <<point, phase>>

(* Back in the loop; from a menu, perhaps, into the game. *)
CommandReturns ==
  /\ phase = "command"
  /\ phase' = "process"
  /\ point' = next
  /\ playing' \in {playing, playing \cup {point}}
  /\ UNCHANGED <<list, next, lines, wait, due>>

(* DELETE_THIS of a menu, of nanny() or of read_client() *)
CommandCloses ==
  /\ phase = "command"
  /\ point \in Client \/ point \notin playing
  /\ Delete(point, next)
  /\ phase' = "process"
  /\ point' = next'

(* DELETE_THIS of parseCommand(): delete d->character, if d is found in    *)
(* the list in front of next_to_process.                                   *)
CommandKills ==
  /\ phase = "command"
  /\ point \in playing
  /\ IF point \in Range(list)
     THEN LosesBody(point) /\ phase' = "forget" /\ UNCHANGED point
     ELSE /\ phase' = "process" /\ point' = next
          /\ UNCHANGED <<list, next, playing, lines, wait, due>>

(* d->character = NULL *)
Forget ==
  /\ phase = "forget"
  /\ phase' = "process"
  /\ point' = next
  /\ UNCHANGED <<list, next, playing, lines, wait, due>>

-----------------------------------------------------------------------------
(* afterPromptProcessing() has a next_d of its own. *)
OutputGoes ==
  /\ phase = "output"
  /\ point # Nobody
  /\ point' = Behind(point)
  /\ due' = due \ {point}
  /\ UNCHANGED <<list, next, phase, playing, lines, wait>>

OutputFails ==
  /\ phase = "output"
  /\ point # Nobody
  /\ Delete(point, next)
  /\ point' = Behind(point)
  /\ UNCHANGED phase

-----------------------------------------------------------------------------
(* What the loop itself does. *)
Loop ==
  \/ Select
  \/ \E c \in Connection : Accept(c)
  \/ Close \/ NoException \/ Read \/ EndWalk
  \/ TurnPasses \/ TurnBegins
  \/ CommandReturns \/ CommandCloses \/ CommandKills \/ Forget
  \/ OutputGoes \/ OutputFails

Next ==
  \/ Loop
  \/ \E c \in Connection : Delay(c) \/ Cut(c) \/ Dies(c)

Spec == Init /\ [][Next]_vars

(* Fairness: gameLoop() is never left, and every command returns. *)
FairSpec == Spec /\ WF_vars(Loop)

-----------------------------------------------------------------------------
TypeOK ==
  /\ list \in Seq(Connection)
  /\ next \in Connection \cup {Nobody}
  /\ point \in Connection \cup {Nobody}
  /\ phase \in {"rest", "except", "read", "process", "command", "forget",
                "output"}
  /\ playing \subseteq Range(list)
  /\ lines \in [Connection -> 0..MaxLines]
  /\ wait \in [Connection -> 1..MaxWait]
  /\ due \subseteq Connection

(* A walk comes to every connection that was there when it began and is    *)
(* still there, once, and to no other: next_to_process is never left at a  *)
(* freed connection ("to avoid crashing the process loop",                 *)
(* sys/connect.cc:608), skips none, and nobody has two lines processed in  *)
(* a pulse, whatever the commands of others delete.                        *)
InputInOrder ==
  /\ IsInjective(list)
  /\ phase \in {"except", "read", "process", "output"} =>
       /\ point \in Range(list) \cup {Nobody}
       /\ due = From(list, point)
  /\ phase \in {"command", "forget"} =>
       /\ next \in Range(list) \cup {Nobody}
       /\ due = From(list, next)

(* Somebody else, or its own death, makes c wait. *)
HeldBack(c) == Delay(c) /\ ~(phase = "command" /\ point = c)

(* Every line of a connection that stays is processed in the end, however  *)
(* many connections come, go and talk, unless others make it wait again    *)
(* and again.                                                              *)
EveryLineRuns ==
  \A c \in Connection :
    <>[][~HeldBack(c)]_vars =>
      (lines[c] > 0 ~> (phase = "command" /\ point = c) \/ c \notin Range(list))

(* d->character is set to NULL in a connection that exists: "we point to   *)
(* free'd memory" (sys/connect.cc:2822) is a case that is kept out.        *)
ForgetsListed == phase = "forget" => point \in Range(list)
=============================================================================
