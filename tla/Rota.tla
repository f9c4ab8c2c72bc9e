-------------------------------- MODULE Rota --------------------------------
(***************************************************************************)
(* What the object loop of TScheduler promises the objects of the world:   *)
(* turns are given in the order of a queue, whoever had a turn goes to its *)
(* end, and coming or going of some object never changes the order of the  *)
(* others.                                                                 *)
(***************************************************************************)
EXTENDS SequencesExt

CONSTANTS Object,   \* the objects that may exist at once
          World     \* the objects there are when the game loop starts

VARIABLE queue      \* everybody waiting for a turn, the next one first

RotaInit == queue = World

Turn ==
  /\ queue # <<>>
  /\ queue' = Append(Tail(queue), Head(queue))

Join(o) ==
  /\ o \notin Range(queue)
  /\ \E i \in 1..Len(queue) + 1 : queue' = InsertAt(queue, i, o)

Quit(o) == \E i \in 1..Len(queue) : queue[i] = o /\ queue' = RemoveAt(queue, i)

RotaNext == Turn \/ \E o \in Object : Join(o) \/ Quit(o)

RotaSpec == RotaInit /\ [][RotaNext]_queue
=============================================================================
