----------------------------- MODULE ObjectLoop -----------------------------
(***************************************************************************)
(* The walk over object_list of TScheduler::runObj() (sys/process.cc): at  *)
(* every pulse a share of the objects is processed, and a placeholder,     *)
(* itself an object of the list, marks where the next pulse goes on.       *)
(* Objects come and go in the meantime: at the commands and fights of a    *)
(* pulse, and while another object is processed.                           *)
(*                                                                         *)
(* object_list is before, the placeholder, after.  The destruction of a    *)
(* container is one step for each object in it and one for itself.         *)
(***************************************************************************)
EXTENDS Integers, SequencesExt

CONSTANTS Object,   \* the objects that may exist at once
          World,    \* the objects there are when the game loop starts, in
                    \* the order of object_list
          Part,     \* a pulse is for 2 of Part objects: 23 in the code
          None

ASSUME ObjectAssumption == None \notin Object
ASSUME WorldAssumption == World \in Seq(Object) /\ IsInjective(World)
ASSUME PartAssumption == Part \in Nat \ {0}

VARIABLES before,    \* the objects in front of the placeholder
          after,     \* the objects behind it
          count,     \* objects still to be processed at this pulse
          current,   \* the object being processed
          phase,     \* "idle" between the loops of two pulses, "run", "crashed"
          owed       \* history: who was there at an object's last turn and
                     \* had none since

vars == <<before, after, count, current, phase, owed>>
listVars == <<before, after, owed>>

(* Everybody in the order of the turns to come. *)
Queue == after \o before

Objs == Range(Queue)

(* (int)(objCount / 11.5); the placeholder is counted. *)
Share(n) == (2 * n) \div Part

Init ==
  /\ before = <<>>
  /\ after = World
  /\ count = 0
  /\ current = None
  /\ phase = "idle"
  /\ owed = [o \in Object |-> {}]

-----------------------------------------------------------------------------
(* Other code runs between two pulses, and when an object is processed. *)
OthersRun == phase = "idle" \/ current # None

(* Mutant of Create: the object is linked behind the placeholder. *)
CreateBehind(o) ==
  /\ OthersRun
  /\ o \notin Objs
  /\ after' = <<o>> \o after
  /\ UNCHANGED <<before, count, current, phase, owed>>

(* TObj::TObj(): at the front of the list. *)
Create(o) ==
  /\ OthersRun
  /\ o \notin Objs
  /\ before' = <<o>> \o before
  /\ UNCHANGED <<after, count, current, phase, owed>>

Forget(o) ==
  owed' = [p \in Object |-> IF p = o THEN {} ELSE owed[p] \ {o}]

(* object_list.remove(this) in ~TObj() *)
Unlink(o) ==
  \/ \E i \in 1..Len(before) :
       before[i] = o /\ before' = RemoveAt(before, i) /\ UNCHANGED after
  \/ \E i \in 1..Len(after) :
       after[i] = o /\ after' = RemoveAt(after, i) /\ UNCHANGED before

Destroy(o) ==
  /\ OthersRun
  /\ o # current
  /\ Unlink(o)
  /\ Forget(o)
  /\ UNCHANGED <<count, current, phase>>

-----------------------------------------------------------------------------
StartObjs ==
  /\ phase = "idle"
  /\ phase' = "run"
  /\ count' = Share(Len(Queue) + 1)
  /\ UNCHANGED <<listVars, current>>

TurnOwed(o) ==
  owed' = [p \in Object |-> IF p = o THEN Objs \ {o} ELSE owed[p] \ {o}]

(* Mutant of Take: the object is unlinked instead of the placeholder. *)
TakeUnlinks ==
  /\ phase = "run"
  /\ current = None
  /\ count > 0
  /\ after # <<>>
  /\ count' = count - 1
  /\ current' = Head(after)
  /\ after' = Tail(after)
  /\ TurnOwed(Head(after))
  /\ UNCHANGED <<before, phase>>

(* Mutant of Take: one turn more than the share. *)
TakeOneMore ==
  /\ phase = "run"
  /\ current = None
  /\ count >= 0
  /\ after # <<>>
  /\ count' = count - 1
  /\ current' = Head(after)
  /\ IF Len(after) = 1
     THEN before' = <<>> /\ after' = Append(before, Head(after))
     ELSE before' = Append(before, Head(after)) /\ after' = Tail(after)
  /\ TurnOwed(Head(after))
  /\ UNCHANGED phase

(* The placeholder moves behind the next object; when that is the last of  *)
(* the list it moves to the front of the list.                             *)
Take ==
  /\ phase = "run"
  /\ current = None
  /\ count > 0
  /\ after # <<>>
  /\ count' = count - 1
  /\ current' = Head(after)
  /\ IF Len(after) = 1
     THEN before' = <<>> /\ after' = Append(before, Head(after))
     ELSE before' = Append(before, Head(after)) /\ after' = Tail(after)
  /\ TurnOwed(Head(after))
  /\ UNCHANGED phase

(* Nothing is left behind the placeholder: end() is dereferenced and what  *)
(* is found there is run as an object.                                     *)
TakePastEnd ==
  /\ phase = "run"
  /\ current = None
  /\ count > 0
  /\ after = <<>>
  /\ phase' = "crashed"
  /\ UNCHANGED <<listVars, count, current>>

(* No process wants the object deleted. *)
KeepCurrent ==
  /\ current # None
  /\ current' = None
  /\ UNCHANGED <<listVars, count, phase>>

(* Mutant of DeleteCurrent: the walk starts again at the front. *)
DeleteAndRestart ==
  /\ current # None
  /\ \E i \in 1..Len(before \o after) :
       /\ (before \o after)[i] = current
       /\ after' = RemoveAt(before \o after, i)
       /\ before' = <<>>
  /\ Forget(current)
  /\ current' = None
  /\ UNCHANGED <<count, phase>>

(* A process returns true: the object is deleted, the placeholder stays. *)
DeleteCurrent ==
  /\ current # None
  /\ Unlink(current)
  /\ Forget(current)
  /\ current' = None
  /\ UNCHANGED <<count, phase>>

EndObjs ==
  /\ phase = "run"
  /\ current = None
  /\ count = 0
  /\ phase' = "idle"
  /\ UNCHANGED <<listVars, count, current>>

Crashed == phase = "crashed" /\ UNCHANGED vars

-----------------------------------------------------------------------------
Next ==
  \/ \E o \in Object : Create(o)
  \/ \E o \in Object : Destroy(o)
  \/ StartObjs
  \/ Take
  \/ TakePastEnd
  \/ KeepCurrent
  \/ DeleteCurrent
  \/ EndObjs
  \/ Crashed

Spec == Init /\ [][Next]_vars

(* Fairness: the game loop calls the scheduler again and again, and what   *)
(* the processes do to one object ends.                                    *)
Fairness ==
  /\ WF_vars(StartObjs) /\ WF_vars(Take \/ TakePastEnd) /\ WF_vars(EndObjs)
  /\ WF_vars(KeepCurrent \/ DeleteCurrent)

FairSpec == Spec /\ Fairness

-----------------------------------------------------------------------------
TypeOK ==
  /\ before \in Seq(Object)
  /\ after \in Seq(Object)
  /\ count \in Nat
  /\ current \in Object \cup {None}
  /\ phase \in {"idle", "run", "crashed"}
  /\ owed \in [Object -> SUBSET Object]

(* No object is in the list twice, and the one whose processes run is in   *)
(* it: moving the placeholder around neither doubles nor loses an object.  *)
Listed ==
  /\ IsInjective(Queue)
  /\ current # None => current \in Objs

(* The next object had its last turn before everybody else that was there  *)
(* at the time: nobody gets a second turn while another still waits for    *)
(* one, whatever is created, destroyed or wrapped around in between.       *)
RoundRobin == after # <<>> => owed[Head(after)] = {}

(* If there are enough objects for a pulse to process one, every object    *)
(* gets a turn, unless it goes away or the walk runs off the list.         *)
Served ==
  []<>(count > 0) =>
    \A o \in Object :
      o \in Objs ~> (current = o \/ o \notin Objs \/ phase = "crashed")

(* The walk is a rota. *)
Abstract == INSTANCE Rota WITH queue <- Queue
ImplementsRota == Abstract!RotaSpec
=============================================================================
