------------------------------ MODULE CharLoop ------------------------------
(***************************************************************************)
(* The walk over character_list of TScheduler::runChar() (sys/process.cc): *)
(* at every pulse a share of the beings is run, starting where the last    *)
(* pulse stopped.  The place is kept as a number, procIdx, while beings    *)
(* come and go; beings a process wants deleted are deleted when the loop   *)
(* over the list has ended.                                                *)
(*                                                                         *)
(* The entries the loop calls bogus (without a room, a name, or the        *)
(* session they point at) do not occur here.                               *)
(***************************************************************************)
EXTENDS Walks

CONSTANTS Player, Monster,
          World,   \* character_list when the game loop starts
          Part,    \* a pulse is for 2 of Part monsters: 23 in the code
          None

Being == Player \cup Monster

ASSUME BeingAssumption == IsFiniteSet(Being)
ASSUME NoneAssumption == None \notin Being
ASSUME KindAssumption == Player \cap Monster = {}
ASSUME WorldAssumption == World \in Seq(Being) /\ IsInjective(World)
ASSUME PartAssumption == Part \in Nat \ {0}

VARIABLES list,      \* character_list
          procIdx,   \* how much of it was walked over since it was begun
          count,     \* beings still to be run at this pulse, -1 if left early
          current,   \* tmp_ch, the being the loop looks at
          deleteMe,  \* beings to be deleted when the loop ends
          phase,     \* "idle", "walk", "run" (processes of current), "sweep",
                     \* "crashed"
          pass       \* the first or the second call of doRunChar()

vars == <<list, procIdx, count, current, deleteMe, phase, pass>>

Listed == Range(list)

(* Players are not counted in mobCount. *)
Share ==
  LET n == (2 * Cardinality(Listed \cap Monster)) \div Part
  IN IF n > 1 THEN n ELSE 1

Init ==
  /\ list = World
  /\ procIdx = 0
  /\ count = 0
  /\ current = None
  /\ deleteMe = {}
  /\ phase = "idle"
  /\ pass = 1

-----------------------------------------------------------------------------
(* Other code runs between two pulses, and in the processes of a being. *)
OthersRun == phase \in {"idle", "run"}

Without(b) == RemoveAt(list, Place(list, b))

(* TBeing::TBeing() and its callers: at the front of the list. *)
Create(b) ==
  /\ OthersRun
  /\ b \notin Listed \cup deleteMe
  /\ list' = <<b>> \o list
  /\ UNCHANGED <<procIdx, count, current, deleteMe, phase, pass>>

(* A being dies at the hands of another and is deleted at once, be it one  *)
(* that is to be deleted when the loop ends: until then it stays in its    *)
(* room, and a player is healed by rawKill().                              *)
Destroy(b) ==
  /\ OthersRun
  /\ b \in Listed
  /\ b # current
  /\ list' = Without(b)
  /\ UNCHANGED <<procIdx, count, current, deleteMe, phase, pass>>

-----------------------------------------------------------------------------
StartChars ==
  /\ phase = "idle"
  /\ phase' = "walk"
  /\ pass' = 1
  /\ count' = Share
  /\ UNCHANGED <<list, procIdx, current, deleteMe>>

(* The being the loop comes to: behind the first procIdx ones at first,    *)
(* then the next of the one just looked at.                                *)
Upcoming ==
  IF current # None THEN After(list, current, None)
  ELSE IF procIdx < Len(list) THEN list[procIdx + 1]
  ELSE None

Run ==
  /\ phase = "walk"
  /\ Upcoming # None
  /\ count > 0
  /\ procIdx' = procIdx + 1
  /\ count' = count - 1
  /\ current' = Upcoming
  /\ phase' = "run"
  /\ UNCHANGED <<list, deleteMe, pass>>

(* The share is used up: the loop is left, the being it had come to is     *)
(* counted as walked over all the same.                                    *)
Leave ==
  /\ phase = "walk"
  /\ Upcoming # None
  /\ count = 0
  /\ procIdx' = procIdx + 1
  /\ count' = count - 1
  /\ current' = Upcoming
  /\ phase' = "sweep"
  /\ UNCHANGED <<list, deleteMe, pass>>

EndOfList ==
  /\ phase = "walk"
  /\ Upcoming = None
  /\ phase' = "sweep"
  /\ UNCHANGED <<list, procIdx, count, current, deleteMe, pass>>

KeepCurrent ==
  /\ phase = "run"
  /\ phase' = "walk"
  /\ UNCHANGED <<list, procIdx, count, current, deleteMe, pass>>

DeleteCurrent ==
  /\ phase = "run"
  /\ phase' = "walk"
  /\ deleteMe' = deleteMe \cup {current}
  /\ UNCHANGED <<list, procIdx, count, current, pass>>

(* The deletions, one by one. *)
Delete(b) ==
  /\ phase = "sweep"
  /\ b \in deleteMe
  /\ b \in Listed
  /\ list' = Without(b)
  /\ deleteMe' = deleteMe \ {b}
  /\ UNCHANGED <<procIdx, count, current, phase, pass>>

(* A being that was deleted in the meantime is deleted again. *)
DeleteTwice(b) ==
  /\ phase = "sweep"
  /\ b \in deleteMe
  /\ b \notin Listed
  /\ phase' = "crashed"
  /\ UNCHANGED <<list, procIdx, count, current, deleteMe, pass>>

(* Mutant of EndPass: the second pass starts where the first one ended. *)
EndPassKeepsIndex ==
  /\ phase = "sweep"
  /\ deleteMe = {}
  /\ current' = None
  /\ IF pass = 1 /\ count > 0
     THEN phase' = "walk" /\ pass' = 2
     ELSE phase' = "idle" /\ UNCHANGED pass
  /\ UNCHANGED <<list, count, procIdx, deleteMe>>

(* Mutant of EndPass: the first being of the list is left out. *)
EndPassFromSecond ==
  /\ phase = "sweep"
  /\ deleteMe = {}
  /\ current' = None
  /\ IF pass = 1 /\ count > 0
     THEN phase' = "walk" /\ pass' = 2 /\ procIdx' = 1
     ELSE phase' = "idle" /\ UNCHANGED <<pass, procIdx>>
  /\ UNCHANGED <<list, count, deleteMe>>

(* Mutant of EndPass: the loop is left without the deletions. *)
EndPassAtOnce ==
  /\ phase = "sweep"
  /\ count < 0 \/ deleteMe = {}
  /\ current' = None
  /\ IF pass = 1 /\ count > 0
     THEN phase' = "walk" /\ pass' = 2 /\ procIdx' = 0
     ELSE phase' = "idle" /\ UNCHANGED <<pass, procIdx>>
  /\ UNCHANGED <<list, count, deleteMe>>

(* The second pass, from the front, if the list ended before the share was *)
(* used up.                                                                *)
EndPass ==
  /\ phase = "sweep"
  /\ deleteMe = {}
  /\ current' = None
  /\ IF pass = 1 /\ count > 0
     THEN phase' = "walk" /\ pass' = 2 /\ procIdx' = 0
     ELSE phase' = "idle" /\ UNCHANGED <<pass, procIdx>>
  /\ UNCHANGED <<list, count, deleteMe>>

Crashed == phase = "crashed" /\ UNCHANGED vars

-----------------------------------------------------------------------------
Next ==
  \/ \E b \in Being : Create(b) \/ Destroy(b)
  \/ StartChars
  \/ Run \/ Leave \/ EndOfList
  \/ KeepCurrent \/ DeleteCurrent
  \/ \E b \in Being : Delete(b) \/ DeleteTwice(b)
  \/ EndPass
  \/ Crashed

Spec == Init /\ [][Next]_vars

(* Fairness: the game loop calls the scheduler again and again, and what   *)
(* the processes do to one being ends.                                     *)
RunChar ==
  \/ StartChars
  \/ Run \/ Leave \/ EndOfList
  \/ KeepCurrent \/ DeleteCurrent
  \/ \E b \in Being : Delete(b) \/ DeleteTwice(b)
  \/ EndPass

FairSpec == Spec /\ WF_vars(RunChar)

-----------------------------------------------------------------------------
TypeOK ==
  /\ list \in Seq(Being) /\ IsInjective(list)
  /\ procIdx \in 0..Cardinality(Being)
  /\ count \in Int /\ count >= -1
  /\ current \in Being \cup {None}
  /\ deleteMe \subseteq Being
  /\ phase \in {"idle", "walk", "run", "sweep", "crashed"}
  /\ pass \in {1, 2}
  /\ phase = "idle" => current = None /\ deleteMe = {}

(* As long as there is anybody, the walk always goes on to somebody,       *)
(* whatever deletions do to the meaning of procIdx.                        *)
SomebodyRuns == []<>(phase = "run" \/ list = <<>> \/ phase = "crashed")

(* The being at which the loop is left is passed over.  When so many are   *)
(* listed that the walks over a list that does not change are left at the  *)
(* same beings every time, those are never run.                            *)
Resonant ==
  /\ Len(list) > Share
  /\ Len(list) % (Share + 1) \in {0, Share}

(* Once nobody comes or goes any more, everybody is run again and again,   *)
(* the ones passed over at a pulse at a later one, unless the length of    *)
(* the list is Resonant.                                                   *)
EverybodyRuns ==
  (<>[][list' = list]_vars /\ <>[]~Resonant) =>
    \A b \in Being :
      []<>(b \in Listed => (phase = "run" /\ current = b) \/ phase = "crashed")

(* What the CharacterList is there for (sys/CharacterList.h:3): elements   *)
(* are not deallocated in a way that crashes the loop.                     *)
DeletedOnce == phase # "crashed"
=============================================================================
