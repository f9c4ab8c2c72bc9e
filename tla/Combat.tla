------------------------------- MODULE Combat -------------------------------
(***************************************************************************)
(* Who fights whom (misc/combat.cc, misc/offense.cc): gCombatList links    *)
(* everybody who fights, each being counts who strikes at it, and          *)
(* perform_violence() walks over the list while the blows it deals start   *)
(* and stop fights and destroy beings.                                     *)
(*                                                                         *)
(* Rooms, positions and hit points are not modelled: a test of them, of a  *)
(* skill or of a die goes either way.  MAX_COMBAT_ATTACKERS is 9999, the   *)
(* tests for it are left out.                                              *)
(***************************************************************************)
EXTENDS FiniteSets, Walks

CONSTANTS Player,       \* TPersons, each with a connection
          Monster,
          Berserker,    \* players who know SKILL_BERSERK
          AutoEngage,   \* players with AUTO_ENGAGE_ALWAYS
          QuestMob,     \* monsters of checkForQuestTog()
          StrikesBack,  \* monsters with the response startfight { hit %n; }
          Purged,       \* beings that are also deleted other than by death
          COMBAT,       \* Pulse::COMBAT, ticks of a round of violence
          MaxCount,     \* bound: attackers counted against one being
          Nobody

Being == Player \cup Monster

ASSUME NobodyAssumption == Nobody \notin Being
ASSUME KindAssumption == Player \cap Monster = {}
ASSUME BerserkerAssumption == Berserker \subseteq Player
ASSUME ResponseAssumption == StrikesBack \subseteq Monster
ASSUME FiniteAssumption == IsFiniteSet(Being)
ASSUME RoundAssumption == COMBAT \in Nat /\ MaxCount \in Nat

(***************************************************************************)
(* combat is what setFighting() and stopFighting() change:                 *)
(*   list       gCombatList                                                *)
(*   next       gCombatNext                                                *)
(*   fighting   specials.fighting of each being                            *)
(*   attackers  attackers of each being                                    *)
(*   engaged    who has AFF_ENGAGER: fights without striking               *)
(*   berserk    who is in ATTACK_BERSERK mode                              *)
(*   due        history: who fights since before this tick of              *)
(*              perform_violence() and had no turn at it                   *)
(*   astray     history: a response to startfight led a walk over          *)
(*              gCombatList astray.  Somebody was put into the list who is *)
(*              in it already, and its next_fighting now leads back to     *)
(*              itself; or the next of ~TBeing()'s walk was taken out, its *)
(*              next_fighting is null, and the walk ends there             *)
(* The operators on it take a value w and give the set of its outcomes.    *)
(***************************************************************************)
VARIABLES combat,
          alive,   \* beings that were not destroyed
          phase,   \* "idle"; in perform_violence(): "tick" between two ticks,
                   \* "loop" at the head of the loop, "blow" in hit();
                   \* "free" in ~TBeing()
          pulse,   \* tmp_pulse
          ch,      \* ch of perform_violence()
          vict,    \* its vict
          freed    \* ~TBeing(): who, next_char, and the phase afterwards

vars == <<combat, alive, phase, pulse, ch, vict, freed>>

NoFree == [who |-> Nobody, next_char |-> Nobody, then |-> "idle"]

Init ==
  /\ combat = [list |-> <<>>, next |-> Nobody,
               fighting |-> [b \in Being |-> Nobody],
               attackers |-> [b \in Being |-> 0],
               engaged |-> {}, berserk |-> {}, due |-> {}, astray |-> FALSE]
  /\ alive = Being
  /\ phase = "idle"
  /\ pulse = 0
  /\ ch = Nobody
  /\ vict = Nobody
  /\ freed = NoFree

-----------------------------------------------------------------------------
NextFighting(s, b) == After(s, b, Nobody)

Listed(w) == Range(w.list)

Fights(w, b) == w.fighting[b] # Nobody

-----------------------------------------------------------------------------
(* Into gCombatList and out of it *)

Clamp(n) == IF n < 0 THEN 0 ELSE n

(* Mutant of Unlink: gCombatNext is left alone. *)
UnlinkKeepsNext(w, b) ==
  [w EXCEPT !.attackers[w.fighting[b]] =
              IF b \in w.engaged THEN @ ELSE Clamp(@ - 1),
            !.engaged = @ \ {b},
            !.list = RemoveAt(@, Place(@, b)),
            !.fighting[b] = Nobody,
            !.due = @ \ {b}]

(* Mutant of Unlink: gCombatNext skips one. *)
UnlinkSkips(w, b) ==
  [w EXCEPT !.next = IF @ = b THEN Nobody ELSE @,
            !.attackers[w.fighting[b]] =
              IF b \in w.engaged THEN @ ELSE Clamp(@ - 1),
            !.engaged = @ \ {b},
            !.list = RemoveAt(@, Place(@, b)),
            !.fighting[b] = Nobody,
            !.due = @ \ {b}]

(* Mutant of Unlink: whoever was linked after b is lost with it. *)
UnlinkCutsOff(w, b) ==
  [w EXCEPT !.next = IF @ = b THEN NextFighting(w.list, b) ELSE @,
            !.attackers[w.fighting[b]] =
              IF b \in w.engaged THEN @ ELSE Clamp(@ - 1),
            !.engaged = @ \ {b},
            !.list = SubSeq(@, Place(@, b) + 1, Len(@)),
            !.fighting[b] = Nobody,
            !.due = @ \ {b}]

(* stopFighting() up to goBerserk().  checkSpec(CMD_MOB_COMBAT_STOPPING)   *)
(* starts and stops no fight: the one special procedure that heeds it      *)
(* talks and waits (lagomorph, spec/spec_mobs.cc:7051).                    *)
Unlink(w, b) ==
  [w EXCEPT !.next = IF @ = b THEN NextFighting(w.list, b) ELSE @,
            !.attackers[w.fighting[b]] =
              IF b \in w.engaged THEN @ ELSE Clamp(@ - 1),
            !.engaged = @ \ {b},
            !.list = RemoveAt(@, Place(@, b)),
            !.fighting[b] = Nobody,
            !.due = @ \ {b}]

(* Mutant of Link: at the end of the list. *)
LinkLast(w, b, v, inFight) ==
  LET engages == inFight /\ b \in AutoEngage
      engaged == IF engages THEN w.engaged \cup {b} ELSE w.engaged
  IN [w EXCEPT !.list = Append(@, b),
               !.astray = @ \/ b \in Listed(w),
               !.engaged = engaged,
               !.attackers[v] = IF b \in engaged THEN @ ELSE @ + 1]

(* b is in the list, but does not fight yet. *)
Link(w, b, v, inFight) ==
  LET engages == inFight /\ b \in AutoEngage
      engaged == IF engages THEN w.engaged \cup {b} ELSE w.engaged
  IN [w EXCEPT !.list = <<b>> \o @,
               !.astray = @ \/ b \in Listed(w),
               !.engaged = engaged,
               !.attackers[v] = IF b \in engaged THEN @ ELSE @ + 1]

-----------------------------------------------------------------------------
(* setFighting() *)

(* ... of a being whose opponent answers nothing. *)
Enlist(w, b, v, inFight) ==
  [Link(w, b, v, inFight) EXCEPT !.fighting[b] = v]

(* v leaves its opponent for b. *)
TurnOn(w, v, b) == Enlist(Unlink(w, v), v, b, FALSE)

(* v does hit b, in the middle of setFighting() of b: it strikes or misses *)
(* and has b, who fights nobody yet, set fighting once more; or only turns *)
(* from another to b, or from another and to nobody.                       *)
StrikeBack(w, b, v) ==
  LET struck == IF ~Fights(w, v) THEN {w, Enlist(w, v, b, FALSE)}
                ELSE IF v \in w.engaged THEN {TurnOn(w, v, b)} ELSE {}
      turned == IF w.fighting[v] \in {b, Nobody} THEN {}
                ELSE {Unlink(w, v), TurnOn(w, v, b)}
  IN {w} \cup turned \cup struck
         \cup {Enlist(y, b, v, TRUE) : y \in struck}

(* What runs after b is linked and before specials.fighting is set: the    *)
(* response to startfight (checkResponses()), or checkForQuestTog().       *)
Answers(w, b, v) ==
  {w} \cup (IF b \in Player /\ v \in QuestMob /\ ~Fights(w, v)
            THEN {Enlist(w, v, b, FALSE)} ELSE {})
      \cup (IF b \in Player /\ v \in StrikesBack
            THEN StrikeBack(w, b, v) ELSE {})

SetFighting(w, b, v, inFight) ==
  IF b = v \/ Fights(w, b) THEN {w}
  ELSE {[x EXCEPT !.fighting[b] = v] :
          x \in Answers(Link(w, b, v, inFight), b, v)}

(* Whoever is stunned is not set fighting. *)
SetCharFighting(w, b, v) == {w} \cup SetFighting(w, b, v, FALSE)

SetVictFighting(w, b, v) ==
  {w} \cup SetFighting(w, v, b, b \in Monster /\ v \in Player)

(* How applyDamage() begins, in one room or between two. *)
Clash(w, b, v) ==
  {w} \cup UNION {SetVictFighting(x, b, v) : x \in SetCharFighting(w, b, v)}

-----------------------------------------------------------------------------
(* stopFighting() *)

(* findNextOpponent() takes the first in the room that will do; calls with *)
(* somebody in w.fighting[b] are refused.                                  *)
Rage(w, b, cur) ==
  {w} \cup UNION {SetFighting(w, b, v, FALSE) :
                    v \in (Monster \cap alive) \ {cur}}

(* Mutant of GoBerserk: anybody will do. *)
GoBerserkOnAnybody(w, b, cur) ==
  IF b \notin w.berserk \/ Fights(w, b) THEN {w}
  ELSE Rage(w, b, Nobody) \cup {[w EXCEPT !.berserk = @ \ {b}]}

(* goBerserk(): asleep, in a peaceful room, or on to the next. *)
GoBerserk(w, b, cur) ==
  IF b \notin w.berserk \/ Fights(w, b) THEN {w}
  ELSE Rage(w, b, cur) \cup {[w EXCEPT !.berserk = @ \ {b}]}

StopFighting(w, b) ==
  IF ~Fights(w, b) THEN {[w EXCEPT !.engaged = @ \ {b}]}
  ELSE GoBerserk(Unlink(w, b), b, w.fighting[b])

(* if (fight()) stopFighting(); *)
StopIfFighting(w, b) == IF Fights(w, b) THEN StopFighting(w, b) ELSE {w}

-----------------------------------------------------------------------------
(* Destruction *)

(* rawKill() *)
Slay(w, b) ==
  {[x EXCEPT !.berserk = @ \ {b}] : x \in StopIfFighting(w, b)}

(* ~TBeing(): stops its own fight, then walks over the list. *)
Free(w, b, then) ==
  /\ \E x \in StopIfFighting(w, b) :
       /\ combat' = x
       /\ freed' = [who |-> b, then |-> then,
                    next_char |-> IF x.list = <<>> THEN Nobody ELSE x.list[1]]
  /\ phase' = "free"

(* One k of the loop over gCombatList. *)
StopOpponent ==
  /\ phase = "free"
  /\ freed.next_char # Nobody
  /\ LET k == freed.next_char
         n == NextFighting(combat.list, k)
     IN /\ freed' = [freed EXCEPT !.next_char = n]
        /\ \E x \in IF combat.fighting[k] = freed.who
                   THEN StopFighting(combat, k) ELSE {combat} :
             combat' = [x EXCEPT !.astray =
                          @ \/ n \notin Listed(x) \cup {Nobody}]
  /\ UNCHANGED <<alive, phase, pulse, ch, vict>>

(* The being is gone.  In perform_violence(): continue or break. *)
Freed ==
  /\ phase = "free"
  /\ freed.next_char = Nobody
  /\ alive' = alive \ {freed.who}
  /\ freed' = NoFree
  /\ phase' = freed.then
  /\ IF freed.then \in {"loop", "tick"}
     THEN /\ ch' = IF freed.then = "loop" THEN combat.next ELSE Nobody
          /\ vict' = Nobody
     ELSE UNCHANGED <<ch, vict>>
  /\ UNCHANGED <<combat, pulse>>

-----------------------------------------------------------------------------
(* What happens in the game, between two rounds of violence (commands,     *)
(* spells, timers) or because of a blow.                                   *)
OthersRun == phase \in {"idle", "blow"}

Becomes(W) ==
  /\ \E w \in W : /\ \A b \in Being : w.attackers[b] <= MaxCount
                  /\ combat' = w
  /\ UNCHANGED <<alive, phase, pulse, ch, vict, freed>>

(* reconcileDamage(): b hurts v. *)
Harm(w, b, v) ==
  LET x == IF ~Fights(w, b) /\ b \in AutoEngage
           THEN [w EXCEPT !.engaged = @ \cup {b}] ELSE w
  IN Clash(x, b, v)

Damage(b, v) == OthersRun /\ Becomes(Harm(combat, b, v))

(* The callers of stopFighting() that are not modelled one by one. *)
Stop(b) == OthersRun /\ Becomes(StopFighting(combat, b))

(* berserk(), with a skill or a weapon *)
Berserk(b) ==
  /\ OthersRun
  /\ b \in Berserker \ combat.berserk
  /\ LET w == [combat EXCEPT !.berserk = @ \cup {b}]
     IN Becomes(GoBerserk(w, b, Nobody))

(* Somebody is killed whose death hit() does not report: a rider, a guard  *)
(* that was in the way, the victim of a spell.                             *)
Kill(b) ==
  /\ OthersRun
  /\ b \notin {ch, vict}
  /\ \E w \in Slay(combat, b) : Free(w, b, phase)
  /\ UNCHANGED <<alive, pulse, ch, vict>>

(* doPurge(), nukeMobs(), a quitting player: no rawKill() *)
Purge(b) ==
  /\ phase = "idle"
  /\ b \in Purged
  /\ Free(combat, b, "idle")
  /\ UNCHANGED <<alive, pulse, ch, vict>>

-----------------------------------------------------------------------------
(* Commands *)

(* b strikes first.  That somebody of the room fights b goes either way:    *)
(* rooms are not modelled.                                                 *)
IsTanking(w, b) == Fights(w, b) /\ ~Fights(w, w.fighting[b])

Engaging(w, b) == [w EXCEPT !.engaged = @ \cup {b}]
NotEngaging(w, b) == [w EXCEPT !.engaged = @ \ {b}]

(* hit(), not in a round: misses, or hurts; nothing if b is engaged. *)
Swing(w, b, v) == IF b \in w.engaged THEN {w} ELSE {w} \cup Harm(w, b, v)

(* The end of the first attack: whoever struck is not engaged, even if the *)
(* blow made it so.                                                        *)
Strike(w, b) ==
  IF b \notin w.engaged THEN {w}
  ELSE LET x == NotEngaging(w, b)
       IN {IF Fights(w, b) THEN [x EXCEPT !.attackers[w.fighting[b]] = @ + 1]
                           ELSE x}

(* doHit() of somebody who fights nobody *)
FirstHit(w, b, v) ==
  LET begun == UNION {SetVictFighting(x, b, v) :
                        x \in IF b \in w.engaged THEN SetCharFighting(w, b, v)
                                                 ELSE {w}}
      hits == Swing(w, b, v)
  IN begun \cup hits \cup
     IF b \in w.engaged THEN {}
     ELSE UNION {Strike(y, b) :
            y \in UNION {SetVictFighting(x, b, v) :
                    x \in hits \cup UNION {SetCharFighting(x, b, v) :
                            x \in {x \in hits : b \in x.engaged}}}}

(* doEngagedHit(): stops fighting, to strike at the same or at another.    *)
(* doHit() then makes sure and starts anew.                                *)
StopToStrike(w, b) ==
  {NotEngaging(y, b) : y \in UNION {StopIfFighting(x, b) :
     x \in {NotEngaging(z, b) : z \in StopFighting(w, b)}}}

StrikeAnew(w, b, v) ==
  UNION {Swing(x, b, v) :
    x \in UNION {SetFighting(y, b, v, FALSE) : y \in StopToStrike(w, b)}}

EngagedHit(w, b, v) ==
  StrikeAnew(w, b, v)
    \cup (UNION {SetVictFighting(x, b, v) : x \in StrikeAnew(w, b, v)})
    \cup IF w.fighting[b] = v THEN {} ELSE {w} \cup StopFighting(w, b)

(* doHit() of somebody who strikes at another *)
SwitchHit(w, b, v) ==
  IF w.fighting[b] = v THEN {w}
  ELSE {w} \cup UNION {{x} \cup SetCharFighting(x, b, v) :
                         x \in StopFighting(w, b)}

DoHit(w, b, v) ==
  IF ~Fights(w, b) THEN FirstHit(w, b, v)
  ELSE IF b \in w.engaged THEN EngagedHit(w, b, v)
  ELSE SwitchHit(w, b, v)

Hit(b, v) == phase = "idle" /\ Becomes(DoHit(combat, b, v))

(* doEngage() *)
Engage(b, v) ==
  /\ phase = "idle"
  /\ \/ /\ combat.fighting[b] = v
        /\ b \notin combat.engaged
        /\ Becomes({[Engaging(combat, b) EXCEPT !.attackers[v] = @ - 1]})
     \/ /\ combat.fighting[b] \notin {v, Nobody}
        /\ ~IsTanking(combat, b)
        /\ Becomes(UNION {DoHit(Engaging(x, b), b, v) :
                            x \in StopFighting(combat, b)})
     \/ /\ combat.fighting[b] = Nobody
        /\ Becomes(Clash(Engaging(combat, b), b, v))

(* Mutant of Disengage: counted off whether engaged or not. *)
DisengageMiscounts(b) ==
  /\ phase = "idle"
  /\ Fights(combat, b)
  /\ IF b \in combat.engaged
     THEN Becomes({NotEngaging([x EXCEPT
            !.attackers[combat.fighting[b]] = Clamp(@ - 1)], b) :
                      x \in StopFighting(combat, b)})
     ELSE Becomes({[Engaging(combat, b) EXCEPT
                      !.attackers[combat.fighting[b]] = @ - 1]})

(* doDisengage() *)
Disengage(b) ==
  /\ phase = "idle"
  /\ Fights(combat, b)
  /\ IF b \in combat.engaged
     THEN Becomes({NotEngaging(x, b) : x \in StopFighting(combat, b)})
     ELSE Becomes({[Engaging(combat, b) EXCEPT
                      !.attackers[combat.fighting[b]] = @ - 1]})

(* doFlee() that succeeds *)
Flee(b) ==
  /\ phase = "idle"
  /\ Fights(combat, b)
  /\ b \notin combat.berserk
  /\ LET enemy == combat.fighting[b] IN
     Becomes(UNION {IF x.fighting[enemy] = b THEN StopFighting(x, enemy)
                                             ELSE {x} :
                      x \in StopFighting(combat, b)})

(* Whoever berserks and fights nobody looks for somebody every now and     *)
(* then, and calms down if there is nobody (periodic.cc).                  *)
CalmDown(b) ==
  /\ phase = "idle"
  /\ b \in combat.berserk
  /\ ~Fights(combat, b)
  /\ Becomes({IF Fights(x, b) THEN x ELSE [x EXCEPT !.berserk = @ \ {b}] :
                x \in GoBerserk(combat, b, Nobody)})

-----------------------------------------------------------------------------
(* perform_violence() *)
StartViolence ==
  /\ phase = "idle"
  /\ phase' = "tick"
  /\ pulse' = 0
  /\ UNCHANGED <<combat, alive, ch, vict, freed>>

(* Mutant of StartTick: one tick more. *)
StartTickOneMore ==
  /\ phase = "tick"
  /\ pulse <= COMBAT
  /\ phase' = "loop"
  /\ ch' = IF combat.list = <<>> THEN Nobody ELSE Head(combat.list)
  /\ combat' = [combat EXCEPT !.due = Range(combat.list)]
  /\ UNCHANGED <<alive, pulse, vict, freed>>

StartTick ==
  /\ phase = "tick"
  /\ pulse < COMBAT
  /\ phase' = "loop"
  /\ ch' = IF combat.list = <<>> THEN Nobody ELSE Head(combat.list)
  /\ combat' = [combat EXCEPT !.due = Range(combat.list)]
  /\ UNCHANGED <<alive, pulse, vict, freed>>

EndViolence ==
  /\ phase = "tick"
  /\ pulse = COMBAT
  /\ phase' = "idle"
  /\ UNCHANGED <<combat, alive, pulse, ch, vict, freed>>

(* gCombatNext is set before anything else happens in a turn. *)
Turn(w) == [w EXCEPT !.next = NextFighting(w.list, ch), !.due = @ \ {ch}]

(* Asleep, or not in the same room: stopFighting() and on to the next. *)
TurnStops ==
  /\ phase = "loop"
  /\ ch # Nobody
  /\ \E w \in StopFighting(Turn(combat), ch) :
       combat' = w /\ ch' = w.next
  /\ UNCHANGED <<alive, phase, pulse, vict, freed>>

TurnHits ==
  /\ phase = "loop"
  /\ ch # Nobody
  /\ phase' = "blow"
  /\ vict' = combat.fighting[ch]
  /\ combat' = Turn(combat)
  /\ UNCHANGED <<alive, pulse, ch, freed>>

(* hit() returns: nobody died. *)
BlowEnds ==
  /\ phase = "blow"
  /\ phase' = "loop"
  /\ ch' = combat.next
  /\ vict' = Nobody
  /\ UNCHANGED <<combat, alive, pulse, freed>>

(* DELETE_VICT: continue. *)
BlowKills ==
  /\ phase = "blow"
  /\ \E w \in Slay(combat, vict) : Free(w, vict, "loop")
  /\ UNCHANGED <<alive, pulse, ch, vict>>

(* DELETE_THIS: break, the others have no turn at this tick. *)
BlowBackfires ==
  /\ phase = "blow"
  /\ \E w \in Slay(combat, ch) : Free(w, ch, "tick")
  /\ pulse' = pulse + 1
  /\ UNCHANGED <<alive, ch, vict>>

EndTick ==
  /\ phase = "loop"
  /\ ch = Nobody
  /\ phase' = "tick"
  /\ pulse' = pulse + 1
  /\ UNCHANGED <<combat, alive, ch, vict, freed>>

-----------------------------------------------------------------------------
Acts ==
  \/ \E b, v \in alive : b # v /\ (Damage(b, v) \/ Hit(b, v) \/ Engage(b, v))
  \/ \E b \in alive : \/ Stop(b) \/ Berserk(b) \/ Kill(b) \/ Purge(b)
                      \/ Disengage(b) \/ Flee(b) \/ CalmDown(b)
  \/ StopOpponent \/ Freed
  \/ StartViolence \/ StartTick \/ EndTick \/ EndViolence
  \/ TurnStops \/ TurnHits
  \/ BlowEnds \/ BlowKills \/ BlowBackfires

(* The model ends where a walk is astray: in a ring perform_violence() and *)
(* the searches of the list go round for ever, and ~TBeing() leaves those  *)
(* it did not come to fighting a freed being.                              *)
Astray == combat.astray /\ UNCHANGED vars

Next == (~combat.astray /\ Acts) \/ Astray

Spec == Init /\ [][Next]_vars

(* Fairness: the game loop calls perform_violence() again and again, and   *)
(* neither a blow nor a destructor goes on for ever.                       *)
Violence ==
  \/ StartViolence \/ StartTick \/ EndTick \/ EndViolence
  \/ TurnStops \/ TurnHits

Fairness ==
  /\ WF_vars(~combat.astray /\ Violence)
  /\ WF_vars(~combat.astray /\ (BlowEnds \/ BlowKills \/ BlowBackfires))
  /\ WF_vars(~combat.astray /\ (StopOpponent \/ Freed))

FairSpec == Spec /\ Fairness

-----------------------------------------------------------------------------
World ==
  [list : Seq(Being), next : Being \cup {Nobody},
   fighting : [Being -> Being \cup {Nobody}], attackers : [Being -> Int],
   engaged : SUBSET Being, berserk : SUBSET Berserker, due : SUBSET Being,
   astray : BOOLEAN]

TypeOK ==
  /\ combat \in World
  /\ alive \subseteq Being
  /\ phase \in {"idle", "tick", "loop", "blow", "free"}
  /\ pulse \in 0..COMBAT
  /\ ch \in Being \cup {Nobody}
  /\ vict \in Being \cup {Nobody}
  /\ freed \in [who : Being \cup {Nobody}, next_char : Being \cup {Nobody},
                then : {"idle", "tick", "loop", "blow"}]

(* gCombatList holds exactly those who fight, once each, and               *)
(* stopFighting() always finds its man in the list (it calls abort()       *)
(* otherwise): until a response to startfight strikes at somebody that is  *)
(* just being put into the list, and has it put there once more.           *)
ListedFight ==
  ~combat.astray =>
    /\ IsInjective(combat.list)
    /\ \A b \in Being : b \in Listed(combat) <=> Fights(combat, b)

(* No pointer is left to a freed being, in gCombatList or in anybody's     *)
(* specials.fighting, when other code runs or a loop goes on: unless the   *)
(* walk of its destructor was led astray (the model ends in it).           *)
NobodyFightsTheFreed ==
  phase # "free" =>
    \A b \in Listed(combat) : b \in alive /\ combat.fighting[b] \in alive

(* Everybody that the walk has still to come to was fighting since before  *)
(* the tick began and had no turn at it, and the walk has still to come to *)
(* everybody like that: whatever fights are stopped and begun by a blow,   *)
(* perform_violence() does not "walk onto a player no longer fighting" and *)
(* does not "lose track of later fighters" (misc/combat.cc:57), nor give   *)
(* anybody a second turn, until a walk is led astray.                      *)
TurnsInOrder ==
  ~combat.astray =>
    /\ phase = "loop" => combat.due = From(combat.list, ch)
    /\ phase = "blow" => combat.due = From(combat.list, combat.next)

(* Those who strike at v. *)
Strikers(w, v) == {b \in Being : w.fighting[b] = v /\ b \notin w.engaged}

(* attackers is never less than the number of those who strike: "too few   *)
(* people attacking" (misc/combat.cc:1886) is never logged, and nobody     *)
(* that is attacked looks as if it were not (mobact.cc:419).               *)
NeverTooFew ==
  \A v \in Being : combat.attackers[v] >= Cardinality(Strikers(combat, v))

(* A round of violence comes to its end, however many fights are begun at  *)
(* the head of the list meanwhile, unless one of them leads it astray.     *)
RoundEnds == phase # "idle" ~> (phase = "idle" \/ combat.astray)

(* Whoever goes on fighting the same opponent has a turn, although a death *)
(* of the one whose turn it is ends the tick for all behind it, unless a   *)
(* walk is led astray.  Not so a monster that strikes back: whenever       *)
(* somebody else is set fighting it, its response may stop its fight and   *)
(* begin it anew, at the head of the list, before its turn.                *)
EverybodyHasATurn ==
  \A b \in Being \ StrikesBack, v \in Being :
    combat.fighting[b] = v
      ~> (ch = b \/ combat.fighting[b] # v \/ combat.astray)
=============================================================================
