------------------------------ MODULE Sessions ------------------------------
(***************************************************************************)
(* Connections and the bodies they play: Descriptor and nanny() of         *)
(* sys/connect.cc, the destructors of TBeing and TPerson, and the commands *)
(* of misc/immortal.cc and disc/ that move a connection between bodies.    *)
(*                                                                         *)
(* A session is a Descriptor; a person is a TPerson, a beast a TMonster    *)
(* that some player wears.  The pointers that must agree are               *)
(*    char[d]      Descriptor::character       desc[b]  TBeing::desc       *)
(*    orig[d]      Descriptor::original (the body left behind)             *)
(*    snooping[d], snoopBy[d]   Descriptor::snoop, pointers to beings      *)
(* and list is the set of beings linked in character_list.                 *)
(*                                                                         *)
(* A body that is in no list and has no session is free memory: deleted or *)
(* leaked, it may be allocated again.  Accounts, passwords and the         *)
(* contents of a character are left out; conn "menu" stands for every      *)
(* state of a connection that has no character.                            *)
(***************************************************************************)
EXTENDS Naturals, FiniteSets

CONSTANTS Session,   \* descriptors that may be open at once
          Person,    \* TPerson objects that may be allocated at once
          Beast,     \* TMonster objects players may take
          Name,      \* character names
          Level,     \* rank of the character of each name, 0 a mortal
          Optional,  \* the optional inputs that occur: "create", "disguise",
                     \* "lycanthropy", "deleteaccount", "wipe"
          None

Body == Person \cup Beast

ASSUME NoneAssumption == None \notin Session \cup Body \cup Name
ASSUME KindAssumption == Person \cap Beast = {}
ASSUME LevelAssumption == Level \in [Name -> Nat]

VARIABLES conn,      \* Descriptor::connected
          char, orig, snooping, snoopBy,
          desc,
          name,      \* TBeing::name of each person
          list,
          form,      \* the beasts with ACT_POLYSELF: made by a transformation
          saved      \* names with a player file

vars == <<conn, char, orig, snooping, snoopBy, desc, name, list, form, saved>>
snoopVars == <<snooping, snoopBy>>
bodyVars == <<name, list, form, saved>>

ConnState == {"closed", "menu", "name", "create", "discon", "motd", "playing"}

(* The player's own body, also while the session plays a beast. *)
Self(d) == IF orig[d] # None THEN orig[d] ELSE char[d]

(* The name under which nanny() knows a session. *)
PlayerName(d) == IF char[d] = None THEN None ELSE name[Self(d)]

Free(b) == b \notin list /\ desc[b] = None

Init ==
  /\ conn = [d \in Session |-> "closed"]
  /\ char = [d \in Session |-> None]
  /\ orig = [d \in Session |-> None]
  /\ snooping = [d \in Session |-> None]
  /\ snoopBy = [d \in Session |-> None]
  /\ desc = [b \in Body |-> None]
  /\ name = [b \in Person |-> None]
  /\ list = {}
  /\ form = {}
  /\ saved \in SUBSET Name

-----------------------------------------------------------------------------
(* ~Descriptor().                                                          *)
(*                                                                         *)
(* What is left once the sessions in D are deleted: whoever they play      *)
(* returns to the own body, which stays in the world without a session     *)
(* when it was playing; a character still logging in is deleted with the   *)
(* session (or leaked, after the answer to "Reconnect?" took it away).     *)

SnoopingAfter(D) ==
  [e \in Session |->
     IF e \in D \/ \E d \in D : snoopBy[d] # None /\ desc[snoopBy[d]] = e
     THEN None ELSE snooping[e]]

SnoopByAfter(D) ==
  [e \in Session |->
     IF e \in D \/ \E d \in D : snooping[d] # None /\ desc[snooping[d]] = e
     THEN None ELSE snoopBy[e]]

ConnAfter(D) == [e \in Session |-> IF e \in D THEN "closed" ELSE conn[e]]
CharAfter(D) == [e \in Session |-> IF e \in D THEN None ELSE char[e]]
OrigAfter(D) == [e \in Session |-> IF e \in D THEN None ELSE orig[e]]
DescAfter(D) == [b \in Body |-> IF desc[b] \in D THEN None ELSE desc[b]]
NameAfter(D) == [b \in Person |-> IF desc[b] \in D /\ b \notin list
                                  THEN None ELSE name[b]]
Shed(D) == {b \in form : desc[b] \in D}

DeleteSessions(D) ==
  /\ conn' = ConnAfter(D)
  /\ char' = CharAfter(D)
  /\ orig' = OrigAfter(D)
  /\ desc' = DescAfter(D)
  /\ name' = NameAfter(D)
  /\ list' = list \ Shed(D)
  /\ form' = form \ Shed(D)
  /\ snooping' = SnoopingAfter(D)
  /\ snoopBy' = SnoopByAfter(D)
  /\ UNCHANGED saved

(* A lost socket, <E>xit, "N" to Reconnect?, too many characters of one    *)
(* account, or an immortal that purges links.                              *)
Disconnect(d) ==
  /\ conn[d] # "closed"
  /\ DeleteSessions({d})

-----------------------------------------------------------------------------
(* Logging in: doAccountMenu(), nanny(), creation_nanny(). *)

Connect(d) ==
  /\ conn[d] = "closed"
  /\ conn' = [conn EXCEPT ![d] = "menu"]
  /\ UNCHANGED <<char, orig, desc, snoopVars, bodyVars>>

(* <C>onnect an existing character, or <A>dd a new one: a new TPerson. *)
NewPerson(d, b, state) ==
  /\ conn[d] = "menu"
  /\ Free(b)
  /\ conn' = [conn EXCEPT ![d] = state]
  /\ char' = [char EXCEPT ![d] = b]
  /\ desc' = [desc EXCEPT ![b] = d]
  /\ UNCHANGED <<orig, snoopVars, bodyVars>>

MenuConnect(d, b) == NewPerson(d, b, "name")
MenuAdd(d, b) == "create" \in Optional /\ NewPerson(d, b, "create")

(* An empty name: the character is deleted, the menu comes back. *)
NameEmpty(d) ==
  /\ conn[d] = "name"
  /\ conn' = [conn EXCEPT ![d] = "menu"]
  /\ char' = [char EXCEPT ![d] = None]
  /\ desc' = [desc EXCEPT ![char[d]] = None]
  /\ UNCHANGED <<orig, snoopVars, bodyVars>>

(* The other sessions with a character of name n, whatever their state. *)
Others(d, n) == {e \in Session \ {d} : PlayerName(e) = n}

(* Bodies of name n in the world without a session. *)
Abandoned(n) == {b \in Person \cap list : desc[b] = None /\ name[b] = n}

(* The session drops the character it logs in with and takes over body b. *)
TakeOver(d, b, descNow, nameNow) ==
  /\ char' = [char EXCEPT ![d] = b]
  /\ desc' = [descNow EXCEPT ![char[d]] = None, ![b] = d]
  /\ name' = [nameNow EXCEPT ![char[d]] = None]

(* CON_CONN with the name of a saved character: it may be connected        *)
(* already, be in the world without a link, or be out of the game.         *)
NameGivenConnected(d, n) ==
  /\ conn[d] = "name"
  /\ n \in saved
  /\ Others(d, n) # {}
  /\ conn' = [conn EXCEPT ![d] = "discon"]
  /\ name' = [name EXCEPT ![char[d]] = n]
  /\ UNCHANGED <<char, orig, desc, snoopVars, list, form, saved>>

(* Mutant of NameGivenLinkdead: the old body is not looked for. *)
NameGivenIgnoresLinkdead(d, n) ==
  /\ conn[d] = "name"
  /\ n \in saved
  /\ Others(d, n) = {}
  /\ Abandoned(n) # {}
  /\ conn' = [conn EXCEPT ![d] = "motd"]
  /\ name' = [name EXCEPT ![char[d]] = n]
  /\ UNCHANGED <<char, orig, desc, snoopVars, list, form, saved>>

NameGivenLinkdead(d, n) ==
  /\ conn[d] = "name"
  /\ n \in saved
  /\ Others(d, n) = {}
  /\ conn' = [conn EXCEPT ![d] = "playing"]
  /\ \E b \in Abandoned(n) : TakeOver(d, b, desc, name)
  /\ UNCHANGED <<orig, snoopVars, list, form, saved>>

(* Mutant of NameGivenFresh: the character is not loaded. *)
NameGivenUnread(d, n) ==
  /\ conn[d] = "name"
  /\ n \in saved
  /\ Others(d, n) = {}
  /\ Abandoned(n) = {}
  /\ conn' = [conn EXCEPT ![d] = "motd"]
  /\ UNCHANGED <<char, orig, desc, snoopVars, bodyVars>>

NameGivenFresh(d, n) ==
  /\ conn[d] = "name"
  /\ n \in saved
  /\ Others(d, n) = {}
  /\ Abandoned(n) = {}
  /\ conn' = [conn EXCEPT ![d] = "motd"]
  /\ name' = [name EXCEPT ![char[d]] = n]
  /\ UNCHANGED <<char, orig, desc, snoopVars, list, form, saved>>

(* Creation: a name is taken when a player file has it, and only then. *)
CreateName(d, n) ==
  /\ conn[d] = "create"
  /\ n \notin saved
  /\ Level[n] = 0
  /\ name' = [name EXCEPT ![char[d]] = n]
  /\ UNCHANGED <<conn, char, orig, desc, snoopVars, list, form, saved>>

CreateDone(d) ==
  /\ conn[d] = "create"
  /\ PlayerName(d) # None
  /\ conn' = [conn EXCEPT ![d] = "motd"]
  /\ UNCHANGED <<char, orig, desc, snoopVars, bodyVars>>

(* Mutant of EnterGame: the body is not put into character_list. *)
EnterUnlisted(d) ==
  /\ conn[d] = "motd"
  /\ conn' = [conn EXCEPT ![d] = "playing"]
  /\ saved' = saved \cup {PlayerName(d)}
  /\ UNCHANGED <<char, orig, desc, snoopVars, name, list, form>>

(* CON_RMOTD and genericLoadPC(): the character is saved and enters.  A    *)
(* load refused before that is a Disconnect; one that finds no room to put *)
(* the character in, already linked, is left out.                          *)
EnterGame(d) ==
  /\ conn[d] = "motd"
  /\ conn' = [conn EXCEPT ![d] = "playing"]
  /\ list' = list \cup {char[d]}
  /\ saved' = saved \cup {PlayerName(d)}
  /\ UNCHANGED <<char, orig, desc, snoopVars, name, form>>

(* Mutant of ReconnectTakesOver: the other session is not deleted. *)
ReconnectKeepsOld(d) ==
  /\ conn[d] = "discon"
  /\ conn' = [conn EXCEPT ![d] = "playing"]
  /\ \E b \in {c \in Person \cap list : name[c] = PlayerName(d)} :
       TakeOver(d, b, desc, name)
  /\ UNCHANGED <<orig, snoopVars, list, form, saved>>

(* "Y" to "Reconnect?": every other session of that name is deleted, then  *)
(* the body in the world is taken over.  Without one nothing more happens, *)
(* and the question stays.                                                 *)
ReconnectTakesOver(d) ==
  LET D == Others(d, PlayerName(d))
      Left == {b \in Person \cap list : /\ DescAfter(D)[b] = None
                                        /\ name[b] = PlayerName(d)}
  IN /\ conn[d] = "discon"
     /\ conn' = [ConnAfter(D) EXCEPT ![d] = "playing"]
     /\ \E b \in Left :
          /\ char' = [CharAfter(D) EXCEPT ![d] = b]
          /\ desc' = [DescAfter(D) EXCEPT ![char[d]] = None, ![b] = d]
          /\ name' = [NameAfter(D) EXCEPT ![char[d]] = None]
     /\ orig' = OrigAfter(D)
     /\ list' = list \ Shed(D)
     /\ form' = form \ Shed(D)
     /\ snooping' = SnoopingAfter(D)
     /\ snoopBy' = SnoopByAfter(D)
     /\ UNCHANGED saved

ReconnectFindsNobody(d) ==
  LET D == Others(d, PlayerName(d))
  IN /\ conn[d] = "discon"
     /\ \A b \in Person \cap list :
          name[b] = PlayerName(d) => DescAfter(D)[b] # None
     /\ DeleteSessions(D)

-----------------------------------------------------------------------------
(* Leaving the game. *)

(* ~TBeing() of a body with a session: the connection returns to the menu. *)
(* It stops snooping and being snooped, as a deleted session does.         *)
BackToMenu(d) ==
  /\ conn' = [conn EXCEPT ![d] = "menu"]
  /\ char' = [char EXCEPT ![d] = None]
  /\ orig' = [orig EXCEPT ![d] = None]
  /\ desc' = DescAfter({d})
  /\ snooping' = SnoopingAfter({d})
  /\ snoopBy' = SnoopByAfter({d})
  /\ UNCHANGED saved

(* A body that is deleted leaves character_list and is free. *)
Remove(b) ==
  /\ list' = list \ {b}
  /\ name' = [name EXCEPT ![b] = None]

(* Mutant of Quit: the connection keeps a pointer to the deleted body. *)
QuitKeepsPointer(d) ==
  /\ conn[d] = "playing"
  /\ orig[d] = None
  /\ conn' = [conn EXCEPT ![d] = "menu"]
  /\ desc' = DescAfter({d})
  /\ snooping' = SnoopingAfter({d})
  /\ snoopBy' = SnoopByAfter({d})
  /\ Remove(char[d])
  /\ UNCHANGED <<char, orig, form, saved>>

(* quit, rent, camp or death of a player in the own body. *)
Quit(d) ==
  /\ conn[d] = "playing"
  /\ orig[d] = None
  /\ BackToMenu(d)
  /\ Remove(char[d])
  /\ UNCHANGED form

(* Session and body end together: delete d, then delete its character. *)
Expel(d) ==
  /\ conn[d] = "playing"
  /\ orig[d] = None
  /\ conn' = ConnAfter({d})
  /\ char' = CharAfter({d})
  /\ orig' = OrigAfter({d})
  /\ desc' = DescAfter({d})
  /\ snooping' = SnoopingAfter({d})
  /\ snoopBy' = SnoopByAfter({d})
  /\ Remove(char[d])
  /\ UNCHANGED form

(* checkIdling(): a mortal's 20 ticks without input. *)
IdleBoot(d) ==
  /\ Expel(d)
  /\ Level[PlayerName(d)] = 0
  /\ UNCHANGED saved

(* doWipe() of a player of lower level who is connected. *)
Wipe(d, e) ==
  /\ "wipe" \in Optional
  /\ conn[d] = "playing" /\ orig[d] = None
  /\ Expel(e)
  /\ Level[PlayerName(e)] < Level[PlayerName(d)]
  /\ saved' = saved \ {PlayerName(e)}

(* doWipe() when nobody of that name is seen: immortals of a higher level  *)
(* can hide, and whoever is still logging in is not looked for.            *)
WipeUnseen(d, n) ==
  /\ "wipe" \in Optional
  /\ conn[d] = "playing" /\ orig[d] = None
  /\ Level[PlayerName(d)] > 0
  /\ \A b \in Person \cap list :
       name[b] = n => Level[n] > Level[PlayerName(d)]
  /\ saved' = saved \ {n}
  /\ UNCHANGED <<conn, char, orig, desc, snoopVars, name, list, form>>

(* Mutant of LdeadTimeout: ~TPerson() does not look for sessions that left *)
(* the body behind.                                                        *)
LdeadForgotten(b) ==
  /\ b \in list
  /\ desc[b] = None
  /\ Remove(b)
  /\ UNCHANGED <<conn, char, orig, desc, snoopVars, form, saved>>

(* updateTickStuff(): a person without a session for too long is saved and *)
(* deleted.  ~TPerson() first calls back a player who left it behind to    *)
(* play a beast; that connection ends at the menu.                         *)
LdeadTimeout(b) ==
  /\ b \in list
  /\ desc[b] = None
  /\ name' = [name EXCEPT ![b] = None]
  /\ \/ /\ b \notin {orig[d] : d \in Session}
        /\ list' = list \ {b}
        /\ UNCHANGED <<conn, char, orig, desc, snoopVars, form, saved>>
     \/ \E d \in Session :
          /\ orig[d] = b
          /\ BackToMenu(d)
          /\ list' = list \ (Shed({d}) \cup {b})
          /\ form' = form \ Shed({d})

(* genericPurgeLdead(): linkdead persons are deleted, then the connections *)
(* without a character or with one that has no name.                       *)
PurgeLdead ==
  LET L == {b \in Person \cap list : /\ desc[b] = None
                                     /\ \A d \in Session : orig[d] # b}
      D == {d \in Session : conn[d] # "closed" /\ PlayerName(d) = None}
  IN /\ conn' = ConnAfter(D)
     /\ char' = CharAfter(D)
     /\ orig' = OrigAfter(D)
     /\ desc' = DescAfter(D)
     /\ name' = [b \in Person |-> IF b \in L THEN None ELSE NameAfter(D)[b]]
     /\ list' = list \ (Shed(D) \cup L)
     /\ form' = form \ Shed(D)
     /\ snooping' = SnoopingAfter(D)
     /\ snoopBy' = SnoopByAfter(D)
     /\ UNCHANGED saved

(* Mutant of DeleteChar: the world is not searched. *)
DeleteAnyChar(d, n) ==
  /\ conn[d] = "menu"
  /\ n \in saved
  /\ saved' = saved \ {n}
  /\ UNCHANGED <<conn, char, orig, desc, snoopVars, name, list, form>>

(* CON_CHARDELCNF: refused for the name of a being in the world. *)
DeleteChar(d, n) ==
  /\ conn[d] = "menu"
  /\ n \in saved
  /\ \A b \in Person \cap list : name[b] # n
  /\ saved' = saved \ {n}
  /\ UNCHANGED <<conn, char, orig, desc, snoopVars, name, list, form>>

(* CON_ACTDELCNF: the characters of the account go, whoever is in the      *)
(* world, and so does this session.                                        *)
DeleteAccount(d, A) ==
  /\ "deleteaccount" \in Optional
  /\ conn[d] = "menu"
  /\ conn' = [conn EXCEPT ![d] = "closed"]
  /\ saved' = saved \ A
  /\ UNCHANGED <<char, orig, desc, snoopVars, name, list, form>>

-----------------------------------------------------------------------------
(* Other bodies. *)

(* desc->character = m; desc->original = this; m->desc = desc; desc = NULL *)
Wear(d, m) ==
  /\ conn[d] = "playing"
  /\ orig[d] = None
  /\ char' = [char EXCEPT ![d] = m]
  /\ orig' = [orig EXCEPT ![d] = char[d]]
  /\ desc' = [desc EXCEPT ![char[d]] = None, ![m] = d]
  /\ list' = list \cup {m}
  /\ UNCHANGED <<conn, snoopVars, name, saved>>

(* doSwitch(): an immortal, or a mortal with the object for it around the  *)
(* neck, takes a beast of the world, or loads one.                         *)
Switch(d, m) ==
  /\ PlayerName(d) # None
  /\ snooping[d] = None
  /\ snoopBy[d] = None
  /\ desc[m] = None
  /\ Wear(d, m)
  /\ UNCHANGED form

(* disguise(): only the snooper is refused, not the snooped. *)
Disguise(d, m) ==
  /\ "disguise" \in Optional
  /\ snooping[d] = None
  /\ Free(m)
  /\ Wear(d, m)
  /\ form' = form \cup {m}

(* lycanthropeTransform(), vampireTransform(), and the end of the cast of  *)
(* polymorph and shapeshift: snooping is not looked at.                    *)
Lycanthrope(d, m) ==
  /\ "lycanthropy" \in Optional
  /\ Free(m)
  /\ Wear(d, m)
  /\ form' = form \cup {m}

(* Mutant of Return: the beast keeps its pointer to the session. *)
ReturnKeepsDesc(d) ==
  /\ orig[d] # None
  /\ char' = [char EXCEPT ![d] = orig[d]]
  /\ orig' = [orig EXCEPT ![d] = None]
  /\ desc' = [desc EXCEPT ![orig[d]] = d]
  /\ list' \in {list, list \ {char[d]}}
  /\ form' = form \ {char[d]}
  /\ UNCHANGED <<conn, snoopVars, name, saved>>

(* Mutant of Return: a beast that is put away is still called a form. *)
ReturnKeepsForm(d) ==
  /\ orig[d] # None
  /\ char' = [char EXCEPT ![d] = orig[d]]
  /\ orig' = [orig EXCEPT ![d] = None]
  /\ desc' = [desc EXCEPT ![char[d]] = None, ![orig[d]] = d]
  /\ \/ list' = list /\ form' = form
     \/ list' = list \ {char[d]} /\ form' = form \ {char[d]}
  /\ UNCHANGED <<conn, snoopVars, name, saved>>

(* doReturn(): a beast made by a transformation is deleted, or put away    *)
(* for the caller to delete: still listed, but a form no more.  One that   *)
(* was switched into stays, or is deleted when it was killed.              *)
Return(d) ==
  /\ orig[d] # None
  /\ char' = [char EXCEPT ![d] = orig[d]]
  /\ orig' = [orig EXCEPT ![d] = None]
  /\ desc' = [desc EXCEPT ![char[d]] = None, ![orig[d]] = d]
  /\ list' \in {list, list \ {char[d]}}
  /\ form' = form \ {char[d]}
  /\ UNCHANGED <<conn, snoopVars, name, saved>>

(* die() of a beast made by a transformation: the player returns to the    *)
(* own body and dies in it, and the killer deletes the beast.  When it was *)
(* a command of the player that killed the beast, or one switched into,    *)
(* the input loop deletes d->character, by now the own body, instead.      *)
DieAsBeast(d) ==
  /\ orig[d] # None
  /\ BackToMenu(d)
  /\ name' = [name EXCEPT ![orig[d]] = None]
  /\ list' \in {list \ {orig[d]}, list \ {orig[d], char[d]}}
  /\ form' = form \ {char[d]}

(* A beast nobody plays, also one that was put away, is killed or deleted. *)
BeastDies(m) ==
  /\ m \in list
  /\ desc[m] = None
  /\ list' = list \ {m}
  /\ UNCHANGED <<conn, char, orig, desc, snoopVars, name, form, saved>>

-----------------------------------------------------------------------------
(* doSnoop() *)

(* Mutant of Snoop: the former victim is not told to forget its snooper. *)
SnoopForgetsFormer(d, e) ==
  /\ conn[d] = "playing" /\ orig[d] = None
  /\ conn[e] = "playing" /\ orig[e] = None
  /\ d # e
  /\ snoopBy[e] = None
  /\ Level[PlayerName(d)] > 0
  /\ snooping' = [snooping EXCEPT ![d] = char[e]]
  /\ snoopBy' = [snoopBy EXCEPT ![e] = char[d]]
  /\ UNCHANGED <<conn, char, orig, desc, bodyVars>>

(* A victim has a link, is not snooped and not switched; whoever was       *)
(* snooped before is let go.  The victim is of lower level then, but not   *)
(* for as long as it is snooped: of two immortals either may be above the  *)
(* other at one time or another.                                           *)
Snoop(d, e) ==
  /\ conn[d] = "playing" /\ orig[d] = None
  /\ conn[e] = "playing" /\ orig[e] = None
  /\ d # e
  /\ snoopBy[e] = None
  /\ Level[PlayerName(d)] > 0
  /\ snooping' = [snooping EXCEPT ![d] = char[e]]
  /\ snoopBy' = [f \in Session |->
       IF f = e THEN char[d]
       ELSE IF snooping[d] # None /\ desc[snooping[d]] = f THEN None
       ELSE snoopBy[f]]
  /\ UNCHANGED <<conn, char, orig, desc, bodyVars>>

(* snoop self *)
StopSnoop(d) ==
  /\ conn[d] = "playing" /\ orig[d] = None
  /\ snooping[d] # None
  /\ snooping' = [snooping EXCEPT ![d] = None]
  /\ snoopBy' = [f \in Session |->
       IF desc[snooping[d]] = f THEN None ELSE snoopBy[f]]
  /\ UNCHANGED <<conn, char, orig, desc, bodyVars>>

-----------------------------------------------------------------------------
LogIn(d) ==
  \/ Connect(d)
  \/ \E b \in Person : MenuConnect(d, b) \/ MenuAdd(d, b)
  \/ NameEmpty(d)
  \/ \E n \in Name : NameGivenConnected(d, n)
  \/ \E n \in Name : NameGivenLinkdead(d, n)
  \/ \E n \in Name : NameGivenFresh(d, n)
  \/ \E n \in Name : CreateName(d, n)
  \/ CreateDone(d)
  \/ EnterGame(d)
  \/ ReconnectTakesOver(d)
  \/ ReconnectFindsNobody(d)

Leave(d) ==
  \/ Disconnect(d)
  \/ Quit(d)
  \/ DieAsBeast(d)
  \/ IdleBoot(d)
  \/ \E n \in Name : DeleteChar(d, n) \/ WipeUnseen(d, n)
  \/ \E A \in SUBSET Name : DeleteAccount(d, A)
  \/ \E e \in Session : Wipe(d, e)

Play(d) ==
  \/ \E m \in Beast : Switch(d, m)
  \/ \E m \in Beast : Disguise(d, m)
  \/ \E m \in Beast : Lycanthrope(d, m)
  \/ Return(d)
  \/ \E e \in Session : Snoop(d, e)
  \/ StopSnoop(d)

Next ==
  \/ \E d \in Session : LogIn(d) \/ Leave(d) \/ Play(d)
  \/ \E b \in Person : LdeadTimeout(b)
  \/ PurgeLdead
  \/ \E m \in Beast : BeastDies(m)

Spec == Init /\ [][Next]_vars

-----------------------------------------------------------------------------
TypeOK ==
  /\ conn \in [Session -> ConnState]
  /\ char \in [Session -> Body \cup {None}]
  /\ orig \in [Session -> Person \cup {None}]
  /\ snooping \in [Session -> Body \cup {None}]
  /\ snoopBy \in [Session -> Body \cup {None}]
  /\ desc \in [Body -> Session \cup {None}]
  /\ name \in [Person -> Name \cup {None}]
  /\ list \subseteq Body
  /\ form \subseteq Beast
  /\ saved \subseteq Name

(* The two ends of every link agree: a session's body points back at it,   *)
(* and a body with a session is the one that session plays.                *)
(* updateTickStuff() logs "bad desc" when it meets one that does not.      *)
Linked ==
  /\ \A d \in Session : char[d] # None => desc[char[d]] = d
  /\ \A b \in Body : desc[b] # None => char[desc[b]] = b

(* character_list holds the bodies being played and those left behind, and *)
(* none of a session still logging in: ~TBeing() tells from connected      *)
(* whether it must unlink the body, and is wrong if this does not hold.    *)
InWorld ==
  \A d \in Session :
    /\ conn[d] \in {"closed", "menu"} <=> char[d] = None
    /\ conn[d] = "playing" <=> char[d] \in list
    /\ orig[d] # None => /\ orig[d] \in list
                         /\ char[d] \in Beast
                         /\ desc[orig[d]] = None

(* What Linked and InWorld rest on.  A session keeps a body behind only    *)
(* while it plays a beast, and whoever is past the login has a name.       *)
Shape ==
  \A d \in Session :
    /\ orig[d] # None => conn[d] = "playing"
    /\ orig[d] = None /\ char[d] # None => char[d] \in Person
    /\ conn[d] \in {"discon", "motd", "playing"} => PlayerName(d) \in Name

(* No body is left behind by two sessions. *)
OrigOnce ==
  \A d, e \in Session : orig[d] # None /\ orig[d] = orig[e] => d = e

(* A player is in the world once: no two bodies have the name of one       *)
(* character, which would both be saved over the same file.                *)
OneBodyPerName ==
  \A b, c \in Person \cap list : name[b] = name[c] => b = c

(* Every character in the world has a player file, so that what it saves   *)
(* finds its file and its name cannot be taken by a new character.         *)
InWorldSaved == \A b \in Person \cap list : name[b] \in saved

(* A snooper's victim has a session that knows its snooper, and the other  *)
(* way round: ~Descriptor() follows snoop.snooping->desc unchecked.        *)
SnoopPaired ==
  \A d \in Session :
    /\ snooping[d] # None => /\ desc[snooping[d]] # None
                             /\ snoopBy[desc[snooping[d]]] = char[d]
    /\ snoopBy[d] # None => /\ desc[snoopBy[d]] # None
                            /\ snooping[desc[snoopBy[d]]] = char[d]

(* Every beast that a transformation made is played by somebody who left   *)
(* the own body behind for it, be it that the link was lost, the body      *)
(* timed out or died, or another session took over.  die() and rawKill()   *)
(* log "*BUG CODERS BIG TIME*" for one that is not, and cannot kill it.    *)
FormsHavePlayers ==
  \A m \in form : desc[m] # None /\ orig[desc[m]] # None

(* A body that is being played passes to another session only when that    *)
(* one confirmed to reconnect, and the session that had it is deleted.     *)
HandOver ==
  [][\A b \in Body, d, e \in Session :
       desc[b] = d /\ desc'[b] = e /\ d # e
         => conn[e] = "discon" /\ conn'[d] = "closed"]_vars

(* Who plays whom, as the players see it: a session plays a character also *)
(* through a beast; the character is in the game without a link when its   *)
(* body is in the world and no session has it or left it behind.           *)
Plays == [d \in Session |-> IF conn[d] = "playing" THEN PlayerName(d) ELSE None]
Asks == [d \in Session |-> IF conn[d] = "discon" THEN PlayerName(d) ELSE None]
Adrift(b) == b \in list /\ desc[b] = None /\ \A d \in Session : orig[d] # b
Linkdead == {n \in Name : \E b \in Person : Adrift(b) /\ name[b] = n}

R == INSTANCE Roll WITH Player <- Session, Character <- Name, Nobody <- None,
                        plays <- Plays, asks <- Asks, linkdead <- Linkdead

(* The login code, with all its bodies and pointers, does to the roll of   *)
(* characters only what Roll allows: nobody takes over a character that    *)
(* another session plays without being asked, nobody plays a second copy   *)
(* of one that is in the world, and a lost link leaves the character there. *)
ImplementsRoll == R!Spec

(* What updateTickStuff() calls "essentially, linkdead": a body deleted    *)
(* for having no link is not one whose player is connected in another form. *)
LdeadTimerHitsLdead ==
  [][\A b \in Person :
       LdeadTimeout(b) => \A d \in Session : orig[d] # b]_vars

=============================================================================
