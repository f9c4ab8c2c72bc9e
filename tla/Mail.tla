-------------------------------- MODULE Mail --------------------------------
(***************************************************************************)
(* Mudmail (misc/mail.cc, sys/connect.cc, sys/client.cc): a player orders  *)
(* a letter from the postmaster, with talens or with an object, and then   *)
(* writes it.  What goes along is kept in the descriptor meanwhile.  The   *)
(* letter goes into the table mail and the object into the table rent,     *)
(* which outlive the game; its reader takes both out again.                *)
(*                                                                         *)
(* A client (m_bIsClient) writes in windows of its own and plays on; any   *)
(* other player gives no commands while it writes.  Names nobody bears,    *)
(* factions and what a letter says are left out; the envelope is opened as *)
(* it is handed over.  A connection has one player.  Of the players' files *)
(* nothing is kept: one who comes into the game has some talens and some   *)
(* objects.                                                                *)
(***************************************************************************)
EXTENDS Integers, FiniteSets

CONSTANTS Player,
          Client,      \* players with m_bIsClient
          Reporter,    \* players who also write bug reports
          Unsteady,    \* players whose connection may be lost
          Thing,       \* objects, by address: one destroyed may come again
          Post,        \* who may write to whom
          Postage,     \* the price of a "letter", of "talens", of a "parcel"
          Sums,        \* bound: talens that are sent
          Purse,       \* bound: talens each player comes with
          Thief,       \* players who steal
          Riches,      \* bound: talens a thief steals up to
          MaxMail, MaxRent,   \* bounds: ids given to letters, to parcels
          Staff,       \* the name of a report: no player's
          Nobody, NoThing, Gone, Ground

Kind == {"letter", "talens", "parcel"}

ASSUME PlayerAssumption == Client \subseteq Player /\ Reporter \subseteq Player \ Client
ASSUME PostAssumption == Post \subseteq Player \X Player /\ Postage \in [Kind -> Nat]
ASSUME NameAssumption == {Staff, Nobody, Gone, Ground} \cap Player = {} /\ Ground # Gone
ASSUME ThingAssumption == NoThing \notin Thing
ASSUME NumberAssumption == Sums \subseteq Nat /\ Purse \in [Player -> Nat] /\ Riches \in Nat /\ MaxMail \in Nat /\ MaxRent \in Nat

VARIABLES body,      \* of each player: where it is ("linked", "linkdead" or
                     \* "out" of the game), its money and its player actions
          place,     \* of each object: its carrier, Ground or Gone
          desc,      \* its Descriptor: obj, amount, name, str (is it writing?);
                     \* a client's open windows
          letters,   \* the table mail
          rows,      \* the table rent: the parcels of GH_MAIL_SHOP
          serial,    \* the last ids given out by the two tables
          step,      \* of the command that runs
          asked,     \* history: what each player asked for on its connection
                     \* since it finished a letter; a client: nothing
          cut,       \* history: the players whose link was lost as they wrote
          handed     \* history: the letters put into a player's hands

tables == <<letters, rows, serial>>
history == <<asked, cut>>
vars == <<body, place, desc, letters, rows, serial, step, asked, cut, handed>>

Fresh == [obj |-> NoThing, amount |-> 0, name |-> Nobody, str |-> FALSE,
          windows |-> {}]
NoLetter == [id |-> 0, to |-> Nobody, talens |-> 0, rent |-> 0]
Idle == [at |-> "idle", who |-> Nobody, letter |-> NoLetter]

Init ==
  /\ body = [p \in Player |-> [in |-> "out", money |-> 0, flags |-> {}]]
  /\ place = [t \in Thing |-> Gone]
  /\ desc = [p \in Player |-> Fresh]
  /\ letters = {}
  /\ rows = {}
  /\ serial = [mail |-> 0, rent |-> 0]
  /\ step = Idle
  /\ asked = [p \in Player |-> {}]
  /\ cut = {}
  /\ handed = {}

(* p is at the prompt: processAllInput() takes its line as a command. *)
Commands(p) == step = Idle /\ body[p].in = "linked" /\ ~desc[p].str

-----------------------------------------------------------------------------
(***************************************************************************)
(* The order (TBeing::postmasterSendMail()).  st.level is read though      *)
(* load_char() was not called, so that the letter may pass for one to an   *)
(* immortal whoever it is for: imm.  What an earlier order left in the     *)
(* descriptor stays there.                                                 *)
(***************************************************************************)
Wares == [kind : {"letter"}, thing : {NoThing}, amount : {0}]
         \cup [kind : {"talens"}, thing : {NoThing}, amount : Sums]
         \cup [kind : {"parcel"}, thing : Thing, amount : {0}]

Affords(p, ware, imm) ==
  IF ware.kind = "talens"
  THEN ware.amount + Postage["talens"] <= body[p].money
  ELSE imm \/ Postage[ware.kind] <= body[p].money

Packs(d, ware) ==
  [d EXCEPT !.obj = IF ware.kind = "parcel" THEN ware.thing ELSE @,
            !.amount = IF ware.kind = "talens" THEN ware.amount ELSE @]

Asks(p, ware, imm) ==
  /\ Commands(p)
  /\ ware.kind = "parcel" => place[ware.thing] = p
  /\ Affords(p, ware, imm)
  /\ body' = [body EXCEPT ![p].money = IF imm THEN @ ELSE @ - Postage[ware.kind],
                          ![p].flags = IF p \in Client THEN @ ELSE @ \cup {"mailing"}]
  /\ asked' = IF p \in Client THEN asked ELSE [asked EXCEPT ![p] = @ \cup {ware}]
  /\ UNCHANGED <<place, tables, step, cut, handed>>

(* The writer's lines go into the letter from here on. *)
Order(p, to) ==
  \E ware \in Wares, imm \in BOOLEAN :
    /\ p \notin Client
    /\ Asks(p, ware, imm)
    /\ desc' = [desc EXCEPT ![p] = [Packs(desc[p], ware) EXCEPT !.name = to, !.str = TRUE]]

(* CLIENT_MAIL opens a window at the other end. *)
OrderWindow(p, to) ==
  \E ware \in Wares, imm \in BOOLEAN :
    /\ p \in Client
    /\ Asks(p, ware, imm)
    /\ desc' = [desc EXCEPT ![p] = [Packs(desc[p], ware) EXCEPT !.windows = @ \cup {to}]]

(* doFeedback(): the same buffer, with another player action. *)
Report(p) ==
  /\ p \in Reporter
  /\ Commands(p)
  /\ body' = [body EXCEPT ![p].flags = @ \cup {"bugging"}]
  /\ desc' = [desc EXCEPT ![p].name = Staff, ![p].str = TRUE]
  /\ UNCHANGED <<place, tables, step, history, handed>>

-----------------------------------------------------------------------------
(***************************************************************************)
(* The end of the text (Descriptor::sstring_add()); a client's comes as    *)
(* CLIENT_MAIL (Descriptor::read_client()).  Both look at what the         *)
(* descriptor holds now.  obj->canBeMailed() may find otherwise than it    *)
(* did; of an object destroyed since, it reads freed memory and finds      *)
(* anything.  The parcel goes into the tables first, then the letter.      *)
(***************************************************************************)
Ends(p) == step = Idle /\ body[p].in = "linked" /\ desc[p].str

Cleared(d) == [d EXCEPT !.obj = NoThing, !.amount = 0, !.name = Nobody, !.str = FALSE]

(* `delete obj', wherever it is. *)
Without(t) == IF t = NoThing THEN place ELSE [place EXCEPT ![t] = Gone]

(* The letter to `to' is on its way, its parcel is in the table. *)
Pack(p, to) ==
  \E mailable \in BOOLEAN :
    LET parcel == mailable /\ desc[p].obj # NoThing
        rent == IF parcel THEN serial.rent + 1 ELSE 0
    IN /\ serial.mail < MaxMail
       /\ parcel => rent <= MaxRent
       /\ serial' = IF parcel THEN [serial EXCEPT !.rent = rent] ELSE serial
       /\ rows' = IF parcel THEN rows \cup {rent} ELSE rows
       /\ place' = IF parcel THEN Without(desc[p].obj) ELSE place
       /\ step' = [at |-> "packed", who |-> p,
                   letter |-> [id |-> 0, to |-> to, talens |-> desc[p].amount, rent |-> rent]]
       /\ UNCHANGED <<body, letters, history, handed>>

Submit(p) ==
  /\ Ends(p)
  /\ "mailing" \in body[p].flags
  /\ Pack(p, desc[p].name)
  /\ UNCHANGED desc

SubmitWindow(p, to) ==
  /\ p \in Client
  /\ step = Idle
  /\ to \in desc[p].windows
  /\ Pack(p, to)
  /\ desc' = [desc EXCEPT ![p].windows = @ \ {to}]

(* Mutant: setMoney() does not clamp. *)
StoreOverdrawn ==
  LET p == step.who
      new == serial.mail + 1
  IN /\ step.at = "packed"
     /\ letters' = letters \cup {[step.letter EXCEPT !.id = new]}
     /\ serial' = [serial EXCEPT !.mail = new]
     /\ body' = [body EXCEPT ![p].money = @ - step.letter.talens,
                             ![p].flags = IF p \in Client THEN @ ELSE @ \ {"mailing"}]
     /\ desc' = [desc EXCEPT ![p] = IF p \in Client THEN [@ EXCEPT !.obj = NoThing, !.amount = 0]
                                    ELSE Cleared(@)]
     /\ asked' = [asked EXCEPT ![p] = {}]
     /\ step' = Idle
     /\ UNCHANGED <<place, rows, cut, handed>>

(* addToMoney(), store_mail(): setMoney() makes a negative sum zero. *)
Store ==
  LET p == step.who
      new == serial.mail + 1
  IN /\ step.at = "packed"
     /\ letters' = letters \cup {[step.letter EXCEPT !.id = new]}
     /\ serial' = [serial EXCEPT !.mail = new]
     /\ body' = [body EXCEPT ![p].money = IF @ < step.letter.talens THEN 0 ELSE @ - step.letter.talens,
                             ![p].flags = IF p \in Client THEN @ ELSE @ \ {"mailing"}]
     /\ desc' = [desc EXCEPT ![p] = IF p \in Client THEN [@ EXCEPT !.obj = NoThing, !.amount = 0]
                                    ELSE Cleared(@)]
     /\ asked' = [asked EXCEPT ![p] = {}]
     /\ step' = Idle
     /\ UNCHANGED <<place, rows, cut, handed>>

(* Mutants: obj is not cleared; PLR_MAILING is not. *)
CancelKeepsObj(p) ==
  /\ Ends(p)
  /\ "mailing" \in body[p].flags
  /\ desc' = [desc EXCEPT ![p] = [Cleared(@) EXCEPT !.obj = desc[p].obj]]
  /\ body' = [body EXCEPT ![p].flags = @ \ {"mailing"}]
  /\ asked' = [asked EXCEPT ![p] = {}]
  /\ UNCHANGED <<place, tables, step, cut, handed>>

CancelKeepsMailing(p) ==
  /\ Ends(p)
  /\ "mailing" \in body[p].flags
  /\ desc' = [desc EXCEPT ![p] = Cleared(@)]
  /\ asked' = [asked EXCEPT ![p] = {}]
  /\ UNCHANGED <<body, place, tables, step, cut, handed>>

(* "`" instead of "~", or the addressee ignores the writer. *)
Cancel(p) ==
  /\ Ends(p)
  /\ "mailing" \in body[p].flags
  /\ desc' = [desc EXCEPT ![p] = Cleared(@)]
  /\ body' = [body EXCEPT ![p].flags = @ \ {"mailing"}]
  /\ asked' = [asked EXCEPT ![p] = {}]
  /\ UNCHANGED <<place, tables, step, cut, handed>>

(* CLIENT_CANCELEDIT, or CLIENT_MAIL to somebody who ignores the writer:   *)
(* what would have gone along stays in the descriptor.                     *)
CloseWindow(p, to) ==
  /\ step = Idle
  /\ to \in desc[p].windows
  /\ desc' = [desc EXCEPT ![p].windows = @ \ {to}]
  /\ UNCHANGED <<body, place, tables, step, history, handed>>

(* The report is sent or given up, or its first line is blank. *)
EndReport(p) ==
  /\ Ends(p)
  /\ "bugging" \in body[p].flags
  /\ \/ /\ "mailing" \notin body[p].flags
        /\ desc' = [desc EXCEPT ![p].name = Nobody, ![p].str = FALSE]
     \/ desc' = [desc EXCEPT ![p].str = FALSE]
  /\ body' = [body EXCEPT ![p].flags = @ \ {"bugging"}]
  /\ UNCHANGED <<place, tables, step, history, handed>>

-----------------------------------------------------------------------------
(***************************************************************************)
(* The reader (TBeing::postmasterReceiveMail()): as long as the table has  *)
(* a letter for it, one is deleted there and handed over.                  *)
(***************************************************************************)
For(p) == {l \in letters : l.to = p}

Receive(p) ==
  /\ Commands(p)
  /\ For(p) # {}
  /\ step' = [at |-> "asked", who |-> p, letter |-> NoLetter]
  /\ UNCHANGED <<body, place, desc, tables, history, handed>>

(* Mutants: the parcel's row is deleted with the letter; the name is not   *)
(* compared.                                                               *)
ReadDeleteBoth ==
  /\ step.at = "asked"
  /\ \/ \E l \in For(step.who) :
          /\ letters' = letters \ {l}
          /\ step' = [step EXCEPT !.at = "opened", !.letter = l]
     \/ /\ For(step.who) = {}
        /\ letters' = letters
        /\ step' = [step EXCEPT !.at = "opened"]
  /\ rows' = rows \ {step'.letter.rent}
  /\ UNCHANGED <<body, place, desc, serial, history, handed>>

ReadDeleteAny ==
  /\ step.at = "asked"
  /\ \/ \E l \in letters :
          /\ letters' = letters \ {l}
          /\ step' = [step EXCEPT !.at = "opened", !.letter = l]
     \/ /\ For(step.who) = {}
        /\ letters' = letters
        /\ step' = [step EXCEPT !.at = "opened"]
  /\ UNCHANGED <<body, place, desc, rows, serial, history, handed>>

(* read_delete(); "error!" is the letter when there is none left. *)
ReadDelete ==
  /\ step.at = "asked"
  /\ \/ \E l \in For(step.who) :
          /\ letters' = letters \ {l}
          /\ step' = [step EXCEPT !.at = "opened", !.letter = l]
     \/ /\ For(step.who) = {}
        /\ letters' = letters
        /\ step' = [step EXCEPT !.at = "opened"]
  /\ UNCHANGED <<body, place, desc, rows, serial, history, handed>>

(* raw_read_item() makes a new object of the parcel, or finds no row or    *)
(* cannot make one; the row goes in any case.                              *)
Unpacked(l, p) ==
  {place} \cup {[place EXCEPT ![t] = p] : t \in {u \in Thing : l.rent \in rows /\ place[u] = Gone}}

(* Mutant: has_mail() is not asked again. *)
HandOverForever ==
  LET p == step.who
      l == step.letter
  IN /\ step.at = "opened"
     /\ place' \in Unpacked(l, p)
     /\ handed' = IF l = NoLetter THEN handed
                  ELSE handed \cup {[id |-> l.id, to |-> p]}
     /\ body' = [body EXCEPT ![p].money = @ + l.talens]
     /\ rows' = rows \ {l.rent}
     /\ step' = [step EXCEPT !.at = "asked", !.letter = NoLetter]
     /\ UNCHANGED <<desc, letters, serial, history>>

HandOver ==
  LET p == step.who
      l == step.letter
  IN /\ step.at = "opened"
     /\ place' \in Unpacked(l, p)
     /\ handed' = IF l = NoLetter THEN handed
                  ELSE handed \cup {[id |-> l.id, to |-> p]}
     /\ body' = [body EXCEPT ![p].money = @ + l.talens]
     /\ rows' = rows \ {l.rent}
     /\ step' = IF For(p) = {} THEN Idle ELSE [step EXCEPT !.at = "asked", !.letter = NoLetter]
     /\ UNCHANGED <<desc, letters, serial, history>>

(* read_object() finds no envelope: the letter is lost. *)
NoEnvelope ==
  /\ step.at = "opened"
  /\ step' = Idle
  /\ UNCHANGED <<body, place, desc, tables, history, handed>>
-----------------------------------------------------------------------------
(***************************************************************************)
(* What else befalls the writer's and the reader's things.  The commands   *)
(* are those of players who are not writing; the table mail is also open   *)
(* to the web pages (cgi/mudmail.cgi.cc) and to the account menu, at any   *)
(* time.                                                                   *)
(***************************************************************************)
(* A decay, a fire, a command: the object is destroyed. *)
Rot(t) ==
  /\ step = Idle
  /\ place[t] # Gone
  /\ place' = Without(t)
  /\ UNCHANGED <<body, desc, tables, step, history, handed>>

(* steal(). *)
Steal(p, from, t) ==
  /\ p \in Thief
  /\ Commands(p)
  /\ p # from
  /\ place[t] = from
  /\ place' = [place EXCEPT ![t] = p]
  /\ UNCHANGED <<body, desc, tables, step, history, handed>>

(* steal() without an object: up to all the victim has. *)
StealTalens(p, from) ==
  /\ p \in Thief
  /\ Commands(p)
  /\ p # from
  /\ body[from].in # "out"
  /\ \E gold \in 1 .. body[from].money :
       /\ body[p].money + gold <= Riches
       /\ body' = [body EXCEPT ![p].money = @ + gold, ![from].money = @ - gold]
  /\ UNCHANGED <<place, desc, tables, step, history, handed>>

(* get, from the ground or from a corpse that lies there. *)
Get(p, t) ==
  /\ Commands(p)
  /\ place[t] = Ground
  /\ place' = [place EXCEPT ![t] = p]
  /\ UNCHANGED <<body, desc, tables, step, history, handed>>

(***************************************************************************)
(* ~Descriptor() ends with `delete obj': what was ordered along with the   *)
(* letter is destroyed wherever it is.  The player actions are the         *)
(* body's and stay; cleanUpStr() only forgets the text.                    *)
(***************************************************************************)
Disconnects(p) ==
  /\ place' = Without(desc[p].obj)
  /\ desc' = [desc EXCEPT ![p] = Fresh]
  /\ asked' = [asked EXCEPT ![p] = {}]
  /\ cut' = IF desc[p].str THEN cut \cup {p} ELSE cut
  /\ UNCHANGED <<tables, step, handed>>

LoseLink(p) ==
  /\ p \in Unsteady
  /\ step = Idle
  /\ body[p].in = "linked"
  /\ body' = [body EXCEPT ![p].in = "linkdead"]
  /\ Disconnects(p)

(* At the menu. *)
HangUp(p) ==
  /\ step = Idle
  /\ body[p].in = "out"
  /\ desc[p] # Fresh
  /\ UNCHANGED body
  /\ Disconnects(p)

Reconnect(p) ==
  /\ step = Idle
  /\ body[p].in = "linkdead"
  /\ body' = [body EXCEPT ![p].in = "linked"]
  /\ UNCHANGED <<place, desc, tables, step, history, handed>>

(***************************************************************************)
(* ~TBeing() of a player leaves its Descriptor at the menu, with all that  *)
(* a letter was to take along; only its text is forgotten.  A client's     *)
(* Descriptor is deleted (doAccountMenu()).                                *)
(***************************************************************************)
LeavesThings(p, where) ==
  /\ body' = [body EXCEPT ![p] = [in |-> "out", money |-> 0, flags |-> {}]]
  /\ place' = [t \in Thing |-> IF p \in Client /\ t = desc[p].obj THEN Gone
                               ELSE IF place[t] = p THEN where ELSE place[t]]
  /\ desc' = [desc EXCEPT ![p] = IF p \in Client THEN Fresh ELSE [@ EXCEPT !.str = FALSE]]
  /\ cut' = cut \ {p}
  /\ UNCHANGED <<tables, step, asked, handed>>

(* Death, whatever the player was at. *)
Die(p) ==
  /\ step = Idle
  /\ body[p].in # "out"
  /\ LeavesThings(p, Ground)

(* It rents, or it was linkdead for too long. *)
Leave(p) ==
  /\ Commands(p) \/ (step = Idle /\ body[p].in = "linkdead")
  /\ LeavesThings(p, Gone)

(* genericLoadPC(): resetChar() clears the player actions. *)
Login(p) ==
  /\ step = Idle
  /\ body[p].in = "out"
  /\ body' = [body EXCEPT ![p] = [in |-> "linked", money |-> Purse[p], flags |-> {}]]
  /\ \E S \in SUBSET {t \in Thing : place[t] = Gone} :
       place' = [t \in Thing |-> IF t \in S THEN p ELSE place[t]]
  /\ UNCHANGED <<desc, tables, step, history, handed>>

(* The game dies between any two changes; files and tables remain. *)
Crash ==
  /\ body' = [p \in Player |-> [in |-> "out", money |-> 0, flags |-> {}]]
  /\ place' = [t \in Thing |-> Gone]
  /\ desc' = [p \in Player |-> Fresh]
  /\ step' = Idle
  /\ asked' = [p \in Player |-> {}]
  /\ cut' = {}
  /\ UNCHANGED <<tables, handed>>

(* deleteMessage() of the web page: one letter, not its parcel. *)
Discard(l) ==
  /\ letters' = letters \ {l}
  /\ UNCHANGED <<body, place, desc, rows, serial, step, history, handed>>

(* A character is deleted, and its mail with it. *)
DeleteMail(p) ==
  /\ step = Idle
  /\ body[p].in = "out"
  /\ letters' = letters \ For(p)
  /\ UNCHANGED <<body, place, desc, rows, serial, step, history, handed>>

-----------------------------------------------------------------------------
(* The game's thread goes on with the command it is in. *)
Steps == Store \/ ReadDelete \/ HandOver \/ NoEnvelope

Writes(p) ==
  \/ \E to \in {q \in Player : <<p, q>> \in Post} : Order(p, to) \/ OrderWindow(p, to) \/ SubmitWindow(p, to) \/ CloseWindow(p, to)
  \/ Report(p) \/ Submit(p) \/ Cancel(p) \/ EndReport(p)

Takes(p) ==
  \/ \E from \in Player : StealTalens(p, from) \/ \E t \in Thing : Steal(p, from, t)
  \/ \E t \in Thing : Get(p, t)

Next ==
  \/ Steps
  \/ \E p \in Player : Writes(p) \/ Takes(p) \/ Receive(p)
  \/ \E p \in Player : LoseLink(p) \/ Reconnect(p) \/ Die(p) \/ Leave(p)
  \/ \E p \in Player : HangUp(p) \/ Login(p) \/ DeleteMail(p)
  \/ \E t \in Thing : Rot(t)
  \/ \E l \in letters : Discard(l)
  \/ Crash

Spec == Init /\ [][Next]_vars /\ WF_vars(Steps)

-----------------------------------------------------------------------------
(* Type invariant. *)
Body == [in : {"linked", "linkdead", "out"}, money : Nat, flags : SUBSET {"mailing", "bugging"}]
Descriptor == [obj : Thing \cup {NoThing}, amount : Nat, name : Player \cup {Staff, Nobody},
               str : BOOLEAN, windows : SUBSET Player]
Request == [kind : Kind, thing : Thing \cup {NoThing}, amount : Nat]
Letter == [id : 0 .. MaxMail, to : Player \cup {Staff, Nobody}, talens : Nat, rent : 0 .. MaxRent]
Command == [at : {"idle", "packed", "asked", "opened"}, who : Player \cup {Nobody}, letter : Letter]

TypeOK ==
  /\ body \in [Player -> Body]
  /\ place \in [Thing -> Player \cup {Ground, Gone}]
  /\ desc \in [Player -> Descriptor]
  /\ letters \subseteq Letter
  /\ rows \subseteq 1 .. MaxRent
  /\ serial \in [mail : 0 .. MaxMail, rent : 0 .. MaxRent]
  /\ step \in Command
  /\ asked \in [Player -> SUBSET Request]
  /\ cut \subseteq Player
  /\ handed \subseteq [id : 1 .. MaxMail, to : Player]

(***************************************************************************)
(* The letters that exist: in the table, on the way to it, or open.  Each  *)
(* of them has its parcel in the table rent, and no other letter has the   *)
(* same: a crash between the queries leaves parcels without a letter, but  *)
(* never a letter without its parcel, and no parcel arrives twice.         *)
(***************************************************************************)
Existing == letters \cup IF step.at \in {"packed", "opened"} THEN {step.letter} ELSE {}

ParcelsKept ==
  \A l \in Existing : l.rent # 0 =>
    l.rent \in rows /\ \A k \in Existing : k.rent = l.rent => k = l

(***************************************************************************)
(* What goes along with a letter was asked for on this connection since    *)
(* the last one was sent or cancelled, and a player who asked once since   *)
(* sends just that.  (A player killed as it writes leaves its order        *)
(* behind, to go with the next letter.  Not for clients.)                  *)
(***************************************************************************)
PostsWhatWasOrdered ==
  \A p \in Player \ Client :
    /\ desc[p].obj \in {r.thing : r \in asked[p]} \cup {NoThing}
    /\ desc[p].amount \in {r.amount : r \in asked[p]} \cup {0}
    /\ \A r \in asked[p] :
         asked[p] = {r} => desc[p].obj = r.thing /\ desc[p].amount = r.amount

(***************************************************************************)
(* "sends bugs, etc via mail feedback using Descriptor::send_feedback"     *)
(* (misc/other.cc): the text of a report is no letter, as long as its      *)
(* writer did not lose its link while it wrote.  (If it did, PLR_MAILING   *)
(* may be set still.)                                                      *)
(***************************************************************************)
ReportsAreNotMailed ==
  step.at = "packed" /\ step.letter.to = Staff => step.who \in cut

(***************************************************************************)
(* The post office is a Letterbox: nothing that it hands over was handed   *)
(* over before, or was for somebody else, whatever crashes and deletions   *)
(* come in between.  An open letter still waits.                           *)
(***************************************************************************)
Waiting == {[id |-> l.id, to |-> l.to] :
              l \in letters \cup IF step.at = "opened" THEN {step.letter} \ {NoLetter} ELSE {}}

Box == INSTANCE Letterbox WITH Id <- 1 .. MaxMail, Name <- Player \cup {Staff}, Reader <- Player,
                               waiting <- Waiting, given <- handed

ImplementsLetterbox == Box!LetterboxSpec

(* A command comes to its end: the while of the reader has a last letter. *)
CommandEnds == step # Idle ~> step = Idle
=============================================================================
