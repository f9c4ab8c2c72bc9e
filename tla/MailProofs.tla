----------------------------- MODULE MailProofs -----------------------------
(***************************************************************************)
(* Proofs about Mail: no letter is without its parcel, and what the post   *)
(* office does is what a Letterbox may do, whatever crashes; what goes     *)
(* along was asked for, and a report is mailed only of a writer whose link *)
(* was lost.                                                               *)
(***************************************************************************)
EXTENDS Mail, FiniteSetTheorems, TLAPS

USE PlayerAssumption, PostAssumption, NameAssumption, ThingAssumption, NumberAssumption

-----------------------------------------------------------------------------
(* The command that runs. *)
Running ==
  /\ step.at = "idle" => step = Idle
  /\ step.at # "idle" => step.who \in Player
  /\ step.at = "packed" => serial.mail < MaxMail /\ step.letter.to \in Player \cup {Staff}
  /\ step.at = "asked" => step.letter = NoLetter

(* Who writes has somebody to write to. *)
Named == \A p \in Player : desc[p].str => desc[p].name \in Player \cup {Staff}

(* No id is given out twice, and a letter is in one place. *)
Open(l) ==
  /\ l.id \in 1 .. serial.mail
  /\ l.to = step.who
  /\ \A k \in letters \cup handed : k.id # l.id

Numbered ==
  /\ \A l \in letters : l.id \in 1 .. serial.mail /\ l.to \in Player \cup {Staff}
  /\ \A l, k \in letters : l.id = k.id => l = k
  /\ \A h \in handed : h.id \in 1 .. serial.mail /\ \A l \in letters : l.id # h.id
  /\ step.at = "opened" => step.letter = NoLetter \/ Open(step.letter)

(* Every parcel is one letter's at most. *)
Rents ==
  /\ rows \subseteq 1 .. serial.rent
  /\ \A l \in letters : l.rent # 0 => l.rent \in rows
  /\ \A l, k \in letters : l.rent # 0 /\ l.rent = k.rent => l = k
  /\ step.at \in {"packed", "opened"} /\ step.letter.rent # 0 =>
       step.letter.rent \in rows /\ \A l \in letters : l.rent # step.letter.rent

Tables == Running /\ Numbered /\ Rents

IInv == TypeOK /\ Named /\ Tables

LEMMA InitIInv == Init => IInv
  BY DEF Init, IInv, TypeOK, Named, Tables, Running, Numbered, Rents, Open, Fresh,
         NoLetter, Idle, Letter, Body, Descriptor, Request, Command

(* What leaves tables and command alone leaves Tables as it is. *)
LEMMA TablesQuiet ==
  ASSUME Tables, UNCHANGED <<tables, step, handed>>
  PROVE  Tables'
  BY DEF Tables, tables, Running, Numbered, Rents, Open, For

-----------------------------------------------------------------------------
(* Writing. *)
LEMMA WareType ==
  ASSUME NEW ware \in Wares
  PROVE  /\ ware.kind \in Kind
         /\ ware.thing \in Thing \cup {NoThing}
         /\ ware.amount \in Nat
         /\ ware.kind = "parcel" => ware.thing \in Thing
         /\ ware.kind # "parcel" => ware.thing = NoThing
         /\ ware.kind # "talens" => ware.amount = 0
  <1>1. CASE ware \in [kind : {"letter"}, thing : {NoThing}, amount : {0}]
    BY <1>1 DEF Kind
  <1>2. CASE ware \in [kind : {"talens"}, thing : {NoThing}, amount : Sums]
    BY <1>2 DEF Kind
  <1>3. CASE ware \in [kind : {"parcel"}, thing : Thing, amount : {0}]
    BY <1>3 DEF Kind
  <1> QED BY <1>1, <1>2, <1>3 DEF Wares

(* Descriptors and bodies, field by field. *)
LEMMA DescFields ==
  ASSUME NEW d \in Descriptor
  PROVE  /\ d = [obj |-> d.obj, amount |-> d.amount, name |-> d.name, str |-> d.str,
                 windows |-> d.windows]
         /\ d.obj \in Thing \cup {NoThing}
         /\ d.amount \in Nat
         /\ d.name \in Player \cup {Staff, Nobody}
         /\ d.str \in BOOLEAN
         /\ d.windows \in SUBSET Player
  BY DEF Descriptor

LEMMA BodyFields ==
  ASSUME NEW b \in Body
  PROVE  /\ b = [in |-> b.in, money |-> b.money, flags |-> b.flags]
         /\ b.in \in {"linked", "linkdead", "out"}
         /\ b.money \in Nat
         /\ b.flags \in SUBSET {"mailing", "bugging"}
  BY DEF Body

LEMMA NewDesc ==
  ASSUME TypeOK, NEW p \in Player, NEW d \in Descriptor, desc' = [desc EXCEPT ![p] = d]
  PROVE  /\ desc' \in [Player -> Descriptor]
         /\ desc'[p] = d
         /\ \A q \in Player \ {p} : desc'[q] = desc[q]
  BY DEF TypeOK

LEMMA NewBody ==
  ASSUME TypeOK, NEW p \in Player, NEW b \in Body, body' = [body EXCEPT ![p] = b]
  PROVE  /\ body' \in [Player -> Body]
         /\ body'[p] = b
         /\ \A q \in Player \ {p} : body'[q] = body[q]
  BY DEF TypeOK

LEMMA NewAsked ==
  ASSUME TypeOK, NEW p \in Player, NEW S \in SUBSET Request, asked' = [asked EXCEPT ![p] = S]
  PROVE  /\ asked' \in [Player -> SUBSET Request]
         /\ asked'[p] = S
         /\ \A q \in Player \ {p} : asked'[q] = asked[q]
  BY DEF TypeOK

(* An order: what the descriptor, the body and the history are after it. *)
Paid(p, ware, imm) == IF imm THEN body[p].money ELSE body[p].money - Postage[ware.kind]

Marked(p) == IF p \in Client THEN body[p].flags ELSE body[p].flags \cup {"mailing"}

LEMMA AsksType ==
  ASSUME TypeOK, NEW p \in Player, NEW ware \in Wares, NEW imm \in BOOLEAN, Asks(p, ware, imm)
  PROVE  /\ Paid(p, ware, imm) \in Nat
         /\ \E b \in Body : /\ b.in = body[p].in /\ b.money = Paid(p, ware, imm)
                          /\ b.flags = Marked(p) /\ body' = [body EXCEPT ![p] = b]
         /\ ware \in Request
         /\ asked' = IF p \in Client THEN asked ELSE [asked EXCEPT ![p] = @ \cup {ware}]
         /\ asked' \in [Player -> SUBSET Request] /\ cut' = cut
  <1>1. body[p] \in Body
    BY DEF TypeOK
  <1>2. /\ Postage[ware.kind] \in Nat
        /\ imm \/ Postage[ware.kind] <= body[p].money
        /\ ware.kind = "talens" => ware.amount + Postage[ware.kind] <= body[p].money
    <2>1. Postage[ware.kind] \in Nat /\ ware.amount \in Nat /\ body[p].money \in Nat
      BY <1>1, WareType, BodyFields
    <2> QED BY <2>1 DEF Asks, Affords
  <1>3. Paid(p, ware, imm) \in Nat
    BY <1>1, <1>2, WareType, BodyFields DEF Paid
  <1>4. Marked(p) \in SUBSET {"mailing", "bugging"}
    BY <1>1, BodyFields DEF Marked
  <1>5. PICK b : b = [body[p] EXCEPT !.money = Paid(p, ware, imm), !.flags = Marked(p)]
    OBVIOUS
  <1>10. b.in = body[p].in /\ b.money = Paid(p, ware, imm) /\ b.flags = Marked(p)
    BY <1>1, <1>5 DEF Body
  <1>11. b = [in |-> b.in, money |-> b.money, flags |-> b.flags]
    BY <1>1, <1>5 DEF Body
  <1>9. b \in Body
    BY <1>1, <1>3, <1>4, <1>10, <1>11, BodyFields DEF Body
  <1>12. body' = [body EXCEPT ![p] = b]
    BY <1>5 DEF Asks, Paid, Marked, TypeOK
  <1>6. ware \in Request
    <2>1. ware = [kind |-> ware.kind, thing |-> ware.thing, amount |-> ware.amount]
      BY DEF Wares
    <2>2. ware.kind \in Kind /\ ware.thing \in Thing \cup {NoThing} /\ ware.amount \in Nat
      BY WareType DEF Wares, Kind
    <2> QED BY <2>1, <2>2 DEF Request
  <1>7. asked' = IF p \in Client THEN asked ELSE [asked EXCEPT ![p] = @ \cup {ware}]
    BY DEF Asks
  <1>8. asked' \in [Player -> SUBSET Request] /\ cut' = cut
    BY <1>6, <1>7 DEF TypeOK, Asks
  <1> QED BY <1>3, <1>6, <1>7, <1>8, <1>9, <1>10, <1>12

Obj(d, ware) == IF ware.kind = "parcel" THEN ware.thing ELSE d.obj
Amount(d, ware) == IF ware.kind = "talens" THEN ware.amount ELSE d.amount

LEMMA PacksIs ==
  ASSUME NEW d \in Descriptor, NEW ware \in Wares, NEW x, x = Packs(d, ware)
  PROVE  /\ x \in Descriptor
         /\ x.obj = Obj(d, ware) /\ x.amount = Amount(d, ware)
         /\ x.name = d.name /\ x.str = d.str /\ x.windows = d.windows
  <1>1. Obj(d, ware) \in Thing \cup {NoThing} /\ Amount(d, ware) \in Nat
    BY DescFields, WareType DEF Obj, Amount
  <1>2. x = [d EXCEPT !.obj = Obj(d, ware), !.amount = Amount(d, ware)]
    BY DEF Packs, Obj, Amount, Descriptor
  <1>3. /\ x.obj = Obj(d, ware) /\ x.amount = Amount(d, ware)
        /\ x.name = d.name /\ x.str = d.str /\ x.windows = d.windows
    BY <1>2 DEF Descriptor
  <1>4. x = [obj |-> x.obj, amount |-> x.amount, name |-> x.name, str |-> x.str,
             windows |-> x.windows]
    BY <1>2 DEF Descriptor
  <1> QED BY <1>1, <1>3, <1>4, DescFields DEF Descriptor

LEMMA OrderIs ==
  ASSUME TypeOK, NEW p \in Player, NEW to \in Player, Order(p, to)
  PROVE  \E ware \in Wares, imm \in BOOLEAN, new \in Descriptor :
           /\ p \notin Client /\ Asks(p, ware, imm)
           /\ new.obj = Obj(desc[p], ware) /\ new.amount = Amount(desc[p], ware)
           /\ new.name = to /\ new.str = TRUE
           /\ desc' = [desc EXCEPT ![p] = new]
  <1>1. PICK ware \in Wares, imm \in BOOLEAN :
          /\ p \notin Client
          /\ Asks(p, ware, imm)
          /\ desc' = [desc EXCEPT ![p] = [Packs(desc[p], ware) EXCEPT !.name = to, !.str = TRUE]]
    BY DEF Order
  <1>2. desc[p] \in Descriptor
    BY DEF TypeOK
  <1>3. PICK d : d = Packs(desc[p], ware)
    OBVIOUS
  <1>4. /\ d \in Descriptor
        /\ d.obj = Obj(desc[p], ware) /\ d.amount = Amount(desc[p], ware)
    BY <1>2, <1>3, PacksIs
  <1>5. PICK new : new = [d EXCEPT !.name = to, !.str = TRUE]
    OBVIOUS
  <1>6. /\ new.obj = d.obj /\ new.amount = d.amount /\ new.name = to /\ new.str = TRUE
        /\ new.windows = d.windows
    BY <1>4, <1>5 DEF Descriptor
  <1>7. new = [obj |-> new.obj, amount |-> new.amount, name |-> new.name, str |-> new.str,
               windows |-> new.windows]
    BY <1>4, <1>5 DEF Descriptor
  <1>8. new \in Descriptor
    <2>1. /\ d.obj \in Thing \cup {NoThing} /\ d.amount \in Nat
          /\ d.name \in Player \cup {Staff, Nobody} /\ d.str \in BOOLEAN /\ d.windows \subseteq Player
      BY <1>4 DEF Descriptor
    <2> QED BY <1>6, <1>7, <2>1, ZenonT(40) DEF Descriptor
  <1>9. desc' = [desc EXCEPT ![p] = new]
    BY <1>1, <1>3, <1>5 DEF TypeOK
  <1>10. new.obj = Obj(desc[p], ware) /\ new.amount = Amount(desc[p], ware)
    BY <1>4, <1>6
  <1> WITNESS ware \in Wares, imm \in BOOLEAN, new \in Descriptor
  <1> QED BY <1>1, <1>6, <1>9, <1>10

LEMMA OrderWindowIs ==
  ASSUME TypeOK, NEW p \in Player, NEW to \in Player, OrderWindow(p, to)
  PROVE  \E ware \in Wares, imm \in BOOLEAN, new \in Descriptor :
           /\ p \in Client /\ Asks(p, ware, imm)
           /\ new.name = desc[p].name /\ new.str = desc[p].str
           /\ desc' = [desc EXCEPT ![p] = new]
  <1>1. PICK ware \in Wares, imm \in BOOLEAN :
          /\ p \in Client
          /\ Asks(p, ware, imm)
          /\ desc' = [desc EXCEPT ![p] = [Packs(desc[p], ware) EXCEPT !.windows = @ \cup {to}]]
    BY DEF OrderWindow
  <1>2. desc[p] \in Descriptor
    BY DEF TypeOK
  <1>3. PICK d : d = Packs(desc[p], ware)
    OBVIOUS
  <1>4. d \in Descriptor /\ d.name = desc[p].name /\ d.str = desc[p].str
    BY <1>2, <1>3, PacksIs
  <1>5. PICK new : new = [d EXCEPT !.windows = @ \cup {to}]
    OBVIOUS
  <1>6. /\ new.obj = d.obj /\ new.amount = d.amount /\ new.name = d.name /\ new.str = d.str
        /\ new.windows = d.windows \cup {to}
    BY <1>4, <1>5 DEF Descriptor
  <1>7. new = [obj |-> new.obj, amount |-> new.amount, name |-> new.name, str |-> new.str,
               windows |-> new.windows]
    BY <1>4, <1>5 DEF Descriptor
  <1>8. new \in Descriptor
    <2>1. /\ d.obj \in Thing \cup {NoThing} /\ d.amount \in Nat
          /\ d.name \in Player \cup {Staff, Nobody} /\ d.str \in BOOLEAN /\ d.windows \subseteq Player
      BY <1>4 DEF Descriptor
    <2> QED BY <1>6, <1>7, <2>1, ZenonT(40) DEF Descriptor
  <1>9. desc' = [desc EXCEPT ![p] = new]
    BY <1>1, <1>3, <1>5 DEF TypeOK
  <1> QED BY <1>1, <1>4, <1>6, <1>8, <1>9, ZenonT(60)

LEMMA OrderKeeps ==
  ASSUME IInv, NEW p \in Player, NEW to \in Player, Order(p, to)
  PROVE  IInv'
  <1> USE DEF IInv
  <1>1. PICK ware \in Wares, imm \in BOOLEAN, d \in Descriptor :
          Asks(p, ware, imm) /\ d.name = to /\ desc' = [desc EXCEPT ![p] = d]
    <2>1. PICK w \in Wares, i \in BOOLEAN, new \in Descriptor :
            /\ p \notin Client /\ Asks(p, w, i)
            /\ new.obj = Obj(desc[p], w) /\ new.amount = Amount(desc[p], w)
            /\ new.name = to /\ new.str = TRUE
            /\ desc' = [desc EXCEPT ![p] = new]
      BY OrderIs, ZenonT(60)
    <2>2. Asks(p, w, i) /\ new.name = to /\ desc' = [desc EXCEPT ![p] = new]
      BY <2>1
    <2> QED BY <2>2, ZenonT(40)
  <1>2. body' \in [Player -> Body]
    <2>1. PICK b \in Body : body' = [body EXCEPT ![p] = b]
      BY <1>1, AsksType
    <2> QED BY <2>1, NewBody
  <1>3. TypeOK'
    <2>1. desc' \in [Player -> Descriptor]
      BY <1>1, NewDesc
    <2>2. asked' \in [Player -> SUBSET Request] /\ cut' \subseteq Player
      BY <1>1, AsksType DEF TypeOK
    <2>3. UNCHANGED <<place, letters, rows, serial, step, handed>>
      BY <1>1 DEF Asks, tables, history
    <2> QED BY <1>2, <2>1, <2>2, <2>3 DEF TypeOK
  <1>4. Named'
    BY <1>1, NewDesc DEF Named
  <1> QED BY <1>1, <1>3, <1>4, TablesQuiet DEF Asks

LEMMA OrderWindowKeeps ==
  ASSUME IInv, NEW p \in Player, NEW to \in Player, OrderWindow(p, to)
  PROVE  IInv'
  <1> USE DEF IInv
  <1>1. PICK ware \in Wares, imm \in BOOLEAN, d \in Descriptor :
          /\ Asks(p, ware, imm)
          /\ d.name = desc[p].name /\ d.str = desc[p].str
          /\ desc' = [desc EXCEPT ![p] = d]
    BY OrderWindowIs
  <1>2. body' \in [Player -> Body]
    <2>1. PICK b \in Body : body' = [body EXCEPT ![p] = b]
      BY <1>1, AsksType
    <2> QED BY <2>1, NewBody
  <1>3. TypeOK'
    <2>1. desc' \in [Player -> Descriptor]
      BY <1>1, NewDesc
    <2>2. asked' \in [Player -> SUBSET Request] /\ cut' \subseteq Player
      BY <1>1, AsksType DEF TypeOK
    <2>3. UNCHANGED <<place, letters, rows, serial, step, handed>>
      BY <1>1 DEF Asks, tables, history
    <2> QED BY <1>2, <2>1, <2>2, <2>3 DEF TypeOK
  <1>4. Named'
    BY <1>1, NewDesc DEF Named
  <1> QED BY <1>1, <1>3, <1>4, TablesQuiet DEF Asks

LEMMA PackKeeps ==
  ASSUME IInv, NEW p \in Player, NEW to \in Player \cup {Staff}, step = Idle, Pack(p, to)
  PROVE  /\ Tables'
         /\ place' \in [Thing -> Player \cup {Ground, Gone}]
         /\ rows' \subseteq 1 .. MaxRent
         /\ serial' \in [mail : 0 .. MaxMail, rent : 0 .. MaxRent]
         /\ step' \in Command
         /\ UNCHANGED <<body, letters, asked, cut, handed>>
  <1> DEFINE r == step'.letter.rent
  <1>1. PICK mailable \in BOOLEAN :
          LET parcel == mailable /\ desc[p].obj # NoThing
              rent == IF parcel THEN serial.rent + 1 ELSE 0
          IN /\ serial.mail < MaxMail
             /\ parcel => rent <= MaxRent
             /\ serial' = IF parcel THEN [serial EXCEPT !.rent = rent] ELSE serial
             /\ rows' = IF parcel THEN rows \cup {rent} ELSE rows
             /\ place' = IF parcel THEN Without(desc[p].obj) ELSE place
             /\ step' = [at |-> "packed", who |-> p,
                         letter |-> [id |-> 0, to |-> to, talens |-> desc[p].amount, rent |-> rent]]
             /\ UNCHANGED <<body, letters, asked, cut, handed>>
    BY DEF Pack, history
  <1>2. /\ serial' = [mail |-> serial.mail, rent |-> serial'.rent]
        /\ serial.mail \in 0 .. MaxMail
        /\ serial.rent \in 0 .. MaxRent
        /\ serial.mail < MaxMail
        /\ r \in 0 .. MaxRent
        /\ \/ r = 0 /\ rows' = rows /\ serial'.rent = serial.rent
           \/ r = serial.rent + 1 /\ rows' = rows \cup {r} /\ serial'.rent = r
    BY <1>1 DEF IInv, TypeOK
  <1>3. /\ step'.at = "packed" /\ step'.who = p /\ step'.letter.to = to
        /\ step' = [at |-> "packed", who |-> p,
                    letter |-> [id |-> 0, to |-> to, talens |-> desc[p].amount, rent |-> r]]
        /\ UNCHANGED <<body, letters, asked, cut, handed>>
    BY <1>1
  <1>4. place' \in [Thing -> Player \cup {Ground, Gone}]
    BY <1>1 DEF IInv, TypeOK, Without
  <1> HIDE DEF r
  <1>5. /\ rows' \subseteq 1 .. MaxRent
        /\ serial' \in [mail : 0 .. MaxMail, rent : 0 .. MaxRent]
    BY <1>2 DEF IInv, TypeOK
  <1>6. desc[p].amount \in Nat
    BY DescFields DEF IInv, TypeOK
  <1>7. step' \in Command
    BY <1>2, <1>3, <1>6 DEF Letter, Command
  <1>8. Running'
    BY <1>2, <1>3 DEF Running
  <1>9. Numbered'
    BY <1>2, <1>3 DEF IInv, Tables, Numbered
  <1>10. Rents'
    <2>1. \A l \in letters : l.rent # 0 => l.rent \in rows /\ l.rent <= serial.rent
      BY <1>2 DEF IInv, Tables, Rents
    <2>2. step'.letter.rent = r
      BY DEF r
    <2> QED BY <1>2, <1>3, <2>1, <2>2 DEF IInv, Tables, Rents
  <1> QED BY <1>3, <1>4, <1>5, <1>7, <1>8, <1>9, <1>10 DEF Tables

LEMMA SubmitKeeps ==
  ASSUME IInv, NEW p \in Player, Submit(p)
  PROVE  IInv'
  <1>1. desc[p].name \in Player \cup {Staff} /\ step = Idle /\ Pack(p, desc[p].name) /\ desc' = desc
    BY DEF Submit, Ends, IInv, Named
  <1>2. Named'
    BY <1>1 DEF IInv, Named
  <1> QED BY <1>1, <1>2, PackKeeps DEF IInv, TypeOK

(* A window less. *)
LEMMA Unwindow ==
  ASSUME TypeOK, NEW p \in Player, NEW to, desc' = [desc EXCEPT ![p].windows = @ \ {to}]
  PROVE  \E new \in Descriptor :
           /\ new.obj = desc[p].obj /\ new.amount = desc[p].amount
           /\ new.name = desc[p].name /\ new.str = desc[p].str
           /\ desc' = [desc EXCEPT ![p] = new]
  <1>1. PICK d : d = desc[p]
    OBVIOUS
  <1>2. d \in Descriptor
    BY <1>1 DEF TypeOK
  <1>3. PICK new : new = [d EXCEPT !.windows = @ \ {to}]
    OBVIOUS
  <1>4. /\ new.obj = d.obj /\ new.amount = d.amount /\ new.name = d.name /\ new.str = d.str
        /\ new.windows = d.windows \ {to}
    BY <1>2, <1>3 DEF Descriptor
  <1>5. new = [obj |-> new.obj, amount |-> new.amount, name |-> new.name, str |-> new.str,
               windows |-> new.windows]
    BY <1>2, <1>3 DEF Descriptor
  <1>6. new \in Descriptor
    BY <1>2, <1>4, <1>5, DescFields DEF Descriptor
  <1>7. desc' = [desc EXCEPT ![p] = new]
    BY <1>1, <1>3 DEF TypeOK
  <1> QED BY <1>1, <1>4, <1>6, <1>7

LEMMA SubmitWindowKeeps ==
  ASSUME IInv, NEW p \in Player, NEW to \in Player, SubmitWindow(p, to)
  PROVE  IInv'
  <1> USE DEF IInv
  <1>1. step = Idle /\ Pack(p, to) /\ desc' = [desc EXCEPT ![p].windows = @ \ {to}]
    BY DEF SubmitWindow
  <1>2. PICK d \in Descriptor :
          /\ d.name = desc[p].name /\ d.str = desc[p].str
          /\ desc' = [desc EXCEPT ![p] = d]
    BY <1>1, Unwindow
  <1>3. Named' /\ desc' \in [Player -> Descriptor]
    <2>1. /\ desc' \in [Player -> Descriptor]
          /\ desc'[p] = d /\ \A q \in Player \ {p} : desc'[q] = desc[q]
      BY <1>2, NewDesc
    <2> QED BY <1>2, <2>1 DEF Named
  <1>4. TypeOK'
    BY <1>1, <1>3, PackKeeps DEF TypeOK
  <1> QED BY <1>1, <1>3, <1>4, PackKeeps


-----------------------------------------------------------------------------
(* The player actions of one player change. *)
LEMMA Flagged ==
  ASSUME TypeOK, NEW p \in Player, NEW f \in SUBSET {"mailing", "bugging"},
         body' = [body EXCEPT ![p].flags = f]
  PROVE  /\ body' \in [Player -> Body]
         /\ body'[p].in = body[p].in /\ body'[p].money = body[p].money /\ body'[p].flags = f
         /\ \A q \in Player \ {p} : body'[q] = body[q]
  <1>1. PICK b : b = body[p]
    OBVIOUS
  <1>2. b \in Body
    BY <1>1 DEF TypeOK
  <1>3. PICK x : x = [b EXCEPT !.flags = f]
    OBVIOUS
  <1>4. x \in Body /\ x.in = b.in /\ x.money = b.money /\ x.flags = f
    <2>1. x.in = b.in /\ x.money = b.money /\ x.flags = f
      BY <1>2, <1>3 DEF Body
    <2>2. x = [in |-> x.in, money |-> x.money, flags |-> x.flags]
      BY <1>2, <1>3 DEF Body
    <2>3. b.in \in {"linked", "linkdead", "out"} /\ b.money \in Nat /\ b.flags \in SUBSET {"mailing", "bugging"}
      BY <1>2, BodyFields
    <2> QED BY <2>1, <2>2, <2>3 DEF Body
  <1>5. body' = [body EXCEPT ![p] = x]
    BY <1>1, <1>3 DEF TypeOK
  <1> QED BY <1>1, <1>4, <1>5, NewBody

(* One player comes or goes. *)
LEMMA Moved ==
  ASSUME TypeOK, NEW p \in Player, NEW i \in {"linked", "linkdead", "out"},
         body' = [body EXCEPT ![p].in = i]
  PROVE  /\ body' \in [Player -> Body]
         /\ body'[p].in = i /\ body'[p].money = body[p].money /\ body'[p].flags = body[p].flags
         /\ \A q \in Player \ {p} : body'[q] = body[q]
  <1>1. PICK b : b = body[p]
    OBVIOUS
  <1>2. b \in Body
    BY <1>1 DEF TypeOK
  <1>3. PICK x : x = [b EXCEPT !.in = i]
    OBVIOUS
  <1>4. x \in Body /\ x.in = i /\ x.money = b.money /\ x.flags = b.flags
    <2>1. x.in = i /\ x.money = b.money /\ x.flags = b.flags
      BY <1>2, <1>3 DEF Body
    <2>2. x = [in |-> x.in, money |-> x.money, flags |-> x.flags]
      BY <1>2, <1>3 DEF Body
    <2>3. b.in \in {"linked", "linkdead", "out"} /\ b.money \in Nat /\ b.flags \in SUBSET {"mailing", "bugging"}
      BY <1>2, BodyFields
    <2> QED BY <2>1, <2>2, <2>3 DEF Body
  <1>5. body' = [body EXCEPT ![p] = x]
    BY <1>1, <1>3 DEF TypeOK
  <1> QED BY <1>1, <1>4, <1>5, NewBody

(* One player's purse changes. *)
LEMMA Enriched ==
  ASSUME TypeOK, NEW p \in Player, NEW m \in Nat, body' = [body EXCEPT ![p].money = m]
  PROVE  /\ body' \in [Player -> Body]
         /\ body'[p].in = body[p].in /\ body'[p].money = m /\ body'[p].flags = body[p].flags
         /\ \A q \in Player \ {p} : body'[q] = body[q]
  <1>1. PICK b : b = body[p]
    OBVIOUS
  <1>2. b \in Body
    BY <1>1 DEF TypeOK
  <1>3. PICK x : x = [b EXCEPT !.money = m]
    OBVIOUS
  <1>4. x \in Body /\ x.in = b.in /\ x.money = m /\ x.flags = b.flags
    <2>1. x.in = b.in /\ x.money = m /\ x.flags = b.flags
      BY <1>2, <1>3 DEF Body
    <2>2. x = [in |-> x.in, money |-> x.money, flags |-> x.flags]
      BY <1>2, <1>3 DEF Body
    <2>3. b.in \in {"linked", "linkdead", "out"} /\ b.money \in Nat /\ b.flags \in SUBSET {"mailing", "bugging"}
      BY <1>2, BodyFields
    <2> QED BY <2>1, <2>2, <2>3 DEF Body
  <1>5. body' = [body EXCEPT ![p] = x]
    BY <1>1, <1>3 DEF TypeOK
  <1> QED BY <1>1, <1>4, <1>5, NewBody

LEMMA ConstantTypes ==
  /\ Fresh \in Descriptor
  /\ NoLetter \in Letter
  /\ Idle \in Command
  <1>1. Fresh \in Descriptor
    BY DEF Fresh, Descriptor
  <1>4. NoLetter \in Letter
    BY DEF NoLetter, Letter
  <1>5. Idle \in Command
    BY <1>4 DEF Idle, Command
  <1> QED BY <1>1, <1>4, <1>5

(* The line ends what is written. *)
LEMMA ClearedIs ==
  ASSUME NEW d \in Descriptor, NEW x, x = Cleared(d)
  PROVE  /\ x \in Descriptor /\ x.obj = NoThing /\ x.amount = 0 /\ x.name = Nobody /\ x.str = FALSE
  <1>1. x = [d EXCEPT !.obj = NoThing, !.amount = 0, !.name = Nobody, !.str = FALSE]
    BY DEF Cleared
  <1>2. x.obj = NoThing /\ x.amount = 0 /\ x.name = Nobody /\ x.str = FALSE /\ x.windows = d.windows
    BY <1>1 DEF Descriptor
  <1>3. x = [obj |-> x.obj, amount |-> x.amount, name |-> x.name, str |-> x.str,
             windows |-> x.windows]
    BY <1>1 DEF Descriptor
  <1>4. d.windows \in SUBSET Player
    BY DescFields
  <1>5. x.name \in Player \cup {Staff, Nobody} /\ x.str \in BOOLEAN /\ x.amount \in Nat
    <2>1. x.name = Nobody
      BY <1>2
    <2>2. x.str = FALSE
      BY <1>2
    <2>3. x.amount = 0
      BY <1>2
    <2>4. x.name \in Player \cup {Staff, Nobody}
      BY <2>1
    <2>5. x.str \in BOOLEAN
      BY <2>2
    <2>6. x.amount \in Nat
      BY <2>3
    <2> QED BY <2>4, <2>5, <2>6
  <1>6. x.obj \in Thing \cup {NoThing} /\ x.windows \in SUBSET Player
    BY <1>2, <1>4
  <1>7. x \in Descriptor
    BY <1>3, <1>5, <1>6 DEF Descriptor
  <1> QED BY <1>2, <1>7

(* The descriptor of one player changes; who writes has a name. *)
LEMMA NamedStill ==
  ASSUME IInv, NEW p \in Player, NEW d \in Descriptor, desc' = [desc EXCEPT ![p] = d],
         d.str => d.name \in Player \cup {Staff}
  PROVE  desc' \in [Player -> Descriptor] /\ Named'
  <1>1. /\ desc' \in [Player -> Descriptor]
        /\ desc'[p] = d /\ \A q \in Player \ {p} : desc'[q] = desc[q]
    BY NewDesc DEF IInv
  <1> QED BY <1>1 DEF IInv, Named

LEMMA ReportIs ==
  ASSUME TypeOK, NEW p \in Player, Report(p)
  PROVE  \E d \in Descriptor : /\ d.obj = desc[p].obj /\ d.amount = desc[p].amount
                               /\ d.name = Staff /\ d.str = TRUE
                               /\ desc' = [desc EXCEPT ![p] = d]
  <1>1. PICK o : o = desc[p]
    OBVIOUS
  <1>2. o \in Descriptor
    BY <1>1 DEF TypeOK
  <1>3. PICK d : d = [o EXCEPT !.name = Staff, !.str = TRUE]
    OBVIOUS
  <1>4. /\ d.obj = o.obj /\ d.amount = o.amount /\ d.name = Staff /\ d.str = TRUE
        /\ d.windows = o.windows
    BY <1>2, <1>3 DEF Descriptor
  <1>5. d = [obj |-> d.obj, amount |-> d.amount, name |-> d.name, str |-> d.str,
             windows |-> d.windows]
    BY <1>2, <1>3 DEF Descriptor
  <1>6. d \in Descriptor
    BY <1>2, <1>4, <1>5, DescFields DEF Descriptor
  <1>7. desc' = [desc EXCEPT ![p] = d]
    BY <1>1, <1>3 DEF Report, TypeOK
  <1> QED BY <1>1, <1>4, <1>6, <1>7

LEMMA ReportKeeps ==
  ASSUME IInv, NEW p \in Player, Report(p)
  PROVE  IInv'
  <1> USE DEF IInv
  <1>1. PICK d \in Descriptor : d.name = Staff /\ desc' = [desc EXCEPT ![p] = d]
    BY ReportIs
  <1>2. desc' \in [Player -> Descriptor] /\ Named'
    BY <1>1, NamedStill
  <1>3. body' \in [Player -> Body]
    <2>1. body[p].flags \cup {"bugging"} \in SUBSET {"mailing", "bugging"}
      BY BodyFields DEF TypeOK
    <2>2. body' = [body EXCEPT ![p].flags = body[p].flags \cup {"bugging"}]
      BY DEF Report
    <2> QED BY <2>1, <2>2, Flagged
  <1>4. asked' \in [Player -> SUBSET Request] /\ cut' \subseteq Player
    BY ConstantTypes DEF Report, history, TypeOK
  <1>5. UNCHANGED <<place, letters, rows, serial, step, handed>>
    BY DEF Report, tables, history
  <1>6. Tables'
    BY TablesQuiet DEF Report
  <1> QED BY <1>2, <1>3, <1>4, <1>5, <1>6 DEF TypeOK

LEMMA CancelKeeps ==
  ASSUME IInv, NEW p \in Player, Cancel(p)
  PROVE  IInv'
  <1> USE DEF IInv
  <1>1. PICK d : d = Cleared(desc[p])
    OBVIOUS
  <1>2. d \in Descriptor /\ d.str = FALSE
    BY <1>1, ClearedIs DEF TypeOK
  <1>3. desc' = [desc EXCEPT ![p] = d]
    BY <1>1 DEF Cancel, TypeOK
  <1>4. desc' \in [Player -> Descriptor] /\ Named'
    BY <1>2, <1>3, NamedStill
  <1>5. body' \in [Player -> Body]
    <2>1. body[p].flags \ {"mailing"} \in SUBSET {"mailing", "bugging"}
      BY BodyFields DEF TypeOK
    <2>2. body' = [body EXCEPT ![p].flags = body[p].flags \ {"mailing"}]
      BY DEF Cancel
    <2> QED BY <2>1, <2>2, Flagged
  <1>6. asked' \in [Player -> SUBSET Request] /\ cut' \subseteq Player
    BY ConstantTypes DEF Cancel, history, TypeOK
  <1>7. UNCHANGED <<place, letters, rows, serial, step, handed>>
    BY DEF Cancel, tables, history
  <1>8. Tables'
    BY TablesQuiet DEF Cancel
  <1> QED BY <1>4, <1>5, <1>6, <1>7, <1>8 DEF TypeOK

LEMMA CloseWindowKeeps ==
  ASSUME IInv, NEW p \in Player, NEW to \in Player, CloseWindow(p, to)
  PROVE  IInv'
  <1> USE DEF IInv
  <1>1. desc' = [desc EXCEPT ![p].windows = @ \ {to}]
    BY DEF CloseWindow
  <1>2. PICK d \in Descriptor :
          /\ d.obj = desc[p].obj /\ d.amount = desc[p].amount
          /\ d.name = desc[p].name /\ d.str = desc[p].str
          /\ desc' = [desc EXCEPT ![p] = d]
    BY <1>1, Unwindow
  <1>3. desc' \in [Player -> Descriptor] /\ Named'
    BY <1>2, NamedStill DEF Named
  <1>4. UNCHANGED <<body, place, letters, rows, serial, step, asked, cut, handed>>
    BY DEF CloseWindow, tables, history
  <1>5. Tables'
    BY TablesQuiet DEF CloseWindow
  <1> QED BY <1>3, <1>4, <1>5 DEF TypeOK

LEMMA EndReportIs ==
  ASSUME TypeOK, NEW p \in Player, EndReport(p)
  PROVE  \E d \in Descriptor : /\ d.obj = desc[p].obj /\ d.amount = desc[p].amount
                               /\ d.str = FALSE
                               /\ desc' = [desc EXCEPT ![p] = d]
  <1>1. PICK o : o = desc[p]
    OBVIOUS
  <1>2. o \in Descriptor
    BY <1>1 DEF TypeOK
  <1>3. PICK n \in {Nobody, o.name} : desc' = [desc EXCEPT ![p] = [o EXCEPT !.name = n, !.str = FALSE]]
    <2>1. CASE desc' = [desc EXCEPT ![p].name = Nobody, ![p].str = FALSE]
      BY <1>1, <2>1 DEF TypeOK
    <2>2. CASE desc' = [desc EXCEPT ![p].str = FALSE]
      <3>1. desc' = [desc EXCEPT ![p] = [o EXCEPT !.str = FALSE]]
        BY <1>1, <2>2 DEF TypeOK
      <3>2. [o EXCEPT !.str = FALSE] = [o EXCEPT !.name = o.name, !.str = FALSE]
        BY <1>2 DEF Descriptor
      <3> QED BY <3>1, <3>2
    <2> QED BY <2>1, <2>2 DEF EndReport
  <1>4. PICK d : d = [o EXCEPT !.name = n, !.str = FALSE]
    OBVIOUS
  <1>5. /\ d.obj = o.obj /\ d.amount = o.amount /\ d.name = n /\ d.str = FALSE
        /\ d.windows = o.windows
    BY <1>2, <1>4 DEF Descriptor
  <1>6. d = [obj |-> d.obj, amount |-> d.amount, name |-> d.name, str |-> d.str,
             windows |-> d.windows]
    BY <1>2, <1>4 DEF Descriptor
  <1>7. d \in Descriptor
    BY <1>2, <1>5, <1>6, DescFields DEF Descriptor
  <1>8. desc' = [desc EXCEPT ![p] = d]
    BY <1>3, <1>4
  <1> QED BY <1>1, <1>5, <1>7, <1>8

LEMMA EndReportKeeps ==
  ASSUME IInv, NEW p \in Player, EndReport(p)
  PROVE  IInv'
  <1> USE DEF IInv
  <1>1. PICK d \in Descriptor : d.str = FALSE /\ desc' = [desc EXCEPT ![p] = d]
    BY EndReportIs
  <1>2. desc' \in [Player -> Descriptor] /\ Named'
    BY <1>1, NamedStill
  <1>3. body' \in [Player -> Body]
    <2>1. body[p].flags \ {"bugging"} \in SUBSET {"mailing", "bugging"}
      BY BodyFields DEF TypeOK
    <2>2. body' = [body EXCEPT ![p].flags = body[p].flags \ {"bugging"}]
      BY DEF EndReport
    <2> QED BY <2>1, <2>2, Flagged
  <1>4. asked' \in [Player -> SUBSET Request] /\ cut' \subseteq Player
    BY ConstantTypes DEF EndReport, history, TypeOK
  <1>5. UNCHANGED <<place, letters, rows, serial, step, handed>>
    BY DEF EndReport, tables, history
  <1>6. Tables'
    BY TablesQuiet DEF EndReport
  <1> QED BY <1>2, <1>3, <1>4, <1>5, <1>6 DEF TypeOK


-----------------------------------------------------------------------------
(* The letter is stored. *)
LEMMA StoreDesc ==
  ASSUME IInv, NEW p \in Player, Store, p = step.who
  PROVE  \E d \in Descriptor :
           /\ d.obj = NoThing /\ d.amount = 0
           /\ IF p \in Client THEN d.name = desc[p].name /\ d.str = desc[p].str ELSE d.str = FALSE
           /\ desc' = [desc EXCEPT ![p] = d]
  <1>1. PICK o : o = desc[p]
    OBVIOUS
  <1>2. o \in Descriptor
    BY <1>1 DEF IInv, TypeOK
  <1>3. CASE p \in Client
    <2>1. PICK d : d = [o EXCEPT !.obj = NoThing, !.amount = 0]
      OBVIOUS
    <2>2. /\ d.obj = NoThing /\ d.amount = 0 /\ d.name = o.name /\ d.str = o.str
          /\ d.windows = o.windows
      BY <1>2, <2>1 DEF Descriptor
    <2>3. d = [obj |-> d.obj, amount |-> d.amount, name |-> d.name, str |-> d.str,
               windows |-> d.windows]
      BY <1>2, <2>1 DEF Descriptor
    <2>4. d \in Descriptor
      BY <1>2, <2>2, <2>3, DescFields DEF Descriptor
    <2>5. desc' = [desc EXCEPT ![p] = d]
      BY <1>1, <1>3, <2>1 DEF Store, IInv, TypeOK
    <2> QED BY <1>1, <1>3, <2>2, <2>4, <2>5
  <1>4. CASE p \notin Client
    <2>1. PICK d : d = Cleared(o)
      OBVIOUS
    <2>2. d \in Descriptor /\ d.obj = NoThing /\ d.amount = 0 /\ d.str = FALSE
      BY <1>2, <2>1, ClearedIs
    <2>3. desc' = [desc EXCEPT ![p] = d]
      BY <1>1, <1>4, <2>1 DEF Store, IInv, TypeOK
    <2> QED BY <1>4, <2>2, <2>3
  <1> QED BY <1>3, <1>4

LEMMA StoreBody ==
  ASSUME IInv, NEW p \in Player, Store, p = step.who
  PROVE  \E b \in Body :
           /\ b.in = body[p].in
           /\ b.flags = IF p \in Client THEN body[p].flags ELSE body[p].flags \ {"mailing"}
           /\ body' = [body EXCEPT ![p] = b]
  <1> DEFINE m == IF body[p].money < step.letter.talens THEN 0 ELSE body[p].money - step.letter.talens
             f == IF p \in Client THEN body[p].flags ELSE body[p].flags \ {"mailing"}
  <1>1. PICK o : o = body[p]
    OBVIOUS
  <1>2. o \in Body
    BY <1>1 DEF IInv, TypeOK
  <1>3. PICK b : b = [o EXCEPT !.money = m, !.flags = f]
    OBVIOUS
  <1>4. m \in Nat
    <2>1. step.letter.talens \in Nat
      BY DEF IInv, TypeOK, Command, Letter
    <2>2. body[p].money \in Nat
      BY <1>1, <1>2, BodyFields
    <2> QED BY <2>1, <2>2
  <1>5. f \in SUBSET {"mailing", "bugging"}
    BY <1>1, <1>2, BodyFields
  <1>6. body' = [body EXCEPT ![p] = b]
    BY <1>1, <1>3 DEF Store, IInv, TypeOK
  <1>7. f = IF p \in Client THEN body[p].flags ELSE body[p].flags \ {"mailing"}
    OBVIOUS
  <1> HIDE DEF m, f
  <1>8. b.in = o.in /\ b.money = m /\ b.flags = f
    BY <1>2, <1>3 DEF Body
  <1>9. b = [in |-> b.in, money |-> b.money, flags |-> b.flags]
    BY <1>2, <1>3 DEF Body
  <1>10. b \in Body
    BY <1>2, <1>4, <1>5, <1>8, <1>9, BodyFields DEF Body
  <1> QED BY <1>1, <1>6, <1>7, <1>8, <1>10

LEMMA StoreLetter ==
  ASSUME IInv, Store
  PROVE  /\ serial.mail < MaxMail /\ step.who \in Player /\ step.letter.to \in Player \cup {Staff}
         /\ step' = Idle
         /\ UNCHANGED <<place, rows, handed>>
         /\ serial' = [mail |-> serial.mail + 1, rent |-> serial.rent]
         /\ \E l \in Letter : /\ l.id = serial.mail + 1 /\ l.to = step.letter.to
                              /\ l.rent = step.letter.rent
                              /\ letters' = letters \cup {l}
  <1>1. /\ step.at = "packed" /\ step' = Idle
        /\ UNCHANGED <<place, rows, handed>>
        /\ letters' = letters \cup {[step.letter EXCEPT !.id = serial.mail + 1]}
        /\ serial' = [serial EXCEPT !.mail = serial.mail + 1]
    BY DEF Store
  <1>2. serial.mail < MaxMail /\ step.who \in Player /\ step.letter.to \in Player \cup {Staff}
    BY <1>1 DEF IInv, Tables, Running
  <1>3. serial \in [mail : 0 .. MaxMail, rent : 0 .. MaxRent]
    BY DEF IInv, TypeOK
  <1>4. serial' = [mail |-> serial.mail + 1, rent |-> serial.rent]
    BY <1>1, <1>3
  <1>5. PICK k : k = step.letter
    OBVIOUS
  <1>6. k \in Letter
    BY <1>5 DEF IInv, TypeOK, Command
  <1>7. PICK l : l = [k EXCEPT !.id = serial.mail + 1]
    OBVIOUS
  <1>8. l.id = serial.mail + 1 /\ l.to = k.to /\ l.talens = k.talens /\ l.rent = k.rent
    BY <1>6, <1>7 DEF Letter
  <1>9. l = [id |-> l.id, to |-> l.to, talens |-> l.talens, rent |-> l.rent]
    BY <1>6, <1>7 DEF Letter
  <1>10. l.id \in 0 .. MaxMail
    BY <1>2, <1>3, <1>8
  <1>11. /\ k.to \in Player \cup {Staff, Nobody} /\ k.talens \in Nat /\ k.rent \in 0 .. MaxRent
    BY <1>6 DEF Letter
  <1>12. l \in Letter
    BY <1>8, <1>9, <1>10, <1>11 DEF Letter
  <1> QED BY <1>1, <1>2, <1>4, <1>5, <1>7, <1>8, <1>12

LEMMA StoreKeeps ==
  ASSUME IInv, Store
  PROVE  IInv'
  <1> USE DEF IInv
  <1>1. PICK l \in Letter : /\ l.id = serial.mail + 1 /\ l.to = step.letter.to
                            /\ l.rent = step.letter.rent
                            /\ letters' = letters \cup {l}
    BY StoreLetter
  <1>2. /\ serial.mail < MaxMail /\ step.who \in Player /\ step.letter.to \in Player \cup {Staff}
        /\ step.at = "packed" /\ step' = Idle
        /\ UNCHANGED <<place, rows, handed>>
        /\ serial' = [mail |-> serial.mail + 1, rent |-> serial.rent]
    BY StoreLetter DEF Store
  <1>3. PICK p \in Player : p = step.who
    BY <1>2
  <1>4. desc' \in [Player -> Descriptor] /\ Named'
    <2>1. PICK d \in Descriptor :
            /\ IF p \in Client THEN d.name = desc[p].name /\ d.str = desc[p].str ELSE d.str = FALSE
            /\ desc' = [desc EXCEPT ![p] = d]
      BY <1>3, StoreDesc
    <2>2. d.str => d.name \in Player \cup {Staff}
      BY <2>1 DEF Named
    <2> QED BY <2>1, <2>2, NamedStill
  <1>5. body' \in [Player -> Body]
    <2>1. PICK b \in Body : body' = [body EXCEPT ![p] = b]
      BY <1>3, StoreBody
    <2> QED BY <2>1, NewBody
  <1>6. asked' \in [Player -> SUBSET Request] /\ cut' \subseteq Player
    BY <1>3, ConstantTypes DEF Store, history, TypeOK
  <1>7. serial.mail \in 0 .. MaxMail /\ serial.rent \in 0 .. MaxRent
    BY DEF TypeOK
  <1>8. serial' \in [mail : 0 .. MaxMail, rent : 0 .. MaxRent] /\ serial'.mail = serial.mail + 1
        /\ serial'.rent = serial.rent
    BY <1>2, <1>7
  <1>9. TypeOK'
    BY <1>1, <1>2, <1>4, <1>5, <1>6, <1>8, ConstantTypes DEF TypeOK
  <1>10. step'.at = "idle"
    BY <1>2 DEF Idle
  <1>11. Running'
    BY <1>2, <1>10 DEF Running
  <1>12. Numbered'
    <2>1. \A k \in letters \cup handed : k.id \in 1 .. serial.mail
      BY DEF Tables, Numbered
    <2>2. \A k \in letters \cup handed : k.id \in 1 .. (serial.mail + 1) /\ k.id # serial.mail + 1
      BY <2>1, <1>7
    <2>3. l.id \in 1 .. (serial.mail + 1)
      BY <1>1, <1>7
    <2>4. \A k, h \in letters' : k.id = h.id => k = h
      BY <1>1, <2>2 DEF Tables, Numbered
    <2>5. \A h \in handed' : h.id \in 1 .. serial'.mail /\ \A k \in letters' : k.id # h.id
      BY <1>1, <1>2, <1>8, <2>2 DEF Tables, Numbered
    <2>6. \A k \in letters' : k.id \in 1 .. serial'.mail /\ k.to \in Player \cup {Staff}
      BY <1>1, <1>2, <1>8, <2>2, <2>3 DEF Tables, Numbered
    <2> QED BY <1>10, <2>4, <2>5, <2>6 DEF Numbered
  <1>13. Rents'
    <2>1. rows' \subseteq 1 .. serial'.rent
      BY <1>2, <1>8 DEF Tables, Rents
    <2>2. l.rent # 0 => l.rent \in rows /\ \A k \in letters : k.rent # l.rent
      BY <1>1, <1>2 DEF Tables, Rents
    <2>3. \A k \in letters' : k.rent # 0 => k.rent \in rows'
      BY <1>1, <1>2, <2>2 DEF Tables, Rents
    <2>4. \A k, h \in letters' : k.rent # 0 /\ k.rent = h.rent => k = h
      BY <1>1, <2>2 DEF Tables, Rents
    <2> QED BY <1>10, <2>1, <2>3, <2>4 DEF Rents
  <1> QED BY <1>4, <1>9, <1>11, <1>12, <1>13 DEF Tables


-----------------------------------------------------------------------------
(* Reading. *)
LEMMA ReceiveKeeps ==
  ASSUME IInv, NEW p \in Player, Receive(p)
  PROVE  IInv'
  <1> USE DEF IInv
  <1>1. /\ step' = [at |-> "asked", who |-> p, letter |-> NoLetter]
        /\ UNCHANGED <<body, place, desc, letters, rows, serial, asked, cut, handed>>
    BY DEF Receive, tables, history
  <1>2. step' \in Command /\ step'.at = "asked" /\ step'.who = p /\ step'.letter = NoLetter
    BY <1>1, ConstantTypes DEF Command
  <1>3. TypeOK'
    BY <1>1, <1>2 DEF TypeOK
  <1>4. Named'
    BY <1>1 DEF Named
  <1>5. Running' /\ Numbered' /\ Rents'
    BY <1>1, <1>2 DEF Tables, Running, Numbered, Rents
  <1> QED BY <1>3, <1>4, <1>5 DEF Tables

(* What read_delete() reads is a letter of the reader's, or none. *)
LEMMA ReadDeleteIs ==
  ASSUME IInv, ReadDelete
  PROVE  /\ step.at = "asked" /\ step.who \in Player
         /\ UNCHANGED <<body, place, desc, rows, serial, asked, cut, handed>>
         /\ step' = [at |-> "opened", who |-> step.who, letter |-> step'.letter]
         /\ \/ /\ step'.letter \in letters /\ step'.letter.to = step.who
               /\ letters' = letters \ {step'.letter}
            \/ step'.letter = NoLetter /\ letters' = letters
  <1>1. /\ step.at = "asked"
        /\ UNCHANGED <<body, place, desc, rows, serial, asked, cut, handed>>
    BY DEF ReadDelete, history
  <1>2. step.who \in Player /\ step.letter = NoLetter /\ step \in Command
    BY <1>1 DEF IInv, TypeOK, Tables, Running
  <1>3. CASE \E l \in For(step.who) : letters' = letters \ {l}
                                      /\ step' = [step EXCEPT !.at = "opened", !.letter = l]
    <2>1. PICK l \in For(step.who) : letters' = letters \ {l}
                                     /\ step' = [step EXCEPT !.at = "opened", !.letter = l]
      BY <1>3
    <2>2. step'.letter = l /\ step' = [at |-> "opened", who |-> step.who, letter |-> step'.letter]
      BY <1>2, <2>1 DEF Command
    <2> QED BY <1>1, <1>2, <2>1, <2>2 DEF For
  <1>4. CASE letters' = letters /\ step' = [step EXCEPT !.at = "opened"]
    <2>1. step'.letter = step.letter /\ step' = [at |-> "opened", who |-> step.who, letter |-> step'.letter]
      BY <1>2, <1>4 DEF Command
    <2> QED BY <1>1, <1>2, <1>4, <2>1
  <1> QED BY <1>3, <1>4 DEF ReadDelete

LEMMA ReadDeleteKeeps ==
  ASSUME IInv, ReadDelete
  PROVE  IInv'
  <1> USE DEF IInv
  <1>1. /\ step.at = "asked" /\ step.who \in Player
        /\ UNCHANGED <<body, place, desc, rows, serial, asked, cut, handed>>
        /\ step' = [at |-> "opened", who |-> step.who, letter |-> step'.letter]
        /\ \/ /\ step'.letter \in letters /\ step'.letter.to = step.who
              /\ letters' = letters \ {step'.letter}
           \/ step'.letter = NoLetter /\ letters' = letters
    BY ReadDeleteIs
  <1>2. step'.at = "opened" /\ step'.who = step.who
    BY <1>1
  <1>3. step'.letter \in Letter
    BY <1>1, ConstantTypes DEF TypeOK
  <1>4. step' \in Command
    BY <1>1, <1>3 DEF Command
  <1>5. letters' \subseteq letters
    BY <1>1
  <1>6. TypeOK'
    BY <1>1, <1>4, <1>5 DEF TypeOK
  <1>7. Named'
    BY <1>1 DEF Named
  <1>8. Running'
    BY <1>1, <1>2 DEF Running
  <1>9. Numbered'
    BY <1>1, <1>2, <1>5 DEF Tables, Numbered, Open
  <1>10. Rents'
    <2>1. rows' \subseteq 1 .. serial'.rent
      BY <1>1 DEF Tables, Rents
    <2>2. NoLetter.rent = 0
      BY DEF NoLetter
    <2>3. step'.letter.rent # 0 => step'.letter.rent \in rows' /\ \A l \in letters' : l.rent # step'.letter.rent
      BY <1>1, <2>2 DEF Tables, Rents
    <2> QED BY <1>1, <1>5, <2>1, <2>3 DEF Tables, Rents
  <1> QED BY <1>6, <1>7, <1>8, <1>9, <1>10 DEF Tables

(* The parcel comes out, or nothing does. *)
LEMMA UnpackedIs ==
  ASSUME TypeOK, NEW p \in Player, NEW l, place' \in Unpacked(l, p)
  PROVE  place' \in [Thing -> Player \cup {Ground, Gone}] /\ \A t \in Thing : place[t] # Gone => place'[t] = place[t]
  BY DEF Unpacked, TypeOK

LEMMA HandOverIs ==
  ASSUME IInv, HandOver
  PROVE  /\ step.at = "opened" /\ step.who \in Player
         /\ UNCHANGED <<desc, letters, serial, asked, cut>>
         /\ rows' = rows \ {step.letter.rent}
         /\ handed' = IF step.letter = NoLetter THEN handed
                      ELSE handed \cup {[id |-> step.letter.id, to |-> step.who]}
         /\ \/ step' = Idle /\ step'.at = "idle"
            \/ step' = [at |-> "asked", who |-> step.who, letter |-> NoLetter]
         /\ step' \in Command
         /\ place' \in Unpacked(step.letter, step.who)
         /\ body' = [body EXCEPT ![step.who].money = body[step.who].money + step.letter.talens]
  <1>1. step.at = "opened" /\ step.who \in Player /\ step \in Command
    BY DEF HandOver, IInv, TypeOK, Tables, Running
  <1>2. \/ step' = Idle
        \/ step' = [step EXCEPT !.at = "asked", !.letter = NoLetter]
    BY DEF HandOver, history
  <1>3. ASSUME step' = [step EXCEPT !.at = "asked", !.letter = NoLetter]
        PROVE  step' = [at |-> "asked", who |-> step.who, letter |-> NoLetter]
    <2>1. step'.at = "asked" /\ step'.who = step.who /\ step'.letter = NoLetter
      BY <1>1, <1>3 DEF Command
    <2>2. step' = [at |-> step'.at, who |-> step'.who, letter |-> step'.letter]
      BY <1>1, <1>3 DEF Command
    <2> QED BY <2>1, <2>2
  <1>4. [at |-> "asked", who |-> step.who, letter |-> NoLetter] \in Command
    BY <1>1, ConstantTypes DEF Command
  <1>5. Idle.at = "idle"
    BY DEF Idle
  <1>6. \/ step' = Idle /\ step'.at = "idle"
        \/ step' = [at |-> "asked", who |-> step.who, letter |-> NoLetter]
    BY <1>2, <1>3, <1>5
  <1>7. step' \in Command
    BY <1>4, <1>6, ConstantTypes
  <1>8. /\ UNCHANGED <<desc, letters, serial, asked, cut>>
        /\ rows' = rows \ {step.letter.rent}
        /\ handed' = IF step.letter = NoLetter THEN handed
                     ELSE handed \cup {[id |-> step.letter.id, to |-> step.who]}
        /\ place' \in Unpacked(step.letter, step.who)
        /\ body' = [body EXCEPT ![step.who].money = body[step.who].money + step.letter.talens]
    BY DEF HandOver, history
  <1> QED BY <1>1, <1>6, <1>7, <1>8

LEMMA HandOverKeeps ==
  ASSUME IInv, HandOver
  PROVE  IInv'
  <1> USE DEF IInv
  <1>1. PICK p, l : p = step.who /\ l = step.letter
    OBVIOUS
  <1>2. /\ step.at = "opened" /\ p \in Player /\ l \in Letter
        /\ UNCHANGED <<desc, letters, serial, asked, cut>>
        /\ rows' = rows \ {l.rent}
        /\ handed' = IF l = NoLetter THEN handed ELSE handed \cup {[id |-> l.id, to |-> p]}
        /\ \/ step' = Idle /\ step'.at = "idle"
           \/ step' = [at |-> "asked", who |-> p, letter |-> NoLetter]
        /\ step' \in Command
        /\ place' \in Unpacked(l, p)
        /\ body' = [body EXCEPT ![p].money = body[p].money + l.talens]
    BY <1>1, HandOverIs DEF TypeOK, Command
  <1>3. step'.at \in {"idle", "asked"}
        /\ (step'.at = "idle" => step' = Idle)
        /\ (step'.at = "asked" => step'.who = p /\ step'.letter = NoLetter)
    BY <1>2 DEF Idle
  <1>4. body' \in [Player -> Body]
    <2>1. body[p].money + l.talens \in Nat
      <3>1. l.talens \in Nat
        BY <1>2 DEF Letter
      <3>2. body[p].money \in Nat
        BY <1>2, BodyFields DEF TypeOK
      <3> QED BY <3>1, <3>2
    <2> QED BY <1>2, <2>1, Enriched
  <1>5. place' \in [Thing -> Player \cup {Ground, Gone}]
    BY <1>2, UnpackedIs
  <1>6. l = NoLetter \/ (l.id \in 1 .. serial.mail /\ l.to = p /\ \A k \in letters \cup handed : k.id # l.id)
    BY <1>1, <1>2 DEF Tables, Numbered, Open
  <1>7. serial.mail \in 0 .. MaxMail
    BY DEF TypeOK
  <1>8. handed' \subseteq [id : 1 .. MaxMail, to : Player]
    BY <1>2, <1>6, <1>7 DEF TypeOK
  <1>9. rows' \subseteq 1 .. MaxRent
    BY <1>2 DEF TypeOK
  <1>10. TypeOK'
    BY <1>2, <1>4, <1>5, <1>8, <1>9 DEF TypeOK
  <1>11. Named'
    BY <1>2 DEF Named
  <1>12. Running'
    BY <1>2, <1>3 DEF Running
  <1>13. Numbered'
    <2>1. \A h \in handed' : h.id \in 1 .. serial.mail /\ \A k \in letters : k.id # h.id
      BY <1>2, <1>6 DEF Tables, Numbered
    <2> QED BY <1>2, <1>3, <2>1 DEF Tables, Numbered
  <1>14. Rents'
    <2>1. \A k \in letters : k.rent # 0 => k.rent # l.rent
      BY <1>1, <1>2 DEF Tables, Rents
    <2> QED BY <1>2, <1>3, <2>1 DEF Tables, Rents
  <1> QED BY <1>10, <1>11, <1>12, <1>13, <1>14 DEF Tables

LEMMA NoEnvelopeKeeps ==
  ASSUME IInv, NoEnvelope
  PROVE  IInv'
  <1> USE DEF IInv
  <1>1. step' = Idle /\ UNCHANGED <<body, place, desc, letters, rows, serial, asked, cut, handed>>
    BY DEF NoEnvelope, tables, history
  <1>2. step' \in Command /\ step'.at = "idle"
    BY <1>1, ConstantTypes DEF Idle
  <1>3. TypeOK'
    BY <1>1, <1>2 DEF TypeOK
  <1>4. Named'
    BY <1>1 DEF Named
  <1>5. Running' /\ Numbered' /\ Rents'
    BY <1>1, <1>2 DEF Tables, Running, Numbered, Rents
  <1> QED BY <1>3, <1>4, <1>5 DEF Tables

-----------------------------------------------------------------------------
(* What else befalls them. *)
LEMMA RotKeeps ==
  ASSUME IInv, NEW t \in Thing, Rot(t)
  PROVE  IInv'
  <1> USE DEF IInv
  <1>1. UNCHANGED <<body, desc, letters, rows, serial, step, asked, cut, handed>>
    BY DEF Rot, tables, history
  <1>2. place' \in [Thing -> Player \cup {Ground, Gone}]
    BY DEF Rot, Without, TypeOK
  <1>3. Tables'
    BY <1>1, TablesQuiet DEF tables, history, history
  <1> QED BY <1>1, <1>2, <1>3 DEF TypeOK, Named

LEMMA StealKeeps ==
  ASSUME IInv, NEW p \in Player, NEW from \in Player, NEW t \in Thing, Steal(p, from, t)
  PROVE  IInv'
  <1> USE DEF IInv
  <1>1. UNCHANGED <<body, desc, letters, rows, serial, step, asked, cut, handed>>
    BY DEF Steal, tables, history
  <1>2. place' \in [Thing -> Player \cup {Ground, Gone}]
    BY DEF Steal, TypeOK
  <1>3. Tables'
    BY <1>1, TablesQuiet DEF tables, history, history
  <1> QED BY <1>1, <1>2, <1>3 DEF TypeOK, Named

LEMMA GetKeeps ==
  ASSUME IInv, NEW p \in Player, NEW t \in Thing, Get(p, t)
  PROVE  IInv'
  <1> USE DEF IInv
  <1>1. UNCHANGED <<body, desc, letters, rows, serial, step, asked, cut, handed>>
    BY DEF Get, tables, history
  <1>2. place' \in [Thing -> Player \cup {Ground, Gone}]
    BY DEF Get, TypeOK
  <1>3. Tables'
    BY <1>1, TablesQuiet DEF tables
  <1> QED BY <1>1, <1>2, <1>3 DEF TypeOK, Named

(* Talens change hands: of two players nothing else. *)
LEMMA StealTalensIs ==
  ASSUME TypeOK, NEW p \in Player, NEW from \in Player, StealTalens(p, from)
  PROVE  /\ body' \in [Player -> Body]
         /\ \A q \in Player : body'[q].in = body[q].in /\ body'[q].flags = body[q].flags
  <1>1. PICK gold \in 1 .. body[from].money :
          body' = [body EXCEPT ![p].money = @ + gold, ![from].money = @ - gold]
    BY DEF StealTalens
  <1>2. PICK b, c : b = body[p] /\ c = body[from]
    OBVIOUS
  <1>3. b \in Body /\ c \in Body /\ p # from
    BY <1>2 DEF TypeOK, StealTalens
  <1>4. PICK x, y : x = [b EXCEPT !.money = @ + gold] /\ y = [c EXCEPT !.money = @ - gold]
    OBVIOUS
  <1>5. /\ x.in = b.in /\ x.money = b.money + gold /\ x.flags = b.flags
        /\ y.in = c.in /\ y.money = c.money - gold /\ y.flags = c.flags
    BY <1>3, <1>4 DEF Body
  <1>6. /\ x = [in |-> x.in, money |-> x.money, flags |-> x.flags]
        /\ y = [in |-> y.in, money |-> y.money, flags |-> y.flags]
    BY <1>3, <1>4 DEF Body
  <1>7. b.money + gold \in Nat /\ c.money - gold \in Nat /\ b.money <= b.money + gold
    BY <1>1, <1>2, <1>3, BodyFields
  <1>8. x \in Body /\ y \in Body
    BY <1>3, <1>5, <1>6, <1>7, BodyFields DEF Body
  <1>9. body' = [[body EXCEPT ![p] = x] EXCEPT ![from] = y]
    BY <1>1, <1>2, <1>3, <1>4 DEF TypeOK
  <1>10. /\ body' \in [Player -> Body] /\ body'[p] = x /\ body'[from] = y
         /\ \A q \in Player \ {p, from} : body'[q] = body[q]
    BY <1>3, <1>8, <1>9 DEF TypeOK
  <1>11. \A q \in Player : body'[q].in = body[q].in /\ body'[q].flags = body[q].flags
    BY <1>2, <1>5, <1>10
  <1> QED BY <1>10, <1>11

LEMMA StealTalensKeeps ==
  ASSUME IInv, NEW p \in Player, NEW from \in Player, StealTalens(p, from)
  PROVE  IInv'
  <1> USE DEF IInv
  <1>1. UNCHANGED <<place, desc, letters, rows, serial, step, asked, cut, handed>>
    BY DEF StealTalens, tables, history
  <1>2. body' \in [Player -> Body]
    BY StealTalensIs
  <1>3. Tables'
    BY <1>1, TablesQuiet DEF tables, history, history
  <1> QED BY <1>1, <1>2, <1>3 DEF TypeOK, Named

LEMMA DisconnectsKeep ==
  ASSUME IInv, NEW p \in Player, Disconnects(p), body' \in [Player -> Body]
  PROVE  IInv'
  <1> USE DEF IInv
  <1>1. UNCHANGED <<letters, rows, serial, step, handed>>
    BY DEF Disconnects, tables
  <1>2. place' \in [Thing -> Player \cup {Ground, Gone}]
    BY DEF Disconnects, Without, TypeOK
  <1>3. desc' \in [Player -> Descriptor] /\ Named'
    <2>1. desc' = [desc EXCEPT ![p] = Fresh]
      BY DEF Disconnects
    <2>2. Fresh.str = FALSE
      BY DEF Fresh
    <2> QED BY <2>1, <2>2, ConstantTypes, NamedStill
  <1>4. asked' \in [Player -> SUBSET Request]
    BY DEF Disconnects, TypeOK
  <1>5. Tables'
    BY <1>1, TablesQuiet DEF tables
  <1>6. cut' \subseteq Player
    BY DEF Disconnects, TypeOK
  <1> QED BY <1>1, <1>2, <1>3, <1>4, <1>5, <1>6 DEF TypeOK

LEMMA LoseLinkKeeps ==
  ASSUME IInv, NEW p \in Player, LoseLink(p)
  PROVE  IInv'
  <1>1. body' \in [Player -> Body]
    BY Moved DEF LoseLink, IInv
  <1> QED BY <1>1, DisconnectsKeep DEF LoseLink

LEMMA HangUpKeeps ==
  ASSUME IInv, NEW p \in Player, HangUp(p)
  PROVE  IInv'
  BY DisconnectsKeep DEF HangUp, IInv, TypeOK

LEMMA ReconnectKeeps ==
  ASSUME IInv, NEW p \in Player, Reconnect(p)
  PROVE  IInv'
  <1> USE DEF IInv
  <1>1. UNCHANGED <<place, desc, letters, rows, serial, step, asked, cut, handed>>
    BY DEF Reconnect, tables, history
  <1>2. body' \in [Player -> Body]
    BY Moved DEF Reconnect
  <1>3. Tables'
    BY <1>1, TablesQuiet DEF tables, history, history
  <1> QED BY <1>1, <1>2, <1>3 DEF TypeOK, Named

(* A player leaves the game. *)
LeftDesc(p) == IF p \in Client THEN Fresh ELSE [desc[p] EXCEPT !.str = FALSE]

LEMMA LeftDescIs ==
  ASSUME TypeOK, NEW p \in Player
  PROVE  /\ LeftDesc(p) \in Descriptor /\ LeftDesc(p).str = FALSE
         /\ p \notin Client => LeftDesc(p).obj = desc[p].obj /\ LeftDesc(p).amount = desc[p].amount
  <1>1. CASE p \in Client
    BY <1>1, ConstantTypes DEF LeftDesc, Fresh
  <1>2. CASE p \notin Client
    <2>1. desc[p] \in Descriptor
      BY DEF TypeOK
    <2> QED BY <1>2, <2>1 DEF LeftDesc, Descriptor
  <1> QED BY <1>1, <1>2

LEMMA LeavesThingsKeep ==
  ASSUME IInv, NEW p \in Player, NEW where \in {Ground, Gone}, LeavesThings(p, where)
  PROVE  IInv'
  <1> USE DEF IInv
  <1>1. UNCHANGED <<letters, rows, serial, step, asked, handed>>
    BY DEF LeavesThings, tables
  <1>2. body' \in [Player -> Body]
    <2>1. [in |-> "out", money |-> 0, flags |-> {}] \in Body
      BY DEF Body
    <2> QED BY <2>1, NewBody DEF LeavesThings
  <1>3. place' \in [Thing -> Player \cup {Ground, Gone}]
    <2>1. \A t \in Thing : place[t] \in Player \cup {Ground, Gone}
      BY DEF TypeOK
    <2> QED BY <2>1 DEF LeavesThings
  <1>4. desc' \in [Player -> Descriptor] /\ Named'
    <2>1. desc' = [desc EXCEPT ![p] = LeftDesc(p)]
      BY DEF LeavesThings, LeftDesc, TypeOK
    <2> QED BY <2>1, LeftDescIs, NamedStill
  <1>5. cut' \subseteq Player
    BY DEF LeavesThings, TypeOK
  <1>6. Tables'
    BY <1>1, TablesQuiet DEF tables
  <1> QED BY <1>1, <1>2, <1>3, <1>4, <1>5, <1>6 DEF TypeOK

LEMMA DieKeeps ==
  ASSUME IInv, NEW p \in Player, Die(p)
  PROVE  IInv'
  BY LeavesThingsKeep DEF Die

LEMMA LeaveKeeps ==
  ASSUME IInv, NEW p \in Player, Leave(p)
  PROVE  IInv'
  BY LeavesThingsKeep DEF Leave

LEMMA LoginKeeps ==
  ASSUME IInv, NEW p \in Player, Login(p)
  PROVE  IInv'
  <1> USE DEF IInv
  <1>1. UNCHANGED <<desc, letters, rows, serial, step, asked, cut, handed>>
    BY DEF Login, tables, history
  <1>2. body' \in [Player -> Body]
    <2>1. [in |-> "linked", money |-> Purse[p], flags |-> {}] \in Body
      BY DEF Body
    <2> QED BY <2>1, NewBody DEF Login
  <1>3. place' \in [Thing -> Player \cup {Ground, Gone}]
    BY DEF Login, TypeOK
  <1>4. Tables'
    BY <1>1, TablesQuiet DEF tables, history, history
  <1> QED BY <1>1, <1>2, <1>3, <1>4 DEF TypeOK, Named

LEMMA CrashKeeps ==
  ASSUME IInv, Crash
  PROVE  IInv'
  <1> USE DEF IInv
  <1>1. UNCHANGED <<letters, rows, serial, handed>> /\ step' = Idle
    BY DEF Crash, tables, history
  <1>2. body' \in [Player -> Body]
    <2>1. [in |-> "out", money |-> 0, flags |-> {}] \in Body
      BY DEF Body
    <2> QED BY <2>1 DEF Crash
  <1>3. place' \in [Thing -> Player \cup {Ground, Gone}]
    BY DEF Crash
  <1>4. desc' \in [Player -> Descriptor] /\ Named'
    <2>1. desc' = [q \in Player |-> Fresh]
      BY DEF Crash
    <2>2. Fresh.str = FALSE
      BY DEF Fresh
    <2> QED BY <2>1, <2>2, ConstantTypes DEF Named
  <1>5. asked' \in [Player -> SUBSET Request] /\ cut' \subseteq Player
    BY ConstantTypes DEF Crash
  <1>6. step' \in Command /\ step'.at = "idle"
    BY <1>1, ConstantTypes DEF Idle
  <1>7. TypeOK'
    BY <1>1, <1>2, <1>3, <1>4, <1>5, <1>6 DEF TypeOK
  <1>8. Running' /\ Numbered' /\ Rents'
    BY <1>1, <1>6 DEF Tables, Running, Numbered, Rents
  <1> QED BY <1>4, <1>7, <1>8 DEF Tables

(* Letters are deleted: the tables stay as good as they were. *)
LEMMA FewerLetters ==
  ASSUME IInv, letters' \subseteq letters,
         UNCHANGED <<body, place, desc, rows, serial, step, asked, cut, handed>>
  PROVE  IInv'
  <1> USE DEF IInv
  <1>1. TypeOK' /\ Named'
    BY DEF TypeOK, Named
  <1>2. Running' /\ Numbered' /\ Rents'
    BY DEF Tables, Running, Numbered, Rents, Open
  <1> QED BY <1>1, <1>2 DEF Tables

LEMMA DiscardKeeps ==
  ASSUME IInv, NEW l, Discard(l)
  PROVE  IInv'
  BY FewerLetters DEF Discard, history

LEMMA DeleteMailKeeps ==
  ASSUME IInv, NEW p \in Player, DeleteMail(p)
  PROVE  IInv'
  BY FewerLetters DEF DeleteMail, history

LEMMA NextKeeps ==
  ASSUME IInv, [Next]_vars
  PROVE  IInv'
  <1>1. CASE Steps
    BY <1>1, StoreKeeps, ReadDeleteKeeps, HandOverKeeps, NoEnvelopeKeeps DEF Steps
  <1>2. ASSUME NEW p \in Player, Writes(p) PROVE IInv'
    BY <1>2, OrderKeeps, OrderWindowKeeps, SubmitWindowKeeps, CloseWindowKeeps, ReportKeeps,
       SubmitKeeps, CancelKeeps, EndReportKeeps DEF Writes
  <1>3. ASSUME NEW p \in Player, Takes(p) PROVE IInv'
    BY <1>3, StealKeeps, StealTalensKeeps, GetKeeps DEF Takes
  <1>4. ASSUME NEW p \in Player,
               \/ Receive(p) \/ LoseLink(p) \/ Reconnect(p) \/ Die(p) \/ Leave(p)
               \/ HangUp(p) \/ Login(p) \/ DeleteMail(p)
        PROVE  IInv'
    BY <1>4, ReceiveKeeps, LoseLinkKeeps, ReconnectKeeps, DieKeeps, LeaveKeeps, HangUpKeeps,
       LoginKeeps, DeleteMailKeeps
  <1>5. ASSUME NEW t \in Thing, Rot(t) PROVE IInv'
    BY <1>5, RotKeeps
  <1>6. ASSUME NEW l \in letters, Discard(l) PROVE IInv'
    BY <1>6, DiscardKeeps
  <1>7. CASE Crash
    BY <1>7, CrashKeeps
  <1>8. CASE UNCHANGED vars
    <2>1. UNCHANGED <<tables, step, handed>>
      BY <1>8 DEF vars, tables, history
    <2>2. Tables'
      BY <2>1, TablesQuiet DEF IInv
    <2> QED BY <1>8, <2>2 DEF vars, tables, IInv, TypeOK, Named
  <1> QED BY <1>1, <1>2, <1>3, <1>4, <1>5, <1>6, <1>7, <1>8 DEF Next


(* The invariant holds in every state. *)
LEMMA SpecIInv == Spec => []IInv
<1>1. QED
  BY InitIInv, NextKeeps, PTL DEF Spec

(* TypeOK: no number of talens gets below zero, no id leaves the tables'.  *)
THEOREM TypeCorrect == Spec => []TypeOK
<1>1. IInv => TypeOK
  BY DEF IInv
<1>2. QED
  BY <1>1, SpecIInv, PTL

(* ParcelsKept: a letter that exists has its parcel, and shares it with    *)
(* none, whatever crashes and deletions have come between the queries.     *)
THEOREM ParcelCorrect == Spec => []ParcelsKept
<1>1. IInv => ParcelsKept
  BY DEF IInv, Tables, Rents, ParcelsKept, Existing
<1>2. QED
  BY <1>1, SpecIInv, PTL

-----------------------------------------------------------------------------
(* The post office is a Letterbox. *)
Short(l) == [id |-> l.id, to |-> l.to]

LEMMA InitBox == Init => Box!LetterboxInit
  BY DEF Init, Idle, Waiting, Box!LetterboxInit

LEMMA SameBox ==
  ASSUME UNCHANGED <<letters, step, handed>>
  PROVE  UNCHANGED Box!letterboxVars
  BY DEF Waiting, Box!letterboxVars

LEMMA FewerBox ==
  ASSUME letters' \subseteq letters, handed' = handed, step'.at # "opened" \/ step' = step
  PROVE  Box!Lose
  BY DEF Waiting, Box!Lose

LEMMA PackBox ==
  ASSUME NEW p, NEW to, step = Idle, Pack(p, to)
  PROVE  UNCHANGED Box!letterboxVars
  <1>1. step.at = "idle" /\ step'.at = "packed" /\ letters' = letters /\ handed' = handed
    BY DEF Pack, Idle
  <1> QED BY <1>1 DEF Waiting, Box!letterboxVars

LEMMA StoreBox ==
  ASSUME IInv, Store
  PROVE  \E id \in 1 .. MaxMail, to \in Player \cup {Staff} : Box!Accept(id, to)
  <1>1. PICK l \in Letter : /\ l.id = serial.mail + 1 /\ l.to = step.letter.to
                            /\ letters' = letters \cup {l}
    BY StoreLetter
  <1>2. /\ serial.mail < MaxMail /\ step.letter.to \in Player \cup {Staff}
        /\ step.at = "packed" /\ step' = Idle /\ handed' = handed
    BY StoreLetter DEF Store
  <1>3. serial.mail \in 0 .. MaxMail
    BY DEF IInv, TypeOK
  <1>4. l.id \in 1 .. MaxMail /\ l.to \in Player \cup {Staff}
    BY <1>1, <1>2, <1>3
  <1>5. \A k \in letters \cup handed : k.id # l.id
    <2>1. \A k \in letters \cup handed : k.id \in 1 .. serial.mail
      BY DEF IInv, Tables, Numbered
    <2> QED BY <1>1, <1>3, <2>1
  <1>6. step'.at = "idle"
    BY <1>2 DEF Idle
  <1>7. Waiting = {Short(k) : k \in letters} /\ Waiting' = {Short(k) : k \in letters'}
    BY <1>2, <1>6 DEF Waiting, Short
  <1>8. Waiting' = Waiting \cup {Short(l)}
    BY <1>1, <1>7
  <1>9. \A w \in Waiting \cup handed : w.id # l.id
    BY <1>5, <1>7 DEF Short
  <1>10. Box!Accept(l.id, l.to)
    BY <1>2, <1>8, <1>9 DEF Box!Accept, Short
  <1> QED BY <1>4, <1>10

LEMMA ReadDeleteBox ==
  ASSUME IInv, ReadDelete
  PROVE  UNCHANGED Box!letterboxVars
  <1>1. /\ step.at = "asked" /\ handed' = handed
        /\ step' = [at |-> "opened", who |-> step.who, letter |-> step'.letter]
        /\ \/ /\ step'.letter \in letters
              /\ letters' = letters \ {step'.letter}
           \/ step'.letter = NoLetter /\ letters' = letters
    BY ReadDeleteIs
  <1>2. step'.at = "opened"
    BY <1>1
  <1>3. NoLetter \notin letters
    BY DEF IInv, Tables, Numbered, NoLetter, TypeOK
  <1>4. letters' \cup ({step'.letter} \ {NoLetter}) = letters
    BY <1>1, <1>3
  <1>5. Waiting' = Waiting
    BY <1>1, <1>2, <1>4 DEF Waiting
  <1> QED BY <1>1, <1>5 DEF Box!letterboxVars

LEMMA HandOverBox ==
  ASSUME IInv, HandOver
  PROVE  Box!LetterboxNext \/ UNCHANGED Box!letterboxVars
  <1>1. PICK p, l : p = step.who /\ l = step.letter
    OBVIOUS
  <1>2. /\ step.at = "opened" /\ p \in Player
        /\ letters' = letters
        /\ handed' = IF l = NoLetter THEN handed ELSE handed \cup {[id |-> l.id, to |-> p]}
        /\ step'.at \in {"idle", "asked"}
    BY <1>1, HandOverIs
  <1>3. Waiting' = {Short(k) : k \in letters}
    BY <1>2 DEF Waiting, Short
  <1>4. CASE l = NoLetter
    <2>1. Waiting = {Short(k) : k \in letters}
      BY <1>1, <1>2, <1>4 DEF Waiting, Short
    <2> QED BY <1>2, <1>3, <1>4, <2>1 DEF Box!letterboxVars
  <1>5. CASE l # NoLetter
    <2>1. l.to = p /\ \A k \in letters : k.id # l.id
      BY <1>1, <1>2, <1>5 DEF IInv, Tables, Numbered, Open
    <2>2. Waiting = {Short(k) : k \in letters \cup {l}}
      BY <1>1, <1>2, <1>5 DEF Waiting, Short
    <2>3. Short(l) \in Waiting /\ Short(l) \notin Waiting'
      BY <1>3, <2>1, <2>2 DEF Short
    <2>4. Waiting' = Waiting \ {Short(l)}
      BY <1>3, <2>2, <2>3
    <2>5. Box!Hand(Short(l))
      BY <1>2, <1>5, <2>1, <2>4 DEF Box!Hand, Short
    <2> QED BY <2>3, <2>5 DEF Box!LetterboxNext
  <1> QED BY <1>4, <1>5

LEMMA NextBox ==
  ASSUME IInv, [Next]_vars
  PROVE  [Box!LetterboxNext]_(Box!letterboxVars)
  <1>1. CASE Store
    BY <1>1, StoreBox DEF Box!LetterboxNext
  <1>2. CASE ReadDelete
    BY <1>2, ReadDeleteBox
  <1>3. CASE HandOver
    BY <1>3, HandOverBox
  <1>4. CASE NoEnvelope \/ Crash
    <2>1. letters' = letters /\ handed' = handed /\ step'.at # "opened"
      BY <1>4 DEF NoEnvelope, Crash, tables, Idle
    <2> QED BY <2>1, FewerBox DEF Box!LetterboxNext
  <1>5. ASSUME NEW p \in Player, Writes(p) \/ Takes(p) \/ Receive(p)
        PROVE  UNCHANGED Box!letterboxVars
    <2>1. ASSUME NEW to \in Player, Order(p, to) \/ OrderWindow(p, to) \/ CloseWindow(p, to)
          PROVE  UNCHANGED <<letters, step, handed>>
      BY <2>1 DEF Order, OrderWindow, CloseWindow, Asks, tables, history
    <2>2. ASSUME NEW to \in Player, SubmitWindow(p, to)
          PROVE  UNCHANGED Box!letterboxVars
      BY <2>2, PackBox DEF SubmitWindow
    <2>3. CASE Report(p) \/ Cancel(p) \/ EndReport(p)
      <3>1. UNCHANGED <<letters, step, handed>>
        BY <2>3 DEF Report, Cancel, EndReport, tables, history
      <3> QED BY <3>1, SameBox
    <2>4. CASE Submit(p)
      BY <2>4, PackBox DEF Submit, Ends
    <2>5. CASE Takes(p)
      <3>1. UNCHANGED <<letters, step, handed>>
        BY <2>5 DEF Takes, Steal, StealTalens, Get, tables, history
      <3> QED BY <3>1, SameBox
    <2>6. CASE Receive(p)
      <3>1. letters' = letters /\ handed' = handed /\ step.at = "idle" /\ step'.at = "asked"
        BY <2>6 DEF Receive, Commands, Idle, tables, history
      <3> QED BY <3>1 DEF Waiting, Box!letterboxVars
    <2> QED BY <1>5, <2>1, <2>2, <2>3, <2>4, <2>5, <2>6, SameBox DEF Writes
  <1>6. ASSUME NEW p \in Player,
               \/ LoseLink(p) \/ Reconnect(p) \/ Die(p) \/ Leave(p)
               \/ HangUp(p) \/ Login(p)
        PROVE  UNCHANGED Box!letterboxVars
    <2>1. UNCHANGED <<letters, step, handed>>
      BY <1>6 DEF LoseLink, HangUp, Disconnects, Reconnect, Die, Leave, LeavesThings, Login, tables, history
    <2> QED BY <2>1, SameBox
  <1>7. ASSUME NEW p \in Player, DeleteMail(p)
        PROVE  Box!LetterboxNext
    BY <1>7, FewerBox DEF DeleteMail, Box!LetterboxNext
  <1>8. ASSUME NEW t \in Thing, Rot(t)
        PROVE  UNCHANGED Box!letterboxVars
    <2>1. UNCHANGED <<letters, step, handed>>
      BY <1>8 DEF Rot, tables, history
    <2> QED BY <2>1, SameBox
  <1>9. ASSUME NEW l \in letters, Discard(l)
        PROVE  Box!LetterboxNext
    BY <1>9, FewerBox DEF Discard, Box!LetterboxNext
  <1>10. CASE UNCHANGED vars
    <2>1. UNCHANGED <<letters, step, handed>>
      BY <1>10 DEF vars, tables, history
    <2> QED BY <2>1, SameBox
  <1> QED BY <1>1, <1>2, <1>3, <1>4, <1>5, <1>6, <1>7, <1>8, <1>9, <1>10 DEF Next, Steps

(* What the post office does with letters, a Letterbox may do, with any    *)
(* number of players and letters and with crashes at any moment.           *)
THEOREM Refinement == Spec => ImplementsLetterbox
<1>1. QED
  BY InitBox, NextBox, SpecIInv, PTL DEF Spec, ImplementsLetterbox, Box!LetterboxSpec


-----------------------------------------------------------------------------
(***************************************************************************)
(* What goes along, and what is a report.  What the descriptor holds fits  *)
(* what was asked for.  A player action that is set is the text's that is  *)
(* being written, or the player lost its link as it wrote: for a report's  *)
(* text addresses Staff and a letter's does not.                           *)
(***************************************************************************)
Fits(S, thing, amount) ==
  /\ thing \in {r.thing : r \in S} \cup {NoThing}
  /\ amount \in {r.amount : r \in S} \cup {0}
  /\ \A r \in S : S = {r} => thing = r.thing /\ amount = r.amount

Marks(d, flags, isCut) ==
  /\ "mailing" \in flags => isCut \/ (d.str /\ d.name # Staff)
  /\ "bugging" \in flags => isCut \/ (d.str /\ d.name = Staff)

Writer(p) ==
  /\ p \notin Client => Fits(asked[p], desc[p].obj, desc[p].amount)
  /\ Marks(desc[p], body[p].flags, p \in cut)

Writers ==
  /\ \A p \in Player : Writer(p)
  /\ step.at = "packed" =>
       /\ step.letter.to = Staff => step.who \in cut
       /\ step.who \notin Client => "mailing" \in body[step.who].flags

LEMMA FitsNothing == Fits({}, NoThing, 0)
  BY DEF Fits

(* One more order in the same descriptor. *)
LEMMA FitsMore ==
  ASSUME NEW S, NEW d, NEW ware \in Wares, Fits(S, d.obj, d.amount)
  PROVE  Fits(S \cup {ware}, Obj(d, ware), Amount(d, ware))
  <1> DEFINE o == Obj(d, ware)
             a == Amount(d, ware)
             T == S \cup {ware}
  <1>1. o \in {r.thing : r \in T} \cup {NoThing}
    BY DEF Fits, Obj
  <1>2. a \in {r.amount : r \in T} \cup {0}
    BY DEF Fits, Amount
  <1>3. ASSUME NEW r \in T, T = {r}
        PROVE  o = r.thing /\ a = r.amount
    <2>1. r = ware
      BY <1>3
    <2>2. \/ d.obj = NoThing /\ d.amount = 0
          \/ d.obj = ware.thing /\ d.amount = ware.amount
      <3>1. CASE S = {}
        BY <3>1 DEF Fits
      <3>2. CASE S # {}
        <4>1. S = {ware}
          BY <1>3, <2>1, <3>2
        <4> QED BY <4>1 DEF Fits
      <3> QED BY <3>1, <3>2
    <2> QED BY <2>1, <2>2, WareType DEF Obj, Amount
  <1> QED BY <1>1, <1>2, <1>3 DEF Fits

LEMMA InitWriters == Init => Writers
  <1>1. Init => \A p \in Player : Writer(p)
    BY FitsNothing DEF Init, Writer, Fresh, Marks
  <1>2. Init => step.at # "packed"
    BY DEF Init, Idle
  <1> QED BY <1>1, <1>2 DEF Writers

(* One player's doing leaves the others what they are. *)
LEMMA OneWriter ==
  ASSUME Writers, NEW p \in Player, step'.at # "packed",
         \A q \in Player \ {p} :
           /\ body'[q].flags = body[q].flags
           /\ desc'[q] = desc[q] /\ asked'[q] = asked[q]
           /\ q \in cut => q \in cut',
         Writer(p)'
  PROVE  Writers'
  <1>1. ASSUME NEW q \in Player, q # p
        PROVE  Writer(q)'
    BY <1>1 DEF Writers, Writer, Marks
  <1>2. \A q \in Player : Writer(q)'
    BY <1>1
  <1> QED BY <1>2 DEF Writers

(* What leaves the player actions and the descriptors as they are. *)
LEMMA SameWriters ==
  ASSUME Writers, step'.at # "packed" \/ step' = step,
         \A q \in Player : body'[q].flags = body[q].flags,
         Running,
         UNCHANGED <<desc, asked, cut>>
  PROVE  Writers'
  <1>1. \A q \in Player : Writer(q)'
    BY DEF Writers, Writer
  <1>2. step'.at = "packed" => step' = step /\ step.who \in Player
    BY DEF Running
  <1> QED BY <1>1, <1>2 DEF Writers

LEMMA QuietWrites ==
  ASSUME IInv, Writers, UNCHANGED <<body, desc, asked, cut>>, step'.at # "packed" \/ step' = step
  PROVE  Writers'
  BY SameWriters DEF IInv, Tables

LEMMA StepsIdle ==
  ASSUME step = Idle, step' = step
  PROVE  step'.at # "packed"
  BY DEF Idle

LEMMA OrderWrites ==
  ASSUME IInv, Writers, NEW p \in Player, NEW to \in Player, Order(p, to)
  PROVE  Writers'
  <1>1. PICK ware \in Wares, imm \in BOOLEAN, d \in Descriptor :
          /\ p \notin Client /\ Asks(p, ware, imm)
          /\ d.obj = Obj(desc[p], ware) /\ d.amount = Amount(desc[p], ware)
          /\ d.name = to /\ d.str = TRUE
          /\ desc' = [desc EXCEPT ![p] = d]
    BY OrderIs, ZenonT(60) DEF IInv
  <1>2. desc'[p] = d /\ \A q \in Player \ {p} : desc'[q] = desc[q]
    BY <1>1, NewDesc DEF IInv
  <1>3. /\ asked'[p] = asked[p] \cup {ware}
        /\ \A q \in Player \ {p} : asked'[q] = asked[q]
        /\ cut' = cut
    BY <1>1, AsksType DEF IInv, TypeOK
  <1>4. /\ body'[p].flags = body[p].flags \cup {"mailing"}
        /\ \A q \in Player \ {p} : body'[q] = body[q]
    <2>1. PICK b \in Body : b.flags = Marked(p) /\ body' = [body EXCEPT ![p] = b]
      BY <1>1, AsksType DEF IInv
    <2> QED BY <1>1, <2>1, NewBody DEF Marked, IInv
  <1>5. ~desc[p].str /\ step = Idle /\ step' = step
    BY <1>1 DEF Asks, Commands
  <1>6. Writer(p)
    BY <1>1 DEF Writers
  <1>7. Fits(asked[p], desc[p].obj, desc[p].amount)
    BY <1>1, <1>6 DEF Writer
  <1>8. Fits(asked'[p], desc'[p].obj, desc'[p].amount)
    <2>1. PICK old : old = desc[p]
      OBVIOUS
    <2>2. Fits(asked[p], old.obj, old.amount)
      BY <1>7, <2>1
    <2>3. Fits(asked[p] \cup {ware}, Obj(old, ware), Amount(old, ware))
      BY <2>2, FitsMore
    <2> QED BY <1>1, <1>2, <1>3, <2>1, <2>3
  <1>9. to # Staff
    BY NameAssumption
  <1>10. Marks(desc'[p], body'[p].flags, p \in cut')
    BY <1>1, <1>2, <1>3, <1>4, <1>5, <1>6, <1>9 DEF Writer, Marks
  <1>11. Writer(p)'
    BY <1>8, <1>10 DEF Writer
  <1>12. step'.at # "packed"
    BY <1>5, StepsIdle
  <1> QED BY <1>2, <1>3, <1>4, <1>11, <1>12, OneWriter

LEMMA OrderWindowWrites ==
  ASSUME IInv, Writers, NEW p \in Player, NEW to \in Player, OrderWindow(p, to)
  PROVE  Writers'
  <1>1. PICK ware \in Wares, imm \in BOOLEAN, d \in Descriptor :
          /\ p \in Client /\ Asks(p, ware, imm)
          /\ d.name = desc[p].name /\ d.str = desc[p].str
          /\ desc' = [desc EXCEPT ![p] = d]
    BY OrderWindowIs DEF IInv
  <1>2. desc'[p] = d /\ \A q \in Player \ {p} : desc'[q] = desc[q]
    BY <1>1, NewDesc DEF IInv
  <1>3. asked' = asked /\ cut' = cut
    BY <1>1, AsksType DEF IInv
  <1>4. /\ body'[p].flags = body[p].flags
        /\ \A q \in Player \ {p} : body'[q] = body[q]
    <2>1. PICK b \in Body : b.flags = Marked(p) /\ body' = [body EXCEPT ![p] = b]
      BY <1>1, AsksType DEF IInv
    <2> QED BY <1>1, <2>1, NewBody DEF Marked, IInv
  <1>5. step = Idle /\ step' = step
    BY <1>1 DEF Asks, Commands
  <1>6. step'.at # "packed"
    BY <1>5, StepsIdle
  <1>7. Writer(p)'
    BY <1>1, <1>2, <1>3, <1>4 DEF Writers, Writer, Marks
  <1> QED BY <1>2, <1>3, <1>4, <1>6, <1>7, OneWriter

LEMMA ReportWrites ==
  ASSUME IInv, Writers, NEW p \in Player, Report(p)
  PROVE  Writers'
  <1>1. PICK d \in Descriptor : /\ d.obj = desc[p].obj /\ d.amount = desc[p].amount
                                /\ d.name = Staff /\ d.str = TRUE
                                /\ desc' = [desc EXCEPT ![p] = d]
    BY ReportIs DEF IInv
  <1>2. desc'[p] = d /\ \A q \in Player \ {p} : desc'[q] = desc[q]
    BY <1>1, NewDesc DEF IInv
  <1>3. /\ ~desc[p].str /\ step = Idle /\ step' = step /\ asked' = asked /\ cut' = cut
        /\ body' = [body EXCEPT ![p].flags = body[p].flags \cup {"bugging"}]
    BY DEF Report, Commands, history
  <1>4. body[p].flags \cup {"bugging"} \in SUBSET {"mailing", "bugging"}
    BY BodyFields DEF IInv, TypeOK
  <1>5. /\ body'[p].flags = body[p].flags \cup {"bugging"}
        /\ \A q \in Player \ {p} : body'[q] = body[q]
    BY <1>3, <1>4, Flagged DEF IInv
  <1>6. Writer(p)'
    <2>2. Writer(p)
      BY DEF Writers
    <2>3. Marks(desc'[p], body'[p].flags, p \in cut')
      BY <1>1, <1>2, <1>3, <1>5, <2>2 DEF Writer, Marks
    <2> QED BY <1>1, <1>2, <1>3, <2>2, <2>3 DEF Writer
  <1>7. step'.at # "packed"
    BY <1>3, StepsIdle
  <1> QED BY <1>2, <1>3, <1>5, <1>6, <1>7, OneWriter

LEMMA CancelWrites ==
  ASSUME IInv, Writers, NEW p \in Player, Cancel(p)
  PROVE  Writers'
  <1>1. PICK d : d = Cleared(desc[p])
    OBVIOUS
  <1>2. d \in Descriptor /\ d.obj = NoThing /\ d.amount = 0 /\ d.str = FALSE
    BY <1>1, ClearedIs DEF IInv, TypeOK
  <1>3. desc' = [desc EXCEPT ![p] = d]
    BY <1>1 DEF Cancel, IInv, TypeOK
  <1>4. desc'[p] = d /\ \A q \in Player \ {p} : desc'[q] = desc[q]
    BY <1>2, <1>3, NewDesc DEF IInv
  <1>5. /\ "mailing" \in body[p].flags /\ desc[p].str /\ step = Idle /\ step' = step
        /\ body' = [body EXCEPT ![p].flags = body[p].flags \ {"mailing"}]
        /\ asked' = [asked EXCEPT ![p] = {}] /\ cut' = cut
    BY DEF Cancel, Ends
  <1>6. body[p].flags \ {"mailing"} \in SUBSET {"mailing", "bugging"}
    BY BodyFields DEF IInv, TypeOK
  <1>7. /\ body'[p].flags = body[p].flags \ {"mailing"}
        /\ \A q \in Player \ {p} : body'[q] = body[q]
    BY <1>5, <1>6, Flagged DEF IInv
  <1>8. asked'[p] = {} /\ \A q \in Player \ {p} : asked'[q] = asked[q]
    BY <1>5, NewAsked DEF IInv
  <1>9. Writer(p)'
    <2>2. Writer(p)
      BY DEF Writers
    <2>3. Marks(desc'[p], body'[p].flags, p \in cut')
      BY <1>2, <1>4, <1>5, <1>7, <2>2 DEF Writer, Marks
    <2> QED BY <1>2, <1>4, <1>8, <2>3, FitsNothing DEF Writer
  <1>10. step'.at # "packed"
    BY <1>5, StepsIdle
  <1> QED BY <1>4, <1>5, <1>7, <1>8, <1>9, <1>10, OneWriter

LEMMA EndReportWrites ==
  ASSUME IInv, Writers, NEW p \in Player, EndReport(p)
  PROVE  Writers'
  <1>1. PICK d \in Descriptor : /\ d.obj = desc[p].obj /\ d.amount = desc[p].amount
                                /\ d.str = FALSE /\ desc' = [desc EXCEPT ![p] = d]
    BY EndReportIs DEF IInv
  <1>2. desc'[p] = d /\ \A q \in Player \ {p} : desc'[q] = desc[q]
    BY <1>1, NewDesc DEF IInv
  <1>3. /\ "bugging" \in body[p].flags /\ step = Idle /\ step' = step
        /\ asked' = asked /\ cut' = cut
        /\ body' = [body EXCEPT ![p].flags = body[p].flags \ {"bugging"}]
    BY DEF EndReport, Ends, history
  <1>4. body[p].flags \ {"bugging"} \in SUBSET {"mailing", "bugging"}
    BY BodyFields DEF IInv, TypeOK
  <1>5. /\ body'[p].flags = body[p].flags \ {"bugging"}
        /\ \A q \in Player \ {p} : body'[q] = body[q]
    BY <1>3, <1>4, Flagged DEF IInv
  <1>6. Writer(p)'
    <2>2. Writer(p)
      BY DEF Writers
    <2>3. Marks(desc'[p], body'[p].flags, p \in cut')
      BY <1>1, <1>2, <1>3, <1>5, <2>2 DEF Writer, Marks
    <2> QED BY <1>1, <1>2, <1>3, <2>2, <2>3 DEF Writer
  <1>7. step'.at # "packed"
    BY <1>3, StepsIdle
  <1> QED BY <1>2, <1>3, <1>5, <1>6, <1>7, OneWriter

LEMMA StoreWrites ==
  ASSUME IInv, Writers, Store
  PROVE  Writers'
  <1>1. /\ step.at = "packed" /\ step.who \in Player /\ step' = Idle /\ cut' = cut
        /\ asked' = [asked EXCEPT ![step.who] = {}]
    BY DEF Store, IInv, Tables, Running
  <1>2. PICK p \in Player : p = step.who
    BY <1>1
  <1>3. PICK d \in Descriptor :
          /\ d.obj = NoThing /\ d.amount = 0
          /\ IF p \in Client THEN d.name = desc[p].name /\ d.str = desc[p].str ELSE d.str = FALSE
          /\ desc' = [desc EXCEPT ![p] = d]
    BY <1>2, StoreDesc
  <1>4. PICK b \in Body :
          /\ b.flags = IF p \in Client THEN body[p].flags ELSE body[p].flags \ {"mailing"}
          /\ body' = [body EXCEPT ![p] = b]
    BY <1>2, StoreBody
  <1>5. desc'[p] = d /\ \A q \in Player \ {p} : desc'[q] = desc[q]
    BY <1>3, NewDesc DEF IInv
  <1>6. body'[p] = b /\ \A q \in Player \ {p} : body'[q] = body[q]
    BY <1>4, NewBody DEF IInv
  <1>7. asked'[p] = {} /\ \A q \in Player \ {p} : asked'[q] = asked[q]
    BY <1>1, <1>2, NewAsked DEF IInv
  <1>8. Writer(p)'
    <2>1. Writer(p) /\ (p \notin Client => "mailing" \in body[p].flags)
      BY <1>1, <1>2 DEF Writers
    <2>2. Marks(desc'[p], body'[p].flags, p \in cut')
      <3>1. CASE p \in Client
        BY <1>1, <1>3, <1>4, <1>5, <1>6, <2>1, <3>1 DEF Writer, Marks
      <3>2. CASE p \notin Client
        BY <1>1, <1>3, <1>4, <1>5, <1>6, <2>1, <3>2 DEF Writer, Marks
      <3> QED BY <3>1, <3>2
    <2> QED BY <1>3, <1>5, <1>7, <2>2, FitsNothing DEF Writer
  <1>9. step'.at # "packed"
    BY <1>1 DEF Idle
  <1> QED BY <1>1, <1>5, <1>6, <1>7, <1>8, <1>9, OneWriter

LEMMA HandOverWrites ==
  ASSUME IInv, Writers, HandOver
  PROVE  Writers'
  <1>1. /\ step.who \in Player /\ UNCHANGED <<desc, asked, cut>>
        /\ step'.at \in {"idle", "asked"}
        /\ body' = [body EXCEPT ![step.who].money = body[step.who].money + step.letter.talens]
    BY HandOverIs
  <1>2. \A q \in Player : body'[q].flags = body[q].flags
    <2>1. TAKE q \in Player
    <2>2. body[q] \in Body /\ body \in [Player -> Body]
      BY DEF IInv, TypeOK
    <2> QED BY <1>1, <2>2 DEF Body
  <1> QED BY <1>1, <1>2, SameWriters DEF IInv, Tables

LEMMA SubmitWrites ==
  ASSUME IInv, Writers, NEW p \in Player, Submit(p)
  PROVE  Writers'
  <1>1. /\ "mailing" \in body[p].flags /\ desc[p].str
        /\ step'.who = p /\ step'.letter.to = desc[p].name
        /\ UNCHANGED <<body, desc, asked, cut>>
    BY DEF Submit, Ends, Pack, history
  <1>2. \A q \in Player : Writer(q)'
    BY <1>1 DEF Writers, Writer
  <1>3. desc[p].name = Staff => p \in cut
    BY <1>1 DEF Writers, Writer, Marks
  <1> QED BY <1>1, <1>2, <1>3 DEF Writers

LEMMA SubmitWindowWrites ==
  ASSUME IInv, Writers, NEW p \in Player, NEW to \in Player, SubmitWindow(p, to)
  PROVE  Writers'
  <1>1. /\ p \in Client /\ step'.who = p /\ step'.letter.to = to
        /\ UNCHANGED <<body, asked, cut>> /\ desc' = [desc EXCEPT ![p].windows = @ \ {to}]
    BY DEF SubmitWindow, Pack, history
  <1>2. PICK d \in Descriptor :
          /\ d.name = desc[p].name /\ d.str = desc[p].str
          /\ desc' = [desc EXCEPT ![p] = d]
    BY <1>1, Unwindow DEF IInv
  <1>3. \A q \in Player : Writer(q)'
    <2>1. desc'[p] = d /\ \A q \in Player \ {p} : desc'[q] = desc[q]
      BY <1>2, NewDesc DEF IInv
    <2> QED BY <1>1, <1>2, <2>1 DEF Writers, Writer, Marks
  <1>4. to # Staff
    BY NameAssumption
  <1> QED BY <1>1, <1>3, <1>4 DEF Writers

LEMMA CloseWindowWrites ==
  ASSUME IInv, Writers, NEW p \in Player, NEW to \in Player, CloseWindow(p, to)
  PROVE  Writers'
  <1>1. /\ step = Idle /\ UNCHANGED <<body, step, asked, cut>>
        /\ desc' = [desc EXCEPT ![p].windows = @ \ {to}]
    BY DEF CloseWindow, tables, history
  <1>2. PICK d \in Descriptor :
          /\ d.obj = desc[p].obj /\ d.amount = desc[p].amount
          /\ d.name = desc[p].name /\ d.str = desc[p].str
          /\ desc' = [desc EXCEPT ![p] = d]
    BY <1>1, Unwindow DEF IInv
  <1>3. desc'[p] = d /\ \A q \in Player \ {p} : desc'[q] = desc[q]
    BY <1>2, NewDesc DEF IInv
  <1>4. Writer(p)'
    BY <1>1, <1>2, <1>3 DEF Writers, Writer, Marks
  <1>5. step'.at # "packed"
    BY <1>1, StepsIdle
  <1> QED BY <1>1, <1>3, <1>4, <1>5, OneWriter

(* ~Descriptor() empties the descriptor. *)
LEMMA DisconnectsWrites ==
  ASSUME IInv, Writers, NEW p \in Player, Disconnects(p), step = Idle,
         body[p].flags = body'[p].flags, \A q \in Player \ {p} : body'[q] = body[q]
  PROVE  Writers'
  <1>1. /\ step' = step /\ desc' = [desc EXCEPT ![p] = Fresh] /\ asked' = [asked EXCEPT ![p] = {}]
        /\ cut' = IF desc[p].str THEN cut \cup {p} ELSE cut
    BY DEF Disconnects
  <1>2. desc'[p] = Fresh /\ \A q \in Player \ {p} : desc'[q] = desc[q]
    BY <1>1, ConstantTypes, NewDesc DEF IInv
  <1>3. asked'[p] = {} /\ \A q \in Player \ {p} : asked'[q] = asked[q]
    BY <1>1, NewAsked DEF IInv
  <1>4. Writer(p)'
    <2>2. Writer(p)
      BY DEF Writers
    <2>3. Marks(desc'[p], body'[p].flags, p \in cut')
      BY <1>1, <2>2 DEF Writer, Marks
    <2> QED BY <1>2, <1>3, <2>3, FitsNothing DEF Writer, Fresh
  <1>5. step'.at # "packed"
    BY <1>1, StepsIdle
  <1> QED BY <1>1, <1>2, <1>3, <1>4, <1>5, OneWriter

LEMMA LoseLinkWrites ==
  ASSUME IInv, Writers, NEW p \in Player, LoseLink(p)
  PROVE  Writers'
  <1>1. body'[p].flags = body[p].flags /\ \A q \in Player \ {p} : body'[q] = body[q]
    BY DEF LoseLink, IInv, TypeOK, Body
  <1> QED BY <1>1, DisconnectsWrites DEF LoseLink

LEMMA HangUpWrites ==
  ASSUME IInv, Writers, NEW p \in Player, HangUp(p)
  PROVE  Writers'
  BY DisconnectsWrites DEF HangUp

LEMMA ReconnectWrites ==
  ASSUME IInv, Writers, NEW p \in Player, Reconnect(p)
  PROVE  Writers'
  <1>1. step = Idle /\ step' = step /\ UNCHANGED <<desc, asked, cut>>
    BY DEF Reconnect, history
  <1>2. \A q \in Player : body'[q].flags = body[q].flags
    BY DEF Reconnect, IInv, TypeOK, Body
  <1> QED BY <1>1, <1>2, SameWriters DEF IInv, Tables

LEMMA LeavesThingsWrites ==
  ASSUME IInv, Writers, NEW p \in Player, NEW where, LeavesThings(p, where), step = Idle
  PROVE  Writers'
  <1>1. /\ step' = step /\ asked' = asked /\ cut' = cut \ {p}
        /\ desc' = [desc EXCEPT ![p] = LeftDesc(p)]
        /\ body' = [body EXCEPT ![p] = [in |-> "out", money |-> 0, flags |-> {}]]
    BY DEF LeavesThings, LeftDesc, IInv, TypeOK
  <1>2. desc'[p] = LeftDesc(p) /\ \A q \in Player \ {p} : desc'[q] = desc[q]
    BY <1>1, LeftDescIs, NewDesc DEF IInv
  <1>3. body'[p].flags = {} /\ \A q \in Player \ {p} : body'[q] = body[q]
    BY <1>1 DEF IInv, TypeOK
  <1>4. Writer(p)'
    <2>2. Writer(p)
      BY DEF Writers
    <2>3. p \notin Client => desc'[p].obj = desc[p].obj /\ desc'[p].amount = desc[p].amount
      BY <1>2, LeftDescIs DEF IInv
    <2>4. Marks(desc'[p], body'[p].flags, p \in cut')
      BY <1>3 DEF Marks
    <2> QED BY <1>1, <2>2, <2>3, <2>4 DEF Writer
  <1>5. step'.at # "packed"
    BY <1>1, StepsIdle
  <1> QED BY <1>1, <1>2, <1>3, <1>4, <1>5, OneWriter

LEMMA LoginWrites ==
  ASSUME IInv, Writers, NEW p \in Player, Login(p)
  PROVE  Writers'
  <1>1. /\ step = Idle /\ step' = step /\ UNCHANGED <<desc, asked, cut>>
        /\ body' = [body EXCEPT ![p] = [in |-> "linked", money |-> Purse[p], flags |-> {}]]
    BY DEF Login, history
  <1>2. body'[p].flags = {} /\ \A q \in Player \ {p} : body'[q] = body[q]
    BY <1>1 DEF IInv, TypeOK
  <1>3. Writer(p)'
    BY <1>1, <1>2 DEF Writers, Writer, Marks
  <1>4. step'.at # "packed"
    BY <1>1, StepsIdle
  <1> QED BY <1>1, <1>2, <1>3, <1>4, OneWriter

LEMMA CrashWrites ==
  ASSUME Crash
  PROVE  Writers'
  <1>1. \A p \in Player : Writer(p)'
    BY FitsNothing DEF Crash, Writer, Marks, Fresh
  <1>2. step'.at # "packed"
    BY DEF Crash, Idle
  <1> QED BY <1>1, <1>2 DEF Writers

LEMMA StealTalensWrites ==
  ASSUME IInv, Writers, NEW p \in Player, NEW from \in Player, StealTalens(p, from)
  PROVE  Writers'
  <1>1. \A q \in Player : body'[q].flags = body[q].flags
    BY StealTalensIs DEF IInv
  <1>2. step' = step /\ UNCHANGED <<desc, asked, cut>>
    BY DEF StealTalens, tables, history
  <1> QED BY <1>1, <1>2, SameWriters DEF IInv, Tables

LEMMA NextWrites ==
  ASSUME IInv, Writers, [Next]_vars
  PROVE  Writers'
  <1>1. CASE Store \/ HandOver
    BY <1>1, StoreWrites, HandOverWrites
  <1>2. CASE ReadDelete \/ NoEnvelope
    <2>1. UNCHANGED <<body, desc, asked, cut>>
      BY <1>2, ReadDeleteIs DEF NoEnvelope, history
    <2>2. step'.at # "packed"
      BY <1>2, ReadDeleteIs DEF NoEnvelope, Idle
    <2> QED BY <2>1, <2>2, QuietWrites
  <1>3. ASSUME NEW p \in Player, Writes(p)
        PROVE  Writers'
    BY <1>3, OrderWrites, OrderWindowWrites, SubmitWindowWrites, CloseWindowWrites, ReportWrites,
       SubmitWrites, CancelWrites, EndReportWrites DEF Writes
  <1>4. ASSUME NEW p \in Player, Takes(p)
        PROVE  Writers'
    <2>1. ASSUME NEW from \in Player, NEW t \in Thing, Steal(p, from, t)
          PROVE  UNCHANGED <<body, desc, asked, cut, step>>
      BY <2>1 DEF Steal, tables, history
    <2>2. ASSUME NEW t \in Thing, Get(p, t)
          PROVE  UNCHANGED <<body, desc, asked, cut, step>>
      BY <2>2 DEF Get, tables, history
    <2> QED BY <1>4, <2>1, <2>2, QuietWrites, StealTalensWrites DEF Takes
  <1>5. ASSUME NEW p \in Player, Receive(p) \/ DeleteMail(p)
        PROVE  Writers'
    <2>1. UNCHANGED <<body, desc, asked, cut>> /\ (step'.at # "packed" \/ step' = step)
      BY <1>5 DEF Receive, DeleteMail, tables, history
    <2> QED BY <2>1, QuietWrites
  <1>6. ASSUME NEW p \in Player, LoseLink(p) \/ HangUp(p) \/ Reconnect(p) \/ Login(p)
        PROVE  Writers'
    BY <1>6, LoseLinkWrites, HangUpWrites, ReconnectWrites, LoginWrites
  <1>7. ASSUME NEW p \in Player, Die(p) \/ Leave(p)
        PROVE  Writers'
    BY <1>7, LeavesThingsWrites DEF Die, Leave, Commands
  <1>8. ASSUME NEW t \in Thing, Rot(t)
        PROVE  Writers'
    <2>1. UNCHANGED <<body, desc, asked, cut, step>>
      BY <1>8 DEF Rot, tables, history
    <2> QED BY <2>1, QuietWrites
  <1>9. ASSUME NEW l \in letters, Discard(l)
        PROVE  Writers'
    <2>1. UNCHANGED <<body, desc, asked, cut, step>>
      BY <1>9 DEF Discard, history
    <2> QED BY <2>1, QuietWrites
  <1>10. CASE Crash
    BY <1>10, CrashWrites
  <1>11. CASE UNCHANGED vars
    <2>1. UNCHANGED <<body, desc, asked, cut, step>>
      BY <1>11 DEF vars
    <2> QED BY <2>1, QuietWrites
  <1> QED BY <1>1, <1>2, <1>3, <1>4, <1>5, <1>6, <1>7, <1>8, <1>9, <1>10, <1>11 DEF Next, Steps

LEMMA SpecWriters == Spec => []Writers
<1>1. IInv /\ Writers /\ [Next]_vars => Writers'
  BY NextWrites
<1>2. QED
  BY <1>1, InitWriters, SpecIInv, PTL DEF Spec

(* PostsWhatWasOrdered: nothing of what was sent or cancelled, or ordered  *)
(* on another connection, goes along with a letter, whoever steals, rots,  *)
(* kills or cuts connections.                                              *)
THEOREM PostCorrect == Spec => []PostsWhatWasOrdered
<1>1. Writers => PostsWhatWasOrdered
  BY DEF Writers, Writer, Fits, PostsWhatWasOrdered
<1>2. QED
  BY <1>1, SpecWriters, PTL

(* ReportsAreNotMailed: sstring_add() takes the branch of the report, also *)
(* for who writes letters and reports by turns, as long as its link lasts  *)
(* while it writes.                                                        *)
THEOREM ReportCorrect == Spec => []ReportsAreNotMailed
<1>1. Writers => ReportsAreNotMailed
  BY DEF Writers, ReportsAreNotMailed
<1>2. QED
  BY <1>1, SpecWriters, PTL

-----------------------------------------------------------------------------
(***************************************************************************)
(* Why a command comes to its end, short of the fairness of the game's     *)
(* thread: the queries and deliveries that are still to come.              *)
(***************************************************************************)
ToCome(at, n) == CASE at = "idle" -> 0
                   [] at = "packed" -> 1
                   [] at = "asked" -> IF n = 0 THEN 2 ELSE 2 * n
                   [] at = "opened" -> 2 * n + 1
Toil == ToCome(step.at, Cardinality(For(step.who)))

(* The thread's own steps bring the command nearer its end; what the web   *)
(* pages delete meanwhile, and a crash, do not keep it from it.            *)
CommandDescends ==
  /\ [][step # Idle => Toil' \in 0 .. (Toil - 1)]_step
  /\ [][step # Idle => Toil' \in 0 .. Toil]_vars

LEMMA ToComeIs ==
  ASSUME NEW n \in Nat
  PROVE  /\ ToCome("idle", n) = 0 /\ ToCome("packed", n) = 1
         /\ ToCome("asked", n) = IF n = 0 THEN 2 ELSE 2 * n
         /\ ToCome("opened", n) = 2 * n + 1
  BY DEF ToCome

(* There are only ever so many letters. *)
Few == IsFiniteSet(letters)

LEMMA InitFew == Init => Few
  BY FS_EmptySet DEF Init, Few

LEMMA NextFew ==
  ASSUME Few, [Next]_vars
  PROVE  Few'
  <1>1. CASE Store
    BY <1>1, FS_AddElement DEF Few, Store
  <1>2. CASE ReadDelete
    <2>1. letters' \subseteq letters
      BY <1>2 DEF ReadDelete
    <2> QED BY <2>1, FS_Subset DEF Few
  <1>3. CASE UNCHANGED letters
    BY <1>3 DEF Few
  <1>4. ASSUME NEW p \in Player, DeleteMail(p) PROVE Few'
    <2>1. letters' \subseteq letters
      BY <1>4 DEF DeleteMail
    <2> QED BY <2>1, FS_Subset DEF Few
  <1>5. ASSUME NEW l \in letters, Discard(l) PROVE Few'
    <2>1. letters' \subseteq letters
      BY <1>5 DEF Discard
    <2> QED BY <2>1, FS_Subset DEF Few
  <1>6. CASE HandOver \/ NoEnvelope \/ Crash \/ UNCHANGED vars
    <2>1. UNCHANGED letters
      BY <1>6 DEF HandOver, NoEnvelope, Crash, vars, tables
    <2> QED BY <2>1, <1>3
  <1>7. ASSUME NEW p \in Player, Writes(p) PROVE UNCHANGED letters
    BY <1>7 DEF Writes, Order, OrderWindow, SubmitWindow, CloseWindow, Asks, Pack, Report, Submit,
                Cancel, EndReport, tables
  <1>8. ASSUME NEW p \in Player,
               \/ Takes(p) \/ Receive(p) \/ LoseLink(p) \/ Reconnect(p) \/ Die(p) \/ Leave(p)
               \/ HangUp(p) \/ Login(p)
        PROVE  UNCHANGED letters
    BY <1>8 DEF Takes, StealTalens, Steal, Get, Receive, LoseLink, HangUp, Disconnects, Reconnect,
                Die, Leave, LeavesThings, Login, tables
  <1>9. ASSUME NEW t \in Thing, Rot(t) PROVE UNCHANGED letters
    BY <1>9 DEF Rot, tables
  <1> QED
    BY <1>1, <1>2, <1>3, <1>4, <1>5, <1>6, <1>7, <1>8, <1>9 DEF Next, Steps

LEMMA FewerFor ==
  ASSUME NEW p, Few, letters' \subseteq letters
  PROVE  /\ Cardinality(For(p)) \in Nat /\ Cardinality(For(p)') \in Nat
         /\ Cardinality(For(p)') <= Cardinality(For(p))
  <1>1. For(p) \subseteq letters /\ For(p)' \subseteq For(p)
    BY DEF For
  <1> QED BY <1>1, FS_Subset, FS_CardinalityType DEF Few

(* What the thread does next. *)
LEMMA StepsDescend ==
  ASSUME IInv, Few, Steps
  PROVE  Toil' \in 0 .. (Toil - 1)
  <1> DEFINE n == Cardinality(For(step.who))
             m == Cardinality(For(step.who))'
  <1> USE DEF IInv, TypeOK, Command
  <1>1. CASE Store
    <2>1. step.at = "packed" /\ step'.at = "idle"
      BY <1>1 DEF Store, Idle
    <2>2. IsFiniteSet(letters')
      BY <1>1, FS_AddElement DEF Store, Few
    <2>4. n \in Nat /\ m \in Nat
      BY <2>2, FS_Subset, FS_CardinalityType DEF For, Few
    <2> QED BY <2>1, <2>4, ToComeIs DEF Toil
  <1>2. CASE ReadDelete
    <2>1. step.at = "asked" /\ step'.at = "opened" /\ step'.who = step.who
      BY <1>2 DEF ReadDelete
    <2>2. CASE For(step.who) = {}
      <3>1. For(step.who)' = {}
        BY <1>2, <2>2 DEF ReadDelete, For
      <3>2. n = 0 /\ m = 0
        BY <2>2, <3>1, FS_EmptySet
      <3> QED BY <2>1, <3>2, ToComeIs DEF Toil
    <2>3. CASE For(step.who) # {}
      <3>1. PICK l \in For(step.who) : letters' = letters \ {l}
        BY <1>2, <2>3 DEF ReadDelete
      <3>2. For(step.who)' = For(step.who) \ {l} /\ IsFiniteSet(For(step.who))
        BY <2>1, <3>1, FS_Subset DEF For, Few
      <3>3. n \in Nat /\ n # 0
        BY <3>2, <2>3, FS_CardinalityType, FS_EmptySet
      <3>4. Cardinality(For(step.who) \ {l}) = n - 1
        <4>1. PICK S : S = For(step.who)
          OBVIOUS
        <4>2. l \in S /\ IsFiniteSet(S)
          BY <3>1, <3>2, <4>1
        <4>3. Cardinality(S \ {l}) = Cardinality(S) - 1
          BY ONLY <4>2, FS_RemoveElement
        <4> QED BY <4>1, <4>3
      <3>5. m = n - 1
        BY <3>2, <3>4
      <3> QED BY <2>1, <3>3, <3>5, ToComeIs DEF Toil
    <2> QED BY <2>2, <2>3
  <1>3. CASE HandOver \/ NoEnvelope
    <2>1. /\ step.at = "opened" /\ UNCHANGED letters
          /\ step' = Idle \/ (step'.at = "asked" /\ step'.who = step.who /\ For(step.who) # {})
      <3>1. CASE HandOver
        <4>1. UNCHANGED letters /\ step.at = "opened"
          BY <3>1 DEF HandOver
        <4>2. step' = IF For(step.who) = {} THEN Idle ELSE [step EXCEPT !.at = "asked", !.letter = NoLetter]
          BY <3>1 DEF HandOver
        <4> QED BY <4>1, <4>2
      <3>2. CASE NoEnvelope
        BY <3>2 DEF NoEnvelope, tables
      <3> QED BY <1>3, <3>1, <3>2
    <2>2. IsFiniteSet(For(step.who)) /\ For(step.who)' \subseteq letters
      BY <2>1, FS_Subset DEF For, Few
    <2>3. n \in Nat /\ m \in Nat /\ (For(step.who) # {} => n # 0)
      BY <2>2, FS_CardinalityType, FS_EmptySet, FS_Subset DEF Few
    <2>4. CASE step' = Idle
      <3>1. step'.at = "idle"
        BY <2>4 DEF Idle
      <3> QED BY <2>1, <2>3, <3>1, ToComeIs DEF Toil
    <2>5. CASE step'.at = "asked" /\ step'.who = step.who /\ For(step.who) # {}
      <3>1. m = n
        BY <2>1, <2>5 DEF For
      <3> QED BY <2>1, <2>3, <2>5, <3>1, ToComeIs DEF Toil
    <2> QED BY <2>1, <2>4, <2>5
  <1> QED BY <1>1, <1>2, <1>3 DEF Steps

(* What happens between two of its steps. *)
LEMMA ElseSteady ==
  ASSUME IInv, Few, [Next]_vars, ~Steps, step # Idle
  PROVE  /\ Toil' \in 0 .. Toil
         /\ step' # step => Toil' \in 0 .. (Toil - 1)
  <1> DEFINE n == Cardinality(For(step.who))
             m == Cardinality(For(step.who))'
  <1>1. step.at \in {"packed", "asked", "opened"}
    BY DEF IInv, TypeOK, Command, Tables, Running
  <1>2. IsFiniteSet(letters')
    BY NextFew DEF Few
  <1>3. n \in Nat /\ m \in Nat
    BY <1>2, FS_Subset, FS_CardinalityType DEF For, Few
  <1>4. Toil \in Nat \ {0}
    BY <1>1, <1>3, ToComeIs DEF Toil
  <1>5. CASE Crash
    <2>1. step'.at = "idle"
      BY <1>5 DEF Crash, Idle
    <2>2. Toil' = 0
      BY <2>1, <1>3, ToComeIs DEF Toil
    <2> QED BY <1>4, <2>2
  <1>6. CASE letters' \subseteq letters /\ step' = step
    <2>1. m <= n
      BY <1>6, FewerFor DEF For
    <2> QED BY <1>1, <1>3, <1>6, <2>1, ToComeIs DEF Toil
  <1>7. ~\E p \in Player : Writes(p)
    <2>1. ASSUME NEW p, NEW to PROVE ~Order(p, to) /\ ~OrderWindow(p, to)
      <3>1. \A ware, imm : Asks(p, ware, imm) => step = Idle
        BY Zenon DEF Asks, Commands
      <3>2. Order(p, to) \/ OrderWindow(p, to) => \E ware, imm : Asks(p, ware, imm)
        BY Zenon DEF Order, OrderWindow
      <3> QED BY <3>1, <3>2
    <2>2. \A p, to : ~SubmitWindow(p, to) /\ ~CloseWindow(p, to)
      BY DEF SubmitWindow, CloseWindow
    <2>3. \A p : ~Report(p) /\ ~Submit(p) /\ ~Cancel(p) /\ ~EndReport(p)
      BY DEF Report, Submit, Cancel, EndReport, Commands, Ends
    <2> QED BY <2>1, <2>2, <2>3 DEF Writes
  <1>8. ~\E p \in Player : Takes(p) \/ Receive(p)
    BY DEF Takes, StealTalens, Steal, Get, Receive, Commands
  <1>9. ~\E p \in Player : \/ LoseLink(p) \/ Reconnect(p) \/ Die(p) \/ Leave(p)
                           \/ HangUp(p) \/ Login(p) \/ DeleteMail(p)
    BY DEF LoseLink, Reconnect, Die, Leave, HangUp, Login, DeleteMail, Commands
  <1>10. ~\E t \in Thing : Rot(t)
    BY DEF Rot
  <1>11. CASE UNCHANGED vars
    BY <1>6, <1>11 DEF vars, tables
  <1>12. ASSUME NEW l \in letters, Discard(l) PROVE letters' \subseteq letters /\ step' = step
    BY <1>12 DEF Discard
  <1> QED
    BY <1>5, <1>6, <1>7, <1>8, <1>9, <1>10, <1>11, <1>12 DEF Next

(* CommandDescends: whoever writes or asks for mail, the queries and       *)
(* deliveries still to come get fewer with every step of the game's        *)
(* thread, and nothing adds to them: no letter can be added to a reader's  *)
(* while it takes its own (the while of postmasterReceiveMail()).          *)
THEOREM CommandsDescend == Spec => CommandDescends
<1>1. Spec => []Few
  BY InitFew, NextFew, PTL DEF Spec
<1>2. IInv /\ Few /\ [Next]_vars
        => /\ [step # Idle => Toil' \in 0 .. (Toil - 1)]_step
           /\ [step # Idle => Toil' \in 0 .. Toil]_vars
  <2> SUFFICES ASSUME IInv, Few, [Next]_vars, step # Idle
               PROVE  /\ Toil' \in 0 .. Toil
                      /\ step' # step => Toil' \in 0 .. (Toil - 1)
    OBVIOUS
  <2>1. CASE Steps
    <3>1. Toil' \in 0 .. (Toil - 1)
      BY <2>1, StepsDescend
    <3>2. IsFiniteSet(For(step.who))
      BY FS_Subset DEF For, Few
    <3>3. step.at \in {"idle", "packed", "asked", "opened"}
      BY DEF IInv, TypeOK, Command
    <3>4. Cardinality(For(step.who)) \in Nat
      BY <3>2, FS_CardinalityType
    <3>5. Toil \in Nat
      BY <3>3, <3>4, ToComeIs DEF Toil
    <3> QED BY <3>1, <3>5
  <2> QED BY <2>1, ElseSteady
<1>3. QED
  BY <1>1, <1>2, SpecIInv, PTL DEF Spec, CommandDescends
=============================================================================
