--------------------------- MODULE InputLoopProofs ---------------------------
(***************************************************************************)
(* Proofs about InputLoop: the walks of a pulse over descriptor_list come  *)
(* to every connection once, whatever is deleted meanwhile.                *)
(***************************************************************************)
EXTENDS InputLoop, Lists, FiniteSetTheorems

(* The state but for the walk at hand. *)
Types ==
  /\ list \in Seq(Connection)
  /\ IsInjective(list)
  /\ next \in Connection \cup {Nobody}
  /\ playing \subseteq Range(list)
  /\ lines \in [Connection -> 0..MaxLines]
  /\ wait \in [Connection -> 1..MaxWait]

Walking == {"except", "read", "process", "output"}
InTurn == {"command", "forget"}

(* A walk that is at n. *)
At(n) == n \in Range(list) \cup {Nobody} /\ due = From(list, n)

(* The inductive invariant: who has its turn is still there. *)
IInv ==
  /\ Types
  /\ point \in Connection \cup {Nobody}
  /\ due \subseteq Connection
  /\ phase \in Walking \cup InTurn \cup {"rest"}
  /\ phase \in Walking => At(point)
  /\ phase \in InTurn => At(next)
  /\ phase = "command" => point \in Range(list)

LEMMA InvImplies == IInv => TypeOK /\ InputInOrder
BY DEF IInv, Types, TypeOK, InputInOrder, At, Walking, InTurn

LEMMA RangeOfList ==
  ASSUME NEW s \in Seq(Connection)
  PROVE  Range(s) \subseteq Connection
<1> SUFFICES ASSUME NEW e \in Range(s) PROVE e \in Connection
  OBVIOUS
<1>1. PICK i \in 1..Len(s) : s[i] = e
  BY RangeMember
<1> QED BY <1>1, ElementOfSeq

LEMMA FromInRange ==
  ASSUME NEW s \in Seq(Connection), NEW n
  PROVE  From(s, n) \subseteq Range(s)
<1> SUFFICES ASSUME NEW e \in From(s, n) PROVE e \in Range(s)
  OBVIOUS
<1>1. PICK i \in 1..Len(s) : s[i] = e
  BY FromMember
<1> QED BY <1>1, RangeMember

(* Behind the connection at hand is the rest of the walk. *)
LEMMA BehindWalk ==
  ASSUME Types, NEW c \in Range(list)
  PROVE  /\ Behind(c) \in (Range(list) \ {c}) \cup {Nobody}
         /\ Behind(c) \in Connection \cup {Nobody}
         /\ Behind(c) # c
         /\ From(list, Behind(c)) = From(list, c) \ {c}
<1>1. /\ Behind(c) \in (Range(list) \ {c}) \cup {Nobody}
      /\ From(list, Behind(c)) = From(list, c) \ {c}
  BY NextWalk, NobodyAssumption DEF Behind, Types
<1>2. Range(list) \subseteq Connection
  BY RangeOfList DEF Types
<1> QED BY <1>1, <1>2, NobodyAssumption

(* A walk that begins has everybody to come to. *)
LEMMA BeginAt ==
  ASSUME NEW s \in Seq(Connection), NEW name, BeginWalk(name, s)
  PROVE  /\ point' \in Range(s) \cup {Nobody}
         /\ point' \in Connection \cup {Nobody}
         /\ due' \subseteq Connection
         /\ due' = From(s, point')
         /\ phase' = name
<1>1. point' = First(s, Nobody) /\ due' = Range(s) /\ phase' = name
  BY DEF BeginWalk
<1>2. Range(s) \subseteq Connection
  BY RangeOfList
<1>3. CASE s = <<>>
  <2>1. point' = Nobody
    BY <1>1, <1>3 DEF First
  <2>2. Range(s) = {}
    <3> SUFFICES ASSUME NEW e \in Range(s) PROVE FALSE
      OBVIOUS
    <3>1. PICK i \in 1..Len(s) : s[i] = e
      BY RangeMember
    <3> QED BY <3>1, <1>3
  <2>3. From(s, Nobody) = {}
    BY FromNull, NobodyAssumption
  <2> QED BY <1>1, <1>2, <2>1, <2>2, <2>3
<1>4. CASE s # <<>>
  <2>1. point' = s[1]
    BY <1>1, <1>4 DEF First
  <2> QED BY <1>1, <1>2, <1>4, <2>1, FromFirst
<1> QED BY <1>3, <1>4

(* ~Descriptor() keeps any walk: that of next_to_process, and that of a    *)
(* pointer to somebody else.                                               *)
LEMMA DeleteWalk ==
  ASSUME Types, NEW c \in Range(list), NEW n \in Connection \cup {Nobody},
         Delete(c, n)
  PROVE  /\ Types'
         /\ Range(list') = Range(list) \ {c}
         /\ \A m : m # c => From(list', m) = From(list, m) \ {c}
         /\ due' = due \ {c}
         /\ n \in Range(list) \cup {Nobody} =>
              /\ next' \in Range(list') \cup {Nobody}
              /\ From(list', next') = From(list, n) \ {c}
<1>1. c \in Connection /\ c # Nobody
  BY RangeOfList, NobodyAssumption DEF Types
<1>2. /\ list' \in Seq(Connection)
      /\ IsInjective(list')
      /\ Range(list') = Range(list) \ {c}
      /\ \A m : m # c => From(list', m) = From(list, m) \ {c}
  BY RemoveWalk DEF Delete, Types
<1>3. next' = IF n = c THEN Behind(c) ELSE n
  BY DEF Delete, Past
<1>4. /\ Behind(c) \in (Range(list) \ {c}) \cup {Nobody}
      /\ Behind(c) \in Connection \cup {Nobody}
      /\ Behind(c) # c
      /\ From(list, Behind(c)) = From(list, c) \ {c}
  BY BehindWalk
<1>5. Types'
  <2>1. next' \in Connection \cup {Nobody}
    BY <1>3, <1>4
  <2>2. playing' \subseteq Range(list')
    BY <1>2 DEF Delete, Types
  <2>3. lines' \in [Connection -> 0..MaxLines]
    BY <1>1, BoundAssumption DEF Delete, Types
  <2>4. wait' \in [Connection -> 1..MaxWait]
    BY <1>1, BoundAssumption DEF Delete, Types
  <2> QED BY <1>2, <2>1, <2>2, <2>3, <2>4 DEF Types
<1>6. ASSUME n \in Range(list) \cup {Nobody}
      PROVE  /\ next' \in Range(list') \cup {Nobody}
             /\ From(list', next') = From(list, n) \ {c}
  <2>1. CASE n = c
    <3>1. next' = Behind(c)
      BY <1>3, <2>1
    <3>2. From(list', Behind(c)) = From(list, Behind(c)) \ {c}
      BY <1>2, <1>4
    <3> QED BY <1>2, <1>4, <2>1, <3>1, <3>2
  <2>2. CASE n # c
    <3>1. next' = n
      BY <1>3, <2>2
    <3> QED BY <1>2, <1>6, <2>2, <3>1
  <2> QED BY <2>1, <2>2
<1>7. due' = due \ {c}
  BY DEF Delete
<1> QED BY <1>2, <1>5, <1>6, <1>7

(* The death of a player keeps the walk of next_to_process. *)
LEMMA BodyWalk ==
  ASSUME Types, NEW c \in Range(list), next \in Range(list) \cup {Nobody},
         due = From(list, next), LosesBody(c)
  PROVE  /\ Types'
         /\ Range(list) \ {c} \subseteq Range(list')
         /\ At(next)'
<1>1. CASE c \in Client
  <2>1. Delete(c, next)
    BY <1>1 DEF LosesBody
  <2>2. next \in Connection \cup {Nobody}
    BY DEF Types
  <2>3. /\ Types'
        /\ Range(list') = Range(list) \ {c}
        /\ due' = due \ {c}
        /\ next' \in Range(list') \cup {Nobody}
        /\ From(list', next') = From(list, next) \ {c}
    BY <2>1, <2>2, DeleteWalk
  <2> QED BY <2>3 DEF At
<1>2. CASE c \notin Client
  <2>1. /\ playing' = playing \ {c}
        /\ UNCHANGED <<list, next, lines, wait, due>>
    BY <1>2 DEF LosesBody
  <2>2. Types'
    BY <2>1 DEF Types
  <2> QED BY <2>1, <2>2 DEF At
<1> QED BY <1>1, <1>2

-----------------------------------------------------------------------------
LEMMA InitInv == Init => IInv
<1> SUFFICES ASSUME Init PROVE IInv
  OBVIOUS
<1>1. list = <<>> /\ playing = {} /\ due = {} /\ phase = "rest"
      /\ next = Nobody /\ point = Nobody
  BY DEF Init
<1>2. list \in Seq(Connection) /\ IsInjective(list)
  <2>1. list \in Seq(Connection)
    BY <1>1
  <2>2. \A i, j \in 1..Len(list) : list[i] = list[j] => i = j
    BY <1>1
  <2> QED BY <2>1, <2>2, PlaceInjective
<1>3. lines \in [Connection -> 0..MaxLines] /\ wait \in [Connection -> 1..MaxWait]
  BY BoundAssumption DEF Init
<1> QED BY <1>1, <1>2, <1>3 DEF IInv, Types, Walking, InTurn

(* The walks that go on. *)
LEMMA GoOnInv ==
  ASSUME IInv, phase \in Walking, GoOn, list' = list, phase' = phase,
         playing' = playing, lines' \in [Connection -> 0..MaxLines],
         wait' \in [Connection -> 1..MaxWait]
  PROVE  IInv'
<1>1. point \in Range(list) /\ due = From(list, point) /\ Types
  BY NobodyAssumption DEF IInv, At, GoOn
<1>2. /\ next' = Behind(point) /\ point' = Behind(point)
      /\ due' = due \ {point}
  BY DEF GoOn
<1>3. /\ Behind(point) \in Range(list) \cup {Nobody}
      /\ Behind(point) \in Connection \cup {Nobody}
      /\ From(list, Behind(point)) = From(list, point) \ {point}
  BY <1>1, BehindWalk
<1>4. Types'
  BY <1>1, <1>2, <1>3 DEF Types
<1>5. At(point)'
  BY <1>1, <1>2, <1>3 DEF At
<1>6. due' \subseteq Connection /\ point' \in Connection \cup {Nobody}
  BY <1>2, <1>3 DEF IInv
<1>7. phase' \in Walking /\ phase' \notin InTurn /\ phase' # "command"
  BY DEF Walking, InTurn
<1> QED BY <1>4, <1>5, <1>6, <1>7 DEF IInv

(* The connection at hand is deleted and the walk goes on with what        *)
(* next_to_process, or next_d, is then.                                    *)
LEMMA DeleteAtHandInv ==
  ASSUME IInv, point \in Range(list), NEW n \in Range(list) \cup {Nobody},
         Delete(point, n), due \ {point} = From(list, n) \ {point},
         point' = next', phase' \in Walking
  PROVE  IInv'
<1>1. Types /\ n \in Connection \cup {Nobody}
  BY RangeOfList DEF IInv, Types
<1>2. /\ Types'
      /\ due' = due \ {point}
      /\ next' \in Range(list') \cup {Nobody}
      /\ From(list', next') = From(list, n) \ {point}
  BY <1>1, DeleteWalk
<1>3. At(point)'
  BY <1>2 DEF At
<1>4. due' \subseteq Connection /\ point' \in Connection \cup {Nobody}
  BY <1>2 DEF IInv, Types
<1>5. phase' \notin InTurn /\ phase' # "command"
  BY DEF Walking, InTurn
<1> QED BY <1>2, <1>3, <1>4, <1>5 DEF IInv

-----------------------------------------------------------------------------
LEMMA BeginInv ==
  ASSUME IInv, Select \/ \E c \in Connection : Accept(c)
  PROVE  IInv'
<1>1. CASE Select
  <2>1. /\ BeginWalk("except", list)
        /\ UNCHANGED <<list, next, playing, lines, wait>>
    BY <1>1 DEF Select
  <2>2. list \in Seq(Connection)
    BY DEF IInv, Types
  <2>3. /\ point' \in Range(list) \cup {Nobody}
        /\ point' \in Connection \cup {Nobody}
        /\ due' \subseteq Connection
        /\ due' = From(list, point')
        /\ phase' = "except"
    BY <2>1, <2>2, BeginAt
  <2> QED BY <2>1, <2>3 DEF IInv, Types, At, Walking, InTurn
<1>2. ASSUME NEW c \in Connection, Accept(c) PROVE IInv'
  <2> DEFINE s == <<c>> \o list
  <2>1. /\ c \notin Range(list) /\ list' = s
        /\ BeginWalk("except", s)
        /\ UNCHANGED <<next, playing, wait>>
    BY <1>2 DEF Accept
  <2>2. Types
    BY DEF IInv
  <2>3. /\ s \in Seq(Connection) /\ IsInjective(s)
        /\ Range(s) = Range(list) \cup {c}
    BY <2>1, <2>2, ConsWalk DEF Types
  <2> HIDE DEF s
  <2>4. /\ point' \in Range(s) \cup {Nobody}
        /\ point' \in Connection \cup {Nobody}
        /\ due' \subseteq Connection
        /\ due' = From(s, point')
        /\ phase' = "except"
    BY <2>1, <2>3, BeginAt
  <2>5. lines' \in [Connection -> 0..MaxLines]
    <3>1. PICK n \in 0..MaxLines : lines' = [lines EXCEPT ![c] = n]
      BY <1>2 DEF Accept
    <3> QED BY <3>1, <2>2 DEF Types
  <2>6. Types'
    BY <2>1, <2>2, <2>3, <2>5 DEF Types
  <2> QED BY <2>1, <2>4, <2>6 DEF IInv, At, Walking, InTurn
<1> QED BY <1>1, <1>2

LEMMA EndWalkInv ==
  ASSUME IInv, EndWalk
  PROVE  IInv'
<1>1. UNCHANGED <<list, next, playing, lines, wait>> /\ Types
  BY DEF EndWalk, IInv
<1>2. Types'
  BY <1>1 DEF Types
<1>3. ASSUME NEW name \in Walking, BeginWalk(name, list) PROVE IInv'
  <2>1. list \in Seq(Connection)
    BY <1>1 DEF Types
  <2>2. /\ point' \in Range(list) \cup {Nobody}
        /\ point' \in Connection \cup {Nobody}
        /\ due' \subseteq Connection
        /\ due' = From(list, point')
        /\ phase' = name
    BY <1>3, <2>1, BeginAt
  <2>3. name \notin InTurn /\ name # "command"
    BY DEF Walking, InTurn
  <2> QED BY <1>1, <1>2, <2>2, <2>3 DEF IInv, At
<1>4. CASE phase' = "rest" /\ UNCHANGED <<point, due>>
  BY <1>1, <1>2, <1>4 DEF IInv, Walking, InTurn
<1> QED BY <1>3, <1>4 DEF EndWalk, Walking

LEMMA WalkInv ==
  ASSUME IInv, Close \/ NoException \/ Read \/ TurnPasses
  PROVE  IInv'
<1>1. Types
  BY DEF IInv
<1>2. CASE Close
  <2>1. /\ point # Nobody /\ phase \in Walking /\ phase' = phase
        /\ Delete(point, Behind(point)) /\ point' = next'
    BY <1>2 DEF Close, DeleteAndGoOn, Walking
  <2>2. point \in Range(list) /\ due = From(list, point)
    BY <2>1 DEF IInv, At
  <2>3. /\ Behind(point) \in Range(list) \cup {Nobody}
        /\ From(list, Behind(point)) = From(list, point) \ {point}
    BY <1>1, <2>2, BehindWalk
  <2>4. due \ {point} = From(list, Behind(point)) \ {point}
    BY <2>2, <2>3
  <2> QED BY <2>1, <2>2, <2>3, <2>4, DeleteAtHandInv
<1>3. CASE NoException
  <2>1. /\ phase \in Walking /\ GoOn
        /\ UNCHANGED <<list, phase, playing, lines, wait>>
    BY <1>3 DEF NoException, Walking
  <2> QED BY <1>1, <2>1, GoOnInv DEF Types
<1>4. CASE Read
  <2>1. /\ phase \in Walking /\ GoOn /\ point # Nobody
        /\ UNCHANGED <<list, phase, playing, wait>>
    BY <1>4 DEF Read, GoOn, Walking
  <2>2. PICK n \in lines[point]..MaxLines : lines' = [lines EXCEPT ![point] = n]
    BY <1>4 DEF Read
  <2>3. point \in Connection
    BY <2>1 DEF IInv
  <2>4. lines[point] \in 0..MaxLines
    BY <1>1, <2>3 DEF Types
  <2>5. n \in 0..MaxLines
    BY <2>2, <2>4, BoundAssumption
  <2>6. lines' \in [Connection -> 0..MaxLines]
    BY <1>1, <2>2, <2>5 DEF Types
  <2> QED BY <1>1, <2>1, <2>6, GoOnInv DEF Types
<1>5. CASE TurnPasses
  <2>1. /\ phase \in Walking /\ GoOn /\ point # Nobody
        /\ wait' = [wait EXCEPT ![point] = Rested(point)]
        /\ UNCHANGED <<list, phase, playing, lines>>
    BY <1>5 DEF TurnPasses, GoOn, Walking
  <2>2. point \in Connection
    BY <2>1 DEF IInv
  <2>3. wait[point] \in 1..MaxWait
    BY <1>1, <2>2 DEF Types
  <2>4. Rested(point) \in 1..MaxWait
    BY <2>3, BoundAssumption DEF Rested
  <2>5. wait' \in [Connection -> 1..MaxWait]
    BY <1>1, <2>1, <2>4 DEF Types
  <2> QED BY <1>1, <2>1, <2>5, GoOnInv DEF Types
<1> QED BY <1>2, <1>3, <1>4, <1>5

LEMMA OutputInv ==
  ASSUME IInv, OutputGoes \/ OutputFails
  PROVE  IInv'
<1>1. phase = "output" /\ point # Nobody /\ phase' = phase /\ point' = Behind(point)
  BY DEF OutputGoes, OutputFails
<1>2. Types /\ point \in Range(list) /\ due = From(list, point)
  BY <1>1 DEF IInv, At, Walking
<1>3. /\ Behind(point) \in (Range(list) \ {point}) \cup {Nobody}
      /\ Behind(point) \in Connection \cup {Nobody}
      /\ Behind(point) # point
      /\ From(list, Behind(point)) = From(list, point) \ {point}
  BY <1>2, BehindWalk
<1>4. CASE OutputGoes
  <2>1. /\ due' = due \ {point}
        /\ UNCHANGED <<list, next, phase, playing, lines, wait>>
    BY <1>4 DEF OutputGoes
  <2>2. Types'
    BY <1>2, <2>1 DEF Types
  <2>3. At(point)'
    BY <1>1, <1>2, <1>3, <2>1 DEF At
  <2> QED BY <1>1, <1>3, <2>1, <2>2, <2>3 DEF IInv, Walking, InTurn
<1>5. CASE OutputFails
  <2>1. Delete(point, next) /\ next \in Connection \cup {Nobody}
    BY <1>2, <1>5 DEF OutputFails, Types
  <2>2. /\ Types'
        /\ Range(list') = Range(list) \ {point}
        /\ \A m : m # point => From(list', m) = From(list, m) \ {point}
        /\ due' = due \ {point}
    BY <1>2, <2>1, DeleteWalk
  <2>3. From(list', Behind(point)) = From(list, Behind(point)) \ {point}
    BY <1>3, <2>2
  <2>4. At(point)'
    BY <1>1, <1>2, <1>3, <2>2, <2>3 DEF At
  <2> QED BY <1>1, <1>3, <2>2, <2>4 DEF IInv, Walking, InTurn
<1> QED BY <1>4, <1>5

(* A line is taken from the queue. *)
LEMMA TurnBeginsInv ==
  ASSUME IInv, TurnBegins
  PROVE  IInv'
<1>1. /\ phase = "process" /\ point # Nobody /\ Ready(point)
      /\ phase' = "command" /\ next' = Behind(point)
      /\ due' = due \ {point}
      /\ lines' = [lines EXCEPT ![point] = @ - 1]
      /\ wait' = [wait EXCEPT ![point] = 1]
      /\ UNCHANGED <<list, point, playing>>
  BY DEF TurnBegins
<1>2. Types /\ point \in Range(list) /\ due = From(list, point)
      /\ point \in Connection
  BY <1>1 DEF IInv, At, Walking
<1>3. /\ Behind(point) \in Range(list) \cup {Nobody}
      /\ Behind(point) \in Connection \cup {Nobody}
      /\ From(list, Behind(point)) = From(list, point) \ {point}
  BY <1>2, BehindWalk
<1>4. lines' \in [Connection -> 0..MaxLines]
  <2>1. lines[point] \in 0..MaxLines /\ lines[point] > 0
    BY <1>1, <1>2 DEF Types, Ready
  <2>2. lines[point] - 1 \in 0..MaxLines
    BY <2>1, BoundAssumption
  <2> QED BY <1>1, <1>2, <2>2 DEF Types
<1>5. wait' \in [Connection -> 1..MaxWait]
  BY <1>1, <1>2, BoundAssumption DEF Types
<1>6. Types'
  BY <1>1, <1>2, <1>3, <1>4, <1>5 DEF Types
<1>7. At(next)'
  BY <1>1, <1>2, <1>3 DEF At
<1> QED BY <1>1, <1>2, <1>6, <1>7 DEF IInv, Walking, InTurn

(* What happens to others, during a command or between two pulses. *)
LEMMA OthersInv ==
  ASSUME IInv, NEW c \in Connection, Delay(c) \/ Cut(c) \/ Dies(c)
  PROVE  IInv'
<1>1. Types /\ UNCHANGED <<point, phase>> /\ phase \in {"rest", "command"}
  BY DEF IInv, Delay, Cut, Dies
<1>2. phase = "command" => At(next) /\ point \in Range(list)
  BY DEF IInv, InTurn
<1>3. CASE Delay(c)
  <2>1. PICK n \in 1..MaxWait : wait' = [wait EXCEPT ![c] = n]
    BY <1>3 DEF Delay
  <2>2. UNCHANGED <<list, next, playing, lines, due>>
    BY <1>3 DEF Delay
  <2>3. wait' \in [Connection -> 1..MaxWait]
    BY <1>1, <2>1 DEF Types
  <2>4. Types'
    BY <1>1, <2>2, <2>3 DEF Types
  <2> QED BY <1>1, <2>2, <2>4 DEF IInv, At
<1>4. ASSUME Types', due' \subseteq Connection,
             phase = "command" => At(next)' /\ point \in Range(list')
      PROVE  IInv'
  <2>1. phase' \notin Walking /\ (phase' \in InTurn => phase = "command")
    BY <1>1 DEF Walking, InTurn
  <2>2. point' \in Connection \cup {Nobody} /\ phase' \in Walking \cup InTurn \cup {"rest"}
    BY <1>1 DEF IInv
  <2>3. phase' = "command" => point' \in Range(list')
    BY <1>1, <1>4
  <2>4. phase' \in InTurn => At(next)'
    BY <1>4, <2>1
  <2> QED BY <1>4, <2>1, <2>2, <2>3, <2>4 DEF IInv
<1>5. CASE Cut(c)
  <2>1. /\ c \in Range(list) /\ Delete(c, next)
        /\ phase = "command" => c # point
    BY <1>5 DEF Cut
  <2>2. next \in Connection \cup {Nobody}
    BY <1>1 DEF Types
  <2>3. /\ Types'
        /\ Range(list') = Range(list) \ {c}
        /\ due' = due \ {c}
        /\ next \in Range(list) \cup {Nobody} =>
             /\ next' \in Range(list') \cup {Nobody}
             /\ From(list', next') = From(list, next) \ {c}
    BY <1>1, <2>1, <2>2, DeleteWalk
  <2>4. due' \subseteq Connection
    BY <2>3 DEF IInv
  <2>5. phase = "command" => At(next)' /\ point \in Range(list')
    BY <1>2, <2>1, <2>3 DEF At
  <2> QED BY <1>4, <2>3, <2>4, <2>5
<1>6. CASE Dies(c)
  <2>1. /\ c \in Range(list) /\ LosesBody(c)
        /\ phase = "command" => c # point
    BY <1>1, <1>6 DEF Dies, Types
  <2>2. due' \subseteq Connection
    BY <2>1 DEF LosesBody, Delete, IInv
  <2>3. CASE phase = "command"
    <3>1. next \in Range(list) \cup {Nobody} /\ due = From(list, next)
      BY <1>2, <2>3 DEF At
    <3>2. /\ Types' /\ At(next)'
          /\ Range(list) \ {c} \subseteq Range(list')
      BY <1>1, <2>1, <3>1, BodyWalk
    <3> QED BY <1>2, <1>4, <2>1, <2>2, <2>3, <3>2
  <2>4. CASE phase # "command"
    <3>1. Types'
      <4>1. CASE c \in Client
        BY <1>1, <2>1, <4>1, DeleteWalk DEF LosesBody, Types
      <4>2. CASE c \notin Client
        BY <1>1, <2>1, <4>2 DEF LosesBody, Types
      <4> QED BY <4>1, <4>2
    <3> QED BY <1>4, <2>2, <2>4, <3>1
  <2> QED BY <2>3, <2>4
<1> QED BY <1>3, <1>5, <1>6

(* A command comes to its end. *)
LEMMA CommandInv ==
  ASSUME IInv, CommandReturns \/ CommandCloses \/ CommandKills \/ Forget
  PROVE  IInv'
<1>1. /\ Types /\ At(next) /\ phase \in InTurn
      /\ next \in Range(list) \cup {Nobody} /\ due = From(list, next)
  BY DEF IInv, At, InTurn, CommandReturns, CommandCloses, CommandKills, Forget
<1>2. phase = "command" => point \in Range(list)
  BY DEF IInv
<1>3. ASSUME Types', phase' = "process", point' = next,
             UNCHANGED <<list, next, due>>
      PROVE  IInv'
  <2>1. At(point)'
    BY <1>1, <1>3 DEF At
  <2> QED BY <1>3, <2>1 DEF IInv, Walking, InTurn, Types
<1>4. CASE CommandReturns
  <2>1. /\ phase = "command" /\ phase' = "process" /\ point' = next
        /\ playing' \in {playing, playing \cup {point}}
        /\ UNCHANGED <<list, next, lines, wait, due>>
    BY <1>4 DEF CommandReturns
  <2>2. Types'
    BY <1>1, <1>2, <2>1 DEF Types
  <2> QED BY <1>3, <2>1, <2>2
<1>5. CASE CommandCloses
  <2>1. /\ phase = "command" /\ Delete(point, next)
        /\ phase' = "process" /\ point' = next'
    BY <1>5 DEF CommandCloses
  <2>2. due \ {point} = From(list, next) \ {point}
    BY <1>1
  <2>3. phase' \in Walking /\ point \in Range(list)
    BY <1>2, <2>1 DEF Walking
  <2> QED BY <1>1, <2>1, <2>2, <2>3, DeleteAtHandInv
<1>6. CASE CommandKills
  <2>1. /\ point \in Range(list) /\ LosesBody(point)
        /\ phase' = "forget" /\ point' = point
    BY <1>2, <1>6 DEF CommandKills
  <2>2. Types' /\ At(next)'
    BY <1>1, <2>1, BodyWalk
  <2>3. due' \subseteq Connection
    BY <2>1 DEF LosesBody, Delete, IInv
  <2> QED BY <2>1, <2>2, <2>3 DEF IInv, Walking, InTurn
<1>7. CASE Forget
  <2>1. /\ phase' = "process" /\ point' = next
        /\ UNCHANGED <<list, next, playing, lines, wait, due>>
    BY <1>7 DEF Forget
  <2>2. Types'
    BY <1>1, <2>1 DEF Types
  <2> QED BY <1>3, <2>1, <2>2
<1> QED BY <1>4, <1>5, <1>6, <1>7

LEMMA NextInv == IInv /\ [Next]_vars => IInv'
<1> SUFFICES ASSUME IInv, [Next]_vars PROVE IInv'
  OBVIOUS
<1>1. CASE Select \/ \E c \in Connection : Accept(c)
  BY <1>1, BeginInv
<1>2. CASE Close \/ NoException \/ Read \/ TurnPasses
  BY <1>2, WalkInv
<1>3. CASE EndWalk
  BY <1>3, EndWalkInv
<1>4. CASE TurnBegins
  BY <1>4, TurnBeginsInv
<1>5. CASE CommandReturns \/ CommandCloses \/ CommandKills \/ Forget
  BY <1>5, CommandInv
<1>6. CASE OutputGoes \/ OutputFails
  BY <1>6, OutputInv
<1>7. CASE \E c \in Connection : Delay(c) \/ Cut(c) \/ Dies(c)
  BY <1>7, OthersInv
<1>8. CASE UNCHANGED vars
  BY <1>8 DEF vars, IInv, Types, At
<1> QED BY <1>1, <1>2, <1>3, <1>4, <1>5, <1>6, <1>7, <1>8 DEF Next, Loop

(* descriptor_list, its pointers, the queues and the waits of connections  *)
(* have their types in every state.                                        *)
THEOREM InputLoopType == Spec => []TypeOK
<1>1. Spec => []IInv
  BY InitInv, NextInv, PTL DEF Spec
<1> QED BY <1>1, InvImplies, PTL

(* Whatever a line of input deletes, next_to_process points into the list, *)
(* and every walk comes to everybody that stays, once.                     *)
THEOREM InputLoopOrder == Spec => []InputInOrder
<1>1. Spec => []IInv
  BY InitInv, NextInv, PTL DEF Spec
<1> QED BY <1>1, InvImplies, PTL

-----------------------------------------------------------------------------
(***************************************************************************)
(* Why a pulse comes to its end, however many lines and connections there  *)
(* are: the steps the loop still has to take.  Each of the walks left may  *)
(* take three for every connection; the one at hand, for every connection  *)
(* it has still to come to.                                                *)
(***************************************************************************)
WalksLeft(ph) == CASE ph = "except" -> 4
                   [] ph = "read" -> 3
                   [] ph \in {"process", "command", "forget"} -> 2
                   [] ph = "output" -> 1
                   [] ph = "rest" -> 0
InCommand(ph) == CASE ph = "command" -> 2 [] ph = "forget" -> 1 [] OTHER -> 0
Work(ph, n, m) == WalksLeft(ph) * (3 * n + 1) + 3 * m + InCommand(ph)
PulseWork == Work(phase, Cardinality(Range(list)), Cardinality(due))

(* Every step of the loop makes it less; what a command does to other      *)
(* connections meanwhile does not make it more.                            *)
PulseDescends ==
  /\ [][phase # "rest" => PulseWork' \in 0..(PulseWork - 1)]_<<phase, point>>
  /\ [][phase # "rest" => PulseWork' \in 0..PulseWork]_vars

LEMMA WorkIs ==
  \A n, m \in Nat :
    /\ Work("except", n, m) = 12 * n + 3 * m + 4
    /\ Work("read", n, m) = 9 * n + 3 * m + 3
    /\ Work("process", n, m) = 6 * n + 3 * m + 2
    /\ Work("command", n, m) = 6 * n + 3 * m + 4
    /\ Work("forget", n, m) = 6 * n + 3 * m + 3
    /\ Work("output", n, m) = 3 * n + 3 * m + 1
    /\ Work("rest", n, m) = 3 * m
<1>1. /\ WalksLeft("except") = 4 /\ WalksLeft("read") = 3 /\ WalksLeft("process") = 2
      /\ WalksLeft("command") = 2 /\ WalksLeft("forget") = 2 /\ WalksLeft("output") = 1
      /\ WalksLeft("rest") = 0
  BY DEF WalksLeft
<1>2. /\ InCommand("except") = 0 /\ InCommand("read") = 0 /\ InCommand("process") = 0
      /\ InCommand("command") = 2 /\ InCommand("forget") = 1 /\ InCommand("output") = 0
      /\ InCommand("rest") = 0
  BY DEF InCommand
<1> QED BY <1>1, <1>2 DEF Work

LEMMA WorkNat ==
  ASSUME NEW n \in Nat, NEW m \in Nat,
         NEW ph \in {"except", "read", "process", "command", "forget", "output"}
  PROVE  Work(ph, n, m) \in Nat
<1>1. Work("except", n, m) \in Nat
  BY WorkIs
<1>2. Work("read", n, m) \in Nat
  BY WorkIs
<1>3. Work("process", n, m) \in Nat
  BY WorkIs
<1>4. Work("command", n, m) \in Nat
  BY WorkIs
<1>5. Work("forget", n, m) \in Nat
  BY WorkIs
<1>6. Work("output", n, m) \in Nat
  BY WorkIs
<1> QED BY <1>1, <1>2, <1>3, <1>4, <1>5, <1>6

(* One connection less to deal with. *)
LEMMA WorkOneLess ==
  ASSUME NEW n \in Nat, NEW k \in 0..n, NEW m \in Nat \ {0}
  PROVE  /\ \A ph \in Walking : Work(ph, k, m - 1) \in 0..(Work(ph, n, m) - 1)
         /\ Work("command", k, m - 1) \in 0..(Work("process", n, m) - 1)
<1>1. k \in Nat /\ k <= n /\ m \in Nat /\ m - 1 \in Nat
  OBVIOUS
<1>2. Work("except", k, m - 1) \in 0..(Work("except", n, m) - 1)
  <2>1. Work("except", k, m - 1) = 12 * k + 3 * (m - 1) + 4
    BY <1>1, WorkIs
  <2>2. Work("except", n, m) = 12 * n + 3 * m + 4
    BY WorkIs
  <2> QED BY <1>1, <2>1, <2>2
<1>3. Work("read", k, m - 1) \in 0..(Work("read", n, m) - 1)
  <2>1. Work("read", k, m - 1) = 9 * k + 3 * (m - 1) + 3
    BY <1>1, WorkIs
  <2>2. Work("read", n, m) = 9 * n + 3 * m + 3
    BY WorkIs
  <2> QED BY <1>1, <2>1, <2>2
<1>4. Work("process", k, m - 1) \in 0..(Work("process", n, m) - 1)
  <2>1. Work("process", k, m - 1) = 6 * k + 3 * (m - 1) + 2
    BY <1>1, WorkIs
  <2>2. Work("process", n, m) = 6 * n + 3 * m + 2
    BY WorkIs
  <2> QED BY <1>1, <2>1, <2>2
<1>5. Work("output", k, m - 1) \in 0..(Work("output", n, m) - 1)
  <2>1. Work("output", k, m - 1) = 3 * k + 3 * (m - 1) + 1
    BY <1>1, WorkIs
  <2>2. Work("output", n, m) = 3 * n + 3 * m + 1
    BY WorkIs
  <2> QED BY <1>1, <2>1, <2>2
<1>6. Work("command", k, m - 1) \in 0..(Work("process", n, m) - 1)
  <2>1. Work("command", k, m - 1) = 6 * k + 3 * (m - 1) + 4
    BY <1>1, WorkIs
  <2>2. Work("process", n, m) = 6 * n + 3 * m + 2
    BY WorkIs
  <2> QED BY <1>1, <2>1, <2>2
<1> QED BY <1>2, <1>3, <1>4, <1>5, <1>6 DEF Walking

(* The turns of a command. *)
LEMMA WorkTurns ==
  ASSUME NEW n \in Nat, NEW k \in 0..n, NEW m \in Nat, NEW j \in 0..m
  PROVE  /\ Work("forget", k, j) \in 0..(Work("command", n, m) - 1)
         /\ Work("process", k, j) \in 0..(Work("command", n, m) - 1)
         /\ Work("process", k, j) \in 0..(Work("forget", n, m) - 1)
         /\ Work("command", k, j) \in 0..Work("command", n, m)
<1>1. k \in Nat /\ k <= n /\ j \in Nat /\ j <= m
  OBVIOUS
<1>2. Work("forget", k, j) \in 0..(Work("command", n, m) - 1)
  <2>1. Work("forget", k, j) = 6 * k + 3 * j + 3
    BY <1>1, WorkIs
  <2>2. Work("command", n, m) = 6 * n + 3 * m + 4
    BY WorkIs
  <2> QED BY <1>1, <2>1, <2>2
<1>3. Work("process", k, j) \in 0..(Work("command", n, m) - 1)
  <2>1. Work("process", k, j) = 6 * k + 3 * j + 2
    BY <1>1, WorkIs
  <2>2. Work("command", n, m) = 6 * n + 3 * m + 4
    BY WorkIs
  <2> QED BY <1>1, <2>1, <2>2
<1>4. Work("process", k, j) \in 0..(Work("forget", n, m) - 1)
  <2>1. Work("process", k, j) = 6 * k + 3 * j + 2
    BY <1>1, WorkIs
  <2>2. Work("forget", n, m) = 6 * n + 3 * m + 3
    BY WorkIs
  <2> QED BY <1>1, <2>1, <2>2
<1>5. Work("command", k, j) \in 0..Work("command", n, m)
  <2>1. Work("command", k, j) = 6 * k + 3 * j + 4
    BY <1>1, WorkIs
  <2>2. Work("command", n, m) = 6 * n + 3 * m + 4
    BY WorkIs
  <2> QED BY <1>1, <2>1, <2>2
<1> QED BY <1>2, <1>3, <1>4, <1>5

(* The turns of the walks. *)
LEMMA WorkWalks ==
  ASSUME NEW n \in Nat, NEW m \in Nat
  PROVE  /\ Work("read", n, n) \in 0..(Work("except", n, m) - 1)
         /\ Work("process", n, n) \in 0..(Work("read", n, m) - 1)
         /\ Work("output", n, n) \in 0..(Work("process", n, m) - 1)
         /\ Work("rest", n, m) \in 0..(Work("output", n, m) - 1)
<1>1. Work("read", n, n) \in 0..(Work("except", n, m) - 1)
  <2>1. Work("read", n, n) = 9 * n + 3 * n + 3
    BY WorkIs
  <2>2. Work("except", n, m) = 12 * n + 3 * m + 4
    BY WorkIs
  <2> QED BY <2>1, <2>2
<1>2. Work("process", n, n) \in 0..(Work("read", n, m) - 1)
  <2>1. Work("process", n, n) = 6 * n + 3 * n + 2
    BY WorkIs
  <2>2. Work("read", n, m) = 9 * n + 3 * m + 3
    BY WorkIs
  <2> QED BY <2>1, <2>2
<1>3. Work("output", n, n) \in 0..(Work("process", n, m) - 1)
  <2>1. Work("output", n, n) = 3 * n + 3 * n + 1
    BY WorkIs
  <2>2. Work("process", n, m) = 6 * n + 3 * m + 2
    BY WorkIs
  <2> QED BY <2>1, <2>2
<1>4. Work("rest", n, m) \in 0..(Work("output", n, m) - 1)
  <2>1. Work("rest", n, m) = 3 * m
    BY WorkIs
  <2>2. Work("output", n, m) = 3 * n + 3 * m + 1
    BY WorkIs
  <2> QED BY <2>1, <2>2
<1> QED BY <1>1, <1>2, <1>3, <1>4

LEMMA RangeFinite ==
  ASSUME NEW s \in Seq(Connection)
  PROVE  IsFiniteSet(Range(s))
<1>1. Len(s) \in Nat /\ DOMAIN s = 1..Len(s)
  BY LenProperties
<1>2. IsFiniteSet(1..Len(s))
  BY <1>1, FS_Interval
<1>3. s \in Surjection(1..Len(s), Range(s))
  BY <1>1 DEF Surjection, Range
<1> QED BY <1>2, <1>3, FS_Surjection

(* Whoever a walk is at, it has still to deal with. *)
LEMMA PointDue ==
  ASSUME IInv, phase \in Walking, point # Nobody
  PROVE  point \in due /\ point \in Range(list)
<1>1. point \in Range(list) /\ due = From(list, point) /\ Len(list) \in Nat
  BY LenProperties DEF IInv, At, Types
<1>2. PICK i \in 1..Len(list) : list[i] = point
  BY <1>1, RangeMember DEF IInv, Types
<1>3. i \in 1..i
  BY <1>1
<1> QED BY <1>1, <1>2, <1>3, FromMember

(* The sizes in a pulse, before a step and after it. *)
Shrinks == Range(list') \subseteq Range(list) /\ due' \subseteq due

LEMMA Sizes ==
  ASSUME IInv, phase # "rest"
  PROVE  /\ Cardinality(Range(list)) \in Nat /\ Cardinality(due) \in Nat
         /\ PulseWork \in Nat
         /\ Shrinks => /\ Cardinality(Range(list')) \in 0..Cardinality(Range(list))
                       /\ Cardinality(due') \in 0..Cardinality(due)
         /\ \A c \in due : due' = due \ {c} =>
              Cardinality(due') = Cardinality(due) - 1
<1>1. IsFiniteSet(Range(list))
  BY RangeFinite DEF IInv, Types
<1>2. due \subseteq Range(list)
  BY FromInRange DEF IInv, Types, At, Walking, InTurn
<1>3. IsFiniteSet(due)
  BY <1>1, <1>2, FS_Subset
<1>4. Cardinality(Range(list)) \in Nat /\ Cardinality(due) \in Nat
  BY <1>1, <1>3, FS_CardinalityType
<1>5. PulseWork \in Nat
  <2>1. phase \in {"except", "read", "process", "command", "forget", "output"}
    BY DEF IInv, Walking, InTurn
  <2> DEFINE n == Cardinality(Range(list))
             m == Cardinality(due)
  <2>2. PulseWork = Work(phase, n, m) /\ n \in Nat /\ m \in Nat
    BY <1>4 DEF PulseWork
  <2> HIDE DEF n, m
  <2> QED BY <2>1, <2>2, WorkNat
<1>6. ASSUME Shrinks
      PROVE  /\ Cardinality(Range(list')) \in 0..Cardinality(Range(list))
             /\ Cardinality(due') \in 0..Cardinality(due)
  <2>1. /\ IsFiniteSet(Range(list')) /\ Cardinality(Range(list')) <= Cardinality(Range(list))
        /\ IsFiniteSet(due') /\ Cardinality(due') <= Cardinality(due)
    BY <1>1, <1>3, <1>6, FS_Subset DEF Shrinks
  <2>2. Cardinality(Range(list')) \in Nat /\ Cardinality(due') \in Nat
    BY <2>1, FS_CardinalityType
  <2> QED BY <2>1, <2>2, <1>4
<1>7. \A c \in due : due' = due \ {c} => Cardinality(due') = Cardinality(due) - 1
  BY <1>3, FS_RemoveElement
<1> QED BY <1>4, <1>5, <1>6, <1>7

(* A connection at hand is done with, within a walk. *)
LEMMA PointDone ==
  ASSUME IInv, phase \in Walking, point # Nobody, Range(list') \subseteq Range(list),
         due' = due \ {point},
         phase' = phase \/ (phase = "process" /\ phase' = "command")
  PROVE  PulseWork' \in 0..(PulseWork - 1)
<1> DEFINE n == Cardinality(Range(list))
           m == Cardinality(due)
           k == Cardinality(Range(list'))
           j == Cardinality(due')
<1>1. phase # "rest" /\ point \in due /\ Shrinks
  BY PointDue DEF Walking, Shrinks
<1>2. n \in Nat /\ m \in Nat /\ k \in 0..n /\ j \in Nat /\ j = m - 1
  BY <1>1, Sizes
<1>3. PulseWork = Work(phase, n, m) /\ PulseWork' = Work(phase', k, j)
  BY DEF PulseWork
<1> HIDE DEF n, m, k, j
<1>4. m \in Nat \ {0}
  BY <1>2
<1>5. /\ \A ph \in Walking : Work(ph, k, m - 1) \in 0..(Work(ph, n, m) - 1)
      /\ Work("command", k, m - 1) \in 0..(Work("process", n, m) - 1)
  BY <1>2, <1>4, WorkOneLess
<1> QED BY <1>2, <1>3, <1>5

(* A command goes on, or things happen during it. *)
LEMMA TurnDone ==
  ASSUME IInv, Shrinks
  PROVE  /\ \/ phase = "command" /\ phase' \in {"forget", "process"}
            \/ phase = "forget" /\ phase' = "process"
            => PulseWork' \in 0..(PulseWork - 1)
         /\ phase = "command" /\ phase' = "command" => PulseWork' \in 0..PulseWork
<1> SUFFICES ASSUME phase \in {"command", "forget"}, phase' \in {"command", "forget", "process"}
             PROVE  /\ \/ phase = "command" /\ phase' \in {"forget", "process"}
                       \/ phase = "forget" /\ phase' = "process"
                       => PulseWork' \in 0..(PulseWork - 1)
                    /\ phase = "command" /\ phase' = "command" => PulseWork' \in 0..PulseWork
  OBVIOUS
<1> DEFINE n == Cardinality(Range(list))
           m == Cardinality(due)
           k == Cardinality(Range(list'))
           j == Cardinality(due')
<1>1. n \in Nat /\ m \in Nat /\ k \in 0..n /\ j \in 0..m
  BY Sizes
<1>2. PulseWork = Work(phase, n, m) /\ PulseWork' = Work(phase', k, j)
  BY DEF PulseWork
<1> HIDE DEF n, m, k, j
<1> QED BY <1>1, <1>2, WorkTurns

(* One walk is over. *)
LEMMA WalkDone ==
  ASSUME IInv, EndWalk
  PROVE  PulseWork' \in 0..(PulseWork - 1)
<1> DEFINE n == Cardinality(Range(list))
           m == Cardinality(due)
           j == Cardinality(due')
<1>1. /\ phase \in Walking /\ phase # "rest" /\ list' = list
      /\ \/ /\ due' = Range(list)
            /\ \/ phase = "except" /\ phase' = "read"
               \/ phase = "read" /\ phase' = "process"
               \/ phase = "process" /\ phase' = "output"
         \/ due' = due /\ phase = "output" /\ phase' = "rest"
  BY DEF EndWalk, BeginWalk, Walking
<1>2. n \in Nat /\ m \in Nat
  BY <1>1, Sizes
<1>3. PulseWork = Work(phase, n, m) /\ PulseWork' = Work(phase', n, j)
  BY <1>1 DEF PulseWork
<1>4. due' = Range(list) => j = n
  OBVIOUS
<1>5. due' = due => j = m
  OBVIOUS
<1> HIDE DEF n, m, j
<1> QED BY <1>1, <1>2, <1>3, <1>4, <1>5, WorkWalks

LEMMA DeleteShrinks ==
  ASSUME IInv, NEW c \in Range(list), NEW n \in Connection \cup {Nobody}, Delete(c, n)
  PROVE  Shrinks /\ due' = due \ {c}
BY DeleteWalk DEF IInv, Shrinks

LEMMA LosesShrinks ==
  ASSUME IInv, NEW c \in Range(list), LosesBody(c)
  PROVE  Shrinks
BY DeleteShrinks DEF LosesBody, IInv, Types, Shrinks

LEMMA PulseStep ==
  ASSUME IInv, Next, phase # "rest"
  PROVE  \/ PulseWork' \in 0..(PulseWork - 1)
         \/ UNCHANGED <<phase, point>> /\ PulseWork' \in 0..PulseWork
<1>1. CASE NoException \/ Read \/ TurnPasses \/ TurnBegins \/ OutputGoes
  <2>1. /\ phase \in Walking /\ point # Nobody /\ list' = list /\ due' = due \ {point}
        /\ phase' = phase \/ (phase = "process" /\ phase' = "command")
    BY <1>1 DEF NoException, Read, TurnPasses, TurnBegins, OutputGoes, GoOn, Walking
  <2> QED BY <2>1, PointDone
<1>2. CASE Close \/ OutputFails
  <2>1. /\ phase \in Walking /\ point # Nobody /\ phase' = phase
        /\ Delete(point, Behind(point)) \/ Delete(point, next)
    BY <1>2 DEF Close, OutputFails, DeleteAndGoOn, Walking
  <2>2. point \in Range(list)
    BY <2>1, PointDue
  <2>3. Behind(point) \in Connection \cup {Nobody} /\ next \in Connection \cup {Nobody}
    BY <2>2, BehindWalk DEF IInv, Types
  <2>4. Shrinks /\ due' = due \ {point}
    BY <2>1, <2>2, <2>3, DeleteShrinks
  <2> QED BY <2>1, <2>4, PointDone DEF Shrinks
<1>3. CASE EndWalk
  BY <1>3, WalkDone
<1>4. CASE CommandReturns \/ Forget
  <2>1. /\ phase \in {"command", "forget"} /\ phase' = "process"
        /\ list' = list /\ due' = due
    BY <1>4 DEF CommandReturns, Forget
  <2> QED BY <2>1, TurnDone DEF Shrinks
<1>5. CASE CommandCloses \/ CommandKills
  <2>1. /\ phase = "command" /\ phase' \in {"forget", "process"}
        /\ point \in Range(list) /\ next \in Connection \cup {Nobody}
        /\ Delete(point, next) \/ LosesBody(point)
    BY <1>5 DEF CommandCloses, CommandKills, IInv, Types
  <2> QED BY <2>1, TurnDone, DeleteShrinks, LosesShrinks
<1>6. ASSUME NEW c \in Connection, Delay(c) \/ Cut(c) \/ Dies(c)
      PROVE  UNCHANGED <<phase, point>> /\ PulseWork' \in 0..PulseWork
  <2>1. /\ phase = "command" /\ UNCHANGED <<phase, point>>
        /\ next \in Connection \cup {Nobody} /\ playing \subseteq Range(list)
    BY <1>6 DEF Delay, Cut, Dies, IInv, Types
  <2>2. Shrinks
    <3>1. CASE Delay(c)
      BY <3>1 DEF Delay, Shrinks
    <3>2. CASE Cut(c)
      BY <2>1, <3>2, DeleteShrinks DEF Cut
    <3>3. CASE Dies(c)
      BY <2>1, <3>3, LosesShrinks DEF Dies
    <3> QED BY <1>6, <3>1, <3>2, <3>3
  <2> QED BY <2>1, <2>2, TurnDone
<1> QED BY <1>1, <1>2, <1>3, <1>4, <1>5, <1>6 DEF Next, Loop, Select, Accept

(* A pulse of gameLoop() takes a bounded number of steps, whatever its     *)
(* lines delete: at most fifteen for each connection and four more.        *)
THEOREM PulsesDescend == Spec => PulseDescends
<1>1. Spec => []IInv
  BY InitInv, NextInv, PTL DEF Spec
<1>2. IInv /\ [Next]_vars
        => /\ [phase # "rest" => PulseWork' \in 0..(PulseWork - 1)]_<<phase, point>>
           /\ [phase # "rest" => PulseWork' \in 0..PulseWork]_vars
  <2> SUFFICES ASSUME IInv, Next, phase # "rest"
               PROVE  /\ PulseWork' \in 0..PulseWork
                      /\ \/ PulseWork' \in 0..(PulseWork - 1)
                         \/ UNCHANGED <<phase, point>>
    BY DEF vars
  <2> QED BY PulseStep, Sizes
<1> QED BY <1>1, <1>2, PTL DEF Spec, PulseDescends

-----------------------------------------------------------------------------
(* Whose connection may be gone when d->character is set to NULL. *)
OnlyClientsVanish == phase = "forget" => point \in Range(list) \cup Client

(* "we point to free'd memory" (sys/connect.cc:2822): the connection that  *)
(* processAllInput() writes to after a deadly command was freed only if it *)
(* is a client's.                                                          *)
THEOREM ClientsVanish == Spec => []OnlyClientsVanish
<1>1. Init => OnlyClientsVanish
  BY DEF Init, OnlyClientsVanish
<1>2. OnlyClientsVanish /\ [Next]_vars => OnlyClientsVanish'
  <2> SUFFICES ASSUME OnlyClientsVanish, [Next]_vars, phase' = "forget"
               PROVE  point' \in Range(list') \cup Client
    BY DEF OnlyClientsVanish
  <2>1. CASE CommandKills
    BY <2>1 DEF CommandKills, LosesBody
  <2>2. CASE UNCHANGED vars
    BY <2>2 DEF vars, OnlyClientsVanish
  <2> QED
    BY <2>1, <2>2
       DEF Next, Loop, Select, Accept, BeginWalk, Close, NoException, Read, EndWalk,
           TurnPasses, TurnBegins, CommandReturns, CommandCloses, Forget, OutputGoes,
           OutputFails, Delay, Cut, Dies
<1> QED BY <1>1, <1>2, PTL DEF Spec
=============================================================================
