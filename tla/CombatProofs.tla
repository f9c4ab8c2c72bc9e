---------------------------- MODULE CombatProofs ----------------------------
(***************************************************************************)
(* Proofs about Combat: gCombatList is the list of those who fight, the    *)
(* walk of perform_violence() over it loses nobody and comes to nobody     *)
(* twice, nobody fights a freed being, and attackers is never too small.   *)
(***************************************************************************)
EXTENDS Combat, Lists, FiniteSetTheorems

-----------------------------------------------------------------------------
(* The list. *)

(* Nobody is behind a pointer that is null. *)
LEMMA FromNobody ==
  ASSUME NEW s \in Seq(Being)
  PROVE  From(s, Nobody) = {}
BY FromNull, NobodyAssumption

(* Somebody new at the head changes nothing for a pointer into the list. *)
LEMMA ConsList ==
  ASSUME NEW s \in Seq(Being), IsInjective(s), NEW b \in Being, b \notin Range(s)
  PROVE  /\ <<b>> \o s \in Seq(Being)
         /\ IsInjective(<<b>> \o s)
         /\ Range(<<b>> \o s) = Range(s) \cup {b}
         /\ \A n \in Range(s) \cup {Nobody} :
              From(<<b>> \o s, n) = From(s, n)
<1>1. \A n \in Range(s) \cup {Nobody} : n # b
  BY NobodyAssumption
<1> QED BY <1>1, ConsWalk

(* A pointer to another still points into the list. *)
LEMMA RemoveList ==
  ASSUME NEW s \in Seq(Being), IsInjective(s), NEW b \in Range(s)
  PROVE  /\ RemoveAt(s, Place(s, b)) \in Seq(Being)
         /\ IsInjective(RemoveAt(s, Place(s, b)))
         /\ Range(RemoveAt(s, Place(s, b))) = Range(s) \ {b}
         /\ \A n : n # b => From(RemoveAt(s, Place(s, b)), n) = From(s, n) \ {b}
BY RemoveWalk

(* next_fighting is the next, or null at the end. *)
LEMMA NextInList ==
  ASSUME NEW s \in Seq(Being), IsInjective(s), NEW b \in Range(s)
  PROVE  /\ NextFighting(s, b) \in (Range(s) \ {b}) \cup {Nobody}
         /\ From(s, NextFighting(s, b)) = From(s, b) \ {b}
BY NextWalk, NobodyAssumption DEF NextFighting

-----------------------------------------------------------------------------
(* The invariant of combat, whenever the walk is not at the head of the    *)
(* loop, and what is said of a fight while others are begun and stopped.   *)

(* Who may fight: only the living, unless somebody who berserks may be      *)
(* deleted otherwise than by death.                                        *)
Living == IF Berserker \cap Purged = {} THEN alive ELSE Being

Counted(w) ==
  \A v \in Being : w.attackers[v] >= Cardinality(Strikers(w, v))

(* The walk goes on with gCombatNext. *)
Walk(w) ==
  /\ w.next \in Listed(w) \cup {Nobody}
  /\ w.due = From(w.list, w.next)

(* Whoever fights is in the list, even if it is led astray. *)
Fighters(w) ==
  \A b \in Being : Fights(w, b) =>
    b \in Listed(w) /\ b \in Living /\ w.fighting[b] \in Living \ {b}

(* Once, and nobody else is. *)
Once(w) ==
  /\ IsInjective(w.list)
  /\ \A b \in Listed(w) : Fights(w, b)

Good(w) ==
  /\ alive \subseteq Living /\ Living \subseteq Being
  /\ w \in World
  /\ Fighters(w)
  /\ ~w.astray => Once(w) /\ Counted(w) /\ Walk(w)

(* Nobody new fights a, a pointer into the list still comes to whoever     *)
(* does, and a does not begin to fight.                                    *)
Keeps(w, x, a) ==
  /\ \A k \in Being : x.fighting[k] = a =>
       /\ w.fighting[k] = a
       /\ \A n \in Listed(w) \cap Listed(x) :
            k \in From(w.list, n) => k \in From(x.list, n)
  /\ x.fighting[a] = w.fighting[a]

LEMMA StrikersFinite ==
  ASSUME NEW w, NEW v
  PROVE  /\ IsFiniteSet(Strikers(w, v))
         /\ Cardinality(Strikers(w, v)) \in Nat
<1>1. Strikers(w, v) \subseteq Being
  BY DEF Strikers
<1>2. IsFiniteSet(Strikers(w, v))
  BY <1>1, FS_Subset, FiniteAssumption
<1> QED BY <1>2, FS_CardinalityType

(* Fewer strike. *)
LEMMA FewerStrikers ==
  ASSUME NEW w, NEW x, NEW v, Strikers(x, v) \subseteq Strikers(w, v)
  PROVE  Cardinality(Strikers(x, v)) <= Cardinality(Strikers(w, v))
BY StrikersFinite, FS_Subset

(* One more strikes. *)
LEMMA OneMoreStrikes ==
  ASSUME NEW w, NEW x, NEW v, NEW b,
         Strikers(x, v) \subseteq Strikers(w, v) \cup {b}
  PROVE  Cardinality(Strikers(x, v)) <= Cardinality(Strikers(w, v)) + 1
<1> DEFINE S == Strikers(w, v)
           T == Strikers(x, v)
<1>1. /\ IsFiniteSet(S) /\ Cardinality(S) \in Nat
      /\ IsFiniteSet(T) /\ Cardinality(T) \in Nat
  BY StrikersFinite
<1> HIDE DEF S, T
<1>2. /\ IsFiniteSet(S \cup {b})
      /\ \/ Cardinality(S \cup {b}) = Cardinality(S)
         \/ Cardinality(S \cup {b}) = Cardinality(S) + 1
  BY <1>1, FS_AddElement
<1>3. Cardinality(T) <= Cardinality(S \cup {b})
  <2>1. T \subseteq S \cup {b}
    BY DEF S, T
  <2> QED BY <1>2, <2>1, FS_Subset
<1> QED BY <1>1, <1>2, <1>3 DEF S, T

(* One less strikes. *)
LEMMA OneLessStrikes ==
  ASSUME NEW w, NEW x, NEW v, NEW b \in Strikers(w, v),
         Strikers(x, v) \subseteq Strikers(w, v) \ {b}
  PROVE  Cardinality(Strikers(x, v)) + 1 <= Cardinality(Strikers(w, v))
<1> DEFINE S == Strikers(w, v)
           T == Strikers(x, v)
<1>1. /\ IsFiniteSet(S) /\ Cardinality(S) \in Nat
      /\ IsFiniteSet(T) /\ Cardinality(T) \in Nat
  BY StrikersFinite
<1>2. b \in S /\ T \subseteq S \ {b}
  OBVIOUS
<1> HIDE DEF S, T
<1>3. IsFiniteSet(S \ {b}) /\ Cardinality(S \ {b}) = Cardinality(S) - 1
  BY <1>1, <1>2, FS_RemoveElement
<1>4. Cardinality(T) <= Cardinality(S \ {b})
  BY <1>2, <1>3, FS_Subset
<1> QED BY <1>1, <1>3, <1>4 DEF S, T

-----------------------------------------------------------------------------
(* Into the list and out of it *)

LEMMA EnlistFields ==
  ASSUME NEW w \in World, NEW b \in Being, NEW v \in Being, NEW f,
         NEW x, x = Enlist(w, b, v, f)
  PROVE  /\ x \in World
         /\ x.list = <<b>> \o w.list
         /\ x.next = w.next /\ x.due = w.due /\ x.berserk = w.berserk
         /\ x.fighting = [w.fighting EXCEPT ![b] = v]
         /\ x.engaged \in {w.engaged, w.engaged \cup {b}}
         /\ x.attackers = [w.attackers EXCEPT
                             ![v] = IF b \in x.engaged THEN @ ELSE @ + 1]
         /\ x.astray = (w.astray \/ b \in Listed(w))
<1> DEFINE engaged == IF f /\ b \in AutoEngage THEN w.engaged \cup {b}
                                               ELSE w.engaged
<1>1. x = [w EXCEPT !.list = <<b>> \o @,
                    !.astray = @ \/ b \in Listed(w),
                    !.engaged = engaged,
                    !.attackers[v] = IF b \in engaged THEN @ ELSE @ + 1,
                    !.fighting[b] = v]
  BY DEF Enlist, Link
<1>2. engaged \in {w.engaged, w.engaged \cup {b}}
  OBVIOUS
<1> HIDE DEF engaged
<1>3. <<b>> \o w.list \in Seq(Being)
  BY ConsElements DEF World
<1>4. /\ x.list = <<b>> \o w.list
      /\ x.next = w.next /\ x.due = w.due /\ x.berserk = w.berserk
      /\ x.fighting = [w.fighting EXCEPT ![b] = v]
      /\ x.engaged = engaged
      /\ x.attackers = [w.attackers EXCEPT
                          ![v] = IF b \in engaged THEN @ ELSE @ + 1]
      /\ x.astray = (w.astray \/ b \in Listed(w))
  BY <1>1 DEF World
<1>5. x \in World
  <2>1. /\ x.fighting \in [Being -> Being \cup {Nobody}]
        /\ x.attackers \in [Being -> Int]
    BY <1>4 DEF World
  <2>2. /\ x.engaged \in SUBSET Being /\ x.berserk \in SUBSET Berserker
        /\ x.due \in SUBSET Being /\ x.next \in Being \cup {Nobody}
        /\ x.list \in Seq(Being) /\ x.astray \in BOOLEAN
    BY <1>2, <1>3, <1>4 DEF World
  <2>3. x = [list |-> x.list, next |-> x.next, fighting |-> x.fighting,
             attackers |-> x.attackers, engaged |-> x.engaged,
             berserk |-> x.berserk, due |-> x.due, astray |-> x.astray]
    BY <1>1 DEF World
  <2> QED BY <2>1, <2>2, <2>3 DEF World
<1> QED BY <1>2, <1>4, <1>5

(* Somebody is put into the list; somebody who is in it leads it astray. *)
LEMMA EnlistGood ==
  ASSUME NEW w, Good(w), NEW b \in Living, NEW v \in Living, b # v,
         NEW f, NEW x, x = Enlist(w, b, v, f)
  PROVE  /\ Good(x)
         /\ x.berserk = w.berserk /\ x.due = w.due
         /\ x.fighting = [w.fighting EXCEPT ![b] = v]
         /\ w.astray \/ Fights(w, b) => x.astray
         /\ Listed(x) = Listed(w) \cup {b}
         /\ ~x.astray => \A n \in Listed(w) : From(x.list, n) = From(w.list, n)
         /\ ~x.astray => \A a \in Being \ {b, v} : Keeps(w, x, a)
<1>1. b \in Being /\ v \in Being /\ w \in World
  BY DEF Good
<1>2. /\ x \in World
      /\ x.list = <<b>> \o w.list
      /\ x.next = w.next /\ x.due = w.due /\ x.berserk = w.berserk
      /\ x.fighting = [w.fighting EXCEPT ![b] = v]
      /\ x.engaged \in {w.engaged, w.engaged \cup {b}}
      /\ x.attackers = [w.attackers EXCEPT
                          ![v] = IF b \in x.engaged THEN @ ELSE @ + 1]
      /\ x.astray = (w.astray \/ b \in Listed(w))
  BY <1>1, EnlistFields
<1>3. w.list \in Seq(Being)
  BY <1>1 DEF World
<1>4. Listed(x) = Listed(w) \cup {b}
  BY <1>1, <1>2, <1>3, ConsRange DEF Listed
<1>5. \A k \in Being : x.fighting[k] = IF k = b THEN v ELSE w.fighting[k]
  BY <1>1, <1>2 DEF World
<1>6. Fighters(x)
  BY <1>1, <1>4, <1>5 DEF Good, Fighters, Fights
<1>7. Fights(w, b) => b \in Listed(w)
  BY <1>1 DEF Good, Fighters
<1>8. ASSUME ~x.astray
      PROVE  /\ Once(x) /\ Counted(x) /\ Walk(x)
             /\ \A n \in Listed(w) : From(x.list, n) = From(w.list, n)
             /\ \A a \in Being \ {b, v} : Keeps(w, x, a)
  <2>1. ~w.astray /\ b \notin Listed(w)
    BY <1>2, <1>8
  <2>2. Once(w) /\ Counted(w) /\ Walk(w)
    BY <2>1 DEF Good
  <2>3. /\ IsInjective(x.list)
        /\ \A n \in Listed(w) \cup {Nobody} : From(x.list, n) = From(w.list, n)
    BY <1>1, <1>2, <1>3, <2>1, <2>2, ConsList DEF Listed, Once
  <2>4. Once(x)
    <3>1. Listed(w) \subseteq Being
      BY <1>3, RangeOfSeq DEF Listed
    <3> QED BY <1>1, <1>4, <1>5, <2>2, <2>3, <3>1, NobodyAssumption DEF Once, Fights
  <2>5. Counted(x)
    <3> SUFFICES ASSUME NEW u \in Being
                 PROVE  x.attackers[u] >= Cardinality(Strikers(x, u))
      BY DEF Counted
    <3>1. w.attackers[u] \in Int /\ w.attackers[u] >= Cardinality(Strikers(w, u))
      BY <1>1, <2>2 DEF Counted, World
    <3>2. /\ Cardinality(Strikers(w, u)) \in Nat
          /\ Cardinality(Strikers(x, u)) \in Nat
      BY StrikersFinite
    <3>3. x.attackers[u] = IF u = v /\ b \notin x.engaged
                           THEN w.attackers[u] + 1 ELSE w.attackers[u]
      BY <1>1, <1>2 DEF World
    <3>4. \A k \in Being \ {b} : k \in Strikers(x, u) => k \in Strikers(w, u)
      BY <1>2, <1>5 DEF Strikers
    <3>5. CASE u = v /\ b \notin x.engaged
      <4>1. Strikers(x, u) \subseteq Strikers(w, u) \cup {b}
        BY <3>4 DEF Strikers
      <4>2. Cardinality(Strikers(x, u)) <= Cardinality(Strikers(w, u)) + 1
        BY <4>1, OneMoreStrikes
      <4> QED BY <3>1, <3>2, <3>3, <3>5, <4>2
    <3>6. CASE ~(u = v /\ b \notin x.engaged)
      <4>1. b \notin Strikers(x, u)
        BY <1>1, <1>5, <3>6 DEF Strikers
      <4>2. Strikers(x, u) \subseteq Strikers(w, u)
        BY <4>1, <3>4 DEF Strikers
      <4>3. Cardinality(Strikers(x, u)) <= Cardinality(Strikers(w, u))
        BY <4>2, FewerStrikers
      <4> QED BY <3>1, <3>2, <3>3, <3>6, <4>3
    <3> QED BY <3>5, <3>6
  <2>6. Walk(x)
    BY <1>2, <1>4, <2>2, <2>3 DEF Walk
  <2>7. \A a \in Being \ {b, v} : Keeps(w, x, a)
    BY <1>4, <1>5, <2>3 DEF Keeps
  <2> QED BY <2>3, <2>4, <2>5, <2>6, <2>7
<1> QED BY <1>2, <1>4, <1>6, <1>7, <1>8 DEF Good

LEMMA UnlinkFields ==
  ASSUME NEW w \in World, NEW b \in Listed(w),
         NEW v \in Being, w.fighting[b] = v, NEW x, x = Unlink(w, b)
  PROVE  /\ x \in World
         /\ x.list = RemoveAt(w.list, Place(w.list, b))
         /\ x.next = (IF w.next = b THEN NextFighting(w.list, b) ELSE w.next)
         /\ x.due = w.due \ {b} /\ x.berserk = w.berserk
         /\ x.fighting = [w.fighting EXCEPT ![b] = Nobody]
         /\ x.engaged = w.engaged \ {b}
         /\ x.attackers = [w.attackers EXCEPT
                             ![v] = IF b \in w.engaged THEN @ ELSE Clamp(@ - 1)]
         /\ x.astray = w.astray
<1> DEFINE next == IF w.next = b THEN NextFighting(w.list, b) ELSE w.next
           list == RemoveAt(w.list, Place(w.list, b))
<1>1. x = [w EXCEPT !.next = next,
                    !.attackers[v] = IF b \in w.engaged THEN @ ELSE Clamp(@ - 1),
                    !.engaged = @ \ {b},
                    !.list = list,
                    !.fighting[b] = Nobody,
                    !.due = @ \ {b}]
  BY DEF Unlink
<1>2. w.list \in Seq(Being) /\ b \in Range(w.list)
  BY DEF World, Listed
<1>3. next \in Being \cup {Nobody} /\ list \in Seq(Being)
  BY <1>2, RemoveRange DEF World, NextFighting
<1> HIDE DEF next, list
<1>5. /\ x.list = list /\ x.next = next
      /\ x.due = w.due \ {b} /\ x.berserk = w.berserk
      /\ x.fighting = [w.fighting EXCEPT ![b] = Nobody]
      /\ x.engaged = w.engaged \ {b}
      /\ x.attackers = [w.attackers EXCEPT
                          ![v] = IF b \in w.engaged THEN @ ELSE Clamp(@ - 1)]
      /\ x.astray = w.astray
  BY <1>1 DEF World
<1>6. x \in World
  <2>1. /\ x.fighting \in [Being -> Being \cup {Nobody}]
        /\ x.attackers \in [Being -> Int]
    <3>1. w.attackers \in [Being -> Int]
      BY DEF World
    <3>2. (IF b \in w.engaged THEN w.attackers[v] ELSE Clamp(w.attackers[v] - 1))
            \in Int
      BY <3>1 DEF Clamp
    <3>3. PICK n \in Int :
            n = IF b \in w.engaged THEN w.attackers[v] ELSE Clamp(w.attackers[v] - 1)
      BY <3>2
    <3>4. x.attackers \in [Being -> Int]
      <4>1. x.attackers = [u \in Being |-> IF u = v THEN n ELSE w.attackers[u]]
        BY <1>5, <3>1, <3>3
      <4>2. \A u \in Being : (IF u = v THEN n ELSE w.attackers[u]) \in Int
        BY <3>1
      <4> QED BY <4>1, <4>2
    <3> QED BY <1>5, <3>4, ZenonT(60) DEF World
  <2>2. /\ x.engaged \in SUBSET Being /\ x.berserk \in SUBSET Berserker
        /\ x.due \in SUBSET Being /\ x.next \in Being \cup {Nobody}
        /\ x.list \in Seq(Being) /\ x.astray \in BOOLEAN
    BY <1>3, <1>5 DEF World
  <2>3. x = [list |-> x.list, next |-> x.next, fighting |-> x.fighting,
             attackers |-> x.attackers, engaged |-> x.engaged,
             berserk |-> x.berserk, due |-> x.due, astray |-> x.astray]
    BY <1>1 DEF World
  <2> QED BY <2>1, <2>2, <2>3 DEF World
<1> QED BY <1>5, <1>6 DEF next, list

(* b stops: pointers to others stay good, nobody else stops or starts. *)
Drops(w, x, b) ==
  /\ Listed(x) = Listed(w) \ {b}
  /\ \A n \in Listed(w) \ {b} : From(x.list, n) = From(w.list, n) \ {b}
  /\ \A k \in Being \ {b} : x.fighting[k] = w.fighting[k]
  /\ x.fighting[b] = Nobody

LEMMA UnlinkGood ==
  ASSUME NEW w, Good(w), NEW b \in Being, Fights(w, b),
         NEW x, x = Unlink(w, b)
  PROVE  /\ Good(x)
         /\ x.berserk = w.berserk /\ x.due = w.due \ {b}
         /\ x.fighting = [w.fighting EXCEPT ![b] = Nobody]
         /\ x.engaged = w.engaged \ {b} /\ x.astray = w.astray
         /\ ~x.astray => Drops(w, x, b)
<1>1. /\ w \in World /\ b \in Listed(w)
      /\ w.list \in Seq(Being) /\ b \in Range(w.list)
  BY DEF Good, Fighters, Listed, World
<1>2. PICK v \in Being : w.fighting[b] = v
  BY <1>1 DEF World, Fights
<1>3. /\ x \in World
      /\ x.list = RemoveAt(w.list, Place(w.list, b))
      /\ x.next = (IF w.next = b THEN NextFighting(w.list, b) ELSE w.next)
      /\ x.due = w.due \ {b} /\ x.berserk = w.berserk
      /\ x.fighting = [w.fighting EXCEPT ![b] = Nobody]
      /\ x.engaged = w.engaged \ {b}
      /\ x.attackers = [w.attackers EXCEPT
                          ![v] = IF b \in w.engaged THEN @ ELSE Clamp(@ - 1)]
      /\ x.astray = w.astray
  BY <1>1, <1>2, UnlinkFields
<1>4. Listed(w) \ {b} \subseteq Listed(x)
  <2>1. /\ Range(w.list) \ {b} \subseteq Range(RemoveAt(w.list, Place(w.list, b)))
        /\ After(w.list, b, Nobody) \in Being \cup {Nobody}
    BY <1>1, RemoveRange
  <2> QED BY <1>3, <2>1 DEF Listed
<1>5. \A k \in Being : x.fighting[k] = IF k = b THEN Nobody ELSE w.fighting[k]
  BY <1>1, <1>3 DEF World
<1>6. Fighters(x)
  BY <1>1, <1>4, <1>5 DEF Good, Fighters, Fights
<1>7. ASSUME ~x.astray
      PROVE  Once(x) /\ Counted(x) /\ Walk(x) /\ Drops(w, x, b)
  <2>1. Once(w) /\ Counted(w) /\ Walk(w)
    BY <1>3, <1>7 DEF Good
  <2>2. /\ IsInjective(x.list)
        /\ Listed(x) = Listed(w) \ {b}
        /\ \A n : n # b => From(x.list, n) = From(w.list, n) \ {b}
    BY <1>1, <1>3, <2>1, RemoveList DEF Listed, Once
  <2>3. Once(x)
    <3>1. Listed(w) \subseteq Being
      BY <1>1, RangeOfSeq DEF Listed
    <3> QED BY <1>5, <2>1, <2>2, <3>1 DEF Once, Fights
  <2>4. Counted(x)
    <3> SUFFICES ASSUME NEW u \in Being
                 PROVE  x.attackers[u] >= Cardinality(Strikers(x, u))
      BY DEF Counted
    <3>1. w.attackers[u] \in Int /\ w.attackers[u] >= Cardinality(Strikers(w, u))
      BY <1>1, <2>1 DEF Counted, World
    <3>2. /\ Cardinality(Strikers(w, u)) \in Nat
          /\ Cardinality(Strikers(x, u)) \in Nat
      BY StrikersFinite
    <3>3. x.attackers[u] = IF u = v /\ b \notin w.engaged
                           THEN Clamp(w.attackers[u] - 1) ELSE w.attackers[u]
      BY <1>1, <1>2, <1>3 DEF World
    <3>4. Strikers(x, u) \subseteq Strikers(w, u) \ {b}
      BY <1>1, <1>3, <1>5, NobodyAssumption DEF Strikers
    <3>5. CASE u = v /\ b \notin w.engaged
      <4>1. b \in Strikers(w, u)
        BY <1>2, <3>5 DEF Strikers
      <4>2. Cardinality(Strikers(x, u)) + 1 <= Cardinality(Strikers(w, u))
        BY <4>1, <3>4, OneLessStrikes
      <4> QED BY <3>1, <3>2, <3>3, <3>5, <4>2 DEF Clamp
    <3>6. CASE ~(u = v /\ b \notin w.engaged)
      <4>1. Cardinality(Strikers(x, u)) <= Cardinality(Strikers(w, u))
        BY <3>4, FewerStrikers
      <4> QED BY <3>1, <3>2, <3>3, <3>6, <4>1
    <3> QED BY <3>5, <3>6
  <2>5. Walk(x)
    <3>1. CASE w.next = b
      <4>1. /\ x.next \in (Listed(w) \ {b}) \cup {Nobody}
            /\ From(w.list, x.next) = From(w.list, b) \ {b}
        BY <1>1, <1>3, <2>1, <3>1, NextInList DEF Listed, Once
      <4>2. x.next # b
        BY <4>1, NobodyAssumption
      <4>3. w.due = From(w.list, b)
        BY <2>1, <3>1 DEF Walk
      <4>4. x.due = From(x.list, x.next)
        BY <1>3, <2>2, <4>1, <4>2, <4>3
      <4> QED BY <2>2, <4>1, <4>4 DEF Walk
    <3>2. CASE w.next # b
      BY <1>3, <2>1, <2>2, <3>2 DEF Walk
    <3> QED BY <3>1, <3>2
  <2>6. Drops(w, x, b)
    BY <1>5, <2>2 DEF Drops
  <2> QED BY <2>3, <2>4, <2>5, <2>6
<1> QED BY <1>3, <1>6, <1>7 DEF Good

(* Whoever turns from another to b is at the head of the list. *)
LEMMA TurnOnGood ==
  ASSUME NEW w, Good(w), NEW v \in Living, NEW b \in Living, b # v, Fights(w, v),
         NEW x, x = TurnOn(w, v, b)
  PROVE  /\ Good(x)
         /\ x.berserk = w.berserk /\ x.due \subseteq w.due
         /\ w.astray => x.astray
         /\ Fights(w, b) => Fights(x, b)
         /\ x.engaged \subseteq w.engaged
         /\ ~x.astray => \A a \in Being \ {b, v} : Keeps(w, x, a)
<1> DEFINE y == Unlink(w, v)
<1>0. b \in Being /\ v \in Being /\ w \in World
  BY DEF Good
<1>1. y = Unlink(w, v)
  OBVIOUS
<1>2. PICK g : x = Enlist(y, v, b, g)
  BY DEF TurnOn
<1> HIDE DEF y
<1>3. /\ Good(y)
      /\ y.berserk = w.berserk /\ y.due = w.due \ {v}
      /\ y.fighting = [w.fighting EXCEPT ![v] = Nobody]
      /\ y.engaged = w.engaged \ {v} /\ y.astray = w.astray
      /\ ~y.astray => Drops(w, y, v)
  BY <1>0, <1>1, UnlinkGood
<1>4. /\ Good(x)
      /\ x.berserk = y.berserk /\ x.due = y.due
      /\ x.fighting = [y.fighting EXCEPT ![v] = b]
      /\ y.astray \/ Fights(y, v) => x.astray
      /\ Listed(x) = Listed(y) \cup {v}
      /\ ~x.astray => \A n \in Listed(y) : From(x.list, n) = From(y.list, n)
      /\ ~x.astray => \A a \in Being \ {v, b} : Keeps(y, x, a)
  BY <1>2, <1>3, EnlistGood
<1>5. x.engaged = y.engaged
  BY <1>1, <1>3 DEF TurnOn, Enlist, Link, Good, World
<1>6. \A k \in Being : x.fighting[k] = IF k = v THEN b ELSE w.fighting[k]
  BY <1>0, <1>3, <1>4 DEF World
<1>7. ASSUME ~x.astray, NEW a \in Being \ {b, v}, NEW k \in Being,
             x.fighting[k] = a
      PROVE  /\ w.fighting[k] = a
             /\ \A n \in Listed(w) \cap Listed(x) :
                  k \in From(w.list, n) => k \in From(x.list, n)
  <2>1. k # v /\ w.fighting[k] = a
    BY <1>6, <1>7
  <2>2. /\ ~y.astray /\ Drops(w, y, v)
        /\ \A n \in Listed(y) : From(x.list, n) = From(y.list, n)
    BY <1>3, <1>4, <1>7
  <2>3. ASSUME NEW n \in Listed(w), n # v, k \in From(w.list, n)
        PROVE  k \in From(x.list, n)
    BY <2>1, <2>2, <2>3 DEF Drops
  <2>4. k \in From(x.list, v)
    <3>1. k \in Listed(x)
      <4>1. Fights(x, k)
        BY <1>7, NobodyAssumption DEF Fights
      <4> QED BY <1>4, <4>1 DEF Good, Fighters
    <3>2. /\ x.list = <<v>> \o y.list /\ y.list \in Seq(Being)
          /\ x.list \in Seq(Being)
      <4>0. y \in World
        BY <1>3 DEF Good
      <4>1. x.list = <<v>> \o y.list
        BY <1>2, <4>0 DEF Enlist, Link, World
      <4> QED BY <1>3, <1>4, <4>1 DEF Good, World
    <3>3. x.list # <<>> /\ x.list[1] = v
      BY <1>0, <3>2, ConsRange
    <3> QED BY <3>1, <3>2, <3>3, FromFirst DEF Listed
  <2> QED BY <2>1, <2>3, <2>4
<1>8. ~x.astray => \A a \in Being \ {b, v} : Keeps(w, x, a)
  BY <1>6, <1>7 DEF Keeps
<1>9. Fights(w, b) => Fights(x, b)
  BY <1>0, <1>6 DEF Fights
<1> QED BY <1>3, <1>4, <1>5, <1>8, <1>9

-----------------------------------------------------------------------------
(* setFighting() *)

(* specials.fighting of b is set when the response is over.  Nothing of it *)
(* depends on that: it might as well be set before.                        *)
Facing(w, b, v) == [w EXCEPT !.fighting[b] = v]

Engages(S, b, f) == IF f /\ b \in AutoEngage THEN S \cup {b} ELSE S

LEMMA FacingIs ==
  ASSUME NEW w \in World, NEW b \in Being, NEW v \in Being
  PROVE  Facing(w, b, v) =
           [list |-> w.list, next |-> w.next,
            fighting |-> [w.fighting EXCEPT ![b] = v],
            attackers |-> w.attackers, engaged |-> w.engaged,
            berserk |-> w.berserk, due |-> w.due, astray |-> w.astray]
<1> DEFINE F == [w.fighting EXCEPT ![b] = v]
<1>1. Facing(w, b, v) = [w EXCEPT !.fighting = F]
  BY DEF Facing, World
<1> HIDE DEF F
<1>2. Facing(w, b, v) =
        [list |-> w.list, next |-> w.next, fighting |-> F,
         attackers |-> w.attackers, engaged |-> w.engaged,
         berserk |-> w.berserk, due |-> w.due, astray |-> w.astray]
  BY <1>1 DEF World
<1> QED BY <1>2 DEF F

LEMMA FacingRecord ==
  ASSUME NEW w \in World, NEW b \in Being, NEW v \in Being,
         NEW u, u = Facing(w, b, v)
  PROVE  /\ u \in World
         /\ u.list = w.list /\ u.next = w.next /\ u.attackers = w.attackers
         /\ u.engaged = w.engaged /\ u.berserk = w.berserk /\ u.due = w.due
         /\ u.astray = w.astray /\ Listed(u) = Listed(w)
         /\ u.fighting = [w.fighting EXCEPT ![b] = v]
<1> DEFINE F == [w.fighting EXCEPT ![b] = v]
<1>1. F \in [Being -> Being \cup {Nobody}]
  BY DEF World
<1>2. u = [list |-> w.list, next |-> w.next, fighting |-> F,
           attackers |-> w.attackers, engaged |-> w.engaged,
           berserk |-> w.berserk, due |-> w.due, astray |-> w.astray]
  BY FacingIs
<1> HIDE DEF F
<1>3. u \in World
  BY <1>1, <1>2 DEF World
<1> QED BY <1>2, <1>3 DEF F, Listed

LEMMA EnlistRecord ==
  ASSUME NEW w \in World, NEW b \in Being, NEW v \in Being, NEW f
  PROVE  Enlist(w, b, v, f) =
           [list |-> <<b>> \o w.list, next |-> w.next,
            fighting |-> [w.fighting EXCEPT ![b] = v],
            attackers |-> [w.attackers EXCEPT
                             ![v] = IF b \in Engages(w.engaged, b, f)
                                    THEN @ ELSE @ + 1],
            engaged |-> Engages(w.engaged, b, f), berserk |-> w.berserk,
            due |-> w.due, astray |-> w.astray \/ b \in Listed(w)]
<1>1. Enlist(w, b, v, f) =
        [w EXCEPT !.list = <<b>> \o @,
                  !.astray = @ \/ b \in Listed(w),
                  !.engaged = Engages(w.engaged, b, f),
                  !.attackers[v] = IF b \in Engages(w.engaged, b, f)
                                   THEN @ ELSE @ + 1,
                  !.fighting[b] = v]
  BY DEF Enlist, Link, Engages
<1> DEFINE engaged == Engages(w.engaged, b, f)
           astray == w.astray \/ b \in Listed(w)
<1> HIDE DEF engaged, astray
<1>2. Enlist(w, b, v, f) =
        [w EXCEPT !.list = <<b>> \o @, !.astray = astray, !.engaged = engaged,
                  !.attackers[v] = IF b \in engaged THEN @ ELSE @ + 1,
                  !.fighting[b] = v]
  BY <1>1 DEF engaged, astray
<1>3. Enlist(w, b, v, f) =
           [list |-> <<b>> \o w.list, next |-> w.next,
            fighting |-> [w.fighting EXCEPT ![b] = v],
            attackers |-> [w.attackers EXCEPT
                             ![v] = IF b \in engaged THEN @ ELSE @ + 1],
            engaged |-> engaged, berserk |-> w.berserk,
            due |-> w.due, astray |-> astray]
  BY <1>2 DEF World
<1> QED BY <1>3 DEF engaged, astray

LEMMA UnlinkRecord ==
  ASSUME NEW w \in World, NEW b \in Being
  PROVE  Unlink(w, b) =
           [list |-> RemoveAt(w.list, Place(w.list, b)),
            next |-> IF w.next = b THEN NextFighting(w.list, b) ELSE w.next,
            fighting |-> [w.fighting EXCEPT ![b] = Nobody],
            attackers |-> [w.attackers EXCEPT
              ![w.fighting[b]] = IF b \in w.engaged THEN @ ELSE Clamp(@ - 1)],
            engaged |-> w.engaged \ {b}, berserk |-> w.berserk,
            due |-> w.due \ {b}, astray |-> w.astray]
<1> DEFINE next == IF w.next = b THEN NextFighting(w.list, b) ELSE w.next
           list == RemoveAt(w.list, Place(w.list, b))
           v == w.fighting[b]
<1>1. Unlink(w, b) =
        [w EXCEPT !.next = next,
                  !.attackers[v] = IF b \in w.engaged THEN @ ELSE Clamp(@ - 1),
                  !.engaged = @ \ {b}, !.list = list,
                  !.fighting[b] = Nobody, !.due = @ \ {b}]
  BY DEF Unlink
<1> HIDE DEF next, list, v
<1>2. Unlink(w, b) =
        [list |-> list, next |-> next,
         fighting |-> [w.fighting EXCEPT ![b] = Nobody],
         attackers |-> [w.attackers EXCEPT
           ![v] = IF b \in w.engaged THEN @ ELSE Clamp(@ - 1)],
         engaged |-> w.engaged \ {b}, berserk |-> w.berserk,
         due |-> w.due \ {b}, astray |-> w.astray]
  BY <1>1 DEF World
<1> QED BY <1>2 DEF next, list, v

LEMMA FacingEnlist ==
  ASSUME NEW w \in World, NEW b \in Being, NEW v \in Being, b # v, NEW f
  PROVE  Facing(Enlist(w, v, b, f), b, v) = Enlist(Facing(w, b, v), v, b, f)
<1> DEFINE u == Facing(w, b, v)
           e == Enlist(w, v, b, f)
<1>1. u \in World /\ e \in World
  BY FacingRecord, EnlistFields
<1>2. /\ u.list = w.list /\ u.next = w.next /\ u.attackers = w.attackers
      /\ u.engaged = w.engaged /\ u.berserk = w.berserk /\ u.due = w.due
      /\ u.astray = w.astray /\ Listed(u) = Listed(w)
      /\ u.fighting = [w.fighting EXCEPT ![b] = v]
  BY FacingRecord
<1>3. /\ e.list = <<v>> \o w.list /\ e.next = w.next
      /\ e.fighting = [w.fighting EXCEPT ![v] = b]
      /\ e.attackers = [w.attackers EXCEPT
                          ![b] = IF v \in Engages(w.engaged, v, f)
                                 THEN @ ELSE @ + 1]
      /\ e.engaged = Engages(w.engaged, v, f) /\ e.berserk = w.berserk
      /\ e.due = w.due /\ e.astray = (w.astray \/ v \in Listed(w))
  BY EnlistRecord
<1>4. [u.fighting EXCEPT ![v] = b] = [e.fighting EXCEPT ![b] = v]
  BY <1>2, <1>3 DEF World
<1>5. Facing(e, b, v) =
        [list |-> e.list, next |-> e.next,
         fighting |-> [e.fighting EXCEPT ![b] = v],
         attackers |-> e.attackers, engaged |-> e.engaged,
         berserk |-> e.berserk, due |-> e.due, astray |-> e.astray]
  BY <1>1, FacingIs
<1>6. Enlist(u, v, b, f) =
           [list |-> <<v>> \o u.list, next |-> u.next,
            fighting |-> [u.fighting EXCEPT ![v] = b],
            attackers |-> [u.attackers EXCEPT
                             ![b] = IF v \in Engages(u.engaged, v, f)
                                    THEN @ ELSE @ + 1],
            engaged |-> Engages(u.engaged, v, f), berserk |-> u.berserk,
            due |-> u.due, astray |-> u.astray \/ v \in Listed(u)]
  BY <1>1, EnlistRecord
<1> HIDE DEF u, e
<1>7. Facing(e, b, v) = Enlist(u, v, b, f)
  BY <1>2, <1>3, <1>4, <1>5, <1>6
<1> QED BY <1>7 DEF u, e

LEMMA FacingAgain ==
  ASSUME NEW w \in World, NEW b \in Being, NEW v \in Being, NEW f
  PROVE  Facing(Enlist(w, b, v, f), b, v) = Enlist(Facing(w, b, v), b, v, f)
<1> DEFINE u == Facing(w, b, v)
           e == Enlist(w, b, v, f)
<1>1. u \in World /\ e \in World
  BY FacingRecord, EnlistFields
<1>2. /\ u.list = w.list /\ u.next = w.next /\ u.attackers = w.attackers
      /\ u.engaged = w.engaged /\ u.berserk = w.berserk /\ u.due = w.due
      /\ u.astray = w.astray /\ Listed(u) = Listed(w)
      /\ u.fighting = [w.fighting EXCEPT ![b] = v]
  BY FacingRecord
<1>3. /\ e.list = <<b>> \o w.list /\ e.next = w.next
      /\ e.fighting = [w.fighting EXCEPT ![b] = v]
      /\ e.attackers = [w.attackers EXCEPT
                          ![v] = IF b \in Engages(w.engaged, b, f)
                                 THEN @ ELSE @ + 1]
      /\ e.engaged = Engages(w.engaged, b, f) /\ e.berserk = w.berserk
      /\ e.due = w.due /\ e.astray = (w.astray \/ b \in Listed(w))
  BY EnlistRecord
<1>4. [u.fighting EXCEPT ![b] = v] = [e.fighting EXCEPT ![b] = v]
  BY <1>2, <1>3 DEF World
<1>5. Facing(e, b, v) =
        [list |-> e.list, next |-> e.next,
         fighting |-> [e.fighting EXCEPT ![b] = v],
         attackers |-> e.attackers, engaged |-> e.engaged,
         berserk |-> e.berserk, due |-> e.due, astray |-> e.astray]
  BY <1>1, FacingIs
<1>6. Enlist(u, b, v, f) =
           [list |-> <<b>> \o u.list, next |-> u.next,
            fighting |-> [u.fighting EXCEPT ![b] = v],
            attackers |-> [u.attackers EXCEPT
                             ![v] = IF b \in Engages(u.engaged, b, f)
                                    THEN @ ELSE @ + 1],
            engaged |-> Engages(u.engaged, b, f), berserk |-> u.berserk,
            due |-> u.due, astray |-> u.astray \/ b \in Listed(u)]
  BY <1>1, EnlistRecord
<1> HIDE DEF u, e
<1>7. Facing(e, b, v) = Enlist(u, b, v, f)
  BY <1>2, <1>3, <1>4, <1>5, <1>6
<1> QED BY <1>7 DEF u, e

LEMMA FacingUnlink ==
  ASSUME NEW w \in World, NEW b \in Being, NEW v \in Being, b # v,
         Unlink(w, v) \in World
  PROVE  Facing(Unlink(w, v), b, v) = Unlink(Facing(w, b, v), v)
<1> DEFINE u == Facing(w, b, v)
           e == Unlink(w, v)
           from == w.fighting[v]
<1>1. u \in World /\ e \in World
  BY FacingRecord
<1>2. /\ u.list = w.list /\ u.next = w.next /\ u.attackers = w.attackers
      /\ u.engaged = w.engaged /\ u.berserk = w.berserk /\ u.due = w.due
      /\ u.astray = w.astray
      /\ u.fighting = [w.fighting EXCEPT ![b] = v]
  BY FacingRecord
<1>3. /\ e.list = RemoveAt(w.list, Place(w.list, v))
      /\ e.next = (IF w.next = v THEN NextFighting(w.list, v) ELSE w.next)
      /\ e.fighting = [w.fighting EXCEPT ![v] = Nobody]
      /\ e.attackers = [w.attackers EXCEPT
              ![from] = IF v \in w.engaged THEN @ ELSE Clamp(@ - 1)]
      /\ e.engaged = w.engaged \ {v} /\ e.berserk = w.berserk
      /\ e.due = w.due \ {v} /\ e.astray = w.astray
  BY UnlinkRecord
<1>4. [u.fighting EXCEPT ![v] = Nobody] = [e.fighting EXCEPT ![b] = v]
  <2>1. /\ w.fighting \in [Being -> Being \cup {Nobody}]
        /\ u.fighting = [w.fighting EXCEPT ![b] = v]
        /\ e.fighting = [w.fighting EXCEPT ![v] = Nobody]
    BY <1>2, <1>3 DEF World
  <2> QED BY <2>1
<1>8. u.fighting[v] = from
  BY <1>2 DEF World
<1>5. Facing(e, b, v) =
        [list |-> e.list, next |-> e.next,
         fighting |-> [e.fighting EXCEPT ![b] = v],
         attackers |-> e.attackers, engaged |-> e.engaged,
         berserk |-> e.berserk, due |-> e.due, astray |-> e.astray]
  BY <1>1, FacingIs
<1>6. Unlink(u, v) =
        [list |-> RemoveAt(u.list, Place(u.list, v)),
         next |-> IF u.next = v THEN NextFighting(u.list, v) ELSE u.next,
         fighting |-> [u.fighting EXCEPT ![v] = Nobody],
         attackers |-> [u.attackers EXCEPT
           ![from] = IF v \in u.engaged THEN @ ELSE Clamp(@ - 1)],
         engaged |-> u.engaged \ {v}, berserk |-> u.berserk,
         due |-> u.due \ {v}, astray |-> u.astray]
  BY <1>1, <1>8, UnlinkRecord
<1> HIDE DEF u, e, from
<1>7. Facing(e, b, v) = Unlink(u, v)
  BY <1>2, <1>3, <1>4, <1>5, <1>6
<1> QED BY <1>7 DEF u, e

LEMMA FacingLink ==
  ASSUME NEW w \in World, NEW b \in Being, NEW v \in Being, NEW f
  PROVE  /\ Facing(Link(w, b, v, f), b, v) = Enlist(w, b, v, f)
         /\ Link(w, b, v, f) \in World
         /\ Link(w, b, v, f).fighting = w.fighting
         /\ Listed(w) \subseteq Listed(Link(w, b, v, f))
<1> DEFINE l == Link(w, b, v, f)
           engaged == Engages(w.engaged, b, f)
           astray == w.astray \/ b \in Listed(w)
<1>1. l = [w EXCEPT !.list = <<b>> \o @, !.astray = astray, !.engaged = engaged,
                    !.attackers[v] = IF b \in engaged THEN @ ELSE @ + 1]
  BY DEF Link, Engages
<1>2. engaged \in SUBSET Being /\ astray \in BOOLEAN
  BY DEF Engages, World
<1> HIDE DEF engaged, astray
<1>3. <<b>> \o w.list \in Seq(Being) /\ Range(<<b>> \o w.list) = Range(w.list) \cup {b}
  BY ConsRange DEF World
<1>4. l = [list |-> <<b>> \o w.list, next |-> w.next, fighting |-> w.fighting,
           attackers |-> [w.attackers EXCEPT
                            ![v] = IF b \in engaged THEN @ ELSE @ + 1],
           engaged |-> engaged, berserk |-> w.berserk,
           due |-> w.due, astray |-> astray]
  BY <1>1 DEF World
<1>5. [w.attackers EXCEPT ![v] = IF b \in engaged THEN @ ELSE @ + 1]
        \in [Being -> Int]
  BY DEF World
<1>6. l \in World
  BY <1>2, <1>3, <1>4, <1>5 DEF World
<1>7. Facing(l, b, v) = Enlist(w, b, v, f)
  BY DEF Facing, Enlist
<1>8. l.fighting = w.fighting /\ Listed(w) \subseteq Listed(l)
  BY <1>3, <1>4 DEF Listed
<1> QED BY <1>6, <1>7, <1>8

(* What v makes of it that b fights it. *)
Turned(e, b, v, y) ==
  \/ y = e
  \/ y = Enlist(e, v, b, FALSE)
  \/ Fights(e, v) /\ y \in {Unlink(e, v), TurnOn(e, v, b)}

Answered(w, b, v, f, x) ==
  \E e, y : /\ e = Enlist(w, b, v, f)
            /\ Turned(e, b, v, y)
            /\ x = y \/ x = Enlist(y, b, v, TRUE)

(* setFighting() puts b into the list, v answers, and b may be put there   *)
(* again.                                                                  *)
LEMMA SetFightingCases ==
  ASSUME NEW w, Good(w), NEW b \in Living, NEW v \in Living, NEW f,
         NEW x \in SetFighting(w, b, v, f), x # w
  PROVE  /\ b # v /\ ~Fights(w, b)
         /\ Answered(w, b, v, f, x)
<1> DEFINE l == Link(w, b, v, f)
           e == Enlist(w, b, v, f)
<1>0. b \in Being /\ v \in Being /\ w \in World
  BY DEF Good
<1>1. b # v /\ ~Fights(w, b)
  BY DEF SetFighting
<1>2. PICK z \in Answers(l, b, v) : x = Facing(z, b, v)
  BY <1>1 DEF SetFighting, Facing
<1>3. /\ Facing(l, b, v) = e
      /\ l \in World /\ l.fighting = w.fighting
      /\ Listed(w) \subseteq Listed(l)
  BY <1>0, FacingLink
<1> HIDE DEF l
<1>4. ASSUME Fights(l, v)
      PROVE  /\ Unlink(l, v) \in World
             /\ Facing(Unlink(l, v), b, v) = Unlink(e, v)
             /\ Facing(TurnOn(l, v, b), b, v) = TurnOn(e, v, b)
             /\ Fights(e, v)
  <2>1. v \in Listed(l) /\ \E u \in Being : l.fighting[v] = u
    <3>1. Fights(w, v)
      BY <1>3, <1>4 DEF Fights
    <3>2. v \in Listed(w) /\ w.fighting[v] \in Being
      BY <1>0, <3>1 DEF Good, Fighters
    <3> QED BY <1>3, <3>2
  <2>2. PICK y : y = Unlink(l, v)
    OBVIOUS
  <2>3. y \in World
    BY <1>3, <2>1, <2>2, UnlinkFields
  <2>4. Facing(y, b, v) = Unlink(e, v)
    BY <1>0, <1>1, <1>3, <2>2, <2>3, FacingUnlink
  <2>5. PICK g : TurnOn(l, v, b) = Enlist(y, v, b, g) /\ TurnOn(e, v, b) = Enlist(Unlink(e, v), v, b, g)
    BY <2>2 DEF TurnOn
  <2>6. Facing(Enlist(y, v, b, g), b, v) = Enlist(Facing(y, b, v), v, b, g)
    BY <1>0, <1>1, <2>3, FacingEnlist
  <2>7. Fights(e, v)
    <3>1. e.fighting = [l.fighting EXCEPT ![b] = v]
      <4>1. PICK u : u = Facing(l, b, v)
        OBVIOUS
      <4> QED BY <1>0, <1>3, <4>1, FacingRecord
    <3> QED BY <1>0, <1>1, <1>3, <1>4, <3>1 DEF Fights, World
  <2> QED BY <2>2, <2>3, <2>4, <2>5, <2>6, <2>7
<1>5. PICK g : \A y : /\ Enlist(y, v, b, FALSE) = Enlist(y, v, b, g)
                      /\ TurnOn(y, v, b) = Enlist(Unlink(y, v), v, b, g)
  BY DEF TurnOn
<1>6. Facing(Enlist(l, v, b, FALSE), b, v) = Enlist(e, v, b, FALSE)
  BY <1>0, <1>1, <1>3, <1>5, FacingEnlist
<1>7. PICK h : \A y : Enlist(y, b, v, TRUE) = Enlist(y, b, v, h)
  OBVIOUS
<1> DEFINE Was(y, s) == s \in World /\ y = Facing(s, b, v) /\ Turned(e, b, v, y)
<1>8. \E s, y : /\ Was(y, s)
                /\ z = s \/ z = Enlist(s, b, v, TRUE)
  <2>1. Was(e, l)
    BY <1>3 DEF Turned
  <2>2. Was(Enlist(e, v, b, FALSE), Enlist(l, v, b, FALSE))
    <3>1. Enlist(l, v, b, g) \in World
      <4>1. PICK s : s = Enlist(l, v, b, g)
        OBVIOUS
      <4> QED BY <1>0, <1>3, <4>1, EnlistFields
    <3> QED BY <1>5, <1>6, <3>1 DEF Turned
  <2>3. Fights(l, v) => Was(Unlink(e, v), Unlink(l, v))
    BY <1>4 DEF Turned
  <2>4. Fights(l, v) => Was(TurnOn(e, v, b), TurnOn(l, v, b))
    <3> SUFFICES ASSUME Fights(l, v) PROVE Was(TurnOn(e, v, b), TurnOn(l, v, b))
      OBVIOUS
    <3>1. PICK y : y = Unlink(l, v)
      OBVIOUS
    <3>2. y \in World
      BY <1>4, <3>1
    <3>3. PICK s : s = Enlist(y, v, b, g)
      OBVIOUS
    <3>4. s \in World /\ s = TurnOn(l, v, b)
      BY <1>0, <1>5, <3>1, <3>2, <3>3, EnlistFields
    <3> QED BY <1>4, <3>4 DEF Turned
  <2>5. \/ z = l
        \/ z = Enlist(l, v, b, FALSE)
        \/ z \in StrikeBack(l, b, v)
    BY DEF Answers
  <2>6. z \in StrikeBack(l, b, v) =>
          \E s : /\ \/ s = l
                    \/ s = Enlist(l, v, b, FALSE)
                    \/ Fights(l, v) /\ s = Unlink(l, v)
                    \/ Fights(l, v) /\ s = TurnOn(l, v, b)
                 /\ z = s \/ z = Enlist(s, b, v, TRUE)
    BY DEF StrikeBack, Fights
  <2> HIDE DEF Was, e
  <2> QED BY <2>1, <2>2, <2>3, <2>4, <2>5, <2>6
<1>9. PICK s, y : /\ Was(y, s)
                  /\ z = s \/ z = Enlist(s, b, v, TRUE)
  BY <1>8
<1>10. Facing(Enlist(s, b, v, TRUE), b, v) = Enlist(y, b, v, TRUE)
  <2>1. Facing(Enlist(s, b, v, h), b, v) = Enlist(y, b, v, h)
    BY <1>0, <1>9, FacingAgain
  <2> QED BY <1>7, <2>1
<1>11. Turned(e, b, v, y) /\ (x = y \/ x = Enlist(y, b, v, TRUE))
  BY <1>2, <1>9, <1>10
<1> QED BY <1>1, <1>11 DEF Answered

LEMMA UnlinkKeeps ==
  ASSUME NEW w, Good(w), NEW b \in Being, NEW x, Good(x), Drops(w, x, b),
         NEW a \in Being \ {b}
  PROVE  Keeps(w, x, a)
<1>1. ASSUME NEW k \in Being, x.fighting[k] = a
      PROVE  /\ w.fighting[k] = a
             /\ \A n \in Listed(w) \cap Listed(x) :
                  k \in From(w.list, n) => k \in From(x.list, n)
  <2>1. k # b /\ w.fighting[k] = a
    BY <1>1, NobodyAssumption DEF Drops
  <2> QED BY <2>1 DEF Drops
<1>2. x.fighting[a] = w.fighting[a]
  BY DEF Drops
<1> QED BY <1>1, <1>2 DEF Keeps

LEMMA TurnedGood ==
  ASSUME NEW e, Good(e), NEW b \in Living, NEW v \in Living, b # v,
         Fights(e, b), NEW y, Turned(e, b, v, y)
  PROVE  /\ Good(y)
         /\ y.berserk = e.berserk /\ y.due \subseteq e.due
         /\ e.astray => y.astray
         /\ Fights(y, b)
         /\ ~y.astray => y.engaged \subseteq e.engaged
         /\ ~y.astray => \A a \in Being \ {b, v} : Keeps(e, y, a)
<1>0. b \in Being /\ v \in Being /\ e \in World
  BY DEF Good
<1>1. CASE y = e
  BY <1>1 DEF Keeps
<1>2. CASE y = Enlist(e, v, b, FALSE)
  <2>1. PICK g : y = Enlist(e, v, b, g)
    BY <1>2
  <2>2. /\ Good(y)
        /\ y.berserk = e.berserk /\ y.due = e.due
        /\ y.fighting = [e.fighting EXCEPT ![v] = b]
        /\ e.astray \/ Fights(e, v) => y.astray
        /\ Listed(y) = Listed(e) \cup {v}
        /\ ~y.astray => \A n \in Listed(e) : From(y.list, n) = From(e.list, n)
        /\ ~y.astray => \A a \in Being \ {v, b} : Keeps(e, y, a)
    BY <2>1, EnlistGood
  <2>3. Fights(y, b)
    BY <1>0, <2>2 DEF Fights, World
  <2>4. y.engaged = e.engaged
    BY <1>0, <1>2 DEF Enlist, Link, World
  <2> QED BY <2>2, <2>3, <2>4
<1>3. CASE Fights(e, v) /\ y = Unlink(e, v)
  <2>1. /\ Good(y)
        /\ y.berserk = e.berserk /\ y.due = e.due \ {v}
        /\ y.fighting = [e.fighting EXCEPT ![v] = Nobody]
        /\ y.engaged = e.engaged \ {v} /\ y.astray = e.astray
        /\ ~y.astray => Drops(e, y, v)
    BY <1>0, <1>3, UnlinkGood
  <2>2. Fights(y, b)
    BY <1>0, <2>1 DEF Fights, World
  <2>3. ~y.astray => \A a \in Being \ {b, v} : Keeps(e, y, a)
    BY <1>0, <2>1, UnlinkKeeps
  <2> QED BY <2>1, <2>2, <2>3
<1>4. CASE Fights(e, v) /\ y = TurnOn(e, v, b)
  <2>1. /\ Good(y)
        /\ y.berserk = e.berserk /\ y.due \subseteq e.due
        /\ e.astray => y.astray
        /\ Fights(e, b) => Fights(y, b)
        /\ y.engaged \subseteq e.engaged
        /\ ~y.astray => \A a \in Being \ {b, v} : Keeps(e, y, a)
    BY <1>4, TurnOnGood
  <2> QED BY <2>1
<1> QED BY <1>1, <1>2, <1>3, <1>4 DEF Turned

(* Only SetVictFighting has the one who is set fighting engage.            *)
Unengaged(f, w, x) ==
  f = FALSE /\ ~x.astray => x.engaged \subseteq w.engaged

LEMMA SetFightingGood ==
  ASSUME NEW w, Good(w), NEW b \in Living, NEW v \in Living, NEW f,
         NEW x \in SetFighting(w, b, v, f)
  PROVE  /\ Good(x)
         /\ x.berserk = w.berserk /\ x.due \subseteq w.due
         /\ w.astray => x.astray
         /\ Unengaged(f, w, x)
         /\ ~x.astray => \A a \in Being \ {b, v} : Keeps(w, x, a)
<1>0. b \in Being /\ v \in Being /\ w \in World
  BY DEF Good
<1>1. CASE x = w
  BY <1>1 DEF Keeps, Unengaged
<1>2. CASE x # w
  <2>1. /\ b # v /\ ~Fights(w, b)
        /\ Answered(w, b, v, f, x)
    BY <1>2, SetFightingCases
  <2>2. PICK e, y : /\ e = Enlist(w, b, v, f)
                    /\ Turned(e, b, v, y)
                    /\ x = y \/ x = Enlist(y, b, v, TRUE)
    BY <2>1 DEF Answered
  <2>3. /\ Good(e)
        /\ e.berserk = w.berserk /\ e.due = w.due
        /\ e.fighting = [w.fighting EXCEPT ![b] = v]
        /\ w.astray \/ Fights(w, b) => e.astray
        /\ Listed(e) = Listed(w) \cup {b}
        /\ ~e.astray => \A n \in Listed(w) : From(e.list, n) = From(w.list, n)
        /\ ~e.astray => \A a \in Being \ {b, v} : Keeps(w, e, a)
    BY <2>1, <2>2, EnlistGood
  <2>4. Fights(e, b)
    BY <1>0, <2>3, NobodyAssumption DEF Fights, World
  <2>5. /\ Good(y)
        /\ y.berserk = e.berserk /\ y.due \subseteq e.due
        /\ e.astray => y.astray
        /\ Fights(y, b)
        /\ ~y.astray => y.engaged \subseteq e.engaged
        /\ ~y.astray => \A a \in Being \ {b, v} : Keeps(e, y, a)
    BY <2>1, <2>2, <2>3, <2>4, TurnedGood
  <2>6. CASE x = y
    <3>1. f = FALSE => e.engaged = w.engaged
      BY <1>0, <2>2 DEF Enlist, Link, World
    <3>2. ~x.astray => \A a \in Being \ {b, v} : Keeps(w, x, a)
      BY <2>3, <2>5, <2>6 DEF Keeps
    <3> QED BY <2>3, <2>5, <2>6, <3>1, <3>2 DEF Unengaged
  <2>7. CASE x = Enlist(y, b, v, TRUE)
    <3>1. PICK g : x = Enlist(y, b, v, g)
      BY <2>7
    <3>2. /\ Good(x)
          /\ x.berserk = y.berserk /\ x.due = y.due
          /\ x.fighting = [y.fighting EXCEPT ![b] = v]
          /\ y.astray \/ Fights(y, b) => x.astray
          /\ Listed(x) = Listed(y) \cup {b}
          /\ ~x.astray => \A n \in Listed(y) : From(x.list, n) = From(y.list, n)
          /\ ~x.astray => \A a \in Being \ {b, v} : Keeps(y, x, a)
      BY <2>1, <2>5, <3>1, EnlistGood
    <3> QED BY <2>3, <2>5, <3>2 DEF Unengaged
  <2> QED BY <2>2, <2>6, <2>7
<1> QED BY <1>1, <1>2

-----------------------------------------------------------------------------
(* stopFighting() *)

(* ATTACK_BERSERK alone changes nothing else. *)
LEMMA BerserkGood ==
  ASSUME NEW w, Good(w), NEW B \in SUBSET Berserker,
         NEW x, x = [w EXCEPT !.berserk = B]
  PROVE  /\ Good(x)
         /\ x.berserk = B /\ x.engaged = w.engaged
         /\ x.fighting = w.fighting /\ x.list = w.list
         /\ x.due = w.due /\ x.astray = w.astray
         /\ \A a : Keeps(w, x, a)
<1>1. w \in World
  BY DEF Good
<1>2. /\ x \in World
      /\ x.berserk = B
      /\ x.list = w.list /\ x.next = w.next /\ x.fighting = w.fighting
      /\ x.attackers = w.attackers /\ x.engaged = w.engaged /\ x.due = w.due
      /\ x.astray = w.astray
  BY <1>1 DEF World
<1>3. Fighters(x) /\ (Once(w) => Once(x))
  BY <1>2 DEF Good, Fighters, Once, Listed, Fights
<1>4. Counted(w) => Counted(x)
  <2>1. \A v : Strikers(x, v) = Strikers(w, v)
    BY <1>2 DEF Strikers
  <2> QED BY <1>2, <2>1 DEF Counted
<1>5. Walk(w) => Walk(x)
  BY <1>2 DEF Walk, Listed
<1>6. \A a : Keeps(w, x, a)
  BY <1>2 DEF Keeps, Listed
<1> QED BY <1>2, <1>3, <1>4, <1>5, <1>6 DEF Good

LEMMA GoBerserkGood ==
  ASSUME NEW w, Good(w), NEW b \in Living, NEW cur,
         NEW x \in GoBerserk(w, b, cur)
  PROVE  /\ Good(x)
         /\ x.berserk \subseteq w.berserk /\ x.due \subseteq w.due
         /\ w.astray => x.astray
         /\ b \notin w.berserk => x = w
         /\ ~x.astray => x.engaged \subseteq w.engaged
         /\ ~x.astray => \A a \in Being \ {b} : a = cur => Keeps(w, x, a)
<1>0. \A a : Keeps(w, w, a)
  BY DEF Keeps
<1>1. CASE x = w
  BY <1>0, <1>1
<1>2. CASE b \in w.berserk /\ x = [w EXCEPT !.berserk = @ \ {b}]
  <2>1. x = [w EXCEPT !.berserk = w.berserk \ {b}]
    BY <1>2 DEF Good, World
  <2>2. w.berserk \ {b} \in SUBSET Berserker
    BY DEF Good, World
  <2>3. /\ Good(x) /\ x.berserk = w.berserk \ {b} /\ x.engaged = w.engaged
        /\ x.due = w.due /\ x.astray = w.astray
        /\ \A a : Keeps(w, x, a)
    <3> DEFINE B == w.berserk \ {b}
    <3>1. B \in SUBSET Berserker /\ x = [w EXCEPT !.berserk = B]
      BY <2>1, <2>2
    <3> HIDE DEF B
    <3>2. /\ Good(x) /\ x.berserk = B /\ x.engaged = w.engaged
          /\ x.fighting = w.fighting /\ x.list = w.list
          /\ x.due = w.due /\ x.astray = w.astray
          /\ \A a : Keeps(w, x, a)
      BY <3>1, BerserkGood
    <3> QED BY <3>2 DEF B
  <2> QED BY <1>2, <2>3
<1>3. CASE b \in w.berserk /\ x # w /\ x # [w EXCEPT !.berserk = @ \ {b}]
  <2>1. PICK v \in (Monster \cap alive) \ {cur} : x \in SetFighting(w, b, v, FALSE)
    BY <1>3 DEF GoBerserk, Rage
  <2>2. PICK f : f = FALSE /\ x \in SetFighting(w, b, v, f)
    BY <2>1
  <2>3. v \in Living
    BY <2>1 DEF Good
  <2>4. /\ Good(x)
        /\ x.berserk = w.berserk /\ x.due \subseteq w.due
        /\ w.astray => x.astray
        /\ Unengaged(f, w, x)
        /\ ~x.astray => \A a \in Being \ {b, v} : Keeps(w, x, a)
    BY <2>2, <2>3, SetFightingGood
  <2> QED BY <1>3, <2>1, <2>2, <2>4 DEF Unengaged
<1> QED BY <1>1, <1>2, <1>3 DEF GoBerserk

(* b stops, and nobody new fights a. *)
Clears(w, x, b, a) ==
  /\ \A k \in Being : x.fighting[k] = a =>
       /\ k # b /\ w.fighting[k] = a
       /\ \A n \in Listed(w) \cap Listed(x) :
            n # b /\ k \in From(w.list, n) => k \in From(x.list, n)
  /\ x.fighting[a] = w.fighting[a]

LEMMA StopFightingGood ==
  ASSUME NEW w, Good(w), NEW b \in Living, NEW x \in StopFighting(w, b)
  PROVE  /\ Good(x)
         /\ x.berserk \subseteq w.berserk /\ x.due \subseteq w.due
         /\ w.astray => x.astray
         /\ ~x.astray => b \notin x.engaged
         /\ b \notin w.berserk => ~Fights(x, b)
         /\ ~x.astray => \A a \in Being \ {b} :
              w.fighting[b] = a => Clears(w, x, b, a)
<1>0. b \in Being /\ w \in World
  BY DEF Good
<1>1. CASE ~Fights(w, b)
  <2>1. x = NotEngaging(w, b)
    BY <1>1 DEF StopFighting, NotEngaging
  <2>2. /\ x \in World
        /\ x.berserk = w.berserk /\ x.list = w.list /\ x.next = w.next
        /\ x.fighting = w.fighting /\ x.attackers = w.attackers
        /\ x.due = w.due /\ x.engaged = w.engaged \ {b}
        /\ x.astray = w.astray
    BY <1>0, <2>1 DEF World, NotEngaging
  <2>3. Fighters(x) /\ (Once(w) => Once(x))
    BY <2>2 DEF Good, Fighters, Once, Listed, Fights
  <2>4. Counted(w) => Counted(x)
    <3>1. \A v \in Being : Strikers(x, v) = Strikers(w, v)
      BY <1>0, <1>1, <2>2, NobodyAssumption DEF Strikers, Fights
    <3> QED BY <2>2, <3>1 DEF Counted
  <2>5. Walk(w) => Walk(x)
    BY <2>2 DEF Walk, Listed
  <2>6. ~Fights(x, b) /\ \A a \in Being : w.fighting[b] # a
    BY <1>1, <2>2, NobodyAssumption DEF Fights
  <2> QED BY <2>2, <2>3, <2>4, <2>5, <2>6 DEF Good
<1>2. CASE Fights(w, b)
  <2> DEFINE y == Unlink(w, b)
             cur == w.fighting[b]
  <2>1. x \in GoBerserk(y, b, cur)
    BY <1>2 DEF StopFighting
  <2>2. /\ Good(y)
        /\ y.berserk = w.berserk /\ y.due = w.due \ {b}
        /\ y.fighting = [w.fighting EXCEPT ![b] = Nobody]
        /\ y.engaged = w.engaged \ {b} /\ y.astray = w.astray
        /\ ~y.astray => Drops(w, y, b)
    BY <1>0, <1>2, UnlinkGood
  <2> HIDE DEF y
  <2>3. /\ Good(x)
        /\ x.berserk \subseteq y.berserk /\ x.due \subseteq y.due
        /\ y.astray => x.astray
        /\ b \notin y.berserk => x = y
        /\ ~x.astray => x.engaged \subseteq y.engaged
        /\ ~x.astray => \A a \in Being \ {b} : a = cur => Keeps(y, x, a)
    BY <2>1, <2>2, GoBerserkGood
  <2>4. b \notin w.berserk => ~Fights(x, b)
    BY <1>0, <2>2, <2>3 DEF Fights, World
  <2>5. ASSUME ~x.astray, NEW a \in Being \ {b}, w.fighting[b] = a
        PROVE  Clears(w, x, b, a)
    <3>1. Keeps(y, x, a) /\ Drops(w, y, b)
      BY <2>2, <2>3, <2>5
    <3>2. ASSUME NEW k \in Being, x.fighting[k] = a
          PROVE  /\ k # b /\ w.fighting[k] = a
                 /\ \A n \in Listed(w) \cap Listed(x) :
                      n # b /\ k \in From(w.list, n) => k \in From(x.list, n)
      <4>1. y.fighting[k] = a
        BY <3>1, <3>2 DEF Keeps
      <4>2. k # b /\ w.fighting[k] = a
        BY <3>1, <4>1, NobodyAssumption DEF Drops
      <4> QED BY <3>1, <3>2, <4>2 DEF Drops, Keeps
    <3>3. x.fighting[a] = w.fighting[a]
      BY <3>1 DEF Drops, Keeps
    <3> QED BY <3>2, <3>3 DEF Clears
  <2> QED BY <2>2, <2>3, <2>4, <2>5
<1> QED BY <1>1, <1>2

LEMMA StopIfFightingGood ==
  ASSUME NEW w, Good(w), NEW b \in Living, NEW x \in StopIfFighting(w, b)
  PROVE  /\ Good(x)
         /\ x.berserk \subseteq w.berserk /\ x.due \subseteq w.due
         /\ w.astray => x.astray
         /\ b \notin w.berserk => ~Fights(x, b)
<1>1. CASE Fights(w, b)
  <2>1. x \in StopFighting(w, b)
    BY <1>1 DEF StopIfFighting
  <2> QED BY <2>1, StopFightingGood
<1>2. CASE ~Fights(w, b)
  BY <1>2 DEF StopIfFighting
<1> QED BY <1>1, <1>2

LEMMA SlayGood ==
  ASSUME NEW w, Good(w), NEW b \in Living, NEW x \in Slay(w, b)
  PROVE  Good(x) /\ b \notin x.berserk /\ x.due \subseteq w.due
<1>1. PICK y \in StopIfFighting(w, b) : x = [y EXCEPT !.berserk = @ \ {b}]
  BY DEF Slay
<1>2. Good(y) /\ y.due \subseteq w.due
  BY StopIfFightingGood
<1> DEFINE B == y.berserk \ {b}
<1>3. B \in SUBSET Berserker
  BY <1>2 DEF Good, World
<1>4. x = [y EXCEPT !.berserk = B] /\ b \notin B
  BY <1>1, <1>2 DEF Good, World
<1> HIDE DEF B
<1>5. Good(x) /\ x.berserk = B /\ x.due = y.due
  BY <1>2, <1>3, <1>4, BerserkGood
<1> QED BY <1>2, <1>4, <1>5

-----------------------------------------------------------------------------
(* Blows and commands *)

LEMMA SetCharFightingGood ==
  ASSUME NEW w, Good(w), NEW b \in Living, NEW v \in Living,
         NEW x \in SetCharFighting(w, b, v)
  PROVE  Good(x) /\ x.due \subseteq w.due
<1>1. x = w \/ \E f : x \in SetFighting(w, b, v, f)
  BY DEF SetCharFighting
<1> QED BY <1>1, SetFightingGood

LEMMA SetVictFightingGood ==
  ASSUME NEW w, Good(w), NEW b \in Living, NEW v \in Living,
         NEW x \in SetVictFighting(w, b, v)
  PROVE  Good(x) /\ x.due \subseteq w.due
<1>1. x = w \/ \E f : x \in SetFighting(w, v, b, f)
  BY DEF SetVictFighting
<1> QED BY <1>1, SetFightingGood

LEMMA ClashGood ==
  ASSUME NEW w, Good(w), NEW b \in Living, NEW v \in Living,
         NEW x \in Clash(w, b, v)
  PROVE  Good(x) /\ x.due \subseteq w.due
<1>1. CASE x = w
  BY <1>1
<1>2. CASE x # w
  <2>1. PICK y \in SetCharFighting(w, b, v) : x \in SetVictFighting(y, b, v)
    BY <1>2 DEF Clash
  <2>2. Good(y) /\ y.due \subseteq w.due
    BY SetCharFightingGood
  <2>3. Good(x) /\ x.due \subseteq y.due
    BY <2>1, <2>2, SetVictFightingGood
  <2> QED BY <2>2, <2>3
<1> QED BY <1>1, <1>2

(* Engaging is no harm; attackers may be one less for whoever struck. *)
LEMMA EngagingGood ==
  ASSUME NEW w, Good(w), NEW b \in Being, NEW x, x = Engaging(w, b)
  PROVE  Good(x) /\ x.fighting = w.fighting /\ x.due = w.due
<1>1. w \in World
  BY DEF Good
<1>2. /\ x \in World
      /\ x.berserk = w.berserk /\ x.list = w.list /\ x.next = w.next
      /\ x.fighting = w.fighting /\ x.attackers = w.attackers
      /\ x.due = w.due /\ x.engaged = w.engaged \cup {b}
      /\ x.astray = w.astray
  BY <1>1 DEF World, Engaging
<1>3. Fighters(x) /\ (Once(w) => Once(x))
  BY <1>2 DEF Good, Fighters, Once, Listed, Fights
<1>4. Counted(w) => Counted(x)
  <2> SUFFICES ASSUME Counted(w), NEW v \in Being
               PROVE  x.attackers[v] >= Cardinality(Strikers(x, v))
    BY DEF Counted
  <2>1. Strikers(x, v) \subseteq Strikers(w, v)
    BY <1>2 DEF Strikers
  <2>2. Cardinality(Strikers(x, v)) <= Cardinality(Strikers(w, v))
    BY <2>1, FewerStrikers
  <2>3. /\ w.attackers[v] >= Cardinality(Strikers(w, v))
        /\ w.attackers[v] \in Int
    BY <1>1 DEF Counted, World
  <2>4. /\ Cardinality(Strikers(w, v)) \in Nat
        /\ Cardinality(Strikers(x, v)) \in Nat
    BY StrikersFinite
  <2> QED BY <1>2, <2>2, <2>3, <2>4
<1>5. Walk(w) => Walk(x)
  BY <1>2 DEF Walk, Listed
<1> QED BY <1>2, <1>3, <1>4, <1>5 DEF Good

LEMMA NotEngagingGood ==
  ASSUME NEW w, Good(w), NEW b \in Being, NEW x, x = NotEngaging(w, b),
         w.astray \/ b \notin w.engaged \/ ~Fights(w, b)
  PROVE  Good(x) /\ x.astray = w.astray /\ b \notin x.engaged
<1>1. w \in World
  BY DEF Good
<1>2. /\ x \in World
      /\ x.berserk = w.berserk /\ x.list = w.list /\ x.next = w.next
      /\ x.fighting = w.fighting /\ x.attackers = w.attackers
      /\ x.due = w.due /\ x.engaged = w.engaged \ {b}
      /\ x.astray = w.astray
  BY <1>1 DEF World, NotEngaging
<1>3. Fighters(x) /\ (Once(w) => Once(x))
  BY <1>2 DEF Good, Fighters, Once, Listed, Fights
<1>4. Counted(w) /\ ~w.astray => Counted(x)
  <2> SUFFICES ASSUME Counted(w), ~w.astray PROVE Counted(x)
    OBVIOUS
  <2>1. \A v \in Being : Strikers(x, v) = Strikers(w, v)
    BY <1>1, <1>2, NobodyAssumption DEF Strikers, Fights
  <2> QED BY <1>2, <2>1 DEF Counted
<1>5. Walk(w) => Walk(x)
  BY <1>2 DEF Walk, Listed
<1> QED BY <1>2, <1>3, <1>4, <1>5 DEF Good

LEMMA HarmGood ==
  ASSUME NEW w, Good(w), NEW b \in Living, NEW v \in Living,
         NEW x \in Harm(w, b, v)
  PROVE  Good(x) /\ x.due \subseteq w.due
<1> DEFINE y == IF ~Fights(w, b) /\ b \in AutoEngage
                THEN [w EXCEPT !.engaged = @ \cup {b}] ELSE w
<1>1. x \in Clash(y, b, v)
  BY DEF Harm
<1>2. y = Engaging(w, b) \/ y = w
  BY DEF Engaging
<1> HIDE DEF y
<1>3. b \in Being
  BY DEF Good
<1>4. Good(y) /\ y.due = w.due
  BY <1>2, <1>3, EngagingGood
<1> QED BY <1>1, <1>4, ClashGood

LEMMA SwingGood ==
  ASSUME NEW w, Good(w), NEW b \in Living, NEW v \in Living,
         NEW x \in Swing(w, b, v)
  PROVE  Good(x)
<1>1. x = w \/ x \in Harm(w, b, v)
  BY DEF Swing
<1> QED BY <1>1, HarmGood

(* Whoever engaged and now strikes is counted. *)
LEMMA StrikingGood ==
  ASSUME NEW w, Good(w), NEW b \in Being, NEW v \in Being,
         w.fighting[b] = v, b \in w.engaged,
         NEW x, x = [NotEngaging(w, b) EXCEPT !.attackers[v] = @ + 1]
  PROVE  Good(x)
<1>1. w \in World
  BY DEF Good
<1>2. /\ x.berserk = w.berserk /\ x.list = w.list /\ x.next = w.next
      /\ x.fighting = w.fighting
      /\ x.attackers = [w.attackers EXCEPT ![v] = @ + 1]
      /\ x.due = w.due /\ x.engaged = w.engaged \ {b}
      /\ x = [list |-> x.list, next |-> x.next, fighting |-> x.fighting,
              attackers |-> x.attackers, engaged |-> x.engaged,
              berserk |-> x.berserk, due |-> x.due, astray |-> x.astray]
      /\ x.astray = w.astray
  BY <1>1 DEF World, NotEngaging
<1>3. x \in World
  <2>1. x.attackers \in [Being -> Int]
    <3>1. w.attackers \in [Being -> Int]
      BY <1>1 DEF World
    <3>2. w.attackers[v] + 1 \in Int
      BY <3>1
    <3>3. x.attackers = [u \in Being |-> IF u = v THEN w.attackers[v] + 1
                                                 ELSE w.attackers[u]]
      BY <1>2, <3>1
    <3>4. \A u \in Being : (IF u = v THEN w.attackers[v] + 1 ELSE w.attackers[u]) \in Int
      BY <3>1, <3>2
    <3> QED BY <3>3, <3>4, ZenonT(60)
  <2>2. /\ x.list \in Seq(Being) /\ x.next \in Being \cup {Nobody}
        /\ x.fighting \in [Being -> Being \cup {Nobody}]
        /\ x.engaged \in SUBSET Being /\ x.berserk \in SUBSET Berserker
        /\ x.due \in SUBSET Being /\ x.astray \in BOOLEAN
    BY <1>1, <1>2 DEF World
  <2> QED BY <1>2, <2>1, <2>2 DEF World
<1>4. Fighters(x) /\ (Once(w) => Once(x))
  BY <1>2 DEF Good, Fighters, Once, Listed, Fights
<1>5. Counted(w) => Counted(x)
  <2> SUFFICES ASSUME Counted(w), NEW u \in Being
               PROVE  x.attackers[u] >= Cardinality(Strikers(x, u))
    BY DEF Counted
  <2>1. /\ w.attackers[u] >= Cardinality(Strikers(w, u))
        /\ w.attackers[u] \in Int
        /\ x.attackers[u] = IF u = v THEN w.attackers[u] + 1 ELSE w.attackers[u]
    BY <1>1, <1>2 DEF Counted, World
  <2>2. /\ Cardinality(Strikers(w, u)) \in Nat
        /\ Cardinality(Strikers(x, u)) \in Nat
    BY StrikersFinite
  <2>3. CASE u = v
    <3>1. Strikers(x, u) \subseteq Strikers(w, u) \cup {b}
      BY <1>2 DEF Strikers
    <3>2. Cardinality(Strikers(x, u)) <= Cardinality(Strikers(w, u)) + 1
      BY <3>1, OneMoreStrikes
    <3> QED BY <2>1, <2>2, <2>3, <3>2
  <2>4. CASE u # v
    <3>1. Strikers(x, u) \subseteq Strikers(w, u)
      BY <1>2, <2>4 DEF Strikers
    <3>2. Cardinality(Strikers(x, u)) <= Cardinality(Strikers(w, u))
      BY <3>1, FewerStrikers
    <3> QED BY <2>1, <2>2, <2>4, <3>2
  <2> QED BY <2>3, <2>4
<1>6. Walk(w) => Walk(x)
  BY <1>2 DEF Walk, Listed
<1> QED BY <1>2, <1>3, <1>4, <1>5, <1>6 DEF Good

LEMMA StrikeGood ==
  ASSUME NEW w, Good(w), NEW b \in Living, NEW x \in Strike(w, b)
  PROVE  Good(x)
<1>0. b \in Being /\ w \in World
  BY DEF Good
<1>1. CASE b \notin w.engaged
  BY <1>1 DEF Strike
<1>2. CASE b \in w.engaged /\ ~Fights(w, b)
  <2>1. x = NotEngaging(w, b)
    BY <1>2 DEF Strike
  <2> QED BY <2>1, <1>0, <1>2, NotEngagingGood
<1>3. CASE b \in w.engaged /\ Fights(w, b)
  <2>1. PICK v \in Being : w.fighting[b] = v
    BY <1>0, <1>3 DEF Fights, World
  <2>2. x = [NotEngaging(w, b) EXCEPT !.attackers[v] = @ + 1]
    BY <1>3, <2>1 DEF Strike
  <2> QED BY <1>0, <1>3, <2>1, <2>2, StrikingGood
<1> QED BY <1>1, <1>2, <1>3

(* Whoever struck and now engages is counted off. *)
LEMMA EngagedGood ==
  ASSUME NEW w, Good(w), NEW b \in Being, NEW v \in Being,
         w.fighting[b] = v, b \notin w.engaged,
         NEW x, x = [Engaging(w, b) EXCEPT !.attackers[v] = @ - 1]
  PROVE  Good(x)
<1>1. w \in World
  BY DEF Good
<1>2. /\ x.berserk = w.berserk /\ x.list = w.list /\ x.next = w.next
      /\ x.fighting = w.fighting
      /\ x.attackers = [w.attackers EXCEPT ![v] = @ - 1]
      /\ x.due = w.due /\ x.engaged = w.engaged \cup {b}
      /\ x = [list |-> x.list, next |-> x.next, fighting |-> x.fighting,
              attackers |-> x.attackers, engaged |-> x.engaged,
              berserk |-> x.berserk, due |-> x.due, astray |-> x.astray]
      /\ x.astray = w.astray
  BY <1>1 DEF World, Engaging
<1>3. x \in World
  <2>1. x.attackers \in [Being -> Int]
    <3>1. w.attackers \in [Being -> Int]
      BY <1>1 DEF World
    <3>2. w.attackers[v] - 1 \in Int
      BY <3>1
    <3>3. x.attackers = [u \in Being |-> IF u = v THEN w.attackers[v] - 1
                                                 ELSE w.attackers[u]]
      BY <1>2, <3>1
    <3>4. \A u \in Being : (IF u = v THEN w.attackers[v] - 1 ELSE w.attackers[u]) \in Int
      BY <3>1, <3>2
    <3> QED BY <3>3, <3>4, ZenonT(60)
  <2>2. /\ x.list \in Seq(Being) /\ x.next \in Being \cup {Nobody}
        /\ x.fighting \in [Being -> Being \cup {Nobody}]
        /\ x.engaged \in SUBSET Being /\ x.berserk \in SUBSET Berserker
        /\ x.due \in SUBSET Being /\ x.astray \in BOOLEAN
    BY <1>1, <1>2 DEF World
  <2> QED BY <1>2, <2>1, <2>2 DEF World
<1>4. Fighters(x) /\ (Once(w) => Once(x))
  BY <1>2 DEF Good, Fighters, Once, Listed, Fights
<1>5. Counted(w) => Counted(x)
  <2> SUFFICES ASSUME Counted(w), NEW u \in Being
               PROVE  x.attackers[u] >= Cardinality(Strikers(x, u))
    BY DEF Counted
  <2>1. /\ w.attackers[u] >= Cardinality(Strikers(w, u))
        /\ w.attackers[u] \in Int
        /\ x.attackers[u] = IF u = v THEN w.attackers[u] - 1 ELSE w.attackers[u]
    BY <1>1, <1>2 DEF Counted, World
  <2>2. /\ Cardinality(Strikers(w, u)) \in Nat
        /\ Cardinality(Strikers(x, u)) \in Nat
    BY StrikersFinite
  <2>3. Strikers(x, u) \subseteq Strikers(w, u) \ {b}
    BY <1>2 DEF Strikers
  <2>4. CASE u = v
    <3>1. b \in Strikers(w, u)
      BY <2>4 DEF Strikers
    <3>2. Cardinality(Strikers(x, u)) + 1 <= Cardinality(Strikers(w, u))
      BY <3>1, <2>3, OneLessStrikes
    <3> QED BY <2>1, <2>2, <2>4, <3>2
  <2>5. CASE u # v
    <3>1. Cardinality(Strikers(x, u)) <= Cardinality(Strikers(w, u))
      BY <2>3, FewerStrikers
    <3> QED BY <2>1, <2>2, <2>5, <3>1
  <2> QED BY <2>4, <2>5
<1>6. Walk(w) => Walk(x)
  BY <1>2 DEF Walk, Listed
<1> QED BY <1>2, <1>3, <1>4, <1>5, <1>6 DEF Good

LEMMA FirstHitGood ==
  ASSUME NEW w, Good(w), NEW b \in Living, NEW v \in Living,
         NEW x \in FirstHit(w, b, v)
  PROVE  Good(x)
<1> DEFINE hits == Swing(w, b, v)
           begun == UNION {SetVictFighting(y, b, v) :
                             y \in IF b \in w.engaged
                                   THEN SetCharFighting(w, b, v) ELSE {w}}
           joined == hits \cup UNION {SetCharFighting(y, b, v) :
                                        y \in {y \in hits : b \in y.engaged}}
           both == UNION {SetVictFighting(y, b, v) : y \in joined}
<1>1. \/ x \in begun
      \/ x \in hits
      \/ x \in UNION {Strike(y, b) : y \in both}
  BY DEF FirstHit
<1>2. \A y \in hits : Good(y)
  BY SwingGood
<1>3. ASSUME x \in begun PROVE Good(x)
  <2>1. PICK y \in IF b \in w.engaged THEN SetCharFighting(w, b, v) ELSE {w} :
               x \in SetVictFighting(y, b, v)
    BY <1>3
  <2>2. Good(y)
    BY SetCharFightingGood
  <2> QED BY <2>1, <2>2, SetVictFightingGood
<1> HIDE DEF hits
<1>4. \A y \in joined : Good(y)
  BY <1>2, SetCharFightingGood
<1> HIDE DEF joined
<1>5. \A y \in both : Good(y)
  BY <1>4, SetVictFightingGood
<1> HIDE DEF both
<1>6. ASSUME x \in UNION {Strike(y, b) : y \in both} PROVE Good(x)
  BY <1>5, <1>6, StrikeGood
<1> QED BY <1>1, <1>2, <1>3, <1>6

LEMMA StopToStrikeGood ==
  ASSUME NEW w, Good(w), NEW b \in Living, NEW x \in StopToStrike(w, b)
  PROVE  Good(x)
<1>0. b \in Being
  BY DEF Good
<1>1. PICK y \in StopFighting(w, b) :
             \E z \in StopIfFighting(NotEngaging(y, b), b) : x = NotEngaging(z, b)
  BY DEF StopToStrike
<1>2. Good(y) /\ (~y.astray => b \notin y.engaged)
  BY StopFightingGood
<1> DEFINE n == NotEngaging(y, b)
<1>3. Good(n) /\ b \notin n.engaged
  BY <1>0, <1>2, NotEngagingGood
<1>4. PICK z \in StopIfFighting(n, b) : x = NotEngaging(z, b)
  BY <1>1
<1> HIDE DEF n
<1>5. Good(z) /\ (~z.astray => b \notin z.engaged)
  <2>1. z = n \/ z \in StopFighting(n, b)
    BY DEF StopIfFighting
  <2> QED BY <1>3, <2>1, StopFightingGood
<1> QED BY <1>0, <1>4, <1>5, NotEngagingGood

LEMMA StrikeAnewGood ==
  ASSUME NEW w, Good(w), NEW b \in Living, NEW v \in Living,
         NEW x \in StrikeAnew(w, b, v)
  PROVE  Good(x)
<1>1. PICK y \in StopToStrike(w, b) :
             \E z \in SetFighting(y, b, v, FALSE) : x \in Swing(z, b, v)
  BY DEF StrikeAnew
<1>2. PICK z : (\E f : z \in SetFighting(y, b, v, f)) /\ x \in Swing(z, b, v)
  BY <1>1
<1>3. Good(y)
  BY StopToStrikeGood
<1>4. Good(z)
  BY <1>2, <1>3, SetFightingGood
<1> QED BY <1>2, <1>4, SwingGood

LEMMA EngagedHitGood ==
  ASSUME NEW w, Good(w), NEW b \in Living, NEW v \in Living,
         NEW x \in EngagedHit(w, b, v)
  PROVE  Good(x)
<1>1. \/ x \in StrikeAnew(w, b, v)
      \/ \E y \in StrikeAnew(w, b, v) : x \in SetVictFighting(y, b, v)
      \/ x = w
      \/ x \in StopFighting(w, b)
  BY DEF EngagedHit
<1> QED BY <1>1, StrikeAnewGood, SetVictFightingGood, StopFightingGood

LEMMA SwitchHitGood ==
  ASSUME NEW w, Good(w), NEW b \in Living, NEW v \in Living,
         NEW x \in SwitchHit(w, b, v)
  PROVE  Good(x)
<1>1. CASE x = w
  BY <1>1
<1>2. CASE x # w
  <2>1. PICK y \in StopFighting(w, b) : x = y \/ x \in SetCharFighting(y, b, v)
    BY <1>2 DEF SwitchHit
  <2>2. Good(y)
    BY StopFightingGood
  <2> QED BY <2>1, <2>2, SetCharFightingGood
<1> QED BY <1>1, <1>2

LEMMA DoHitGood ==
  ASSUME NEW w, Good(w), NEW b \in Living, NEW v \in Living,
         NEW x \in DoHit(w, b, v)
  PROVE  Good(x)
<1>1. x \in FirstHit(w, b, v) \/ x \in EngagedHit(w, b, v) \/ x \in SwitchHit(w, b, v)
  BY DEF DoHit
<1> QED BY <1>1, FirstHitGood, EngagedHitGood, SwitchHitGood

-----------------------------------------------------------------------------
(* The inductive invariant *)

Types ==
  /\ alive \subseteq Being
  /\ phase \in {"idle", "tick", "loop", "blow", "free"}
  /\ pulse \in 0..COMBAT
  /\ ch \in Being \cup {Nobody}
  /\ vict \in Being \cup {Nobody}
  /\ freed \in [who : Being \cup {Nobody}, next_char : Being \cup {Nobody},
                then : {"idle", "tick", "loop", "blow"}]

(* At the head of the loop it is ch that says where the walk is. *)
AtHead ==
  /\ alive \subseteq Living /\ Living \subseteq Being
  /\ combat \in World
  /\ Fighters(combat)
  /\ ~combat.astray =>
       /\ Once(combat) /\ Counted(combat)
       /\ ch \in Listed(combat) \cup {Nobody}
       /\ combat.due = From(combat.list, ch)
       /\ combat.next \in Listed(combat) \cup {Nobody}
       /\ ch = Nobody => combat.next = Nobody

(* The two of a blow outlive it, or it says which of them died. *)
InBlow ==
  phase = "blow" \/ (phase = "free" /\ freed.then = "blow") =>
    /\ ch \in Living /\ vict \in Living
    /\ phase = "free" => freed.who \notin {ch, vict}

(* The destructor: f.who fights no more, and whoever fights it is still    *)
(* to come.                                                                *)
Leaves(w, f) ==
  /\ w.fighting[f.who] = Nobody
  /\ \A k \in Being : w.fighting[k] = f.who => k \in From(w.list, f.next_char)

Leaving ==
  /\ phase = "free" => freed.who \in Being
  /\ phase = "free" /\ ~combat.astray =>
       /\ freed.next_char \in Listed(combat) \cup {Nobody}
       /\ Berserker \cap Purged = {} => Leaves(combat, freed)

Ticking ==
  phase \in {"loop", "blow"} \/ (phase = "free" /\ freed.then \in {"loop", "blow"})
    => pulse < COMBAT

IInv ==
  /\ Types
  /\ phase # "loop" => Good(combat)
  /\ phase = "loop" => AtHead
  /\ InBlow
  /\ Leaving
  /\ Ticking

LEMMA LivingBounds ==
  ASSUME alive \subseteq Being
  PROVE  alive \subseteq Living /\ Living \subseteq Being
BY DEF Living

LEMMA InitIInv == Init => IInv
<1> SUFFICES ASSUME Init PROVE IInv
  OBVIOUS
<1>1. Types
  BY RoundAssumption DEF Init, Types, NoFree
<1>2. alive \subseteq Living /\ Living \subseteq Being
  BY LivingBounds DEF Init
<1>3. /\ combat.list = <<>> /\ combat.next = Nobody
      /\ combat.fighting = [b \in Being |-> Nobody]
      /\ combat.attackers = [b \in Being |-> 0]
      /\ combat.engaged = {} /\ combat.berserk = {} /\ combat.due = {}
      /\ combat.astray = FALSE
  BY DEF Init
<1>4. combat \in World
  <2>1. combat = [list |-> combat.list, next |-> combat.next,
                  fighting |-> combat.fighting, attackers |-> combat.attackers,
                  engaged |-> combat.engaged, berserk |-> combat.berserk,
                  due |-> combat.due, astray |-> combat.astray]
    BY DEF Init
  <2>2. /\ combat.list \in Seq(Being)
        /\ combat.fighting \in [Being -> Being \cup {Nobody}]
        /\ combat.attackers \in [Being -> Int]
    BY <1>3
  <2> QED BY <1>3, <2>1, <2>2 DEF World
<1>5. Listed(combat) = {}
  BY <1>3 DEF Listed, Range
<1>6. Fighters(combat) /\ Once(combat)
  BY <1>3, <1>5 DEF Fighters, Once, Fights, IsInjective
<1>7. Counted(combat)
  <2> SUFFICES ASSUME NEW v \in Being
               PROVE  combat.attackers[v] >= Cardinality(Strikers(combat, v))
    BY DEF Counted
  <2>1. Strikers(combat, v) = {}
    BY <1>3, NobodyAssumption DEF Strikers
  <2>2. Cardinality({}) = 0
    BY FS_EmptySet
  <2> QED BY <1>3, <2>1, <2>2
<1>8. Walk(combat)
  <2>1. From(<<>>, Nobody) = {}
    <3>1. <<>> \in Seq(Being)
      OBVIOUS
    <3> QED BY <3>1, FromNobody
  <2> QED BY <1>3, <2>1 DEF Walk
<1> QED BY <1>1, <1>2, <1>4, <1>6, <1>7, <1>8
        DEF Init, IInv, Good, InBlow, Leaving, Ticking

-----------------------------------------------------------------------------
(* Steps of the game that only change fights *)

LEMMA BecomesIInv ==
  ASSUME IInv, OthersRun, NEW W, \A w \in W : Good(w), Becomes(W)
  PROVE  IInv'
<1>1. /\ combat' \in W
      /\ UNCHANGED <<alive, phase, pulse, ch, vict, freed>>
  BY DEF Becomes
<1>2. Good(combat')
  BY <1>1
<1>3. Living' = Living
  BY <1>1 DEF Living
<1>4. Good(combat)'
  BY <1>1, <1>2, <1>3
     DEF Good, Fighters, Once, Counted, Walk, Listed, Fights, Strikers
<1>5. phase' \in {"idle", "blow"} /\ phase' = phase
  BY <1>1 DEF OthersRun
<1>6. Types'
  BY <1>1 DEF IInv, Types
<1>7. InBlow'
  BY <1>1, <1>3, <1>5 DEF IInv, InBlow
<1> QED BY <1>1, <1>4, <1>5, <1>6, <1>7 DEF IInv, Leaving, Ticking

LEMMA OthersGood ==
  ASSUME IInv, OthersRun
  PROVE  Good(combat) /\ alive \subseteq Living /\ alive \subseteq Being
BY DEF IInv, OthersRun, Good, Types

LEMMA IdleOthers == phase = "idle" => OthersRun
BY DEF OthersRun

LEMMA DamageIInv ==
  ASSUME IInv, NEW b \in alive, NEW v \in alive, Damage(b, v)
  PROVE  IInv'
<1>1. OthersRun /\ Becomes(Harm(combat, b, v))
  BY DEF Damage
<1>2. Good(combat) /\ b \in Living /\ v \in Living
  BY <1>1, OthersGood
<1>3. \A w \in Harm(combat, b, v) : Good(w)
  BY <1>2, HarmGood
<1> QED BY <1>1, <1>3, BecomesIInv

LEMMA StopIInv ==
  ASSUME IInv, NEW b \in alive, Stop(b)
  PROVE  IInv'
<1>1. OthersRun /\ Becomes(StopFighting(combat, b))
  BY DEF Stop
<1>2. Good(combat) /\ b \in Living
  BY <1>1, OthersGood
<1>3. \A w \in StopFighting(combat, b) : Good(w)
  BY <1>2, StopFightingGood
<1> QED BY <1>1, <1>3, BecomesIInv

LEMMA BerserkIInv ==
  ASSUME IInv, NEW b \in alive, Berserk(b)
  PROVE  IInv'
<1> DEFINE B == combat.berserk \cup {b}
           w == [combat EXCEPT !.berserk = B]
<1>1. OthersRun /\ b \in Berserker
  BY DEF Berserk
<1>2. Becomes(GoBerserk(w, b, Nobody))
  <2>1. w = [combat EXCEPT !.berserk = @ \cup {b}]
    OBVIOUS
  <2> QED BY <2>1 DEF Berserk
<1>3. Good(combat) /\ b \in Living
  BY <1>1, OthersGood
<1>4. B \in SUBSET Berserker
  BY <1>1, <1>3 DEF Good, World
<1>5. Good(w)
  <2> HIDE DEF B
  <2> QED BY <1>3, <1>4, BerserkGood
<1> HIDE DEF w
<1>6. \A x \in GoBerserk(w, b, Nobody) : Good(x)
  BY <1>3, <1>5, GoBerserkGood
<1> QED BY <1>1, <1>2, <1>6, BecomesIInv

LEMMA HitIInv ==
  ASSUME IInv, NEW b \in alive, NEW v \in alive, Hit(b, v)
  PROVE  IInv'
<1>1. OthersRun /\ Becomes(DoHit(combat, b, v))
  BY IdleOthers DEF Hit
<1>2. Good(combat) /\ b \in Living /\ v \in Living
  BY <1>1, OthersGood
<1>3. \A w \in DoHit(combat, b, v) : Good(w)
  BY <1>2, DoHitGood
<1> QED BY <1>1, <1>3, BecomesIInv

LEMMA EngageIInv ==
  ASSUME IInv, NEW b \in alive, NEW v \in alive, Engage(b, v)
  PROVE  IInv'
<1>1. OthersRun
  BY IdleOthers DEF Engage
<1>2. Good(combat) /\ b \in Living /\ v \in Living /\ b \in Being /\ v \in Being
  BY <1>1, OthersGood
<1>3. CASE /\ combat.fighting[b] = v
           /\ b \notin combat.engaged
           /\ Becomes({[Engaging(combat, b) EXCEPT !.attackers[v] = @ - 1]})
  <2>1. Good([Engaging(combat, b) EXCEPT !.attackers[v] = @ - 1])
    BY <1>2, <1>3, EngagedGood
  <2> QED BY <1>1, <1>3, <2>1, BecomesIInv
<1>4. CASE Becomes(UNION {DoHit(Engaging(x, b), b, v) :
                            x \in StopFighting(combat, b)})
  <2> DEFINE W == UNION {DoHit(Engaging(x, b), b, v) :
                           x \in StopFighting(combat, b)}
  <2>1. ASSUME NEW w \in W PROVE Good(w)
    <3>1. PICK x \in StopFighting(combat, b) : w \in DoHit(Engaging(x, b), b, v)
      OBVIOUS
    <3>2. Good(x)
      BY <1>2, StopFightingGood
    <3>3. Good(Engaging(x, b))
      BY <1>2, <3>2, EngagingGood
    <3> QED BY <1>2, <3>1, <3>3, DoHitGood
  <2> HIDE DEF W
  <2>2. Becomes(W)
    BY <1>4 DEF W
  <2> QED BY <1>1, <2>1, <2>2, BecomesIInv
<1>5. CASE Becomes(Clash(Engaging(combat, b), b, v))
  <2>1. Good(Engaging(combat, b))
    BY <1>2, EngagingGood
  <2>2. \A w \in Clash(Engaging(combat, b), b, v) : Good(w)
    BY <1>2, <2>1, ClashGood
  <2> QED BY <1>1, <1>5, <2>2, BecomesIInv
<1> QED BY <1>3, <1>4, <1>5 DEF Engage

LEMMA DisengageIInv ==
  ASSUME IInv, NEW b \in alive, Disengage(b)
  PROVE  IInv'
<1>1. OthersRun /\ Fights(combat, b)
  BY IdleOthers DEF Disengage
<1>2. Good(combat) /\ b \in Living /\ b \in Being
  BY <1>1, OthersGood
<1>3. CASE b \in combat.engaged
  <2> DEFINE W == {NotEngaging(x, b) : x \in StopFighting(combat, b)}
  <2>1. Becomes(W)
    BY <1>3 DEF Disengage
  <2>2. ASSUME NEW w \in W PROVE Good(w)
    <3>1. PICK x \in StopFighting(combat, b) : w = NotEngaging(x, b)
      OBVIOUS
    <3>2. Good(x) /\ (~x.astray => b \notin x.engaged)
      BY <1>2, StopFightingGood
    <3> QED BY <1>2, <3>1, <3>2, NotEngagingGood
  <2> HIDE DEF W
  <2> QED BY <1>1, <2>1, <2>2, BecomesIInv
<1>4. CASE b \notin combat.engaged
  <2>1. PICK v \in Being : combat.fighting[b] = v
    BY <1>1, <1>2 DEF Good, World, Fights
  <2> DEFINE x == [Engaging(combat, b) EXCEPT !.attackers[v] = @ - 1]
  <2>2. Becomes({x})
    BY <1>4, <2>1 DEF Disengage
  <2>3. Good(x)
    BY <1>2, <1>4, <2>1, EngagedGood
  <2> HIDE DEF x
  <2> QED BY <1>1, <2>2, <2>3, BecomesIInv
<1> QED BY <1>3, <1>4

LEMMA FleeIInv ==
  ASSUME IInv, NEW b \in alive, Flee(b)
  PROVE  IInv'
<1> DEFINE enemy == combat.fighting[b]
           W == UNION {IF x.fighting[enemy] = b THEN StopFighting(x, enemy)
                                                ELSE {x} :
                         x \in StopFighting(combat, b)}
<1>1. OthersRun /\ Fights(combat, b) /\ Becomes(W)
  BY IdleOthers DEF Flee
<1>2. Good(combat) /\ b \in Living /\ b \in Being
  BY <1>1, OthersGood
<1>3. enemy \in Living
  BY <1>1, <1>2 DEF Good, Fighters
<1> HIDE DEF enemy
<1>4. ASSUME NEW w \in W PROVE Good(w)
  <2>1. PICK x \in StopFighting(combat, b) : w = x \/ w \in StopFighting(x, enemy)
    OBVIOUS
  <2>2. Good(x)
    BY <1>2, StopFightingGood
  <2> QED BY <1>3, <2>1, <2>2, StopFightingGood
<1> HIDE DEF W
<1> QED BY <1>1, <1>4, BecomesIInv

LEMMA CalmDownIInv ==
  ASSUME IInv, NEW b \in alive, CalmDown(b)
  PROVE  IInv'
<1> DEFINE W == {IF Fights(x, b) THEN x ELSE [x EXCEPT !.berserk = @ \ {b}] :
                   x \in GoBerserk(combat, b, Nobody)}
<1>1. OthersRun /\ Becomes(W)
  BY IdleOthers DEF CalmDown
<1>2. Good(combat) /\ b \in Living
  BY <1>1, OthersGood
<1>3. ASSUME NEW w \in W PROVE Good(w)
  <2>1. PICK x \in GoBerserk(combat, b, Nobody) :
               w = x \/ w = [x EXCEPT !.berserk = @ \ {b}]
    OBVIOUS
  <2>2. Good(x)
    BY <1>2, GoBerserkGood
  <2> DEFINE B == x.berserk \ {b}
  <2>3. B \in SUBSET Berserker /\ (w = x \/ w = [x EXCEPT !.berserk = B])
    BY <2>1, <2>2 DEF Good, World
  <2> HIDE DEF B
  <2> QED BY <2>2, <2>3, BerserkGood
<1> HIDE DEF W
<1> QED BY <1>1, <1>3, BecomesIInv

-----------------------------------------------------------------------------
(* Destruction *)

LEMMA FirstListed ==
  ASSUME NEW x, Good(x), NEW n, n = IF x.list = <<>> THEN Nobody ELSE x.list[1]
  PROVE  /\ n \in Listed(x) \cup {Nobody} /\ n \in Being \cup {Nobody}
         /\ Listed(x) \subseteq From(x.list, n)
<1>1. x.list \in Seq(Being)
  BY DEF Good, World
<1>2. CASE x.list = <<>>
  <2>1. Listed(x) = {}
    BY <1>2 DEF Listed, Range
  <2> QED BY <1>2, <2>1
<1>3. CASE x.list # <<>>
  <2>1. x.list[1] \in Listed(x) /\ From(x.list, x.list[1]) = Listed(x)
    BY <1>1, <1>3, FromFirst DEF Listed
  <2>2. Listed(x) \subseteq Being
    BY <1>1, RangeOfSeq DEF Listed
  <2> QED BY <1>3, <2>1, <2>2
<1> QED BY <1>2, <1>3

LEMMA FreeIInv ==
  ASSUME IInv, NEW w, Good(w), NEW b \in Living,
         b \notin w.berserk \/ Berserker \cap Purged # {},
         NEW then \in {"idle", "tick", "loop", "blow"},
         Free(w, b, then), pulse' \in 0..COMBAT,
         then \in {"loop", "blow"} => pulse' < COMBAT,
         then = "blow" => /\ ch \in Living /\ vict \in Living
                          /\ b \notin {ch, vict},
         UNCHANGED <<alive, ch, vict>>
  PROVE  IInv'
<1>1. PICK x \in StopIfFighting(w, b) :
        /\ combat' = x
        /\ freed' = [who |-> b, then |-> then,
                     next_char |-> IF x.list = <<>> THEN Nobody ELSE x.list[1]]
  BY DEF Free
<1>2. phase' = "free"
  BY DEF Free
<1>3. b \in Living /\ b \in Being
  BY DEF Good
<1>4. /\ freed'.who = b /\ freed'.then = then
      /\ freed'.next_char = IF x.list = <<>> THEN Nobody ELSE x.list[1]
  BY <1>1
<1>5. Good(x) /\ (b \notin w.berserk => ~Fights(x, b))
  BY <1>3, StopIfFightingGood
<1>6. /\ freed'.next_char \in Listed(x) \cup {Nobody}
      /\ freed'.next_char \in Being \cup {Nobody}
      /\ Listed(x) \subseteq From(x.list, freed'.next_char)
  BY <1>4, <1>5, FirstListed
<1>7. Living' = Living
  BY DEF Living
<1>8. Good(combat)'
  BY <1>1, <1>5, <1>7
     DEF Good, Fighters, Once, Counted, Walk, Listed, Fights, Strikers
<1>9. Leaving'
  <2>1. \A k \in Being : x.fighting[k] = b => k \in Listed(x)
    BY <1>3, <1>5, NobodyAssumption DEF Good, Fighters, Fights
  <2>2. Berserker \cap Purged = {} => Leaves(x, freed')
    BY <1>3, <1>4, <1>5, <1>6, <2>1 DEF Leaves, Fights
  <2> QED BY <1>1, <1>3, <1>4, <1>6, <2>2 DEF Leaving, Leaves, Listed
<1>10. Types'
  BY <1>1, <1>2, <1>3, <1>4, <1>6 DEF IInv, Types
<1>11. InBlow'
  BY <1>2, <1>4, <1>7 DEF InBlow
<1>12. Ticking'
  BY <1>2, <1>4 DEF Ticking
<1> QED BY <1>2, <1>8, <1>9, <1>10, <1>11, <1>12 DEF IInv

LEMMA KillIInv ==
  ASSUME IInv, NEW b \in alive, Kill(b)
  PROVE  IInv'
<1>1. /\ OthersRun /\ b \notin {ch, vict}
      /\ UNCHANGED <<alive, pulse, ch, vict>>
  BY DEF Kill
<1>2. PICK w \in Slay(combat, b) : Free(w, b, phase)
  BY DEF Kill
<1>3. Good(combat) /\ b \in Living
  BY <1>1, OthersGood
<1>4. Good(w) /\ b \notin w.berserk
  BY <1>3, SlayGood
<1>5. phase \in {"idle", "blow"}
  BY <1>1 DEF OthersRun
<1>6. pulse' \in 0..COMBAT /\ (phase = "blow" => pulse' < COMBAT)
  BY <1>1 DEF IInv, Types, Ticking
<1>7. phase = "blow" => ch \in Living /\ vict \in Living
  BY DEF IInv, InBlow
<1> QED BY <1>1, <1>2, <1>3, <1>4, <1>5, <1>6, <1>7, FreeIInv

(* Whoever is deleted otherwise does not berserk. *)
LEMMA PurgeIInv ==
  ASSUME IInv, NEW b \in alive, Purge(b)
  PROVE  IInv'
<1>1. /\ phase = "idle" /\ b \in Purged /\ Free(combat, b, "idle")
      /\ UNCHANGED <<alive, pulse, ch, vict>>
  BY DEF Purge
<1>2. Good(combat) /\ b \in Living /\ b \in Being
  BY <1>1, IdleOthers, OthersGood
<1>3. b \notin combat.berserk \/ Berserker \cap Purged # {}
  BY <1>1, <1>2 DEF Good, World
<1>4. pulse' \in 0..COMBAT
  BY <1>1 DEF IInv, Types
<1> QED BY <1>1, <1>2, <1>3, <1>4, FreeIInv

(* A walk that is found to be astray. *)
LEMMA AstrayGood ==
  ASSUME NEW w, Good(w), NEW a \in BOOLEAN, w.astray => a,
         NEW x, x = [w EXCEPT !.astray = a]
  PROVE  /\ Good(x)
         /\ x.list = w.list /\ x.fighting = w.fighting /\ x.due = w.due
         /\ x.astray = a
<1>1. /\ x \in World
      /\ x.list = w.list /\ x.next = w.next /\ x.fighting = w.fighting
      /\ x.attackers = w.attackers /\ x.engaged = w.engaged
      /\ x.due = w.due /\ x.astray = a
  BY DEF Good, World
<1>2. Fighters(x) /\ (Once(w) => Once(x))
  BY <1>1 DEF Good, Fighters, Once, Listed, Fights
<1>3. Counted(w) => Counted(x)
  <2>1. \A v \in Being : Strikers(x, v) = Strikers(w, v)
    BY <1>1 DEF Strikers
  <2> QED BY <1>1, <2>1 DEF Counted
<1>4. Walk(w) => Walk(x)
  BY <1>1 DEF Walk, Listed
<1> QED BY <1>1, <1>2, <1>3, <1>4 DEF Good

(* One step of the walk of ~TBeing(): k is the next, n the one after it. *)
LEMMA StopOpponentSteps ==
  ASSUME IInv, StopOpponent, ~combat.astray,
         NEW k, k = freed.next_char, NEW n, n = NextFighting(combat.list, k)
  PROVE  /\ k \in Living /\ k \in Listed(combat)
         /\ n \in (Listed(combat) \ {k}) \cup {Nobody}
         /\ From(combat.list, n) = From(combat.list, k) \ {k}
         /\ phase' = "free"
         /\ freed'.next_char = n
         /\ freed'.who = freed.who /\ freed'.then = freed.then
         /\ Good(combat') /\ combat'.due \subseteq combat.due
         /\ ~combat'.astray => n \in Listed(combat') \cup {Nobody}
         /\ combat.fighting[k] # freed.who =>
              combat'.list = combat.list /\ combat'.fighting = combat.fighting
         /\ combat.fighting[k] = freed.who /\ ~combat'.astray =>
              Clears(combat, combat', k, freed.who)
<1>1. /\ phase = "free" /\ phase' = "free" /\ k # Nobody
      /\ freed' = [freed EXCEPT !.next_char = n]
      /\ \E x \in IF combat.fighting[k] = freed.who
                  THEN StopFighting(combat, k) ELSE {combat} :
           combat' = [x EXCEPT !.astray = @ \/ n \notin Listed(x) \cup {Nobody}]
  BY DEF StopOpponent
<1>2. PICK x \in IF combat.fighting[k] = freed.who
                 THEN StopFighting(combat, k) ELSE {combat} :
           combat' = [x EXCEPT !.astray = @ \/ n \notin Listed(x) \cup {Nobody}]
  BY <1>1
<1>3. /\ Good(combat) /\ k \in Listed(combat) /\ Once(combat)
      /\ freed.who \in Being
  BY <1>1 DEF IInv, Leaving, Good
<1>4. combat.list \in Seq(Being) /\ IsInjective(combat.list)
  BY <1>3 DEF Good, World, Once
<1>5. k \in Being /\ Fights(combat, k)
  <2>1. Listed(combat) \subseteq Being
    BY <1>4, RangeOfSeq DEF Listed
  <2> QED BY <1>3, <2>1 DEF Once
<1>6. k \in Living /\ combat.fighting[k] # k
  BY <1>3, <1>5 DEF Good, Fighters
<1>7. /\ n \in (Listed(combat) \ {k}) \cup {Nobody}
      /\ From(combat.list, n) = From(combat.list, k) \ {k}
  BY <1>3, <1>4, NextInList DEF Listed
<1>8. /\ freed'.next_char = n
      /\ freed'.who = freed.who /\ freed'.then = freed.then
  BY <1>1 DEF IInv, Types
<1>9. /\ Good(x) /\ x.due \subseteq combat.due
      /\ combat.fighting[k] # freed.who => x = combat
      /\ combat.fighting[k] = freed.who /\ ~x.astray =>
           Clears(combat, x, k, freed.who)
  <2>1. CASE combat.fighting[k] = freed.who
    <3>1. x \in StopFighting(combat, k) /\ freed.who \in Being \ {k}
      BY <1>2, <1>3, <1>6, <2>1
    <3>2. /\ Good(x)
          /\ x.berserk \subseteq combat.berserk /\ x.due \subseteq combat.due
          /\ combat.astray => x.astray
          /\ ~x.astray => k \notin x.engaged
          /\ k \notin combat.berserk => ~Fights(x, k)
          /\ ~x.astray => \A a \in Being \ {k} :
               combat.fighting[k] = a => Clears(combat, x, k, a)
      BY <1>3, <1>6, <3>1, StopFightingGood
    <3> QED BY <2>1, <3>1, <3>2
  <2>2. CASE combat.fighting[k] # freed.who
    BY <1>2, <1>3, <2>2
  <2> QED BY <2>1, <2>2
<1> DEFINE a == x.astray \/ n \notin Listed(x) \cup {Nobody}
<1>10. combat' = [x EXCEPT !.astray = a] /\ a \in BOOLEAN /\ (x.astray => a)
  BY <1>2, <1>9 DEF Good, World
<1>11. a = FALSE => ~x.astray /\ n \in Listed(x) \cup {Nobody}
  OBVIOUS
<1> HIDE DEF a
<1>12. /\ Good(combat')
       /\ combat'.list = x.list /\ combat'.fighting = x.fighting
       /\ combat'.due = x.due /\ combat'.astray = a
  BY <1>9, <1>10, AstrayGood
<1>13. combat.fighting[k] = freed.who /\ ~combat'.astray =>
         Clears(combat, combat', k, freed.who)
  BY <1>9, <1>11, <1>12 DEF Clears, Listed
<1>14. ~combat'.astray => n \in Listed(combat') \cup {Nobody}
  BY <1>11, <1>12 DEF Listed
<1> QED BY <1>1, <1>3, <1>6, <1>7, <1>8, <1>9, <1>12, <1>13, <1>14

LEMMA StopOpponentIInv ==
  ASSUME IInv, StopOpponent, ~combat.astray
  PROVE  IInv'
<1>0. PICK k, n : k = freed.next_char /\ n = NextFighting(combat.list, k)
  OBVIOUS
<1>1. /\ k \in Living /\ k \in Listed(combat)
      /\ n \in (Listed(combat) \ {k}) \cup {Nobody}
      /\ From(combat.list, n) = From(combat.list, k) \ {k}
      /\ phase' = "free"
      /\ freed'.next_char = n
      /\ freed'.who = freed.who /\ freed'.then = freed.then
      /\ Good(combat') /\ combat'.due \subseteq combat.due
      /\ ~combat'.astray => n \in Listed(combat') \cup {Nobody}
      /\ combat.fighting[k] # freed.who =>
           combat'.list = combat.list /\ combat'.fighting = combat.fighting
      /\ combat.fighting[k] = freed.who /\ ~combat'.astray =>
           Clears(combat, combat', k, freed.who)
  BY <1>0, StopOpponentSteps
<1>2. /\ phase = "free" /\ freed' = [freed EXCEPT !.next_char = n]
      /\ UNCHANGED <<alive, phase, pulse, ch, vict>>
  BY <1>0 DEF StopOpponent
<1>3. Good(combat)
  BY <1>2 DEF IInv
<1>4. ASSUME Berserker \cap Purged = {}, ~combat'.astray
      PROVE  Leaves(combat', freed')
  <2> DEFINE who == freed.who
  <2>1. /\ combat.fighting[who] = Nobody
        /\ \A j \in Being : combat.fighting[j] = who => j \in From(combat.list, k)
    BY <1>0, <1>2, <1>4 DEF IInv, Leaving, Leaves
  <2> HIDE DEF who
  <2>2. ASSUME NEW j \in Being, combat'.fighting[j] = who
        PROVE  j \in From(combat'.list, n)
    <3>1. CASE combat.fighting[k] = who
      <4>1. Clears(combat, combat', k, who)
        BY <1>1, <1>4, <3>1 DEF who
      <4>2. j # k /\ combat.fighting[j] = who
        BY <2>2, <4>1 DEF Clears
      <4>3. j \in From(combat.list, n)
        BY <1>1, <2>1, <4>2
      <4>4. n # Nobody
        BY <1>3, <4>3, FromNobody DEF Good, World
      <4> QED BY <1>1, <1>4, <2>2, <4>1, <4>3, <4>4 DEF Clears
    <3>2. CASE combat.fighting[k] # who
      <4>1. combat'.list = combat.list /\ combat'.fighting = combat.fighting
        BY <1>1, <3>2 DEF who
      <4> QED BY <1>1, <2>1, <2>2, <3>2, <4>1
    <3> QED BY <3>1, <3>2
  <2>3. combat'.fighting[who] = Nobody
    <3>1. CASE combat.fighting[k] = who
      <4>1. Clears(combat, combat', k, who)
        BY <1>1, <1>4, <3>1 DEF who
      <4> QED BY <2>1, <4>1 DEF Clears
    <3>2. CASE combat.fighting[k] # who
      BY <1>1, <2>1, <3>2 DEF who
    <3> QED BY <3>1, <3>2
  <2> QED BY <1>1, <2>2, <2>3 DEF Leaves, who
<1>5. Living' = Living
  BY <1>2 DEF Living
<1>6. Good(combat)'
  BY <1>1, <1>2, <1>5
     DEF Good, Fighters, Once, Counted, Walk, Listed, Fights, Strikers
<1>7. Leaving'
  BY <1>1, <1>2, <1>4 DEF IInv, Leaving, Leaves, Listed
<1>8. Types'
  <2>1. Listed(combat) \subseteq Being
    BY <1>3, RangeOfSeq DEF Listed, Good, World
  <2> QED BY <1>1, <1>2, <2>1 DEF IInv, Types
<1>9. InBlow' /\ Ticking'
  BY <1>1, <1>2, <1>5 DEF IInv, InBlow, Ticking
<1> QED BY <1>2, <1>6, <1>7, <1>8, <1>9 DEF IInv

LEMMA FreedIInv ==
  ASSUME IInv, Freed, ~combat.astray
  PROVE  IInv'
<1>1. /\ phase = "free" /\ freed.next_char = Nobody
      /\ alive' = alive \ {freed.who}
      /\ freed' = NoFree /\ phase' = freed.then
      /\ UNCHANGED <<combat, pulse>>
  BY DEF Freed
<1>2. IF freed.then \in {"loop", "tick"}
      THEN /\ ch' = IF freed.then = "loop" THEN combat.next ELSE Nobody
           /\ vict' = Nobody
      ELSE UNCHANGED <<ch, vict>>
  BY DEF Freed
<1>3. Good(combat)
  BY <1>1 DEF IInv
<1>4. alive' \subseteq Living' /\ Living' \subseteq Being
      /\ Living \ {freed.who} \subseteq Living'
  <2>1. alive' \subseteq Being
    BY <1>1 DEF IInv, Types
  <2> QED BY <1>1, <2>1 DEF Living
<1>5. Fighters(combat)'
  <2>1. \A b \in Being : Fights(combat, b) =>
          /\ b \in Listed(combat) /\ b \in Living
          /\ combat.fighting[b] \in Living \ {b}
    BY <1>3 DEF Good, Fighters
  <2>2. CASE Berserker \cap Purged = {}
    <3>1. Leaves(combat, freed)
      BY <1>1, <2>2 DEF IInv, Leaving
    <3>2. From(combat.list, Nobody) = {}
      BY <1>3, FromNobody DEF Good, World
    <3>3. \A b \in Being : Fights(combat, b) =>
            b # freed.who /\ combat.fighting[b] # freed.who
      BY <1>1, <3>1, <3>2 DEF Leaves, Fights
    <3>4. \A b \in Being : Fights(combat, b) =>
            /\ b \in Listed(combat) /\ b \in Living'
            /\ combat.fighting[b] \in Living' \ {b}
      BY <1>4, <2>1, <3>3
    <3> QED BY <1>1, <3>4 DEF Fighters, Fights, Listed
  <2>3. CASE Berserker \cap Purged # {}
    <3>1. Living' = Living
      BY <2>3 DEF Living
    <3> QED BY <1>1, <1>3, <3>1 DEF Good, Fighters, Fights, Listed
  <2> QED BY <2>2, <2>3
<1>6. Once(combat)' /\ Counted(combat)' /\ Walk(combat)' /\ combat' \in World
  BY <1>1, <1>3 DEF Good, Once, Fights, Counted, Walk, Listed, Strikers
<1>7. Good(combat)'
  BY <1>4, <1>5, <1>6 DEF Good
<1>8. Types'
  <2>1. phase' \in {"idle", "tick", "loop", "blow"}
    BY <1>1 DEF IInv, Types
  <2>2. ch' \in Being \cup {Nobody} /\ vict' \in Being \cup {Nobody}
    BY <1>2, <1>3 DEF IInv, Types, Good, World
  <2> QED BY <1>1, <2>1, <2>2 DEF IInv, Types, NoFree
<1>9. phase' = "loop" => AtHead'
  <2> SUFFICES ASSUME phase' = "loop" PROVE AtHead'
    OBVIOUS
  <2>1. ch' = combat.next
    BY <1>1, <1>2
  <2> QED BY <1>1, <1>7, <2>1 DEF AtHead, Good, Walk, Listed
<1>10. InBlow'
  <2> SUFFICES ASSUME phase' = "blow" PROVE InBlow'
    BY <1>1 DEF InBlow, NoFree
  <2>1. /\ ch \in Living /\ vict \in Living /\ freed.who \notin {ch, vict}
        /\ ch' = ch /\ vict' = vict
    BY <1>1, <1>2 DEF IInv, InBlow
  <2>2. ch \in Living' /\ vict \in Living'
    BY <1>4, <2>1
  <2> QED BY <2>1, <2>2 DEF InBlow
<1>11. Ticking' /\ Leaving'
  BY <1>1 DEF IInv, Types, Ticking, Leaving, NoFree
<1> QED BY <1>7, <1>8, <1>9, <1>10, <1>11 DEF IInv

-----------------------------------------------------------------------------
(* perform_violence() *)

LEMMA EdgesIInv ==
  ASSUME IInv, StartViolence \/ EndViolence
  PROVE  IInv'
<1>1. /\ phase \in {"idle", "tick"} /\ phase' \in {"idle", "tick"}
      /\ pulse' \in 0..COMBAT
      /\ UNCHANGED <<combat, alive, ch, vict, freed>>
  BY RoundAssumption DEF StartViolence, EndViolence, IInv, Types
<1>2. Living' = Living
  BY <1>1 DEF Living
<1>3. Good(combat)
  BY <1>1 DEF IInv
<1>4. Good(combat)'
  BY <1>1, <1>2, <1>3
     DEF Good, Fighters, Once, Counted, Walk, Listed, Fights, Strikers
<1> QED BY <1>1, <1>4 DEF IInv, Types, InBlow, Leaving, Ticking

LEMMA StartTickIInv ==
  ASSUME IInv, StartTick, ~combat.astray
  PROVE  IInv'
<1> DEFINE D == Range(combat.list)
<1>1. /\ phase = "tick" /\ pulse < COMBAT /\ phase' = "loop"
      /\ ch' = IF combat.list = <<>> THEN Nobody ELSE Head(combat.list)
      /\ combat' = [combat EXCEPT !.due = D]
      /\ UNCHANGED <<alive, pulse, vict, freed>>
  BY DEF StartTick
<1>2. Good(combat) /\ combat.list \in Seq(Being) /\ D \in SUBSET Being
  <2>1. Good(combat) /\ combat.list \in Seq(Being)
    BY <1>1 DEF IInv, Good, World
  <2> QED BY <2>1, RangeOfSeq
<1>3. Living' = Living
  BY <1>1 DEF Living
<1> HIDE DEF D
<1>4. /\ combat' \in World
      /\ combat'.list = combat.list /\ combat'.next = combat.next
      /\ combat'.fighting = combat.fighting /\ combat'.engaged = combat.engaged
      /\ combat'.attackers = combat.attackers /\ combat'.due = D
  BY <1>1, <1>2 DEF Good, World
<1>5. Fighters(combat)' /\ Once(combat)' /\ Counted(combat)'
  BY <1>2, <1>3, <1>4 DEF Good, Fighters, Once, Counted, Listed, Fights, Strikers
<1>6. /\ ch' \in Listed(combat) \cup {Nobody}
      /\ D = From(combat.list, ch')
      /\ ch' = Nobody => combat.next = Nobody
  <2>1. CASE combat.list = <<>>
    <3>1. D = {} /\ Listed(combat) = {}
      BY <2>1 DEF Listed, Range, D
    <3>2. From(combat.list, Nobody) = {}
      BY <1>2, FromNobody
    <3> QED BY <1>1, <1>2, <2>1, <3>1, <3>2 DEF Good, Walk
  <2>2. CASE combat.list # <<>>
    <3>1. ch' = combat.list[1]
      BY <1>1, <1>2, <2>2
    <3>2. combat.list[1] \in D /\ From(combat.list, combat.list[1]) = D
      BY <1>2, <2>2, FromFirst DEF D
    <3>3. ch' # Nobody
      BY <1>2, <3>1, <3>2, NobodyAssumption
    <3> QED BY <3>1, <3>2, <3>3 DEF Listed, D
  <2> QED BY <2>1, <2>2
<1>7. combat'.next \in Listed(combat') \cup {Nobody}
  BY <1>2, <1>4 DEF Good, Walk, Listed
<1>8. AtHead'
  BY <1>2, <1>3, <1>1, <1>4, <1>5, <1>6, <1>7 DEF AtHead, Good, Listed
<1>9. Types'
  <2>1. Listed(combat) \subseteq Being
    BY <1>2, RangeOfSeq DEF Listed
  <2> QED BY <1>1, <1>6, <2>1 DEF IInv, Types
<1> QED BY <1>1, <1>8, <1>9 DEF IInv, InBlow, Leaving, Ticking

(* A turn: whoever's turn it is has had it, the walk goes on behind. *)
LEMMA TurnGood ==
  ASSUME IInv, phase = "loop", ch # Nobody, ~combat.astray
  PROVE  /\ Good(Turn(combat))
         /\ ch \in Living /\ combat.fighting[ch] \in Living
<1> DEFINE w == Turn(combat)
           n == NextFighting(combat.list, ch)
<1>1. AtHead /\ ch \in Listed(combat)
  BY DEF IInv, AtHead
<1>2. /\ combat \in World /\ combat.list \in Seq(Being)
      /\ IsInjective(combat.list) /\ ch \in Range(combat.list)
  BY <1>1 DEF AtHead, World, Once, Listed
<1>3. /\ n \in (Listed(combat) \ {ch}) \cup {Nobody}
      /\ From(combat.list, n) = From(combat.list, ch) \ {ch}
  BY <1>2, NextInList DEF Listed
<1>4. Listed(combat) \subseteq Being
  BY <1>2, RangeOfSeq DEF Listed
<1>5. w = [combat EXCEPT !.next = n, !.due = @ \ {ch}]
  BY DEF Turn
<1> HIDE DEF w, n
<1>6. /\ w \in World
      /\ w.list = combat.list /\ w.next = n
      /\ w.fighting = combat.fighting /\ w.engaged = combat.engaged
      /\ w.attackers = combat.attackers /\ w.due = combat.due \ {ch}
  BY <1>2, <1>3, <1>4, <1>5 DEF World
<1>7. Fighters(w) /\ Once(w) /\ Counted(w)
  BY <1>1, <1>6 DEF AtHead, Fighters, Once, Counted, Listed, Fights, Strikers
<1>8. Walk(w)
  BY <1>1, <1>3, <1>6 DEF AtHead, Walk, Listed
<1>9. ch \in Living /\ combat.fighting[ch] \in Living
  BY <1>1, <1>4 DEF AtHead, Fighters, Once
<1> QED BY <1>1, <1>6, <1>7, <1>8, <1>9 DEF Good, AtHead, w

LEMMA TurnStopsIInv ==
  ASSUME IInv, TurnStops, ~combat.astray
  PROVE  IInv'
<1>1. /\ phase = "loop" /\ ch # Nobody
      /\ UNCHANGED <<alive, phase, pulse, vict, freed>>
  BY DEF TurnStops
<1>2. PICK w \in StopFighting(Turn(combat), ch) : combat' = w /\ ch' = w.next
  BY DEF TurnStops
<1>3. Good(w)
  BY <1>1, TurnGood, StopFightingGood
<1>4. Living' = Living
  BY <1>1 DEF Living
<1>5. /\ Fighters(combat)'
      /\ ~combat'.astray => Once(combat)' /\ Counted(combat)'
  BY <1>2, <1>3, <1>4 DEF Good, Fighters, Once, Counted, Listed, Fights, Strikers
<1>6. AtHead'
  BY <1>1, <1>2, <1>3, <1>4, <1>5 DEF Good, AtHead, Walk, Listed
<1>7. Types'
  BY <1>1, <1>2, <1>3 DEF IInv, Types, Good, World
<1> QED BY <1>1, <1>6, <1>7 DEF IInv, InBlow, Leaving, Ticking

LEMMA TurnHitsIInv ==
  ASSUME IInv, TurnHits, ~combat.astray
  PROVE  IInv'
<1>1. /\ phase = "loop" /\ ch # Nobody /\ phase' = "blow"
      /\ vict' = combat.fighting[ch] /\ combat' = Turn(combat)
      /\ UNCHANGED <<alive, pulse, ch, freed>>
  BY DEF TurnHits
<1>2. /\ Good(combat') /\ ch \in Living /\ combat.fighting[ch] \in Living
  BY <1>1, TurnGood
<1>3. Living' = Living
  BY <1>1 DEF Living
<1>4. Good(combat)'
  BY <1>1, <1>2, <1>3
     DEF Good, Fighters, Once, Counted, Walk, Listed, Fights, Strikers
<1>5. Types'
  BY <1>1, <1>2 DEF IInv, Types, Good
<1>6. InBlow'
  BY <1>1, <1>2, <1>3 DEF InBlow
<1> QED BY <1>1, <1>4, <1>5, <1>6 DEF IInv, Leaving, Ticking

LEMMA BlowEndsIInv ==
  ASSUME IInv, BlowEnds
  PROVE  IInv'
<1>1. /\ phase = "blow" /\ phase' = "loop"
      /\ ch' = combat.next /\ vict' = Nobody
      /\ UNCHANGED <<combat, alive, pulse, freed>>
  BY DEF BlowEnds
<1>2. Good(combat)
  BY <1>1 DEF IInv
<1>3. Living' = Living
  BY <1>1 DEF Living
<1>4. AtHead'
  BY <1>1, <1>2, <1>3
     DEF AtHead, Good, Fighters, Once, Counted, Walk, Listed, Fights, Strikers
<1>5. Types'
  BY <1>1, <1>2 DEF IInv, Types, Good, World
<1> QED BY <1>1, <1>4, <1>5 DEF IInv, InBlow, Leaving, Ticking

LEMMA EndTickIInv ==
  ASSUME IInv, EndTick, ~combat.astray
  PROVE  IInv'
<1>1. /\ phase = "loop" /\ ch = Nobody /\ phase' = "tick"
      /\ pulse' = pulse + 1
      /\ UNCHANGED <<combat, alive, ch, vict, freed>>
  BY DEF EndTick
<1>2. AtHead
  BY <1>1 DEF IInv
<1>3. Living' = Living
  BY <1>1 DEF Living
<1>4. Good(combat)'
  BY <1>1, <1>2, <1>3
     DEF AtHead, Good, Fighters, Once, Counted, Walk, Listed, Fights, Strikers
<1>5. Types'
  BY <1>1, RoundAssumption DEF IInv, Types, Ticking
<1> QED BY <1>1, <1>4, <1>5 DEF IInv, InBlow, Leaving, Ticking

(* Who dies of a blow: the one who was struck or the one who struck. *)
LEMMA BlowDeathsIInv ==
  ASSUME IInv, BlowKills \/ BlowBackfires
  PROVE  IInv'
<1>1. phase = "blow" /\ Good(combat) /\ UNCHANGED <<alive, ch, vict>>
  BY DEF IInv, BlowKills, BlowBackfires
<1>2. pulse < COMBAT /\ pulse \in 0..COMBAT
  BY <1>1 DEF IInv, Types, Ticking
<1>3. vict \in Living /\ ch \in Living
  BY <1>1 DEF IInv, InBlow
<1>4. CASE BlowKills
  <2>1. PICK w \in Slay(combat, vict) : Free(w, vict, "loop") /\ pulse' = pulse
    BY <1>4 DEF BlowKills
  <2>2. Good(w) /\ vict \notin w.berserk
    BY <1>1, <1>3, SlayGood
  <2> QED BY <1>1, <1>2, <1>3, <2>1, <2>2, FreeIInv
<1>5. CASE BlowBackfires
  <2>1. PICK w \in Slay(combat, ch) : Free(w, ch, "tick") /\ pulse' = pulse + 1
    BY <1>5 DEF BlowBackfires
  <2>2. Good(w) /\ ch \notin w.berserk
    BY <1>1, <1>3, SlayGood
  <2>3. pulse' \in 0..COMBAT
    BY <1>2, <2>1, RoundAssumption
  <2> QED BY <1>1, <1>2, <1>3, <2>1, <2>2, <2>3, FreeIInv
<1> QED BY <1>4, <1>5

-----------------------------------------------------------------------------
LEMMA NextIInv == IInv /\ [Next]_vars => IInv'
<1> SUFFICES ASSUME IInv, [Next]_vars PROVE IInv'
  OBVIOUS
<1>1. CASE UNCHANGED vars
  <2>1. /\ combat' = combat /\ alive' = alive /\ phase' = phase
        /\ pulse' = pulse /\ ch' = ch /\ vict' = vict /\ freed' = freed
    BY <1>1 DEF vars
  <2>2. Living' = Living
    BY <2>1 DEF Living
  <2>3. Good(combat)' = Good(combat) /\ AtHead' = AtHead
    BY <2>1, <2>2 DEF Good, AtHead, Fighters, Once, Counted, Walk, Listed, Fights, Strikers
  <2>4. Leaving' = Leaving
    BY <2>1 DEF Leaving, Leaves, Listed
  <2> QED BY <2>1, <2>2, <2>3, <2>4 DEF IInv, Types, InBlow, Ticking
<1>2. ASSUME NEW b \in alive, NEW v \in alive,
             Damage(b, v) \/ Hit(b, v) \/ Engage(b, v)
      PROVE  IInv'
  BY <1>2, DamageIInv, HitIInv, EngageIInv
<1>3. ASSUME NEW b \in alive,
             \/ Stop(b) \/ Berserk(b) \/ Kill(b) \/ Purge(b)
             \/ Disengage(b) \/ Flee(b) \/ CalmDown(b)
      PROVE  IInv'
  BY <1>3, StopIInv, BerserkIInv, KillIInv, PurgeIInv, DisengageIInv, FleeIInv,
     CalmDownIInv
<1>4. CASE ~combat.astray /\ (StopOpponent \/ Freed)
  BY <1>4, StopOpponentIInv, FreedIInv
<1>5. CASE /\ ~combat.astray
           /\ StartViolence \/ EndViolence \/ StartTick \/ EndTick
  BY <1>5, EdgesIInv, StartTickIInv, EndTickIInv
<1>6. CASE /\ ~combat.astray
           /\ TurnStops \/ TurnHits \/ BlowEnds \/ BlowKills \/ BlowBackfires
  BY <1>6, TurnStopsIInv, TurnHitsIInv, BlowEndsIInv, BlowDeathsIInv
<1> QED BY <1>1, <1>2, <1>3, <1>4, <1>5, <1>6 DEF Next, Acts, Astray

LEMMA Inductive == Spec => []IInv
BY InitIInv, NextIInv, PTL DEF Spec

LEMMA IInvFights ==
  IInv => /\ combat \in World /\ Fighters(combat)
          /\ ~combat.astray => Once(combat) /\ Counted(combat)
BY DEF IInv, Good, AtHead, Types

(* Types are kept whatever fights begin, stop and end in death.            *)
THEOREM TypeCorrect == Spec => []TypeOK
<1>1. IInv => TypeOK
  BY IInvFights DEF IInv, Types, TypeOK
<1> QED BY <1>1, Inductive, PTL

(* gCombatList is the list of those who fight, once each, at every step of *)
(* setFighting(), the responses that run in its middle, stopFighting(),    *)
(* their re-entry through goBerserk() and the destructor, and the abort()  *)
(* of stopFighting() is not reached: up to the response that puts somebody *)
(* into the list who is in it.                                             *)
THEOREM ListCorrect == Spec => []ListedFight
<1>1. IInv => ListedFight
  <2>1. IInv => Listed(combat) \subseteq Being
    BY IInvFights, RangeOfSeq DEF Listed, World
  <2> QED BY <2>1, IInvFights DEF Fighters, Once, ListedFight
<1> QED BY <1>1, Inductive, PTL

(* The walk of perform_violence() has always still to come to exactly      *)
(* those who fight since before the tick and had no turn at it, even when  *)
(* a response stops and starts fights between a being's entry into the     *)
(* list and its first opponent, unless it leads the walk astray.           *)
THEOREM WalkCorrect == Spec => []TurnsInOrder
<1>1. IInv => TurnsInOrder
  BY DEF IInv, Good, Walk, AtHead, TurnsInOrder
<1> QED BY <1>1, Inductive, PTL

(* attackers of a being is never less than those who strike at it, until a *)
(* walk is led astray.                                                     *)
THEOREM CountCorrect == Spec => [](~combat.astray => NeverTooFew)
<1>1. IInv => (~combat.astray => NeverTooFew)
  BY IInvFights DEF Counted, NeverTooFew
<1> QED BY <1>1, Inductive, PTL

(* Nobody fights or is fought after it was freed, if nobody who may        *)
(* berserk is deleted otherwise than by death (without that assumption     *)
(* doPurge() breaks it), until a walk is led astray.                       *)
THEOREM NobodyFreedFights ==
  ASSUME Berserker \cap Purged = {}
  PROVE  Spec => [](~combat.astray => NobodyFightsTheFreed)
<1>1. IInv => (~combat.astray => NobodyFightsTheFreed)
  <2>1. Living = alive
    BY DEF Living
  <2>2. IInv => Listed(combat) \subseteq Being
    BY IInvFights, RangeOfSeq DEF Listed, World
  <2> QED BY <2>1, <2>2, IInvFights DEF Fighters, Once, NobodyFightsTheFreed
<1> QED BY <1>1, Inductive, PTL

-----------------------------------------------------------------------------
(* The descent of a round of violence.                                     *)

-----------------------------------------------------------------------------
(* Where a round is: a destructor belongs to the step that called it. *)
At == IF phase = "free" THEN freed.then ELSE phase

(* How many steps of the round are left at the tick: two for each turn     *)
(* that somebody is due, one for a blow that is dealt.                     *)
Left(at, n) ==
  CASE at = "idle" -> 0
    [] at = "tick" -> 2 * Cardinality(Being) + 2
    [] at = "loop" -> 2 * n
    [] at = "blow" -> 2 * n + 1

TickLeft == Left(At, Cardinality(combat.due))

RoundStep ==
  \/ StartTick \/ EndTick \/ EndViolence \/ TurnStops \/ TurnHits
  \/ BlowEnds \/ BlowKills \/ BlowBackfires

(* Every step of a round of violence ends a tick or lowers what is left of *)
(* the tick, and nothing else that happens in the round raises it: no      *)
(* fights that are begun and stopped by the blows keep perform_violence()  *)
(* in its loop, until a walk is led astray (Astray).                       *)
RoundDescends ==
  [][At # "idle" =>
       /\ TickLeft \in 0 .. 2 * Cardinality(Being) + 2
       /\ pulse' \in pulse .. COMBAT
       /\ pulse' = pulse => TickLeft' <= TickLeft
       /\ RoundStep => pulse' > pulse \/ TickLeft' < TickLeft]_vars

(* Those ~TBeing() has still to stop, and those it has still to look at. *)
Chasing == {k \in Being : combat.fighting[k] = freed.who}
Behind == From(combat.list, freed.next_char)

(* The walk of a destructor over gCombatList comes to its end unless it is *)
(* led astray: at each step one less fights the being that is freed, even  *)
(* if that one begins at once to fight another, or one less is ahead.  (A  *)
(* response to the new fight may bring the next one to the head of the     *)
(* list: then everybody is ahead once more, but one less to be stopped.)   *)
FreeDescends ==
  [][phase = "free" /\ phase' = "free" /\ ~combat'.astray =>
       \/ Cardinality(Chasing') < Cardinality(Chasing)
       \/ /\ Chasing' = Chasing
          /\ Cardinality(Behind') < Cardinality(Behind)]_vars

(* What is left of a tick. *)
LEMMA LeftBounds ==
  ASSUME NEW n \in 0..Cardinality(Being)
  PROVE  /\ Left("idle", n) = 0
         /\ Left("tick", n) = 2 * Cardinality(Being) + 2
         /\ Left("loop", n) = 2 * n
         /\ Left("blow", n) = 2 * n + 1
         /\ \A at \in {"idle", "tick", "loop", "blow"} :
              Left(at, n) \in 0 .. 2 * Cardinality(Being) + 2
<1>1. Cardinality(Being) \in Nat
  BY FiniteAssumption, FS_CardinalityType
<1> QED BY <1>1 DEF Left

LEMMA Fewer ==
  ASSUME NEW S \in SUBSET Being, NEW T \in SUBSET S
  PROVE  /\ Cardinality(S) \in 0..Cardinality(Being)
         /\ Cardinality(T) \in 0..Cardinality(S)
         /\ Cardinality(T) \in 0..Cardinality(Being)
         /\ T # S => Cardinality(T) < Cardinality(S)
<1>1. /\ IsFiniteSet(Being) /\ IsFiniteSet(S) /\ IsFiniteSet(T)
  BY FiniteAssumption, FS_Subset
<1>2. /\ Cardinality(Being) \in Nat /\ Cardinality(S) \in Nat
      /\ Cardinality(T) \in Nat
  BY <1>1, FS_CardinalityType
<1>3. Cardinality(S) <= Cardinality(Being) /\ Cardinality(T) <= Cardinality(S)
  BY <1>1, FS_Subset
<1>4. T # S => Cardinality(T) < Cardinality(S)
  BY <1>1, <1>3, <1>2, FS_Subset
<1> QED BY <1>2, <1>3, <1>4

(* Where the due are as many or fewer, nothing is raised. *)
LEMMA LeftFewer ==
  ASSUME NEW at \in {"idle", "tick", "loop", "blow"},
         NEW S \in SUBSET Being, NEW T \in SUBSET S
  PROVE  Left(at, Cardinality(T)) <= Left(at, Cardinality(S))
<1> DEFINE m == Cardinality(T)
           n == Cardinality(S)
<1>1. m \in 0..n /\ n \in 0..Cardinality(Being) /\ m \in 0..Cardinality(Being)
  BY Fewer
<1>2. Cardinality(Being) \in Nat
  BY FiniteAssumption, FS_CardinalityType
<1> HIDE DEF m, n
<1>3. /\ Left("idle", n) = 0 /\ Left("idle", m) = 0
      /\ Left("tick", n) = Left("tick", m)
      /\ Left("tick", n) \in Int
      /\ Left("loop", n) = 2 * n /\ Left("loop", m) = 2 * m
      /\ Left("blow", n) = 2 * n + 1 /\ Left("blow", m) = 2 * m + 1
  BY <1>1, <1>2, LeftBounds
<1>4. Left(at, m) <= Left(at, n)
  BY <1>1, <1>2, <1>3
<1> QED BY <1>4 DEF m, n

LEMMA RoundTypes ==
  ASSUME IInv
  PROVE  /\ At \in {"idle", "tick", "loop", "blow"}
         /\ combat.due \in SUBSET Being
         /\ pulse \in 0..COMBAT
         /\ COMBAT \in Nat
         /\ Cardinality(combat.due) \in 0..Cardinality(Being)
         /\ TickLeft \in 0 .. 2 * Cardinality(Being) + 2
<1>1. At \in {"idle", "tick", "loop", "blow"}
  BY DEF IInv, Types, At
<1>2. combat.due \in SUBSET Being
  BY IInvFights DEF World
<1>3. Cardinality(combat.due) \in 0..Cardinality(Being)
  BY <1>2, Fewer
<1> QED BY <1>1, <1>2, <1>3, LeftBounds, RoundAssumption DEF IInv, Types, TickLeft

(* Nobody is due that was not, and the round is where it was. *)
LEMMA StayDescends ==
  ASSUME IInv, IInv', At' = At, pulse' = pulse, combat'.due \subseteq combat.due
  PROVE  TickLeft' <= TickLeft /\ pulse' \in pulse .. COMBAT
<1>1. /\ At \in {"idle", "tick", "loop", "blow"}
      /\ combat.due \in SUBSET Being /\ pulse \in 0..COMBAT /\ COMBAT \in Nat
  BY RoundTypes
<1>2. Left(At, Cardinality(combat'.due)) <= Left(At, Cardinality(combat.due))
  BY <1>1, LeftFewer
<1> QED BY <1>1, <1>2 DEF TickLeft

LEMMA TurnDue ==
  ASSUME IInv, phase = "loop", ch # Nobody, ~combat.astray
  PROVE  /\ ch \in combat.due
         /\ Turn(combat).due = combat.due \ {ch}
<1>1. AtHead
  BY DEF IInv
<1>2. combat.list \in Seq(Being) /\ combat \in World /\ ch \in Range(combat.list)
  BY <1>1 DEF AtHead, World, Listed
<1>3. ch \in From(combat.list, ch)
  BY <1>2, FromSelf
<1>4. Turn(combat).due = combat.due \ {ch}
  BY <1>2 DEF Turn, World
<1> QED BY <1>1, <1>3, <1>4 DEF AtHead

LEMMA TurnDescends ==
  ASSUME IInv, IInv', TurnStops \/ TurnHits, ~combat.astray
  PROVE  pulse' = pulse /\ TickLeft' < TickLeft
<1>1. phase = "loop" /\ ch # Nobody /\ pulse' = pulse
  BY DEF TurnStops, TurnHits
<1>2. /\ ch \in combat.due /\ Turn(combat).due = combat.due \ {ch}
      /\ Good(Turn(combat)) /\ ch \in Living
  BY <1>1, TurnDue, TurnGood
<1>3. /\ At' \in {"loop", "blow"} /\ At = "loop"
  BY <1>1 DEF TurnStops, TurnHits, At
<1>4. combat'.due \subseteq combat.due \ {ch}
  <2>1. CASE TurnStops
    <3>1. combat' \in StopFighting(Turn(combat), ch)
      BY <2>1 DEF TurnStops
    <3> QED BY <1>2, <3>1, StopFightingGood
  <2>2. CASE TurnHits
    BY <1>2, <2>2 DEF TurnHits
  <2> QED BY <2>1, <2>2
<1>5. combat.due \in SUBSET Being
  BY RoundTypes
<1> DEFINE m == Cardinality(combat'.due)
           n == Cardinality(combat.due)
<1>6. n \in 0..Cardinality(Being) /\ m \in 0..Cardinality(Being) /\ m < n
  BY <1>2, <1>4, <1>5, Fewer
<1>7. TickLeft = Left("loop", n) /\ TickLeft' \in {Left("loop", m), Left("blow", m)}
  BY <1>3 DEF TickLeft
<1>8. Cardinality(Being) \in Nat
  BY FiniteAssumption, FS_CardinalityType
<1> HIDE DEF m, n
<1>9. Left("loop", n) = 2 * n /\ Left("loop", m) = 2 * m /\ Left("blow", m) = 2 * m + 1
  BY <1>6, LeftBounds
<1>10. TickLeft' <= 2 * m + 1 /\ TickLeft = 2 * n
  BY <1>6, <1>7, <1>8, <1>9
<1>11. TickLeft' \in Int
  BY RoundTypes, <1>7, <1>8, <1>9, <1>6
<1> QED BY <1>1, <1>6, <1>8, <1>10, <1>11

(* A tick begins with at most everybody due, and ends with a pulse. *)
LEMMA TickDescends ==
  ASSUME IInv, IInv', StartTick \/ EndTick \/ EndViolence
  PROVE  /\ pulse' \in pulse .. COMBAT
         /\ pulse' > pulse \/ TickLeft' < TickLeft
<1>1. /\ pulse \in 0..COMBAT /\ pulse' \in 0..COMBAT /\ COMBAT \in Nat
      /\ Cardinality(combat.due) \in 0..Cardinality(Being)
      /\ Cardinality(combat'.due) \in 0..Cardinality(Being)
  <2>1. /\ pulse \in 0..COMBAT /\ COMBAT \in Nat
        /\ Cardinality(combat.due) \in 0..Cardinality(Being)
    BY RoundTypes
  <2>2. pulse' \in 0..COMBAT
    BY DEF IInv, Types
  <2>3. combat'.due \in SUBSET Being
    BY IInvFights DEF World, IInv, Good, AtHead, Types
  <2> QED BY <2>1, <2>2, <2>3, Fewer
<1>2. Cardinality(Being) \in Nat
  BY FiniteAssumption, FS_CardinalityType
<1>3. CASE EndTick
  BY <1>1, <1>3 DEF EndTick
<1>4. CASE StartTick \/ EndViolence
  <2>1. /\ At = "tick" /\ At' \in {"idle", "loop"} /\ pulse' = pulse
    BY <1>4 DEF StartTick, EndViolence, At
  <2>2. /\ TickLeft = 2 * Cardinality(Being) + 2
        /\ TickLeft' \in {0, 2 * Cardinality(combat'.due)}
    BY <1>1, <2>1, LeftBounds DEF TickLeft
  <2> QED BY <1>1, <1>2, <2>1, <2>2
<1> QED BY <1>3, <1>4

(* ~TBeing() begins with those it stops fighting. *)
LEMMA FreeDue ==
  ASSUME NEW w, Good(w), NEW b \in Living, NEW then, Free(w, b, then)
  PROVE  /\ combat'.due \subseteq w.due
         /\ phase' = "free" /\ freed'.then = then
<1>1. PICK x \in StopIfFighting(w, b) :
        /\ combat' = x
        /\ freed' = [who |-> b, then |-> then,
                     next_char |-> IF x.list = <<>> THEN Nobody ELSE x.list[1]]
  BY DEF Free
<1>2. phase' = "free"
  BY DEF Free
<1> QED BY <1>1, <1>2, StopIfFightingGood

LEMMA BlowDescends ==
  ASSUME IInv, IInv', BlowEnds \/ BlowKills \/ BlowBackfires
  PROVE  /\ pulse' \in pulse .. COMBAT
         /\ pulse' > pulse \/ TickLeft' < TickLeft
<1>1. phase = "blow" /\ Good(combat) /\ At = "blow"
  BY DEF IInv, BlowEnds, BlowKills, BlowBackfires, At
<1>2. pulse < COMBAT /\ pulse \in 0..COMBAT /\ COMBAT \in Nat
  BY <1>1, RoundAssumption DEF IInv, Types, Ticking
<1>3. vict \in Living /\ ch \in Living
  BY <1>1 DEF IInv, InBlow
<1>4. CASE BlowBackfires
  BY <1>2, <1>4 DEF BlowBackfires
<1>5. CASE BlowEnds \/ BlowKills
  <2>1. /\ pulse' = pulse /\ At' = "loop" /\ combat'.due \subseteq combat.due
    <3>1. CASE BlowEnds
      BY <3>1 DEF BlowEnds, At
    <3>2. CASE BlowKills
      <4>1. PICK w \in Slay(combat, vict) : Free(w, vict, "loop") /\ pulse' = pulse
        BY <3>2 DEF BlowKills
      <4>2. Good(w) /\ w.due \subseteq combat.due
        BY <1>1, <1>3, SlayGood
      <4>3. combat'.due \subseteq w.due /\ phase' = "free" /\ freed'.then = "loop"
        BY <1>3, <4>1, <4>2, FreeDue
      <4> QED BY <4>1, <4>2, <4>3 DEF At
    <3> QED BY <1>5, <3>1, <3>2
  <2> DEFINE m == Cardinality(combat'.due)
             n == Cardinality(combat.due)
  <2>2. combat.due \in SUBSET Being
    BY RoundTypes
  <2>3. m \in 0..n /\ n \in 0..Cardinality(Being) /\ m \in 0..Cardinality(Being)
    BY <2>1, <2>2, Fewer
  <2>4. TickLeft = Left("blow", n) /\ TickLeft' = Left("loop", m)
    BY <1>1, <2>1 DEF TickLeft
  <2> HIDE DEF m, n
  <2>5. TickLeft = 2 * n + 1 /\ TickLeft' = 2 * m
    BY <2>3, <2>4, LeftBounds
  <2>6. Cardinality(Being) \in Nat
    BY FiniteAssumption, FS_CardinalityType
  <2> QED BY <1>2, <2>1, <2>3, <2>5, <2>6
<1> QED BY <1>4, <1>5

(* What else happens in a round: because of a blow, or in a destructor. *)
LEMMA OthersStay ==
  ASSUME IInv, IInv', [Next]_vars, ~RoundStep, At # "idle"
  PROVE  At' = At /\ pulse' = pulse /\ combat'.due \subseteq combat.due
<1>1. CASE UNCHANGED vars
  BY <1>1 DEF vars, At
<1>2. ASSUME NEW b \in alive, NEW v \in alive, Damage(b, v)
      PROVE  At' = At /\ pulse' = pulse /\ combat'.due \subseteq combat.due
  <2>1. OthersRun /\ combat' \in Harm(combat, b, v)
        /\ phase' = phase /\ pulse' = pulse /\ freed' = freed
    BY <1>2 DEF Damage, Becomes
  <2>2. Good(combat) /\ b \in Living /\ v \in Living
    BY <2>1, OthersGood
  <2> QED BY <2>1, <2>2, HarmGood DEF At
<1>3. ASSUME NEW b \in alive, Stop(b)
      PROVE  At' = At /\ pulse' = pulse /\ combat'.due \subseteq combat.due
  <2>1. OthersRun /\ combat' \in StopFighting(combat, b)
        /\ phase' = phase /\ pulse' = pulse /\ freed' = freed
    BY <1>3 DEF Stop, Becomes
  <2>2. Good(combat) /\ b \in Living
    BY <2>1, OthersGood
  <2> QED BY <2>1, <2>2, StopFightingGood DEF At
<1>4. ASSUME NEW b \in alive, Berserk(b)
      PROVE  At' = At /\ pulse' = pulse /\ combat'.due \subseteq combat.due
  <2> DEFINE B == combat.berserk \cup {b}
             w == [combat EXCEPT !.berserk = B]
  <2>1. OthersRun /\ b \in Berserker
        /\ phase' = phase /\ pulse' = pulse /\ freed' = freed
    BY <1>4 DEF Berserk, Becomes
  <2>2. combat' \in GoBerserk([combat EXCEPT !.berserk = @ \cup {b}], b, Nobody)
    BY <1>4 DEF Berserk, Becomes
  <2>3. Good(combat) /\ b \in Living /\ combat \in World
    BY <2>1, OthersGood DEF Good
  <2>4. /\ w = [combat EXCEPT !.berserk = @ \cup {b}]
        /\ B \in SUBSET Berserker
        /\ w.due = combat.due
    BY <2>1, <2>3 DEF World
  <2>5. \E C \in SUBSET Berserker : w = [combat EXCEPT !.berserk = C]
    BY <2>4
  <2> HIDE DEF w, B
  <2>6. Good(w)
    BY <2>3, <2>5, BerserkGood
  <2>7. combat'.due \subseteq w.due
    BY <2>2, <2>3, <2>4, <2>6, GoBerserkGood
  <2> QED BY <2>1, <2>4, <2>7 DEF At
<1>5. ASSUME NEW b \in alive, Kill(b)
      PROVE  At' = At /\ pulse' = pulse /\ combat'.due \subseteq combat.due
  <2>1. OthersRun /\ pulse' = pulse /\ phase # "free"
    BY <1>5 DEF Kill, OthersRun
  <2>2. PICK w \in Slay(combat, b) : Free(w, b, phase)
    BY <1>5 DEF Kill
  <2>3. Good(combat) /\ b \in Living
    BY <2>1, OthersGood
  <2>4. Good(w) /\ w.due \subseteq combat.due
    BY <2>3, SlayGood
  <2>5. combat'.due \subseteq w.due /\ phase' = "free" /\ freed'.then = phase
    BY <2>2, <2>3, <2>4, FreeDue
  <2> QED BY <2>1, <2>4, <2>5 DEF At
<1>6. CASE StopOpponent /\ ~combat.astray
  <2>1. phase = "free" /\ pulse' = pulse
    BY <1>6 DEF StopOpponent
  <2>2. PICK k, n : k = freed.next_char /\ n = NextFighting(combat.list, k)
    OBVIOUS
  <2>3. /\ k \in Living /\ k \in Listed(combat)
        /\ n \in (Listed(combat) \ {k}) \cup {Nobody}
        /\ From(combat.list, n) = From(combat.list, k) \ {k}
        /\ phase' = "free"
        /\ freed'.next_char = n
        /\ freed'.who = freed.who /\ freed'.then = freed.then
        /\ Good(combat') /\ combat'.due \subseteq combat.due
        /\ ~combat'.astray => n \in Listed(combat') \cup {Nobody}
        /\ combat.fighting[k] # freed.who =>
             combat'.list = combat.list /\ combat'.fighting = combat.fighting
        /\ combat.fighting[k] = freed.who /\ ~combat'.astray =>
             Clears(combat, combat', k, freed.who)
    BY <1>6, <2>2, StopOpponentSteps
  <2> QED BY <2>1, <2>3 DEF At
<1>7. CASE Freed
  BY <1>7 DEF Freed, At, IInv, Types
<1>8. phase # "idle"
  BY DEF At
<1> QED BY <1>1, <1>2, <1>3, <1>4, <1>5, <1>6, <1>7, <1>8
        DEF Next, Acts, Astray, RoundStep, Hit, Engage, Purge, Disengage, Flee, CalmDown,
            StartViolence

(* A round of violence descends: each of its ticks by two steps a turn     *)
(* from at most twice the beings there are.                                *)
THEOREM RoundsDescend == Spec => RoundDescends
<1>1. ASSUME IInv, IInv', [Next]_vars, vars' # vars
      PROVE  At # "idle" =>
               /\ TickLeft \in 0 .. 2 * Cardinality(Being) + 2
               /\ pulse' \in pulse .. COMBAT
               /\ pulse' = pulse => TickLeft' <= TickLeft
               /\ RoundStep => pulse' > pulse \/ TickLeft' < TickLeft
  <2> SUFFICES ASSUME At # "idle"
               PROVE  /\ pulse' \in pulse .. COMBAT
                      /\ pulse' = pulse => TickLeft' <= TickLeft
                      /\ RoundStep => pulse' > pulse \/ TickLeft' < TickLeft
    BY <1>1, RoundTypes
  <2>1. /\ TickLeft \in Int /\ TickLeft' \in Int
        /\ pulse \in 0..COMBAT /\ COMBAT \in Nat
    <3>1. /\ TickLeft \in 0 .. 2 * Cardinality(Being) + 2
          /\ pulse \in 0..COMBAT /\ COMBAT \in Nat
      BY <1>1, RoundTypes
    <3>2. At' \in {"idle", "tick", "loop", "blow"}
      BY <1>1 DEF IInv, Types, At
    <3>3. combat'.due \in SUBSET Being
      BY <1>1 DEF IInv, Good, AtHead, World
    <3>4. Left(At', Cardinality(combat'.due)) \in 0 .. 2 * Cardinality(Being) + 2
      BY <3>2, <3>3, Fewer, LeftBounds
    <3> QED BY <3>1, <3>4 DEF TickLeft
  <2>2. CASE RoundStep
    <3>1. /\ pulse' \in pulse .. COMBAT
          /\ pulse' > pulse \/ TickLeft' < TickLeft
      <4>1. CASE TurnStops \/ TurnHits
        BY <1>1, <2>1, <2>2, <4>1, TurnDescends DEF Next, Astray
      <4>2. CASE StartTick \/ EndTick \/ EndViolence
        BY <1>1, <4>2, TickDescends
      <4>3. CASE BlowEnds \/ BlowKills \/ BlowBackfires
        BY <1>1, <4>3, BlowDescends
      <4> QED BY <2>2, <4>1, <4>2, <4>3 DEF RoundStep
    <3> QED BY <2>1, <3>1
  <2>3. CASE ~RoundStep
    BY <1>1, <2>1, <2>3, OthersStay, StayDescends
  <2> QED BY <2>2, <2>3
<1>2. IInv /\ IInv' /\ [Next]_vars =>
        [At # "idle" =>
           /\ TickLeft \in 0 .. 2 * Cardinality(Being) + 2
           /\ pulse' \in pulse .. COMBAT
           /\ pulse' = pulse => TickLeft' <= TickLeft
           /\ RoundStep => pulse' > pulse \/ TickLeft' < TickLeft]_vars
  BY <1>1
<1> QED BY <1>2, Inductive, PTL DEF RoundDescends, Spec

(* The walk of ~TBeing() over gCombatList descends. *)
THEOREM DestructorsDescend == Spec => FreeDescends
<1>1. ASSUME IInv, [Next]_vars, vars' # vars, phase = "free", phase' = "free",
             ~combat'.astray
      PROVE  \/ Cardinality(Chasing') < Cardinality(Chasing)
             \/ /\ Chasing' = Chasing
                /\ Cardinality(Behind') < Cardinality(Behind)
  <2>1. StopOpponent /\ ~combat.astray
    BY <1>1 DEF Next, Acts, Astray, Damage, Hit, Engage, Stop, Berserk, Kill,
       Purge, Disengage, Flee, CalmDown, OthersRun, StartViolence, StartTick,
       EndTick, EndViolence, TurnStops, TurnHits, BlowEnds, BlowKills,
       BlowBackfires, Freed, IInv, Types
  <2>2. PICK k, n : k = freed.next_char /\ n = NextFighting(combat.list, k)
    OBVIOUS
  <2>3. /\ k \in Living /\ k \in Listed(combat)
        /\ n \in (Listed(combat) \ {k}) \cup {Nobody}
        /\ From(combat.list, n) = From(combat.list, k) \ {k}
        /\ phase' = "free"
        /\ freed'.next_char = n
        /\ freed'.who = freed.who /\ freed'.then = freed.then
        /\ Good(combat') /\ combat'.due \subseteq combat.due
        /\ ~combat'.astray => n \in Listed(combat') \cup {Nobody}
        /\ combat.fighting[k] # freed.who =>
             combat'.list = combat.list /\ combat'.fighting = combat.fighting
        /\ combat.fighting[k] = freed.who /\ ~combat'.astray =>
             Clears(combat, combat', k, freed.who)
    BY <1>1, <2>1, <2>2, StopOpponentSteps
  <2>4. Good(combat) /\ k \in Being /\ combat.list \in Seq(Being)
    BY <1>1, <2>3 DEF IInv, Good, World
  <2>5. CASE combat.fighting[k] = freed.who
    <3>1. Clears(combat, combat', k, freed.who)
      BY <1>1, <2>3, <2>5
    <3>2. Chasing' \subseteq Chasing \ {k}
      BY <2>3, <3>1 DEF Clears, Chasing
    <3>3. k \in Chasing /\ Chasing \subseteq Being
      BY <2>4, <2>5 DEF Chasing
    <3> QED BY <3>2, <3>3, Fewer
  <2>6. CASE combat.fighting[k] # freed.who
    <3>1. combat'.list = combat.list /\ combat'.fighting = combat.fighting
      BY <2>3, <2>6
    <3>2. Chasing' = Chasing
      BY <2>3, <3>1 DEF Chasing
    <3>3. Behind = From(combat.list, k) /\ Behind' = Behind \ {k}
      BY <2>2, <2>3, <3>1 DEF Behind
    <3>4. k \in From(combat.list, k)
      BY <2>3, <2>4, FromSelf DEF Listed
    <3>5. From(combat.list, k) \subseteq Being
      <4>1. From(combat.list, k) \subseteq Range(combat.list)
        BY FromMember, RangeMember, <2>4
      <4> QED BY <2>4, <4>1, RangeOfSeq
    <3> QED BY <3>2, <3>3, <3>4, <3>5, Fewer
  <2> QED BY <2>5, <2>6
<1>2. IInv /\ [Next]_vars =>
        [phase = "free" /\ phase' = "free" /\ ~combat'.astray =>
           \/ Cardinality(Chasing') < Cardinality(Chasing)
           \/ /\ Chasing' = Chasing
              /\ Cardinality(Behind') < Cardinality(Behind)]_vars
  BY <1>1
<1> QED BY <1>2, Inductive, PTL DEF FreeDescends, Spec
=============================================================================
