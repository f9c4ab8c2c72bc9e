--------------------------- MODULE CharLoopProofs ---------------------------
(***************************************************************************)
(* runChar() keeps its bookkeeping in order, for any number of beings that *)
(* come and go.  The bound on procIdx is the interesting part: the list    *)
(* shrinks and grows under it, but what lies ahead of the walk only        *)
(* shrinks, since newcomers are put at the front.                          *)
(***************************************************************************)
EXTENDS CharLoop, Lists, FiniteSetTheorems

(* Those the walk has not come to yet. *)
Ahead ==
  IF current = None THEN {list[i] : i \in procIdx + 1..Len(list)}
                    ELSE From(list, current) \ {current}

Types ==
  /\ list \in Seq(Being) /\ IsInjective(list)
  /\ procIdx \in Nat
  /\ count \in Int /\ count >= -1
  /\ current \in Being \cup {None}
  /\ deleteMe \subseteq Being
  /\ phase \in {"idle", "walk", "run", "sweep", "crashed"}
  /\ pass \in {1, 2}

(* Where the walk stands. *)
Standing ==
  /\ phase = "idle" => current = None /\ deleteMe = {}
  /\ phase = "walk" => current \in Listed \cup {None}
  /\ phase = "run" => current \in Listed

(* Those behind the walk and those ahead of it are no more than there are. *)
Bounded ==
  /\ procIdx <= Cardinality(Being)
  /\ phase \in {"walk", "run"} =>
       procIdx + Cardinality(Ahead) <= Cardinality(Being)

IInv == Types /\ Standing /\ Bounded

-----------------------------------------------------------------------------
(* Sizes. *)

LEMMA ListedFinite ==
  ASSUME Types
  PROVE  /\ Listed \subseteq Being
         /\ Ahead \subseteq Listed
         /\ IsFiniteSet(Ahead)
         /\ Cardinality(Ahead) \in Nat
         /\ Cardinality(Being) \in Nat
<1>1. Listed \subseteq Being
  <2> SUFFICES ASSUME NEW b \in Listed PROVE b \in Being
    OBVIOUS
  <2>1. PICK i \in 1..Len(list) : list[i] = b
    BY RangeMember DEF Types, Listed
  <2> QED BY <2>1, ElementOfSeq DEF Types
<1>2. Ahead \subseteq Listed
  <2> SUFFICES ASSUME NEW b \in Ahead PROVE b \in Listed
    OBVIOUS
  <2>1. CASE current = None
    <3>1. PICK i \in procIdx + 1..Len(list) : list[i] = b
      BY <2>1 DEF Ahead
    <3>2. i \in 1..Len(list)
      BY LenProperties DEF Types
    <3> QED BY <3>1, <3>2, RangeMember DEF Types, Listed
  <2>2. CASE current # None
    <3>1. b \in From(list, current)
      BY <2>2 DEF Ahead
    <3> QED BY <3>1, FromMember, RangeMember DEF Types, Listed
  <2> QED BY <2>1, <2>2
<1>3. IsFiniteSet(Being) /\ IsFiniteSet(Ahead)
  BY <1>1, <1>2, BeingAssumption, FS_Subset
<1> QED BY <1>1, <1>2, <1>3, FS_CardinalityType

(* As many as there are places. *)
LEMMA PartSize ==
  ASSUME NEW S, NEW s \in Seq(S), IsInjective(s), NEW n \in Nat, n <= Len(s)
  PROVE  Cardinality({s[i] : i \in n + 1..Len(s)}) = Len(s) - n
<1> DEFINE I == n + 1..Len(s)
           T == {s[i] : i \in I}
           f == [i \in I |-> s[i]]
<1>1. Len(s) \in Nat
  BY LenProperties
<1>2. \A i, j \in I : s[i] = s[j] => i = j
  BY <1>1, OncePlaced
<1>3. f \in Bijection(I, T)
  BY <1>2 DEF Bijection, Injection, Surjection, IsInjective
<1>4. ExistsBijection(I, T)
  BY <1>3 DEF ExistsBijection
<1>5. IsFiniteSet(I) /\ Cardinality(I) = Len(s) - n
  <2>1. n + 1 \in Int /\ Len(s) \in Int
    BY <1>1
  <2>2. IsFiniteSet(I) /\ Cardinality(I) = IF n + 1 > Len(s) THEN 0 ELSE Len(s) - (n + 1) + 1
    BY <2>1, FS_Interval
  <2> QED BY <2>2, <1>1
<1> HIDE DEF I, T
<1>6. Cardinality(T) = Cardinality(I)
  BY <1>4, <1>5, FS_Bijection
<1> QED BY <1>5, <1>6 DEF I, T

(* The places a walk from the front has left. *)
LEMMA BoundAtFront ==
  ASSUME NEW s \in Seq(Being), IsInjective(s), NEW n \in Nat, n <= Cardinality(Being)
  PROVE  n + Cardinality({s[i] : i \in n + 1..Len(s)}) <= Cardinality(Being)
<1>1. Len(s) \in Nat /\ Cardinality(Being) \in Nat
  BY LenProperties, BeingAssumption, FS_CardinalityType
<1>2. Len(s) <= Cardinality(Being)
  <2> DEFINE T == {s[i] : i \in 0 + 1..Len(s)}
  <2>1. Cardinality(T) = Len(s) - 0
    BY <1>1, PartSize
  <2>2. T \subseteq Being
    BY <1>1, ElementOfSeq
  <2> HIDE DEF T
  <2>3. Cardinality(T) <= Cardinality(Being)
    BY <2>2, BeingAssumption, FS_Subset
  <2> QED BY <2>1, <2>3, <1>1
<1>3. CASE n <= Len(s)
  <2>1. Cardinality({s[i] : i \in n + 1..Len(s)}) = Len(s) - n
    BY <1>3, PartSize
  <2> QED BY <2>1, <1>1, <1>2
<1>4. CASE n > Len(s)
  <2>1. n + 1..Len(s) = {}
    BY <1>1, <1>4
  <2>2. {s[i] : i \in n + 1..Len(s)} = {}
    BY <2>1
  <2>3. Cardinality({s[i] : i \in n + 1..Len(s)}) = 0
    BY <2>2, FS_EmptySet
  <2> QED BY <2>3, <1>1
<1> QED BY <1>1, <1>3, <1>4

(* Whoever is looked at next is no longer ahead. *)
LEMMA FewerAhead ==
  ASSUME NEW T, NEW U, NEW b \in T, U \subseteq T \ {b}, IsFiniteSet(T)
  PROVE  Cardinality(U) + 1 <= Cardinality(T)
<1>1. IsFiniteSet(T \ {b}) /\ Cardinality(T \ {b}) = Cardinality(T) - 1
  BY FS_RemoveElement
<1>2. IsFiniteSet(U) /\ Cardinality(U) <= Cardinality(T \ {b})
  BY <1>1, FS_Subset
<1>3. Cardinality(T) \in Nat /\ Cardinality(U) \in Nat
  BY <1>2, FS_CardinalityType
<1> QED BY <1>1, <1>2, <1>3

(* The walk goes on to somebody ahead, and from there all that are left    *)
(* are still ahead.                                                        *)
LEMMA GoesAhead ==
  ASSUME Types, current \in Listed \cup {None}, Upcoming # None
  PROVE  /\ Upcoming \in Ahead
         /\ From(list, Upcoming) \ {Upcoming} \subseteq Ahead \ {Upcoming}
<1>1. Len(list) \in Nat
  BY LenProperties DEF Types
<1>2. CASE current = None
  <2> DEFINE n == procIdx + 1
             b == list[n]
  <2>1. n \in 1..Len(list) /\ Upcoming = b
    BY <1>1, <1>2 DEF Upcoming, Types
  <2>2. b \in Ahead
    BY <2>1, <1>1, <1>2 DEF Ahead, Types
  <2>3. ASSUME NEW e \in From(list, b) PROVE e \in Ahead
    <3>1. PICK i \in 1..Len(list) : list[i] = e /\ \E k \in 1..i : list[k] = b
      BY FromMember
    <3>2. PICK k \in 1..i : list[k] = b
      BY <3>1
    <3>3. k \in 1..Len(list)
      BY <1>1
    <3>4. k = n
      BY <3>2, <3>3, <2>1, OncePlaced DEF Types
    <3>5. i \in procIdx + 1..Len(list)
      BY <3>4, <1>1, <2>1 DEF Types
    <3> QED BY <3>1, <3>5, <1>2 DEF Ahead
  <2> HIDE DEF b
  <2> QED BY <2>1, <2>2, <2>3
<1>3. CASE current # None
  <2> DEFINE b == After(list, current, None)
  <2>1. Upcoming = b
    BY <1>3 DEF Upcoming
  <2>2. current \in Range(list)
    BY <1>3 DEF Listed
  <2>3. /\ b \in (Range(list) \ {current}) \cup {None}
        /\ From(list, b) = From(list, current) \ {current}
    BY <2>2, NoneAssumption, NextWalk DEF Types
  <2> HIDE DEF b
  <2>4. b \in Range(list)
    BY <2>1, <2>3
  <2>5. b \in From(list, b)
    <3>1. PICK i \in 1..Len(list) : list[i] = b
      BY <2>4, RangeMember DEF Types
    <3>2. i \in 1..i
      BY <1>1
    <3> QED BY <3>1, <3>2, FromMember
  <2> QED BY <2>1, <2>3, <2>5, <1>3 DEF Ahead
<1> QED BY <1>2, <1>3

-----------------------------------------------------------------------------
(* The steps. *)

LEMMA InitInv == ASSUME Init PROVE IInv
<1>1. Types /\ Standing
  BY WorldAssumption DEF Init, Types, Standing
<1>2. procIdx <= Cardinality(Being)
  BY <1>1, ListedFinite DEF Init
<1> QED BY <1>1, <1>2 DEF Init, IInv, Bounded

(* Newcomers are put behind the walk. *)
LEMMA CreateInv ==
  ASSUME IInv, NEW b \in Being, Create(b)
  PROVE  IInv'
<1> USE DEF IInv
<1>1. /\ b \notin Range(list)
      /\ list' = <<b>> \o list
      /\ procIdx' = procIdx /\ count' = count /\ current' = current
      /\ deleteMe' = deleteMe /\ phase' = phase /\ pass' = pass
      /\ phase \in {"idle", "run"}
  BY DEF Create, OthersRun, Listed
<1>2. /\ list' \in Seq(Being) /\ IsInjective(list')
      /\ Range(list') = Range(list) \cup {b}
      /\ \A n : n # b => From(list', n) = From(list, n)
  BY <1>1, ConsWalk DEF Types
<1>3. Types'
  BY <1>1, <1>2 DEF Types
<1>4. Standing'
  BY <1>1, <1>2 DEF Standing, Listed
<1>5. CASE phase = "idle"
  BY <1>1, <1>3, <1>4, <1>5 DEF Bounded
<1>6. CASE phase = "run"
  <2>1. current \in Range(list) /\ current # b /\ current # None
    BY <1>1, <1>6, ListedFinite, NoneAssumption DEF Standing, Listed
  <2>2. Ahead' = Ahead
    BY <2>1, <1>1, <1>2 DEF Ahead
  <2> QED BY <2>2, <1>1, <1>3, <1>4 DEF Bounded
<1> QED BY <1>1, <1>5, <1>6

LEMMA DestroyInv ==
  ASSUME IInv, NEW b \in Being, Destroy(b)
  PROVE  IInv'
<1> USE DEF IInv
<1>1. /\ b \in Range(list)
      /\ b # current
      /\ list' = RemoveAt(list, Place(list, b))
      /\ procIdx' = procIdx /\ count' = count /\ current' = current
      /\ deleteMe' = deleteMe /\ phase' = phase /\ pass' = pass
      /\ phase \in {"idle", "run"}
  BY DEF Destroy, OthersRun, Listed, Without
<1>2. /\ list' \in Seq(Being) /\ IsInjective(list')
      /\ Range(list') = Range(list) \ {b}
      /\ \A n : n # b => From(list', n) = From(list, n) \ {b}
  BY <1>1, RemoveWalk DEF Types
<1>3. Types'
  BY <1>1, <1>2 DEF Types
<1>4. Standing'
  BY <1>1, <1>2 DEF Standing, Listed
<1>5. CASE phase = "idle"
  BY <1>1, <1>3, <1>4, <1>5 DEF Bounded
<1>6. CASE phase = "run"
  <2>1. current # None
    BY <1>6, ListedFinite, NoneAssumption DEF Standing
  <2>2. Ahead' \subseteq Ahead
    BY <2>1, <1>1, <1>2 DEF Ahead
  <2>3. Cardinality(Ahead') <= Cardinality(Ahead)
    BY <2>2, ListedFinite, FS_Subset
  <2>4. Cardinality(Ahead') \in Nat
    <3>1. IsFiniteSet(Ahead')
      BY <2>2, ListedFinite, FS_Subset
    <3> QED BY <3>1, FS_CardinalityType
  <2>5. procIdx + Cardinality(Ahead') <= Cardinality(Being)
    BY <2>3, <2>4, <1>6, ListedFinite DEF Bounded, Types
  <2> QED BY <2>5, <1>1, <1>3, <1>4 DEF Bounded
<1> QED BY <1>1, <1>5, <1>6

LEMMA StartInv ==
  ASSUME IInv, StartChars
  PROVE  IInv'
<1> USE DEF IInv
<1>1. /\ list' = list /\ procIdx' = procIdx /\ current' = current
      /\ deleteMe' = deleteMe /\ phase' = "walk" /\ pass' = 1
      /\ current = None
      /\ count' = Share
  BY DEF StartChars, Standing
<1>2. Share \in Int /\ Share >= 1
  <2>1. IsFiniteSet(Listed \cap Monster)
    BY ListedFinite, BeingAssumption, FS_Subset
  <2>2. Cardinality(Listed \cap Monster) \in Nat
    BY <2>1, FS_CardinalityType
  <2>3. (2 * Cardinality(Listed \cap Monster)) \div Part \in Int
    BY <2>2, PartAssumption
  <2> QED BY <2>3 DEF Share
<1>3. Types' /\ Standing'
  BY <1>1, <1>2 DEF Types, Standing
<1>4. procIdx + Cardinality(Ahead) <= Cardinality(Being)
  <2>1. Ahead = {list[i] : i \in procIdx + 1..Len(list)}
    BY <1>1 DEF Ahead
  <2> QED BY <2>1, BoundAtFront DEF Bounded, Types
<1>5. Ahead' = Ahead
  BY <1>1 DEF Ahead
<1> QED BY <1>1, <1>3, <1>4, <1>5 DEF Bounded

LEMMA RunInv ==
  ASSUME IInv, Run \/ Leave
  PROVE  IInv'
<1> USE DEF IInv
<1>1. /\ list' = list /\ procIdx' = procIdx + 1 /\ current' = Upcoming
      /\ deleteMe' = deleteMe /\ phase' \in {"run", "sweep"} /\ pass' = pass
      /\ count' = count - 1 /\ count >= 0
      /\ phase = "walk" /\ Upcoming # None
  BY DEF Run, Leave, Types
<1>2. current \in Listed \cup {None}
  BY <1>1 DEF Standing
<1>3. /\ Upcoming \in Ahead
      /\ From(list, Upcoming) \ {Upcoming} \subseteq Ahead \ {Upcoming}
  BY <1>1, <1>2, GoesAhead
<1>4. Upcoming \in Listed /\ Upcoming \in Being
  BY <1>3, ListedFinite
<1>5. Ahead' = From(list, Upcoming) \ {Upcoming}
  BY <1>1 DEF Ahead
<1>6. Types'
  BY <1>1, <1>4 DEF Types
<1>7. Standing'
  BY <1>1, <1>4 DEF Standing, Listed
<1>8. Cardinality(Ahead') + 1 <= Cardinality(Ahead)
  BY <1>3, <1>5, ListedFinite, FewerAhead
<1>9. Cardinality(Ahead') \in Nat
  <2>1. IsFiniteSet(Ahead')
    BY <1>3, <1>5, ListedFinite, FS_Subset
  <2> QED BY <2>1, FS_CardinalityType
<1>10. procIdx + Cardinality(Ahead) <= Cardinality(Being)
  BY <1>1 DEF Bounded
<1>11. procIdx + 1 + Cardinality(Ahead') <= Cardinality(Being)
  BY <1>8, <1>9, <1>10, ListedFinite DEF Types
<1>12. procIdx + 1 <= Cardinality(Being)
  BY <1>9, <1>11, ListedFinite DEF Types
<1> QED BY <1>1, <1>6, <1>7, <1>11, <1>12 DEF Bounded

LEMMA DeleteInv ==
  ASSUME IInv, NEW b \in Being, Delete(b)
  PROVE  IInv'
<1> USE DEF IInv
<1>1. /\ b \in Range(list)
      /\ list' = RemoveAt(list, Place(list, b))
      /\ deleteMe' = deleteMe \ {b}
      /\ procIdx' = procIdx /\ count' = count /\ current' = current
      /\ phase' = "sweep" /\ pass' = pass
  BY DEF Delete, Listed, Without
<1>2. list' \in Seq(Being) /\ IsInjective(list')
  BY <1>1, RemoveWalk DEF Types
<1>3. Types' /\ Standing'
  BY <1>1, <1>2 DEF Types, Standing
<1> QED BY <1>1, <1>3 DEF Bounded

LEMMA EndPassInv ==
  ASSUME IInv, EndPass
  PROVE  IInv'
<1> USE DEF IInv
<1>1. /\ list' = list /\ current' = None /\ count' = count
      /\ deleteMe' = deleteMe /\ deleteMe = {}
  BY DEF EndPass
<1>2. \/ phase' = "idle" /\ pass' = pass /\ procIdx' = procIdx
      \/ phase' = "walk" /\ pass' = 2 /\ procIdx' = 0
  BY DEF EndPass
<1>3. Types' /\ Standing'
  BY <1>1, <1>2 DEF Types, Standing
<1>4. procIdx' <= Cardinality(Being)
  BY <1>2, ListedFinite DEF Bounded
<1>5. (procIdx + Cardinality(Ahead) <= Cardinality(Being))'
  <2>1. Ahead' = {list[i] : i \in procIdx' + 1..Len(list)}
    BY <1>1 DEF Ahead
  <2> QED BY <2>1, <1>1, <1>3, <1>4, BoundAtFront DEF Types
<1> QED BY <1>3, <1>4, <1>5 DEF Bounded

LEMMA StepInv == ASSUME IInv, [Next]_vars PROVE IInv'
<1>1. CASE UNCHANGED vars
  BY <1>1 DEF vars, IInv, Types, Standing, Bounded, Ahead, Listed
<1>2. ASSUME NEW b \in Being, Create(b) PROVE IInv'
  BY <1>2, CreateInv
<1>3. ASSUME NEW b \in Being, Destroy(b) PROVE IInv'
  BY <1>3, DestroyInv
<1>4. CASE StartChars
  BY <1>4, StartInv
<1>5. CASE Run \/ Leave
  BY <1>5, RunInv
<1>6. CASE EndOfList
  BY <1>6 DEF EndOfList, IInv, Types, Standing, Bounded, Ahead, Listed
<1>7. CASE KeepCurrent
  BY <1>7 DEF KeepCurrent, IInv, Types, Standing, Bounded, Ahead, Listed
<1>8. CASE DeleteCurrent
  <2>1. deleteMe' \subseteq Being
    BY <1>8, ListedFinite DEF DeleteCurrent, IInv, Types, Standing
  <2> QED BY <2>1, <1>8 DEF DeleteCurrent, IInv, Types, Standing, Bounded, Ahead, Listed
<1>9. ASSUME NEW b \in Being, Delete(b) PROVE IInv'
  BY <1>9, DeleteInv
<1>10. ASSUME NEW b \in Being, DeleteTwice(b) PROVE IInv'
  BY <1>10 DEF DeleteTwice, IInv, Types, Standing, Bounded
<1>11. CASE EndPass
  BY <1>11, EndPassInv
<1>12. CASE Crashed
  BY <1>1, <1>12 DEF Crashed
<1> QED BY <1>1, <1>2, <1>3, <1>4, <1>5, <1>6, <1>7, <1>8, <1>9, <1>10, <1>11, <1>12
        DEF Next

(* The bookkeeping of runChar() is in order: nobody is in the list twice,  *)
(* procIdx never counts more beings than there are, and between two pulses *)
(* nobody waits to be deleted.                                             *)
THEOREM CharLoopType == Spec => []TypeOK
<1>1. IInv => TypeOK
  <2> SUFFICES ASSUME IInv PROVE TypeOK
    OBVIOUS
  <2>1. procIdx \in 0..Cardinality(Being)
    BY ListedFinite DEF IInv, Bounded, Types
  <2> QED BY <2>1 DEF IInv, Types, Standing, TypeOK
<1> QED BY InitInv, StepInv, <1>1, PTL DEF Spec

-----------------------------------------------------------------------------
(* Turns. *)

(* The walk goes on to one of those ahead, and nobody else leaves them. *)
PassesCurrent == current' \in Ahead /\ Ahead' = Ahead \ {current'}

(* What a pass does to those ahead: newcomers do not join them; whoever    *)
(* gets a turn was one of them and is the only one to leave them then; and *)
(* the walk ends when none are left, or else because the share is used up, *)
(* and then one of them has been passed over without a turn.               *)
TurnStep ==
  /\ phase \in {"walk", "run"} => Ahead' \subseteq Ahead
  /\ phase = "walk" =>
       \/ phase' = "run" /\ count > 0 /\ PassesCurrent
       \/ phase' = "sweep" /\ count = 0 /\ PassesCurrent
       \/ phase' = "sweep" /\ Ahead = {}

OneTurnEach == [][TurnStep]_vars

(* Nobody between the one looked at and the next. *)
LEMMA NobodySkipped ==
  ASSUME Types, current \in Listed \cup {None}
  PROVE  IF Upcoming = None THEN Ahead = {}
         ELSE From(list, Upcoming) \ {Upcoming} = Ahead \ {Upcoming}
<1>1. Len(list) \in Nat
  BY LenProperties DEF Types
<1>2. CASE current = None
  <2>1. CASE procIdx < Len(list)
    <3> DEFINE n == procIdx + 1
               b == list[n]
    <3>1. n \in 1..Len(list) /\ Upcoming = b /\ b # None
      BY <1>1, <1>2, <2>1, NoneAssumption, ElementOfSeq DEF Upcoming, Types
    <3>2. ASSUME NEW e \in Ahead PROVE e \in From(list, b)
      <4>1. PICK i \in procIdx + 1..Len(list) : list[i] = e
        BY <1>2, <3>2 DEF Ahead
      <4>2. i \in 1..Len(list) /\ n \in 1..i
        BY <1>1 DEF Types
      <4> QED BY <4>1, <4>2, FromMember
    <3> HIDE DEF b
    <3> QED BY <3>1, <3>2, GoesAhead
  <2>2. CASE ~(procIdx < Len(list))
    <3>1. procIdx + 1..Len(list) = {}
      BY <1>1, <2>2 DEF Types
    <3> QED BY <1>2, <2>2, <3>1 DEF Ahead, Upcoming
  <2> QED BY <2>1, <2>2
<1>3. CASE current # None
  <2>1. From(list, Upcoming) = Ahead
    BY <1>3, NoneAssumption, NextWalk DEF Types, Listed, Upcoming, Ahead
  <2>2. Upcoming = None => Ahead = {}
    BY <2>1, NoneAssumption, FromNull DEF Types
  <2> QED BY <2>1, <2>2
<1> QED BY <1>2, <1>3

LEMMA Turns == ASSUME IInv, Next PROVE TurnStep
<1>1. ASSUME NEW b \in Being, Create(b) \/ Destroy(b)
      PROVE  TurnStep
  <2>1. /\ phase' = phase /\ phase # "walk" /\ current' = current
        /\ \/ b \notin Range(list) /\ list' = <<b>> \o list
           \/ b # current /\ b \in Range(list) /\ list' = RemoveAt(list, Place(list, b))
    BY <1>1 DEF Create, Destroy, OthersRun, Listed, Without
  <2>2. \A n : n # b => From(list', n) \subseteq From(list, n)
    <3>1. CASE b \notin Range(list) /\ list' = <<b>> \o list
      BY <3>1, ConsWalk DEF IInv, Types
    <3>2. CASE b \in Range(list) /\ list' = RemoveAt(list, Place(list, b))
      BY <3>2, RemoveWalk DEF IInv, Types
    <3> QED BY <2>1, <3>1, <3>2
  <2>3. CASE phase = "run"
    <3>1. current # b /\ current # None
      BY <2>1, <2>3, ListedFinite, NoneAssumption DEF IInv, Standing, Listed
    <3>2. Ahead' \subseteq Ahead
      BY <2>1, <2>2, <3>1 DEF Ahead
    <3> QED BY <2>1, <3>2 DEF TurnStep
  <2>4. CASE phase # "run"
    BY <2>1, <2>4 DEF TurnStep
  <2> QED BY <2>3, <2>4
<1>2. CASE Run \/ Leave
  <2>1. /\ list' = list /\ current' = Upcoming /\ phase = "walk" /\ Upcoming # None
        /\ current \in Listed \cup {None}
    BY <1>2 DEF Run, Leave, IInv, Standing
  <2>2. /\ Upcoming \in Ahead
        /\ From(list, Upcoming) \ {Upcoming} = Ahead \ {Upcoming}
    BY <2>1, GoesAhead, NobodySkipped DEF IInv
  <2>3. Ahead' = Ahead \ {Upcoming}
    BY <2>1, <2>2 DEF Ahead
  <2>4. \/ phase' = "run" /\ count > 0
        \/ phase' = "sweep" /\ count = 0
    BY <1>2 DEF Run, Leave
  <2>5. PassesCurrent /\ Ahead' \subseteq Ahead
    BY <2>1, <2>2, <2>3 DEF PassesCurrent
  <2> QED BY <2>4, <2>5 DEF TurnStep
<1>3. CASE EndOfList
  <2>1. Ahead = {}
    BY <1>3, NobodySkipped DEF EndOfList, IInv, Standing
  <2>2. Ahead' = Ahead
    BY <1>3 DEF EndOfList, Ahead
  <2> QED BY <2>1, <2>2, <1>3 DEF TurnStep, EndOfList
<1>4. CASE KeepCurrent \/ DeleteCurrent
  <2>1. phase = "run" /\ Ahead' = Ahead
    BY <1>4 DEF KeepCurrent, DeleteCurrent, Ahead
  <2> QED BY <2>1 DEF TurnStep
<1>5. CASE phase \notin {"walk", "run"}
  BY <1>5 DEF TurnStep
<1> QED BY <1>1, <1>2, <1>3, <1>4, <1>5
        DEF Next, StartChars, Delete, DeleteTwice, EndPass, Crashed

(* In a pass of doRunChar() every being that is ahead of the walk and is   *)
(* not destroyed meanwhile is run exactly once before the end of the list, *)
(* and a newcomer not at all, unless the share is used up before: then the *)
(* being the loop is left at has no turn, although procIdx counts it.      *)
THEOREM TurnsOnce == Spec => OneTurnEach
<1>1. Spec => []IInv
  BY InitInv, StepInv, PTL DEF Spec
<1>2. IInv /\ [Next]_vars => [TurnStep]_vars
  BY Turns
<1> QED BY <1>1, <1>2, PTL DEF Spec, OneTurnEach

=============================================================================
