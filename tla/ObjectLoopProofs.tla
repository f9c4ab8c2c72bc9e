-------------------------- MODULE ObjectLoopProofs --------------------------
(***************************************************************************)
(* That the walk over object_list gives turns in rotation, for any number  *)
(* of objects, any order at the start and any share.                       *)
(*                                                                         *)
(* Every step of the loop changes Queue, the order of the turns to come,   *)
(* like a step of Rota; the invariant is shown for those three changes of  *)
(* a sequence and then for the loop.                                       *)
(***************************************************************************)
EXTENDS ObjectLoop, Lists

-----------------------------------------------------------------------------
(* Sequences. *)

LEMMA InsertAtElements ==
  ASSUME NEW S, NEW s \in Seq(S), NEW i \in 1..Len(s) + 1, NEW e \in S
  PROVE  /\ InsertAt(s, i, e) \in Seq(S)
         /\ Len(InsertAt(s, i, e)) = Len(s) + 1
         /\ \A j \in 1..Len(s) + 1 :
              InsertAt(s, i, e)[j] = IF j < i THEN s[j]
                                     ELSE IF j = i THEN e ELSE s[j - 1]
<1> DEFINE u == SubSeq(s, 1, i - 1)
           v == SubSeq(s, i, Len(s))
           w == u \o <<e>>
<1>1. Len(s) \in Nat /\ i \in Int /\ \A j \in 1..Len(s) : s[j] \in S
  BY LenProperties
<1>2. /\ u \in Seq(S) /\ Len(u) = i - 1
      /\ \A j \in 1..i - 1 : u[j] = s[j]
  <2>1. i - 1 \in Int /\ \A j \in 1..i - 1 : s[j] \in S
    BY <1>1
  <2> QED BY <2>1, <1>1, SubSeqProperties
<1>3. /\ v \in Seq(S) /\ Len(v) = Len(s) - i + 1
      /\ \A j \in 1..Len(s) - i + 1 : v[j] = s[i + j - 1]
  <2>1. \A j \in i..Len(s) : s[j] \in S
    BY <1>1
  <2>2. /\ v \in Seq(S)
        /\ Len(v) = IF i <= Len(s) THEN Len(s) - i + 1 ELSE 0
        /\ \A j \in 1..Len(s) - i + 1 : v[j] = s[i + j - 1]
    BY <2>1, <1>1, SubSeqProperties
  <2> QED BY <2>2, <1>1
<1>4. InsertAt(s, i, e) = w \o v
  BY DEF InsertAt
<1> HIDE DEF u, v
<1>5. /\ w \in Seq(S) /\ Len(w) = i
      /\ \A j \in 1..i : w[j] = IF j < i THEN s[j] ELSE e
  <2>1. <<e>> \in Seq(S) /\ Len(<<e>>) = 1 /\ <<e>>[1] = e
    OBVIOUS
  <2>2. /\ w \in Seq(S) /\ Len(w) = Len(u) + Len(<<e>>)
        /\ \A j \in 1..Len(u) + Len(<<e>>) :
             w[j] = IF j <= Len(u) THEN u[j] ELSE <<e>>[j - Len(u)]
    BY <1>2, <2>1, ConcatProperties
  <2> QED BY <1>1, <1>2, <2>1, <2>2
<1> HIDE DEF w
<1>6. /\ w \o v \in Seq(S)
      /\ Len(w \o v) = Len(w) + Len(v)
      /\ \A j \in 1..Len(w) + Len(v) :
           (w \o v)[j] = IF j <= Len(w) THEN w[j] ELSE v[j - Len(w)]
  BY <1>3, <1>5, ConcatProperties
<1> QED BY <1>1, <1>3, <1>4, <1>5, <1>6

(* InsertAtElements and ConcatAt for sequences of objects. *)
LEMMA InsertAtObjects ==
  \A s \in Seq(Object) : \A i \in 1..Len(s) + 1 : \A e \in Object :
    /\ InsertAt(s, i, e) \in Seq(Object)
    /\ Len(InsertAt(s, i, e)) = Len(s) + 1
    /\ \A j \in 1..Len(s) + 1 :
         InsertAt(s, i, e)[j] = IF j < i THEN s[j]
                                ELSE IF j = i THEN e ELSE s[j - 1]
BY InsertAtElements

LEMMA ConcatObjects ==
  \A s, t \in Seq(Object) : \A q :
    q = s \o t => /\ q \in Seq(Object)
                  /\ Len(q) = Len(s) + Len(t)
                  /\ \A i \in 1..Len(s) : q[i] = s[i]
                  /\ \A i \in 1..Len(t) : q[Len(s) + i] = t[i]
BY ConcatAt

-----------------------------------------------------------------------------
(* The invariant, for a queue q and debts w: nobody is in the queue twice, *)
(* debts are to somebody who comes earlier, and who is not there has none. *)
Once(q) == \A i, j \in 1..Len(q) : q[i] = q[j] => i = j
Earlier(q, w) ==
  \A i \in 1..Len(q) : \A x \in w[q[i]] : \E j \in 1..i-1 : q[j] = x
Absent(q, w) ==
  \A o \in Object : (\A i \in 1..Len(q) : q[i] # o) => w[o] = {}

Good(q, w) == Once(q) /\ Earlier(q, w) /\ Absent(q, w)

(* A turn: the first goes to the end and everybody else owes it nothing. *)
LEMMA TurnGood ==
  ASSUME NEW q \in Seq(Object), NEW w \in [Object -> SUBSET Object],
         q # <<>>, Good(q, w),
         NEW r \in Seq(Object), Len(r) = Len(q),
         \A i \in 1..Len(q) : r[i] = IF i < Len(q) THEN q[i + 1] ELSE q[1]
  PROVE  Good(r, [p \in Object |-> IF p = q[1] THEN Range(q) \ {q[1]}
                                              ELSE w[p] \ {q[1]}])
<1> DEFINE v == [p \in Object |-> IF p = q[1] THEN Range(q) \ {q[1]}
                                              ELSE w[p] \ {q[1]}]
<1>1. /\ Len(q) \in Nat \ {0}
      /\ \A i \in 1..Len(q) : q[i] \in Object /\ r[i] \in Object
      /\ Range(q) = {q[i] : i \in 1..Len(q)}
  BY EmptySeq, ElementOfSeq, RangeEquality
<1>2. \A p \in Object : v[p] = IF p = q[1] THEN Range(q) \ {q[1]}
                                           ELSE w[p] \ {q[1]}
  OBVIOUS
<1> HIDE DEF v
<1>3. Once(r)
  BY <1>1 DEF Good, Once
<1>4. Earlier(r, v)
  <2> SUFFICES ASSUME NEW i \in 1..Len(r), NEW x \in v[r[i]]
               PROVE  \E j \in 1..i-1 : r[j] = x
    BY DEF Earlier
  <2>1. CASE i < Len(q)
    <3>1. r[i] = q[i + 1] /\ i + 1 \in 1..Len(q) /\ q[i + 1] # q[1]
      BY <1>1, <2>1 DEF Good, Once
    <3>2. x \in w[q[i + 1]] /\ x # q[1]
      <4>1. q[i + 1] \in Object
        BY <1>1, <3>1
      <4>2. v[q[i + 1]] = w[q[i + 1]] \ {q[1]}
        BY <1>2, <3>1, <4>1
      <4> QED BY <3>1, <4>2
    <3>3. PICK j \in 1..i : q[j] = x
      BY <3>1, <3>2 DEF Good, Earlier
    <3>4. j - 1 \in 1..i - 1 /\ r[j - 1] = x
      BY <1>1, <2>1, <3>2, <3>3
    <3> QED BY <3>4
  <2>2. CASE i = Len(q)
    <3>1. x \in Range(q) /\ x # q[1]
      <4>1. r[i] = q[1] /\ q[1] \in Object
        BY <1>1, <2>2
      <4>2. v[r[i]] = Range(q) \ {q[1]}
        BY <1>2, <4>1
      <4> QED BY <4>2
    <3>2. PICK j \in 1..Len(q) : q[j] = x
      BY <1>1, <3>1
    <3>3. j - 1 \in 1..i - 1 /\ r[j - 1] = x
      BY <1>1, <2>2, <3>1, <3>2
    <3> QED BY <3>3
  <2> QED BY <1>1, <2>1, <2>2
<1>5. Absent(r, v)
  <2> SUFFICES ASSUME NEW o \in Object, \A i \in 1..Len(r) : r[i] # o
               PROVE  v[o] = {}
    BY DEF Absent
  <2>1. \A i \in 1..Len(q) : q[i] # o
    <3> SUFFICES ASSUME NEW i \in 1..Len(q), q[i] = o
                 PROVE  FALSE
      OBVIOUS
    <3>1. CASE i = 1
      BY <1>1, <3>1
    <3>2. CASE i # 1
      <4>1. i - 1 \in 1..Len(q) /\ r[i - 1] = o
        BY <1>1, <3>2
      <4> QED BY <4>1
    <3> QED BY <3>1, <3>2
  <2>2. w[o] = {} /\ o # q[1]
    BY <1>1, <2>1 DEF Good, Absent
  <2> QED BY <1>2, <2>2
<1> QED BY <1>3, <1>4, <1>5 DEF Good, v

(* Somebody new comes in at any place. *)
LEMMA JoinGood ==
  ASSUME NEW q \in Seq(Object), NEW w \in [Object -> SUBSET Object],
         Good(q, w), NEW o \in Object, o \notin Range(q),
         NEW k \in 1..Len(q) + 1
  PROVE  Good(InsertAt(q, k, o), w)
<1> DEFINE r == InsertAt(q, k, o)
<1>1. /\ Len(q) \in Nat
      /\ \A i \in 1..Len(q) : q[i] \in Object /\ q[i] # o
  BY ElementOfSeq, LenProperties, RangeEquality
<1>2. /\ Len(r) = Len(q) + 1
      /\ \A j \in 1..Len(q) + 1 :
           r[j] = IF j < k THEN q[j] ELSE IF j = k THEN o ELSE q[j - 1]
  <2> HIDE DEF r
  <2> QED BY InsertAtObjects DEF r
<1> HIDE DEF r
<1>3. Once(r)
  <2> SUFFICES ASSUME NEW i \in 1..Len(r), NEW j \in 1..Len(r), r[i] = r[j]
               PROVE  i = j
    BY DEF Once
  <2>1. CASE i = k
    BY <1>1, <1>2, <2>1
  <2>2. CASE j = k
    BY <1>1, <1>2, <2>2
  <2>3. CASE i # k /\ j # k
    <3> DEFINE m == IF i < k THEN i ELSE i - 1
               n == IF j < k THEN j ELSE j - 1
    <3>1. m \in 1..Len(q) /\ n \in 1..Len(q) /\ r[i] = q[m] /\ r[j] = q[n]
      BY <1>1, <1>2, <2>3
    <3>2. m = n
      <4> HIDE DEF m, n
      <4> QED BY <3>1 DEF Good, Once
    <3> QED BY <3>2, <2>3
  <2> QED BY <2>1, <2>2, <2>3
<1>4. Earlier(r, w)
  <2> SUFFICES ASSUME NEW i \in 1..Len(r), NEW x \in w[r[i]]
               PROVE  \E j \in 1..i-1 : r[j] = x
    BY DEF Earlier
  <2>1. i # k
    BY <1>1, <1>2 DEF Good, Absent
  <2> DEFINE m == IF i < k THEN i ELSE i - 1
  <2>2. m \in 1..Len(q) /\ r[i] = q[m]
    BY <1>1, <1>2, <2>1
  <2>3. PICK j \in 1..m - 1 : q[j] = x
    BY <2>2 DEF Good, Earlier
  <2>4. CASE j < k
    BY <1>1, <1>2, <2>2, <2>3, <2>4
  <2>5. CASE j >= k
    <3>1. j + 1 \in 1..i - 1 /\ r[j + 1] = x
      BY <1>1, <1>2, <2>1, <2>2, <2>3, <2>5
    <3> QED BY <3>1
  <2> QED BY <2>3, <2>4, <2>5
<1>5. Absent(r, w)
  <2> SUFFICES ASSUME NEW p \in Object, \A i \in 1..Len(r) : r[i] # p
               PROVE  w[p] = {}
    BY DEF Absent
  <2>1. \A i \in 1..Len(q) : q[i] # p
    <3> SUFFICES ASSUME NEW i \in 1..Len(q), q[i] = p
                 PROVE  FALSE
      OBVIOUS
    <3>1. CASE i < k
      BY <1>1, <1>2, <3>1
    <3>2. CASE i >= k
      <4>1. i + 1 \in 1..Len(r) /\ r[i + 1] = p
        BY <1>1, <1>2, <3>2
      <4> QED BY <4>1
    <3> QED BY <3>1, <3>2
  <2> QED BY <2>1 DEF Good, Absent
<1> QED BY <1>3, <1>4, <1>5 DEF Good, r

LEMMA JoinRange ==
  ASSUME NEW q \in Seq(Object), NEW o \in Object, NEW k \in 1..Len(q) + 1
  PROVE  Range(q) \subseteq Range(InsertAt(q, k, o))
<1> DEFINE r == InsertAt(q, k, o)
<1>1. /\ r \in Seq(Object) /\ Len(r) = Len(q) + 1
      /\ \A j \in 1..Len(q) + 1 :
           r[j] = IF j < k THEN q[j] ELSE IF j = k THEN o ELSE q[j - 1]
  <2> HIDE DEF r
  <2> QED BY InsertAtObjects, ZenonT(60) DEF r
<1> HIDE DEF r
<1>2. /\ Range(r) = {r[j] : j \in 1..Len(r)}
      /\ Range(q) = {q[i] : i \in 1..Len(q)}
      /\ Len(q) \in Nat
  BY <1>1, RangeEquality, LenProperties
<1>3. ASSUME NEW i \in 1..Len(q)
      PROVE  q[i] \in Range(r)
  <2>1. CASE i < k
    BY <1>1, <1>2, <2>1
  <2>2. CASE i >= k
    <3>1. i + 1 \in 1..Len(r) /\ r[i + 1] = q[i]
      BY <1>1, <1>2, <2>2
    <3> QED BY <1>2, <3>1
  <2> QED BY <2>1, <2>2
<1> QED BY <1>2, <1>3 DEF r

(* Somebody leaves from any place, and all debts to and of it end. *)
LEMMA QuitGood ==
  ASSUME NEW q \in Seq(Object), NEW w \in [Object -> SUBSET Object],
         Good(q, w), NEW k \in 1..Len(q)
  PROVE  Good(RemoveAt(q, k),
              [p \in Object |-> IF p = q[k] THEN {} ELSE w[p] \ {q[k]}])
<1> DEFINE r == RemoveAt(q, k)
           v == [p \in Object |-> IF p = q[k] THEN {} ELSE w[p] \ {q[k]}]
<1>1. Len(q) \in Nat /\ \A i \in 1..Len(q) : q[i] \in Object
  BY ElementOfSeq, LenProperties
<1>2. /\ Len(r) = Len(q) - 1
      /\ \A j \in 1..Len(q) - 1 : r[j] = IF j < k THEN q[j] ELSE q[j + 1]
  BY RemoveAtElements
<1>3. \A p \in Object : v[p] = IF p = q[k] THEN {} ELSE w[p] \ {q[k]}
  OBVIOUS
<1> HIDE DEF r, v
<1>4. Once(r)
  BY <1>1, <1>2 DEF Good, Once
<1>5. Earlier(r, v)
  <2> SUFFICES ASSUME NEW i \in 1..Len(r), NEW x \in v[r[i]]
               PROVE  \E j \in 1..i-1 : r[j] = x
    BY DEF Earlier
  <2> DEFINE m == IF i < k THEN i ELSE i + 1
  <2>1. m \in 1..Len(q) /\ r[i] = q[m] /\ m # k
    BY <1>1, <1>2
  <2>2. x \in w[q[m]] /\ x # q[k]
    BY <1>1, <1>3, <2>1
  <2>3. PICK j \in 1..m - 1 : q[j] = x
    BY <2>1, <2>2 DEF Good, Earlier
  <2>4. CASE j < k
    BY <1>1, <1>2, <2>1, <2>3, <2>4
  <2>5. CASE j > k
    <3>1. j - 1 \in 1..i - 1 /\ r[j - 1] = x
      BY <1>1, <1>2, <2>1, <2>3, <2>5
    <3> QED BY <3>1
  <2> QED BY <2>2, <2>3, <2>4, <2>5
<1>6. Absent(r, v)
  <2> SUFFICES ASSUME NEW p \in Object, \A i \in 1..Len(r) : r[i] # p,
                      p # q[k]
               PROVE  v[p] = {}
    BY <1>3 DEF Absent
  <2>1. \A i \in 1..Len(q) : q[i] # p
    <3> SUFFICES ASSUME NEW i \in 1..Len(q), q[i] = p
                 PROVE  FALSE
      OBVIOUS
    <3>1. CASE i < k
      BY <1>1, <1>2, <3>1
    <3>2. CASE i > k
      <4>1. i - 1 \in 1..Len(r) /\ r[i - 1] = p
        BY <1>1, <1>2, <3>2
      <4> QED BY <4>1
    <3> QED BY <3>1, <3>2
  <2> QED BY <1>3, <2>1 DEF Good, Absent
<1> QED BY <1>4, <1>5, <1>6 DEF Good, r, v

LEMMA QuitRange ==
  ASSUME NEW q \in Seq(Object), NEW k \in 1..Len(q)
  PROVE  Range(q) \ {q[k]} \subseteq Range(RemoveAt(q, k))
<1> DEFINE r == RemoveAt(q, k)
<1>1. /\ r \in Seq(Object) /\ Len(r) = Len(q) - 1
      /\ \A j \in 1..Len(q) - 1 : r[j] = IF j < k THEN q[j] ELSE q[j + 1]
  BY RemoveAtElements
<1> HIDE DEF r
<1>2. /\ Range(r) = {r[j] : j \in 1..Len(r)}
      /\ Range(q) = {q[i] : i \in 1..Len(q)}
      /\ Len(q) \in Nat
  BY <1>1, RangeEquality, LenProperties
<1>3. ASSUME NEW i \in 1..Len(q), i # k
      PROVE  q[i] \in Range(r)
  <2>1. CASE i < k
    BY <1>1, <1>2, <2>1
  <2>2. CASE i > k
    <3>1. i - 1 \in 1..Len(r) /\ r[i - 1] = q[i]
      BY <1>1, <1>2, <2>2
    <3> QED BY <1>2, <3>1
  <2> QED BY <1>3, <2>1, <2>2
<1> QED BY <1>2, <1>3 DEF r

-----------------------------------------------------------------------------
(* What the steps of the loop do to Queue. *)

LEMMA QueueType ==
  ASSUME TypeOK
  PROVE  /\ Queue \in Seq(Object)
         /\ Len(Queue) = Len(after) + Len(before)
         /\ \A i \in 1..Len(after) : Queue[i] = after[i]
         /\ \A i \in 1..Len(before) : Queue[Len(after) + i] = before[i]
         /\ Len(after) \in Nat /\ Len(before) \in Nat
BY ConcatAt, LenProperties DEF TypeOK, Queue

LEMMA InObjs ==
  ASSUME TypeOK, NEW o
  PROVE  o \in Objs <=> \E i \in 1..Len(Queue) : Queue[i] = o
BY QueueType, RangeEquality DEF Objs

LEMMA CreateQueue ==
  ASSUME TypeOK, NEW o \in Object, Create(o)
  PROVE  /\ before' \in Seq(Object)
         /\ Queue' = InsertAt(Queue, Len(after) + 1, o)
<1> DEFINE k == Len(after) + 1
           r == InsertAt(Queue, k, o)
<1>1. /\ Queue \in Seq(Object) /\ k \in 1..Len(Queue) + 1
      /\ k = Len(after) + 1
      /\ Len(Queue) = Len(after) + Len(before)
      /\ Len(after) \in Nat /\ Len(before) \in Nat
  BY QueueType
<1> HIDE DEF k
<1>2. /\ r \in Seq(Object)
      /\ Len(r) = Len(Queue) + 1
      /\ \A j \in 1..Len(Queue) + 1 :
           r[j] = IF j < k THEN Queue[j] ELSE IF j = k THEN o ELSE Queue[j - 1]
  <2>1. Queue \in Seq(Object) /\ k \in 1..Len(Queue) + 1 /\ o \in Object
    BY <1>1
  <2> HIDE DEF r
  <2> QED BY <2>1, InsertAtObjects DEF r
<1> HIDE DEF r
<1>3. <<o>> \in Seq(Object) /\ Len(<<o>>) = 1 /\ <<o>>[1] = o
  OBVIOUS
<1>4. /\ before' \in Seq(Object)
      /\ Len(before') = Len(before) + 1
      /\ \A j \in 1..Len(before) + 1 :
           before'[j] = IF j = 1 THEN o ELSE before[j - 1]
  <2>1. /\ <<o>> \o before \in Seq(Object)
        /\ Len(<<o>> \o before) = 1 + Len(before)
        /\ \A j \in 1..1 + Len(before) :
             (<<o>> \o before)[j] = IF j <= 1 THEN <<o>>[j] ELSE before[j - 1]
    BY <1>3, ConcatProperties DEF TypeOK
  <2>2. before' = <<o>> \o before
    BY DEF Create
  <2> QED BY <1>1, <1>3, <2>1, <2>2
<1>5. after' = after /\ after \in Seq(Object)
  BY DEF Create, TypeOK
<1>6. /\ Queue' \in Seq(Object)
      /\ Len(Queue') = Len(after) + (Len(before) + 1)
      /\ \A j \in 1..Len(after) : Queue'[j] = after[j]
      /\ \A j \in 1..Len(before) + 1 : Queue'[Len(after) + j] = before'[j]
  <2>1. Queue' = after \o before'
    BY <1>5 DEF Queue
  <2>2. /\ Queue' \in Seq(Object)
        /\ Len(Queue') = Len(after) + Len(before')
        /\ \A j \in 1..Len(after) : Queue'[j] = after[j]
        /\ \A j \in 1..Len(before') : Queue'[Len(after) + j] = before'[j]
    <3>1. before' \in Seq(Object) /\ after \in Seq(Object)
      BY <1>4, <1>5
    <3> QED BY <2>1, <3>1, ConcatObjects
  <2> QED BY <1>4, <2>2
<1>7. \A j \in 1..Len(Queue') : Queue'[j] = r[j]
  <2> SUFFICES ASSUME NEW j \in 1..Len(Queue')
               PROVE  Queue'[j] = r[j]
    OBVIOUS
  <2>1. CASE j <= Len(after)
    BY <1>1, <1>2, <1>6, <2>1, QueueType
  <2>2. CASE j > Len(after)
    <3> DEFINE m == j - Len(after)
    <3>1. m \in 1..Len(before) + 1 /\ j = Len(after) + m
      BY <1>1, <1>6, <2>2
    <3> HIDE DEF m
    <3>2. Queue'[j] = before'[m]
      BY <1>6, <3>1
    <3>3. CASE m = 1
      BY <1>1, <1>2, <1>4, <3>1, <3>2, <3>3
    <3>4. CASE m > 1
      <4>1. before'[m] = before[m - 1] /\ m - 1 \in 1..Len(before)
        BY <1>1, <1>4, <3>1, <3>4
      <4>2. Queue[Len(after) + (m - 1)] = before[m - 1]
        BY <4>1, QueueType
      <4>3. Len(after) + (m - 1) = j - 1
        BY <1>1, <3>1
      <4>4. j > k /\ j \in 1..Len(Queue) + 1
        BY <1>1, <1>6, <3>1, <3>4
      <4>5. r[j] = Queue[j - 1]
        BY <1>1, <1>2, <4>4
      <4> QED BY <3>2, <4>1, <4>2, <4>3, <4>5
    <3> QED BY <1>1, <3>1, <3>3, <3>4
  <2> QED BY <1>1, <2>1, <2>2
<1>8. Queue' = r
  BY <1>1, <1>2, <1>6, <1>7, SeqEqual
<1> QED BY <1>1, <1>4, <1>8 DEF r

LEMMA UnlinkQueue ==
  ASSUME TypeOK, NEW o, Unlink(o)
  PROVE  /\ before' \in Seq(Object) /\ after' \in Seq(Object)
         /\ \E k \in 1..Len(Queue) : /\ Queue[k] = o
                                     /\ Queue' = RemoveAt(Queue, k)
<1> USE QueueType DEF TypeOK
<1>1. ASSUME NEW i \in 1..Len(before), before[i] = o,
             before' = RemoveAt(before, i), after' = after
      PROVE  /\ before' \in Seq(Object)
             /\ Queue[Len(after) + i] = o
             /\ Queue' = RemoveAt(Queue, Len(after) + i)
  <2> DEFINE k == Len(after) + i
             r == RemoveAt(Queue, k)
  <2>1. k \in 1..Len(Queue) /\ Queue[k] = o /\ k = Len(after) + i
    BY <1>1
  <2> HIDE DEF k
  <2>2. /\ r \in Seq(Object) /\ Len(r) = Len(Queue) - 1
        /\ \A j \in 1..Len(Queue) - 1 :
             r[j] = IF j < k THEN Queue[j] ELSE Queue[j + 1]
    BY <2>1, RemoveAtElements
  <2> HIDE DEF r
  <2>3. /\ before' \in Seq(Object) /\ Len(before') = Len(before) - 1
        /\ \A j \in 1..Len(before) - 1 :
             before'[j] = IF j < i THEN before[j] ELSE before[j + 1]
    BY <1>1, RemoveAtElements
  <2>4. /\ Queue' \in Seq(Object)
        /\ Len(Queue') = Len(after) + (Len(before) - 1)
        /\ \A j \in 1..Len(after) : Queue'[j] = after[j]
        /\ \A j \in 1..Len(before) - 1 : Queue'[Len(after) + j] = before'[j]
    <3>1. Queue' = after \o before'
      BY <1>1 DEF Queue
    <3>2. after \in Seq(Object) /\ before' \in Seq(Object)
      BY <2>3
    <3> HIDE QueueType DEF TypeOK
    <3>3. /\ Queue' \in Seq(Object)
          /\ Len(Queue') = Len(after) + Len(before')
          /\ \A j \in 1..Len(after) : Queue'[j] = after[j]
          /\ \A j \in 1..Len(before') : Queue'[Len(after) + j] = before'[j]
      BY <3>1, <3>2, ConcatObjects
    <3> USE DEF TypeOK
    <3> QED BY <2>3, <3>3
  <2>5. \A j \in 1..Len(Queue') : Queue'[j] = r[j]
    <3> SUFFICES ASSUME NEW j \in 1..Len(Queue')
                 PROVE  Queue'[j] = r[j]
      OBVIOUS
    <3>1. CASE j <= Len(after)
      <4>1. j < k /\ j \in 1..Len(Queue) - 1 /\ j \in 1..Len(after)
        BY <2>1, <2>4, <3>1
      <4> QED BY <2>2, <2>4, <4>1
    <3>2. CASE j > Len(after)
      <4> DEFINE m == j - Len(after)
      <4>1. m \in 1..Len(before) - 1 /\ j = Len(after) + m
        BY <2>4, <3>2
      <4> HIDE DEF m
      <4>2. Queue'[j] = IF m < i THEN before[m] ELSE before[m + 1]
        BY <2>3, <2>4, <4>1
      <4>3. CASE m < i
        <5>1. j < k /\ j \in 1..Len(Queue) - 1 /\ m \in 1..Len(before)
          BY <2>1, <2>4, <4>1, <4>3
        <5>2. r[j] = Queue[j] /\ Queue[j] = before[m]
          BY <2>2, <4>1, <5>1
        <5> QED BY <4>2, <4>3, <5>2
      <4>4. CASE m >= i
        <5>1. m + 1 \in 1..Len(before) /\ Len(after) + (m + 1) = j + 1
          BY <4>1
        <5>2. Queue[j + 1] = before[m + 1]
          BY <5>1
        <5>3. ~(j < k) /\ j \in 1..Len(Queue) - 1
          BY <2>1, <2>4, <4>1, <4>4
        <5>4. r[j] = Queue[j + 1]
          BY <2>2, <5>3
        <5> QED BY <4>1, <4>2, <4>4, <5>2, <5>4
      <4> QED BY <4>1, <4>3, <4>4
    <3> QED BY <2>4, <3>1, <3>2
  <2>6. Queue' = r
    BY <2>2, <2>4, <2>5, SeqEqual
  <2> QED BY <2>1, <2>3, <2>6 DEF r, k
<1>2. ASSUME NEW i \in 1..Len(after), after[i] = o,
             after' = RemoveAt(after, i), before' = before
      PROVE  /\ after' \in Seq(Object)
             /\ Queue[i] = o
             /\ Queue' = RemoveAt(Queue, i)
  <2> DEFINE r == RemoveAt(Queue, i)
  <2>1. i \in 1..Len(Queue) /\ Queue[i] = o
    BY <1>2
  <2>2. /\ r \in Seq(Object) /\ Len(r) = Len(Queue) - 1
        /\ \A j \in 1..Len(Queue) - 1 :
             r[j] = IF j < i THEN Queue[j] ELSE Queue[j + 1]
    BY <2>1, RemoveAtElements
  <2> HIDE DEF r
  <2>3. /\ after' \in Seq(Object) /\ Len(after') = Len(after) - 1
        /\ \A j \in 1..Len(after) - 1 :
             after'[j] = IF j < i THEN after[j] ELSE after[j + 1]
    BY <1>2, RemoveAtElements
  <2>4. /\ Queue' \in Seq(Object)
        /\ Len(Queue') = Len(after) - 1 + Len(before)
        /\ \A j \in 1..Len(after) - 1 : Queue'[j] = after'[j]
        /\ \A j \in 1..Len(before) : Queue'[Len(after) - 1 + j] = before[j]
    <3>1. Queue' = after' \o before
      BY <1>2 DEF Queue
    <3>2. after' \in Seq(Object) /\ before \in Seq(Object)
      BY <2>3
    <3> HIDE QueueType DEF TypeOK
    <3>3. /\ Queue' \in Seq(Object)
          /\ Len(Queue') = Len(after') + Len(before)
          /\ \A j \in 1..Len(after') : Queue'[j] = after'[j]
          /\ \A j \in 1..Len(before) : Queue'[Len(after') + j] = before[j]
      BY <3>1, <3>2, ConcatObjects
    <3> USE DEF TypeOK
    <3> QED BY <2>3, <3>3
  <2>5. \A j \in 1..Len(Queue') : Queue'[j] = r[j]
    <3> SUFFICES ASSUME NEW j \in 1..Len(Queue')
                 PROVE  Queue'[j] = r[j]
      OBVIOUS
    <3>1. CASE j < Len(after)
      <4>1. j \in 1..Len(after) - 1 /\ j + 1 \in 1..Len(after)
        BY <2>4, <3>1
      <4>2. Queue'[j] = IF j < i THEN after[j] ELSE after[j + 1]
        BY <2>3, <2>4, <4>1
      <4>3. j \in 1..Len(Queue) - 1 /\ j \in 1..Len(after)
        BY <2>4, <4>1
      <4>4. r[j] = IF j < i THEN Queue[j] ELSE Queue[j + 1]
        BY <2>2, <4>3
      <4>5. Queue[j] = after[j] /\ Queue[j + 1] = after[j + 1]
        BY <4>1, <4>3
      <4> QED BY <4>2, <4>4, <4>5
    <3>2. CASE j >= Len(after)
      <4> DEFINE m == j - Len(after) + 1
      <4>1. m \in 1..Len(before) /\ j = Len(after) - 1 + m
        BY <2>4, <3>2
      <4>2. Queue'[j] = before[m]
        BY <2>4, <4>1
      <4>3. Queue[Len(after) + m] = before[m] /\ Len(after) + m = j + 1
        BY <4>1
      <4>4. r[j] = Queue[j + 1]
        BY <2>2, <2>4, <3>2
      <4> QED BY <4>2, <4>3, <4>4
    <3> QED BY <2>4, <3>1, <3>2
  <2>6. Queue' = r
    BY <2>2, <2>4, <2>5, SeqEqual
  <2> QED BY <2>1, <2>3, <2>6 DEF r
<1>3. CASE \E i \in 1..Len(before) :
             before[i] = o /\ before' = RemoveAt(before, i) /\ UNCHANGED after
  <2>1. PICK i \in 1..Len(before) :
           before[i] = o /\ before' = RemoveAt(before, i) /\ UNCHANGED after
    BY <1>3
  <2>2. /\ before' \in Seq(Object)
        /\ Queue[Len(after) + i] = o
        /\ Queue' = RemoveAt(Queue, Len(after) + i)
    BY <1>1, <2>1
  <2>3. Len(after) + i \in 1..Len(Queue)
    OBVIOUS
  <2> QED BY <2>1, <2>2, <2>3
<1>4. CASE \E i \in 1..Len(after) :
             after[i] = o /\ after' = RemoveAt(after, i) /\ UNCHANGED before
  <2>1. PICK i \in 1..Len(after) :
           after[i] = o /\ after' = RemoveAt(after, i) /\ UNCHANGED before
    BY <1>4
  <2>2. /\ after' \in Seq(Object)
        /\ Queue[i] = o
        /\ Queue' = RemoveAt(Queue, i)
    BY <1>2, <2>1
  <2>3. i \in 1..Len(Queue)
    OBVIOUS
  <2> QED BY <2>1, <2>2, <2>3
<1> QED BY <1>3, <1>4 DEF Unlink

LEMMA TakeQueue ==
  ASSUME TypeOK, Take
  PROVE  /\ before' \in Seq(Object) /\ after' \in Seq(Object)
         /\ Queue # <<>> /\ Head(after) = Queue[1] /\ Queue[1] \in Object
         /\ Queue' \in Seq(Object) /\ Len(Queue') = Len(Queue)
         /\ \A i \in 1..Len(Queue) :
              Queue'[i] = IF i < Len(Queue) THEN Queue[i + 1] ELSE Queue[1]
<1> DEFINE h == Head(after)
           more == Append(before, h)
<1>1. /\ after \in Seq(Object) /\ after # <<>>
      /\ Len(after) \in Nat \ {0}
      /\ h = after[1] /\ h \in Object
  BY EmptySeq, HeadTailProperties DEF TypeOK, Take
<1>2. /\ Queue \in Seq(Object)
      /\ Len(Queue) = Len(after) + Len(before) /\ Len(before) \in Nat
      /\ \A i \in 1..Len(after) : Queue[i] = after[i]
      /\ \A i \in 1..Len(before) : Queue[Len(after) + i] = before[i]
  BY QueueType
<1> HIDE DEF h
<1>3. Queue # <<>> /\ h = Queue[1]
  BY <1>1, <1>2
<1>4. /\ more \in Seq(Object) /\ Len(more) = Len(before) + 1
      /\ \A i \in 1..Len(before) : more[i] = before[i]
      /\ more[Len(before) + 1] = h
  BY <1>1, <1>2 DEF TypeOK
<1> HIDE DEF more
<1>5. CASE Len(after) = 1
  <2>1. before' = <<>> /\ after' = more /\ before' \in Seq(Object)
    BY <1>5 DEF Take, h, more
  <2>2. Queue' = more
    BY <1>4, <2>1, ConcatEmptySeq DEF Queue
  <2>3. \A i \in 1..Len(before) : more[i] = Queue[i + 1]
    BY <1>2, <1>4, <1>5
  <2> QED BY <1>1, <1>2, <1>3, <1>4, <1>5, <2>1, <2>2, <2>3 DEF h
<1>6. CASE Len(after) # 1
  <2>1. before' = more /\ after' = Tail(after)
    BY <1>6 DEF Take, h, more
  <2>2. /\ Tail(after) \in Seq(Object) /\ Len(Tail(after)) = Len(after) - 1
        /\ \A i \in 1..Len(after) - 1 : Tail(after)[i] = after[i + 1]
    BY <1>1, HeadTailProperties
  <2>3. Queue' = Tail(after) \o more
    BY <2>1 DEF Queue
  <2>4. /\ Queue' \in Seq(Object)
        /\ Len(Queue') = Len(Tail(after)) + Len(more)
        /\ \A i \in 1..Len(Tail(after)) : Queue'[i] = Tail(after)[i]
        /\ \A i \in 1..Len(more) : Queue'[Len(Tail(after)) + i] = more[i]
    <3>1. more \in Seq(Object) /\ Tail(after) \in Seq(Object)
      BY <1>4, <2>2
    <3> QED BY <2>3, <3>1, ConcatObjects
  <2>5. Len(Queue') = Len(Queue)
    BY <1>1, <1>2, <1>4, <2>2, <2>4
  <2>6. ASSUME NEW i \in 1..Len(Queue)
        PROVE  Queue'[i] = IF i < Len(Queue) THEN Queue[i + 1] ELSE Queue[1]
    <3>1. CASE i < Len(after)
      <4>1. i \in 1..Len(after) - 1 /\ i + 1 \in 1..Len(after)
        BY <1>1, <1>2, <3>1
      <4>2. Queue'[i] = after[i + 1] /\ Queue[i + 1] = after[i + 1]
        BY <1>2, <2>2, <2>4, <4>1
      <4> QED BY <1>1, <1>2, <3>1, <4>2
    <3>2. CASE i >= Len(after)
      <4> DEFINE m == i - Len(after) + 1
      <4>1. m \in 1..Len(before) + 1 /\ i = Len(Tail(after)) + m
            /\ i + 1 = Len(after) + m
        BY <1>1, <1>2, <2>2, <3>2
      <4> HIDE DEF m
      <4>2. Queue'[i] = more[m]
        BY <1>4, <2>4, <4>1
      <4>3. CASE m <= Len(before)
        <5>1. m \in 1..Len(before) /\ i < Len(Queue)
          BY <1>1, <1>2, <4>1, <4>3
        <5>2. Queue[i + 1] = before[m] /\ more[m] = before[m]
          BY <1>2, <1>4, <4>1, <5>1
        <5> QED BY <4>2, <5>1, <5>2
      <4>4. CASE m = Len(before) + 1
        <5>1. ~(i < Len(Queue))
          BY <1>1, <1>2, <4>1, <4>4
        <5> QED BY <1>3, <1>4, <4>2, <4>4, <5>1
      <4> QED BY <1>2, <4>1, <4>3, <4>4
    <3> QED BY <1>1, <1>2, <3>1, <3>2
  <2>7. before' \in Seq(Object) /\ after' \in Seq(Object)
    BY <1>4, <2>1, <2>2
  <2> QED BY <1>1, <1>3, <2>4, <2>5, <2>6, <2>7 DEF h
<1> QED BY <1>5, <1>6

-----------------------------------------------------------------------------
(* The inductive invariant. *)
IInv ==
  /\ TypeOK
  /\ Good(Queue, owed)
  /\ current # None => current \in Objs

LEMMA InitInv == Init => IInv
<1> SUFFICES ASSUME Init PROVE IInv
  OBVIOUS
<1>1. TypeOK
  BY WorldAssumption DEF Init, TypeOK
<1>2. Queue = World
  BY WorldAssumption, ConcatEmptySeq DEF Init, Queue
<1>3. Once(World)
  <2>1. DOMAIN World = 1..Len(World)
    BY WorldAssumption, LenProperties
  <2> QED BY <2>1, WorldAssumption DEF Once, IsInjective
<1>4. Good(World, owed)
  <2>1. \A i \in 1..Len(World) : World[i] \in Object
    BY WorldAssumption, ElementOfSeq
  <2> QED BY <1>3, <2>1 DEF Init, Good, Earlier, Absent
<1> QED BY <1>1, <1>2, <1>4 DEF Init, IInv

LEMMA CreateInv ==
  ASSUME IInv, NEW o \in Object, Create(o)
  PROVE  IInv'
<1>1. TypeOK /\ Good(Queue, owed)
  BY DEF IInv
<1>2. before' \in Seq(Object) /\ Queue' = InsertAt(Queue, Len(after) + 1, o)
  BY <1>1, CreateQueue
<1>3. TypeOK'
  BY <1>1, <1>2 DEF TypeOK, Create
<1>4. /\ Queue \in Seq(Object) /\ Len(after) + 1 \in 1..Len(Queue) + 1
      /\ owed \in [Object -> SUBSET Object] /\ o \notin Range(Queue)
  BY <1>1, QueueType DEF TypeOK, Create, Objs
<1>5. Good(InsertAt(Queue, Len(after) + 1, o), owed)
  BY <1>1, <1>4, JoinGood
<1>6. Good(Queue', owed')
  BY <1>2, <1>5 DEF Create
<1>7. current' # None => current' \in Objs'
  <2>1. Range(Queue) \subseteq Range(InsertAt(Queue, Len(after) + 1, o))
    BY <1>4, JoinRange
  <2> QED BY <1>2, <2>1 DEF Create, IInv, Objs
<1> QED BY <1>3, <1>6, <1>7 DEF IInv

(* What Destroy and DeleteCurrent have in common. *)
LEMMA UnlinkInv ==
  ASSUME TypeOK, Good(Queue, owed), NEW o, Unlink(o), Forget(o)
  PROVE  /\ before' \in Seq(Object) /\ after' \in Seq(Object)
         /\ owed' \in [Object -> SUBSET Object]
         /\ Good(Queue', owed')
         /\ Objs \ {o} \subseteq Objs'
<1>1. /\ before' \in Seq(Object) /\ after' \in Seq(Object)
      /\ \E k \in 1..Len(Queue) : Queue[k] = o /\ Queue' = RemoveAt(Queue, k)
  BY UnlinkQueue
<1>2. PICK k \in 1..Len(Queue) : Queue[k] = o /\ Queue' = RemoveAt(Queue, k)
  BY <1>1
<1>3. Queue \in Seq(Object) /\ owed \in [Object -> SUBSET Object]
  BY QueueType DEF TypeOK
<1>4. Good(RemoveAt(Queue, k),
           [p \in Object |-> IF p = Queue[k] THEN {} ELSE owed[p] \ {Queue[k]}])
  BY <1>3, QuitGood
<1>5. owed' = [p \in Object |-> IF p = Queue[k] THEN {} ELSE owed[p] \ {Queue[k]}]
  BY <1>2 DEF Forget
<1>6. Good(Queue', owed')
  BY <1>2, <1>4, <1>5
<1>7. Objs \ {o} \subseteq Objs'
  <2>1. Range(Queue) \ {Queue[k]} \subseteq Range(RemoveAt(Queue, k))
    BY <1>3, QuitRange
  <2> QED BY <1>2, <2>1 DEF Objs
<1> QED BY <1>1, <1>3, <1>5, <1>6, <1>7

LEMMA DestroyInv ==
  ASSUME IInv, NEW o \in Object, Destroy(o)
  PROVE  IInv'
<1>1. /\ TypeOK /\ Good(Queue, owed)
      /\ Unlink(o) /\ Forget(o) /\ o # current
      /\ current' = current /\ count' = count /\ phase' = phase
  BY DEF IInv, Destroy
<1>2. /\ before' \in Seq(Object) /\ after' \in Seq(Object)
      /\ owed' \in [Object -> SUBSET Object]
      /\ Good(Queue', owed')
      /\ Objs \ {o} \subseteq Objs'
  BY <1>1, UnlinkInv
<1>3. TypeOK'
  BY <1>1, <1>2 DEF TypeOK
<1>4. current' # None => current' \in Objs'
  BY <1>1, <1>2 DEF IInv
<1> QED BY <1>2, <1>3, <1>4 DEF IInv

LEMMA DeleteCurrentInv ==
  ASSUME IInv, DeleteCurrent
  PROVE  IInv'
<1>1. /\ TypeOK /\ Good(Queue, owed)
      /\ Unlink(current) /\ Forget(current)
      /\ current' = None /\ count' = count /\ phase' = phase
  BY DEF IInv, DeleteCurrent
<1>2. /\ before' \in Seq(Object) /\ after' \in Seq(Object)
      /\ owed' \in [Object -> SUBSET Object]
      /\ Good(Queue', owed')
  BY <1>1, UnlinkInv
<1>3. TypeOK'
  BY <1>1, <1>2 DEF TypeOK
<1> QED BY <1>1, <1>2, <1>3 DEF IInv

LEMMA TakeInv ==
  ASSUME IInv, Take
  PROVE  IInv'
<1>1. TypeOK /\ Good(Queue, owed)
  BY DEF IInv
<1>2. /\ before' \in Seq(Object) /\ after' \in Seq(Object)
      /\ Queue # <<>> /\ Head(after) = Queue[1] /\ Queue[1] \in Object
      /\ Queue' \in Seq(Object) /\ Len(Queue') = Len(Queue)
      /\ \A i \in 1..Len(Queue) :
           Queue'[i] = IF i < Len(Queue) THEN Queue[i + 1] ELSE Queue[1]
  BY <1>1, TakeQueue
<1>3. /\ Queue \in Seq(Object) /\ Objs \subseteq Object
      /\ owed \in [Object -> SUBSET Object]
      /\ Len(Queue) \in Nat \ {0}
  <2>1. Queue \in Seq(Object) /\ owed \in [Object -> SUBSET Object]
    BY <1>1, QueueType DEF TypeOK
  <2> QED BY <1>2, <2>1, EmptySeq, RangeEquality, ElementOfSeq DEF Objs
<1>4. owed' = [p \in Object |-> IF p = Queue[1] THEN Range(Queue) \ {Queue[1]}
                                               ELSE owed[p] \ {Queue[1]}]
  BY <1>2 DEF Take, TurnOwed, Objs
<1>5. TypeOK'
  <2>1. owed' \in [Object -> SUBSET Object]
    BY <1>3, <1>4 DEF Objs
  <2>2. count' \in Nat /\ current' \in Object /\ phase' = phase
    BY <1>1, <1>2 DEF Take, TypeOK
  <2> QED BY <1>1, <1>2, <2>1, <2>2 DEF TypeOK
<1>6. Good(Queue', owed')
  <2> DEFINE w == [p \in Object |-> IF p = Queue[1] THEN Range(Queue) \ {Queue[1]}
                                               ELSE owed[p] \ {Queue[1]}]
  <2>1. \A r \in Seq(Object) :
          /\ Len(r) = Len(Queue)
          /\ \A i \in 1..Len(Queue) :
               r[i] = IF i < Len(Queue) THEN Queue[i + 1] ELSE Queue[1]
          => Good(r, w)
    BY <1>1, <1>2, <1>3, TurnGood
  <2> HIDE DEF w
  <2>2. Good(Queue', w)
    BY <1>2, <2>1
  <2> QED BY <1>4, <2>2 DEF w
<1>7. current' \in Objs'
  <2>1. Queue'[Len(Queue)] = Queue[1] /\ Len(Queue) \in 1..Len(Queue')
    BY <1>2, <1>3
  <2>2. Objs' = {Queue'[i] : i \in 1..Len(Queue')}
    BY <1>2, RangeEquality DEF Objs
  <2>3. current' = Queue[1]
    BY <1>2 DEF Take
  <2> QED BY <2>1, <2>2, <2>3
<1> QED BY <1>5, <1>6, <1>7 DEF IInv

(* The other steps leave the list and the debts alone. *)
LEMMA OtherInv ==
  ASSUME IInv, UNCHANGED listVars,
         count' \in Nat, current' \in {current, None},
         phase' \in {"idle", "run", "crashed"}
  PROVE  IInv'
<1>1. Queue' = Queue /\ Objs' = Objs
  BY DEF listVars, Queue, Objs
<1>2. TypeOK'
  BY DEF IInv, TypeOK, listVars
<1>3. Good(Queue', owed')
  BY <1>1 DEF IInv, listVars
<1> QED BY <1>1, <1>2, <1>3 DEF IInv

LEMMA ShareType ==
  ASSUME NEW n \in Nat
  PROVE  Share(n) \in Nat
BY PartAssumption DEF Share

LEMMA StepInv == IInv /\ [Next]_vars => IInv'
<1> SUFFICES ASSUME IInv, [Next]_vars PROVE IInv'
  OBVIOUS
<1> USE DEF IInv
<1>1. CASE \E o \in Object : Create(o)
  BY <1>1, CreateInv
<1>2. CASE \E o \in Object : Destroy(o)
  BY <1>2, DestroyInv
<1>3. CASE StartObjs
  <2>1. Len(Queue) + 1 \in Nat
    BY QueueType
  <2>2. count' \in Nat
    BY <1>3, <2>1, ShareType DEF StartObjs
  <2> QED BY <1>3, <2>2, OtherInv DEF StartObjs
<1>4. CASE Take
  BY <1>4, TakeInv
<1>5. CASE TakePastEnd
  BY <1>5, OtherInv DEF TakePastEnd, TypeOK
<1>6. CASE KeepCurrent
  BY <1>6, OtherInv DEF KeepCurrent, TypeOK
<1>7. CASE DeleteCurrent
  BY <1>7, DeleteCurrentInv
<1>8. CASE EndObjs
  BY <1>8, OtherInv DEF EndObjs, TypeOK
<1>9. CASE UNCHANGED vars
  BY <1>9, OtherInv DEF vars, listVars, TypeOK
<1> QED BY <1>1, <1>2, <1>3, <1>4, <1>5, <1>6, <1>7, <1>8, <1>9
        DEF Next, Crashed

LEMMA Invariance == Spec => []IInv
BY InitInv, StepInv, PTL DEF Spec

(* The variables of the walk have the types the code gives them; the share *)
(* of a pulse is counted down to zero and not below.                       *)
THEOREM TypeCorrect == Spec => []TypeOK
<1>1. IInv => TypeOK
  BY DEF IInv
<1> QED BY <1>1, Invariance, PTL

(* Moving the placeholder around neither doubles nor loses an object.      *)
THEOREM ListKept == Spec => []Listed
<1>1. IInv => Listed
  <2> SUFFICES ASSUME IInv PROVE Listed
    OBVIOUS
  <2>1. DOMAIN Queue = 1..Len(Queue)
    BY QueueType, LenProperties DEF IInv
  <2> QED BY <2>1 DEF IInv, Good, Once, Listed, IsInjective
<1> QED BY <1>1, Invariance, PTL

(* Turns rotate: nobody gets a second one while another still waits for    *)
(* one that was there at the first.                                        *)
THEOREM TurnsRotate == Spec => []RoundRobin
<1>1. IInv => RoundRobin
  <2> SUFFICES ASSUME IInv, after # <<>> PROVE owed[Head(after)] = {}
    BY DEF RoundRobin
  <2>1. /\ Len(after) \in Nat \ {0} /\ Head(after) = after[1]
        /\ after[1] \in Object
    BY EmptySeq, HeadTailProperties DEF IInv, TypeOK
  <2>2. 1 \in 1..Len(Queue) /\ Queue[1] = Head(after)
    BY <2>1, QueueType DEF IInv
  <2>3. \A x \in owed[Head(after)] : \E j \in 1..0 : Queue[j] = x
    <3>1. \A x \in owed[Queue[1]] : \E j \in 1..1-1 : Queue[j] = x
      BY <2>2 DEF IInv, Good, Earlier
    <3> QED BY <2>2, <3>1
  <2> QED BY <2>3
<1> QED BY <1>1, Invariance, PTL

-----------------------------------------------------------------------------
(* The walk over object_list is a rota: whatever is created or destroyed   *)
(* in the meantime, the others keep their order and the object that had    *)
(* its turn is behind all of them.                                         *)
LEMMA InitRota == Init => Abstract!RotaInit
BY WorldAssumption, ConcatEmptySeq DEF Init, Queue, Abstract!RotaInit

LEMMA StepRota == IInv /\ [Next]_vars => [Abstract!RotaNext]_Queue
<1> SUFFICES ASSUME IInv, [Next]_vars PROVE [Abstract!RotaNext]_Queue
  OBVIOUS
<1>1. TypeOK
  BY DEF IInv
<1>2. ASSUME NEW o \in Object, Create(o)
      PROVE  Abstract!Join(o)
  <2>1. Queue' = InsertAt(Queue, Len(after) + 1, o)
    BY <1>1, <1>2, CreateQueue
  <2>2. Len(after) + 1 \in 1..Len(Queue) + 1
    BY <1>1, QueueType
  <2>3. o \notin Range(Queue)
    BY <1>2 DEF Create, Objs
  <2>4. /\ Abstract!Range(Queue) = Range(Queue)
        /\ \A i : Abstract!InsertAt(Queue, i, o) = InsertAt(Queue, i, o)
    BY DEF Abstract!Range, Range, Abstract!InsertAt, InsertAt
  <2> QED BY <2>1, <2>2, <2>3, <2>4 DEF Abstract!Join
<1>3. ASSUME NEW o \in Object, Unlink(o)
      PROVE  Abstract!Quit(o)
  <2>1. PICK k \in 1..Len(Queue) : Queue[k] = o /\ Queue' = RemoveAt(Queue, k)
    BY <1>1, <1>3, UnlinkQueue
  <2>2. Abstract!RemoveAt(Queue, k) = RemoveAt(Queue, k)
    BY DEF Abstract!RemoveAt, RemoveAt
  <2> QED BY <2>1, <2>2 DEF Abstract!Quit
<1>4. CASE Take
  <2>1. /\ Queue # <<>> /\ Queue' \in Seq(Object) /\ Len(Queue') = Len(Queue)
        /\ \A i \in 1..Len(Queue) :
             Queue'[i] = IF i < Len(Queue) THEN Queue[i + 1] ELSE Queue[1]
    BY <1>1, <1>4, TakeQueue
  <2>2. Queue \in Seq(Object)
    BY <1>1, QueueType
  <2>3. /\ Tail(Queue) \in Seq(Object) /\ Len(Tail(Queue)) = Len(Queue) - 1
        /\ \A i \in 1..Len(Queue) - 1 : Tail(Queue)[i] = Queue[i + 1]
        /\ Head(Queue) = Queue[1] /\ Head(Queue) \in Object
        /\ Len(Queue) \in Nat \ {0}
    BY <2>1, <2>2, HeadTailProperties, EmptySeq
  <2> DEFINE r == Append(Tail(Queue), Head(Queue))
  <2>4. /\ r \in Seq(Object) /\ Len(r) = Len(Queue)
        /\ \A i \in 1..Len(Queue) - 1 : r[i] = Queue[i + 1]
        /\ r[Len(Queue)] = Queue[1]
    <3>1. \A t \in Seq(Object) : \A h \in Object :
            /\ Append(t, h) \in Seq(Object) /\ Len(Append(t, h)) = Len(t) + 1
            /\ \A i \in 1..Len(t) : Append(t, h)[i] = t[i]
            /\ Append(t, h)[Len(t) + 1] = h
      OBVIOUS
    <3> QED BY <2>3, <3>1
  <2> HIDE DEF r
  <2>5. \A i \in 1..Len(Queue') : Queue'[i] = r[i]
    BY <2>1, <2>3, <2>4
  <2>6. Queue' = r
    BY <2>1, <2>4, <2>5, SeqEqual
  <2> QED BY <2>1, <2>6 DEF r, Abstract!RotaNext, Abstract!Turn
<1>5. CASE \E o \in Object : Create(o)
  BY <1>2, <1>5 DEF Abstract!RotaNext
<1>6. CASE \E o \in Object : Destroy(o)
  BY <1>3, <1>6 DEF Destroy, Abstract!RotaNext
<1>7. CASE DeleteCurrent
  <2>1. current \in Object /\ Unlink(current)
    BY <1>1, <1>7 DEF DeleteCurrent, TypeOK
  <2> QED BY <1>3, <2>1 DEF Abstract!RotaNext
<1>8. CASE UNCHANGED <<before, after>>
  BY <1>8 DEF Queue
<1> QED BY <1>4, <1>5, <1>6, <1>7, <1>8
        DEF Next, StartObjs, TakePastEnd, KeepCurrent, EndObjs, Crashed,
            vars, listVars

THEOREM Rotation == Spec => ImplementsRota
BY InitRota, StepRota, Invariance, PTL
   DEF Spec, ImplementsRota, Abstract!RotaSpec

(* With at least 276 objects, placeholder included, and none coming or     *)
(* going, the shares of the 12 pulses up to the next multiple of 12, which *)
(* init12() makes one, add up to the whole list: no process with a period  *)
(* of 12 pulses or a multiple of it misses an object.                      *)
THEOREM WindowCovers ==
  ASSUME Part = 23, NEW n \in Nat, n >= 276
  PROVE  12 * Share(n) >= n
<1> DEFINE k == Share(n)
<1>1. k \in Nat /\ 23 * k <= 2 * n /\ 2 * n < 23 * (k + 1)
  BY DEF Share
<1> HIDE DEF k
<1>2. 12 * k >= n
  BY <1>1
<1> QED BY <1>2 DEF k

-----------------------------------------------------------------------------
(* Waiting for a turn. *)

(* An object is never moved away from its turn: behind the placeholder it  *)
(* comes nearer at every turn given, and in front of it the placeholder    *)
(* comes nearer to the end of the list, whatever is created or destroyed.  *)
Nearer ==
  \A o \in Objs \cap Objs' :
    /\ \A i \in 1..Len(after) : after[i] = o =>
         \/ Take /\ i = 1
         \/ \E j \in 1..Len(after') :
              after'[j] = o /\ j <= i /\ (Take => j < i)
    /\ o \notin Range(after) =>
         \/ o \in Range(after')
         \/ Len(after') <= Len(after) /\ (Take => Len(after') < Len(after))

TurnsComeNearer == [][Nearer]_vars

LEMMA UnlinkGone ==
  ASSUME IInv, NEW p, Unlink(p), p \in Objs'
  PROVE  FALSE
<1>1. /\ TypeOK /\ Queue \in Seq(Object) /\ Len(Queue) \in Nat
      /\ Once(Queue)
  BY QueueType, LenProperties DEF IInv, Good
<1>2. PICK k \in 1..Len(Queue) : Queue[k] = p /\ Queue' = RemoveAt(Queue, k)
  BY <1>1, UnlinkQueue
<1> DEFINE r == RemoveAt(Queue, k)
<1>3. /\ r \in Seq(Object) /\ Len(r) = Len(Queue) - 1
      /\ \A j \in 1..Len(Queue) - 1 :
           r[j] = IF j < k THEN Queue[j] ELSE Queue[j + 1]
  BY <1>1, RemoveAtElements
<1>4. p \in Range(r)
  BY <1>2 DEF Objs
<1> HIDE DEF r
<1>5. PICK j \in 1..Len(r) : r[j] = p
  BY <1>3, <1>4, RangeEquality
<1> QED BY <1>1, <1>2, <1>3, <1>5 DEF Once

LEMMA UnlinkNearer ==
  ASSUME IInv, NEW p, Unlink(p), ~Take
  PROVE  Nearer
<1>1. after \in Seq(Object) /\ Len(after) \in Nat
  BY LenProperties DEF IInv, TypeOK
<1>2. CASE after' = after
  <2>1. Len(after') <= Len(after)
    BY <1>1, <1>2
  <2> QED BY <1>1, <1>2, <2>1 DEF Nearer
<1>3. CASE after' # after
  <2>1. PICK k \in 1..Len(after) : after[k] = p /\ after' = RemoveAt(after, k)
    BY <1>3 DEF Unlink
  <2> DEFINE r == RemoveAt(after, k)
  <2>2. /\ Len(r) = Len(after) - 1
        /\ \A j \in 1..Len(after) - 1 :
             r[j] = IF j < k THEN after[j] ELSE after[j + 1]
    BY <1>1, RemoveAtElements
  <2>3. after' = r
    BY <2>1
  <2> HIDE DEF r
  <2> SUFFICES ASSUME NEW o \in Objs \cap Objs'
               PROVE  /\ \A i \in 1..Len(after) : after[i] = o =>
                           \E j \in 1..Len(after') : after'[j] = o /\ j <= i
                      /\ Len(after') <= Len(after)
    BY DEF Nearer
  <2>4. o # p
    BY UnlinkGone
  <2>5. ASSUME NEW i \in 1..Len(after), after[i] = o
        PROVE  \E j \in 1..Len(r) : r[j] = o /\ j <= i
    <3>1. CASE i < k
      BY <1>1, <2>2, <2>5, <3>1
    <3>2. CASE i > k
      <4>1. i - 1 \in 1..Len(r) /\ r[i - 1] = o /\ i - 1 <= i
        BY <1>1, <2>2, <2>5, <3>2
      <4> QED BY <4>1
    <3> QED BY <2>1, <2>4, <2>5, <3>1, <3>2
  <2> QED BY <1>1, <2>2, <2>3, <2>5
<1> QED BY <1>2, <1>3

LEMMA TakeNearer ==
  ASSUME IInv, Take
  PROVE  Nearer
<1>1. /\ after \in Seq(Object) /\ after # <<>>
      /\ before \in Seq(Object) /\ Len(after) \in Nat \ {0}
  BY LenProperties, EmptySeq DEF IInv, TypeOK, Take
<1>2. CASE Len(after) = 1
  <2> DEFINE t == Append(before, Head(after))
  <2>1. after' = t
    BY <1>2 DEF Take
  <2>2. Head(after) \in Object
    BY <1>1, HeadTailProperties
  <2>3. /\ t \in Seq(Object) /\ Len(t) = Len(before) + 1
        /\ \A i \in 1..Len(before) : t[i] = before[i]
    BY <1>1, <2>2, AppendProperties
  <2> HIDE DEF t
  <2>4. ASSUME NEW o \in Objs, o \notin Range(after)
        PROVE  o \in Range(t)
    <3>1. TypeOK
      BY DEF IInv
    <3>2. PICK i \in 1..Len(Queue) : Queue[i] = o
      BY <3>1, <2>4, InObjs
    <3>3. \A j \in 1..Len(after) : after[j] # o
      BY <1>1, <2>4, RangeEquality
    <3>4. /\ Len(Queue) = Len(after) + Len(before) /\ Len(before) \in Nat
          /\ \A j \in 1..Len(after) : Queue[j] = after[j]
          /\ \A j \in 1..Len(before) : Queue[Len(after) + j] = before[j]
      BY <3>1, QueueType
    <3> DEFINE m == i - Len(after)
    <3>5. m \in 1..Len(before) /\ i = Len(after) + m
      BY <1>1, <3>2, <3>3, <3>4
    <3> HIDE DEF m
    <3>6. m \in 1..Len(t) /\ t[m] = o
      BY <2>3, <3>2, <3>4, <3>5
    <3> QED BY <2>3, <3>6, RangeEquality
  <2> QED BY <1>2, <2>1, <2>4 DEF Nearer
<1>3. CASE Len(after) # 1
  <2> DEFINE t == Tail(after)
  <2>1. after' = t
    BY <1>3 DEF Take
  <2>2. /\ Len(t) = Len(after) - 1
        /\ \A i \in 1..Len(after) - 1 : t[i] = after[i + 1]
    BY <1>1, HeadTailProperties
  <2> HIDE DEF t
  <2>3. ASSUME NEW i \in 1..Len(after), i # 1
        PROVE  \E j \in 1..Len(t) : t[j] = after[i] /\ j <= i /\ j < i
    <3>1. i - 1 \in 1..Len(t) /\ t[i - 1] = after[i] /\ i - 1 <= i /\ i - 1 < i
      BY <1>1, <2>2, <2>3
    <3> QED BY <3>1
  <2>4. Len(t) <= Len(after) /\ Len(t) < Len(after)
    BY <1>1, <2>2
  <2> QED BY <2>1, <2>3, <2>4 DEF Nearer
<1> QED BY <1>2, <1>3

(* Where the list behind the placeholder stays as it is, so does a wait. *)
LEMMA StillNearer ==
  ASSUME IInv, after' = after, ~Take
  PROVE  Nearer
<1>1. Len(after) \in Nat
  BY LenProperties DEF IInv, TypeOK
<1>2. Len(after') <= Len(after)
  BY <1>1
<1> QED BY <1>1, <1>2 DEF Nearer

(* No object waits for ever because of the newcomers: what a turn brings   *)
(* nearer, nothing moves away again.                                       *)
THEOREM WaitsShrink == Spec => TurnsComeNearer
<1>1. ASSUME IInv, [Next]_vars
      PROVE  Nearer
  <2>1. CASE Take
    BY <1>1, <2>1, TakeNearer
  <2>2. CASE ~Take /\ \E p : Unlink(p)
    BY <1>1, <2>2, UnlinkNearer
  <2>3. CASE ~Take /\ after' = after
    BY <1>1, <2>3, StillNearer
  <2> QED
    BY <1>1, <2>1, <2>2, <2>3
       DEF Next, Create, Destroy, StartObjs, TakePastEnd, KeepCurrent,
           DeleteCurrent, EndObjs, Crashed, vars, listVars
<1> QED BY <1>1, Invariance, PTL DEF TurnsComeNearer, Spec
=============================================================================
