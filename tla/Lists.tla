------------------------------- MODULE Lists -------------------------------
(***************************************************************************)
(* Facts about sequences, and about walks along lists, that the proofs of  *)
(* several modules rest on.                                                *)
(***************************************************************************)
EXTENDS Walks, SequenceTheorems, TLAPS

(* The elements of a concatenation. *)
LEMMA ConcatAt ==
  ASSUME NEW S, NEW s \in Seq(S), NEW t \in Seq(S)
  PROVE  /\ s \o t \in Seq(S)
         /\ Len(s \o t) = Len(s) + Len(t)
         /\ \A i \in 1..Len(s) : (s \o t)[i] = s[i]
         /\ \A i \in 1..Len(t) : (s \o t)[Len(s) + i] = t[i]
BY ConcatProperties, LenProperties

(* The elements that are left. *)
LEMMA RemoveAtElements ==
  ASSUME NEW S, NEW s \in Seq(S), NEW i \in 1..Len(s)
  PROVE  /\ RemoveAt(s, i) \in Seq(S)
         /\ Len(RemoveAt(s, i)) = Len(s) - 1
         /\ \A j \in 1..Len(s) - 1 :
              RemoveAt(s, i)[j] = IF j < i THEN s[j] ELSE s[j + 1]
<1> DEFINE u == SubSeq(s, 1, i - 1)
           v == SubSeq(s, i + 1, Len(s))
<1>1. Len(s) \in Nat /\ i \in Int /\ \A j \in 1..Len(s) : s[j] \in S
  BY LenProperties
<1>2. /\ u \in Seq(S) /\ Len(u) = i - 1
      /\ \A j \in 1..i - 1 : u[j] = s[j]
  <2>1. i - 1 \in Int /\ \A j \in 1..i - 1 : s[j] \in S
    BY <1>1
  <2> QED BY <2>1, <1>1, SubSeqProperties
<1>3. /\ v \in Seq(S) /\ Len(v) = Len(s) - i
      /\ \A j \in 1..Len(s) - i : v[j] = s[i + j]
  <2>1. i + 1 \in Int /\ \A j \in i + 1..Len(s) : s[j] \in S
    BY <1>1
  <2>2. /\ v \in Seq(S)
        /\ Len(v) = IF i + 1 <= Len(s) THEN Len(s) - (i + 1) + 1 ELSE 0
        /\ \A j \in 1..Len(s) - (i + 1) + 1 : v[j] = s[i + 1 + j - 1]
    BY <2>1, <1>1, SubSeqProperties
  <2> QED BY <2>2, <1>1
<1>4. RemoveAt(s, i) = u \o v
  BY DEF RemoveAt
<1> HIDE DEF u, v
<1>5. /\ u \o v \in Seq(S)
      /\ Len(u \o v) = Len(u) + Len(v)
      /\ \A j \in 1..Len(u) + Len(v) :
           (u \o v)[j] = IF j <= Len(u) THEN u[j] ELSE v[j - Len(u)]
  BY <1>2, <1>3, ConcatProperties
<1> QED BY <1>1, <1>2, <1>3, <1>4, <1>5

(* A new first element. *)
LEMMA ConsElements ==
  ASSUME NEW S, NEW s \in Seq(S), NEW e \in S
  PROVE  /\ <<e>> \o s \in Seq(S)
         /\ Len(<<e>> \o s) = Len(s) + 1
         /\ (<<e>> \o s)[1] = e
         /\ \A i \in 1..Len(s) : (<<e>> \o s)[i + 1] = s[i]
<1>1. <<e>> \in Seq(S) /\ Len(<<e>>) = 1 /\ <<e>>[1] = e
  OBVIOUS
<1>2. /\ <<e>> \o s \in Seq(S)
      /\ Len(<<e>> \o s) = Len(<<e>>) + Len(s)
      /\ \A i \in 1..Len(<<e>>) : (<<e>> \o s)[i] = <<e>>[i]
      /\ \A i \in 1..Len(s) : (<<e>> \o s)[Len(<<e>>) + i] = s[i]
  BY <1>1, ConcatAt
<1> QED BY <1>1, <1>2, LenProperties

-----------------------------------------------------------------------------
(* Walks. *)

LEMMA RangeMember ==
  ASSUME NEW S, NEW s \in Seq(S), NEW e
  PROVE  e \in Range(s) <=> \E i \in 1..Len(s) : s[i] = e
BY LenProperties DEF Range

LEMMA FromMember ==
  ASSUME NEW s, NEW n, NEW e
  PROVE  e \in From(s, n) <=>
           \E i \in 1..Len(s) : s[i] = e /\ \E k \in 1..i : s[k] = n
BY DEF From

LEMMA OncePlaced ==
  ASSUME NEW S, NEW s \in Seq(S), IsInjective(s)
  PROVE  \A i, j \in 1..Len(s) : s[i] = s[j] => i = j
BY LenProperties DEF IsInjective

LEMMA PlaceInjective ==
  ASSUME NEW S, NEW s \in Seq(S),
         \A i, j \in 1..Len(s) : s[i] = s[j] => i = j
  PROVE  IsInjective(s)
BY LenProperties DEF IsInjective

(* A walk that is at an element comes to it. *)
LEMMA FromSelf ==
  ASSUME NEW S, NEW s \in Seq(S), NEW e \in Range(s)
  PROVE  e \in From(s, e)
<1>1. PICK i \in 1..Len(s) : s[i] = e
  BY RangeMember
<1>2. i \in 1..i
  BY LenProperties
<1> QED BY <1>1, <1>2, FromMember

(* Nothing is behind a null pointer. *)
LEMMA FromNull ==
  ASSUME NEW S, NEW s \in Seq(S), NEW null, null \notin S
  PROVE  From(s, null) = {}
<1> SUFFICES ASSUME NEW e \in From(s, null) PROVE FALSE
  OBVIOUS
<1>1. PICK i \in 1..Len(s) : \E k \in 1..i : s[k] = null
  BY FromMember
<1>2. PICK k \in 1..i : s[k] = null
  BY <1>1
<1>3. k \in 1..Len(s)
  BY LenProperties
<1> QED BY <1>2, <1>3, ElementOfSeq

(* Everything is at the head of the list or behind it. *)
LEMMA FromFirst ==
  ASSUME NEW S, NEW s \in Seq(S), s # <<>>
  PROVE  /\ s[1] \in Range(s)
         /\ From(s, s[1]) = Range(s)
<1>1. Len(s) \in Nat /\ Len(s) # 0
  BY LenProperties, EmptySeq
<1>2. s[1] \in Range(s)
  BY <1>1, RangeMember
<1>3. ASSUME NEW e PROVE e \in From(s, s[1]) <=> e \in Range(s)
  <2>1. \A i \in 1..Len(s) : 1 \in 1..i
    BY <1>1
  <2> QED BY <2>1, FromMember, RangeMember
<1> QED BY <1>2, <1>3

(* Something new at the head changes nothing for a pointer into the list. *)
LEMMA ConsWalk ==
  ASSUME NEW S, NEW s \in Seq(S), IsInjective(s), NEW b \in S, b \notin Range(s)
  PROVE  /\ <<b>> \o s \in Seq(S)
         /\ IsInjective(<<b>> \o s)
         /\ Range(<<b>> \o s) = Range(s) \cup {b}
         /\ \A n : n # b => From(<<b>> \o s, n) = From(s, n)
<1> DEFINE t == <<b>> \o s
<1>1. /\ t \in Seq(S)
      /\ Len(t) = Len(s) + 1
      /\ t[1] = b
      /\ \A i \in 1..Len(s) : t[i + 1] = s[i]
  BY ConsElements
<1>2. Len(s) \in Nat
  BY LenProperties
<1>3. \A i \in 1..Len(s) : s[i] # b
  BY RangeMember
<1> HIDE DEF t
<1>4. \A i \in 1..Len(t) : i # 1 => i - 1 \in 1..Len(s) /\ t[i] = s[i - 1]
  BY <1>1, <1>2
<1>5. IsInjective(t)
  <2> SUFFICES ASSUME NEW i \in 1..Len(t), NEW j \in 1..Len(t), t[i] = t[j]
               PROVE  i = j
    BY <1>1, PlaceInjective
  <2>1. CASE i = 1 \/ j = 1
    BY <1>1, <1>3, <1>4, <2>1
  <2>2. CASE i # 1 /\ j # 1
    <3>1. i - 1 = j - 1
      BY <1>4, <2>2, OncePlaced
    <3> QED BY <3>1, <1>1, <1>2
  <2> QED BY <2>1, <2>2
<1>6. Range(t) = Range(s) \cup {b}
  <2>1. ASSUME NEW e \in Range(t) PROVE e \in Range(s) \cup {b}
    <3>1. PICK i \in 1..Len(t) : t[i] = e
      BY <1>1, RangeMember
    <3> QED BY <3>1, <1>1, <1>4, RangeMember
  <2>2. ASSUME NEW e \in Range(s) PROVE e \in Range(t)
    <3>1. PICK i \in 1..Len(s) : s[i] = e
      BY RangeMember
    <3>2. i + 1 \in 1..Len(t) /\ t[i + 1] = e
      BY <3>1, <1>1, <1>2
    <3> QED BY <3>2, <1>1, RangeMember
  <2>3. b \in Range(t)
    <3>1. 1 \in 1..Len(t)
      BY <1>1, <1>2
    <3> QED BY <3>1, <1>1, RangeMember
  <2> QED BY <2>1, <2>2, <2>3
<1>7. ASSUME NEW n, n # b, NEW e \in From(t, n)
      PROVE  e \in From(s, n)
  <2>1. PICK i \in 1..Len(t) : t[i] = e /\ \E k \in 1..i : t[k] = n
    BY FromMember
  <2>2. PICK k \in 1..i : t[k] = n
    BY <2>1
  <2>4. k \in 1..Len(t) /\ k # 1 /\ i # 1
    BY <1>1, <1>2, <1>7, <2>2
  <2>5. i - 1 \in 1..Len(s) /\ s[i - 1] = e /\ k - 1 \in 1..i - 1 /\ s[k - 1] = n
    <3>1. i - 1 \in 1..Len(s) /\ s[i - 1] = e /\ s[k - 1] = n
      BY <1>4, <2>1, <2>2, <2>4
    <3>2. k - 1 \in 1..i - 1
      BY <2>4, <1>1, <1>2
    <3> QED BY <3>1, <3>2
  <2> QED BY <2>5, FromMember
<1>8. ASSUME NEW n, n # b, NEW e \in From(s, n)
      PROVE  e \in From(t, n)
  <2>1. PICK i \in 1..Len(s) : s[i] = e /\ \E k \in 1..i : s[k] = n
    BY FromMember
  <2>2. PICK k \in 1..i : s[k] = n
    BY <2>1
  <2>3. /\ i + 1 \in 1..Len(t) /\ t[i + 1] = e
        /\ k + 1 \in 1..i + 1 /\ t[k + 1] = n
    <3>1. k \in 1..Len(s)
      BY <1>2
    <3>2. t[i + 1] = e /\ t[k + 1] = n
      BY <1>1, <2>1, <2>2, <3>1
    <3> QED BY <1>1, <1>2, <3>1, <3>2
  <2> QED BY <2>3, FromMember
<1>9. \A n : n # b => From(t, n) = From(s, n)
  <2> SUFFICES ASSUME NEW n, n # b PROVE From(t, n) = From(s, n)
    OBVIOUS
  <2>1. \A e \in From(t, n) : e \in From(s, n)
    BY <1>7
  <2>2. \A e \in From(s, n) : e \in From(t, n)
    BY <1>8
  <2> QED BY <2>1, <2>2
<1> QED BY <1>1, <1>5, <1>6, <1>9 DEF t

(* ... and is one more, whatever the list was. *)
LEMMA ConsRange ==
  ASSUME NEW S, NEW s \in Seq(S), NEW b \in S
  PROVE  /\ <<b>> \o s \in Seq(S)
         /\ Range(<<b>> \o s) = Range(s) \cup {b}
         /\ <<b>> \o s # <<>> /\ (<<b>> \o s)[1] = b
<1> DEFINE t == <<b>> \o s
<1>1. /\ t \in Seq(S) /\ Len(t) = Len(s) + 1 /\ t[1] = b
      /\ \A i \in 1..Len(s) : t[i + 1] = s[i]
  BY ConsElements
<1> HIDE DEF t
<1>2. Len(s) \in Nat
  BY LenProperties
<1>3. t # <<>>
  BY <1>1, <1>2, EmptySeq
<1>4. ASSUME NEW e PROVE e \in Range(t) <=> e \in Range(s) \cup {b}
  <2>1. ASSUME NEW i \in 1..Len(t), t[i] = e PROVE e \in Range(s) \cup {b}
    <3>1. CASE i = 1
      BY <1>1, <2>1, <3>1
    <3>2. CASE i # 1
      <4>1. i - 1 \in 1..Len(s) /\ t[(i - 1) + 1] = e
        BY <1>1, <1>2, <2>1, <3>2
      <4>2. s[i - 1] = e
        BY <1>1, <4>1
      <4> QED BY <4>1, <4>2, RangeMember
    <3> QED BY <3>1, <3>2
  <2>2. ASSUME NEW i \in 1..Len(s), s[i] = e PROVE e \in Range(t)
    <3>1. i + 1 \in 1..Len(t) /\ t[i + 1] = e
      BY <1>1, <1>2, <2>2
    <3> QED BY <1>1, <3>1, RangeMember
  <2>3. b \in Range(t)
    <3>1. 1 \in 1..Len(t)
      BY <1>1, <1>2
    <3> QED BY <1>1, <3>1, RangeMember
  <2> QED BY <1>1, <2>1, <2>2, <2>3, RangeMember
<1> QED BY <1>1, <1>3, <1>4 DEF t

LEMMA PlaceOf ==
  ASSUME NEW S, NEW s \in Seq(S), NEW b \in Range(s)
  PROVE  Place(s, b) \in 1..Len(s) /\ s[Place(s, b)] = b
<1>1. \E i \in 1..Len(s) : s[i] = b
  BY RangeMember
<1> QED BY <1>1 DEF Place

(* A pointer to another still points into the list. *)
LEMMA RemoveWalk ==
  ASSUME NEW S, NEW s \in Seq(S), IsInjective(s), NEW b \in Range(s)
  PROVE  /\ RemoveAt(s, Place(s, b)) \in Seq(S)
         /\ IsInjective(RemoveAt(s, Place(s, b)))
         /\ Range(RemoveAt(s, Place(s, b))) = Range(s) \ {b}
         /\ \A n : n # b => From(RemoveAt(s, Place(s, b)), n) = From(s, n) \ {b}
<1> DEFINE p == Place(s, b)
           t == RemoveAt(s, p)
<1>1. p \in 1..Len(s) /\ s[p] = b
  BY PlaceOf
<1> HIDE DEF p
<1>2. /\ t \in Seq(S)
      /\ Len(t) = Len(s) - 1
      /\ \A j \in 1..Len(s) - 1 : t[j] = IF j < p THEN s[j] ELSE s[j + 1]
  BY <1>1, RemoveAtElements
<1> HIDE DEF t
<1>3. Len(s) \in Nat
  BY LenProperties
<1> DEFINE Old(j) == IF j < p THEN j ELSE j + 1
           New(j) == IF j < p THEN j ELSE j - 1
<1>4. \A j \in 1..Len(t) : Old(j) \in 1..Len(s) /\ Old(j) # p /\ t[j] = s[Old(j)]
  BY <1>1, <1>2, <1>3
<1>5. \A j \in 1..Len(s) : j # p => New(j) \in 1..Len(t) /\ t[New(j)] = s[j]
  BY <1>1, <1>2, <1>3
<1>6. \A j \in 1..Len(s) : s[j] = b => j = p
  BY <1>1, OncePlaced
<1>7. IsInjective(t)
  <2> SUFFICES ASSUME NEW i \in 1..Len(t), NEW j \in 1..Len(t), t[i] = t[j]
               PROVE  i = j
    BY <1>2, PlaceInjective
  <2>1. Old(i) = Old(j)
    <3>1. Old(i) \in 1..Len(s) /\ Old(j) \in 1..Len(s) /\ s[Old(i)] = s[Old(j)]
      BY <1>4
    <3> HIDE DEF Old
    <3> QED BY <3>1, OncePlaced
  <2> QED BY <2>1, <1>1, <1>2, <1>3
<1>8. Range(t) = Range(s) \ {b}
  <2>1. ASSUME NEW e \in Range(t) PROVE e \in Range(s) \ {b}
    <3>1. PICK j \in 1..Len(t) : t[j] = e
      BY <1>2, RangeMember
    <3>2. Old(j) \in 1..Len(s) /\ Old(j) # p /\ s[Old(j)] = e
      BY <3>1, <1>4
    <3> HIDE DEF Old
    <3> QED BY <3>2, <1>6, RangeMember
  <2>2. ASSUME NEW e \in Range(s), e # b PROVE e \in Range(t)
    <3>1. PICK j \in 1..Len(s) : s[j] = e
      BY RangeMember
    <3>2. New(j) \in 1..Len(t) /\ t[New(j)] = e
      BY <3>1, <2>2, <1>1, <1>5
    <3> HIDE DEF New
    <3> QED BY <3>2, <1>2, RangeMember
  <2> QED BY <2>1, <2>2
<1>9. ASSUME NEW n, n # b, NEW e \in From(t, n) PROVE e \in From(s, n) \ {b}
  <2>1. PICK i \in 1..Len(t) : t[i] = e /\ \E k \in 1..i : t[k] = n
    BY FromMember
  <2>2. PICK k \in 1..i : t[k] = n
    BY <2>1
  <2>3. k \in 1..Len(t)
    BY <1>2, <1>3
  <2>4. /\ Old(i) \in 1..Len(s) /\ Old(i) # p /\ s[Old(i)] = e
        /\ s[Old(k)] = n /\ Old(k) \in 1..Len(s)
    BY <1>4, <2>1, <2>2, <2>3
  <2>5. Old(k) \in 1..Old(i)
    BY <1>1, <1>2, <1>3, <2>3
  <2> HIDE DEF Old
  <2> QED BY <2>4, <2>5, <1>6, FromMember
<1>10. ASSUME NEW n, n # b, NEW e \in From(s, n), e # b PROVE e \in From(t, n)
  <2>1. PICK i \in 1..Len(s) : s[i] = e /\ \E k \in 1..i : s[k] = n
    BY FromMember
  <2>2. PICK k \in 1..i : s[k] = n
    BY <2>1
  <2>3. k \in 1..Len(s) /\ k # p /\ i # p
    BY <1>1, <1>3, <1>10, <2>1, <2>2
  <2>4. /\ New(i) \in 1..Len(t) /\ t[New(i)] = e
        /\ t[New(k)] = n /\ New(k) \in 1..Len(t)
    BY <1>5, <2>1, <2>2, <2>3
  <2>5. New(k) \in 1..New(i)
    BY <1>1, <1>2, <1>3, <2>3
  <2> HIDE DEF New
  <2> QED BY <2>4, <2>5, FromMember
<1>11. \A n : n # b => From(t, n) = From(s, n) \ {b}
  <2> SUFFICES ASSUME NEW n, n # b PROVE From(t, n) = From(s, n) \ {b}
    OBVIOUS
  <2>1. \A e \in From(t, n) : e \in From(s, n) \ {b}
    BY <1>9
  <2>2. \A e \in From(s, n) : e # b => e \in From(t, n)
    BY <1>10
  <2> QED BY <2>1, <2>2
<1> QED BY <1>2, <1>7, <1>8, <1>11 DEF t, p

(* Others stay, and the next is one of the list or null, whatever the list *)
(* was.                                                                    *)
LEMMA RemoveRange ==
  ASSUME NEW S, NEW s \in Seq(S), NEW b \in Range(s), NEW null
  PROVE  /\ RemoveAt(s, Place(s, b)) \in Seq(S)
         /\ Range(s) \ {b} \subseteq Range(RemoveAt(s, Place(s, b)))
         /\ After(s, b, null) \in S \cup {null}
<1> DEFINE p == Place(s, b)
           t == RemoveAt(s, p)
<1>1. p \in 1..Len(s) /\ s[p] = b
  BY PlaceOf
<1>2. After(s, b, null) = IF p < Len(s) THEN s[p + 1] ELSE null
  BY DEF After
<1> HIDE DEF p
<1>3. /\ t \in Seq(S)
      /\ Len(t) = Len(s) - 1
      /\ \A j \in 1..Len(s) - 1 : t[j] = IF j < p THEN s[j] ELSE s[j + 1]
  BY <1>1, RemoveAtElements
<1> HIDE DEF t
<1>4. Len(s) \in Nat /\ \A j \in 1..Len(s) : s[j] \in S
  BY LenProperties, ElementOfSeq
<1>5. ASSUME NEW e \in Range(s), e # b PROVE e \in Range(t)
  <2>1. PICK j \in 1..Len(s) : s[j] = e
    BY RangeMember
  <2> DEFINE i == IF j < p THEN j ELSE j - 1
  <2>2. i \in 1..Len(t) /\ t[i] = e
    BY <1>1, <1>3, <1>4, <1>5, <2>1
  <2> HIDE DEF i
  <2> QED BY <1>3, <2>2, RangeMember
<1>6. After(s, b, null) \in S \cup {null}
  BY <1>1, <1>2, <1>4
<1> QED BY <1>3, <1>5, <1>6 DEF t, p

(* The next is behind, or null at the end. *)
LEMMA NextWalk ==
  ASSUME NEW S, NEW s \in Seq(S), IsInjective(s), NEW b \in Range(s),
         NEW null, null \notin S
  PROVE  /\ After(s, b, null) \in (Range(s) \ {b}) \cup {null}
         /\ From(s, After(s, b, null)) = From(s, b) \ {b}
<1> DEFINE p == Place(s, b)
<1>1. p \in 1..Len(s) /\ s[p] = b
  BY PlaceOf
<1>2. After(s, b, null) = IF p < Len(s) THEN s[p + 1] ELSE null
  BY DEF After
<1> HIDE DEF p
<1>3. Len(s) \in Nat
  BY LenProperties
<1>4. \A j \in 1..Len(s) : s[j] = b => j = p
  BY <1>1, OncePlaced
<1>5. CASE p < Len(s)
  <2> DEFINE n == s[p + 1]
  <2>1. p + 1 \in 1..Len(s)
    BY <1>1, <1>3, <1>5
  <2>2. n \in Range(s) /\ n # b
    <3>1. n \in Range(s)
      BY <2>1, RangeMember
    <3> QED BY <3>1, <2>1, <1>1, <1>4
  <2>3. \A j \in 1..Len(s) : s[j] = n => j = p + 1
    BY <2>1, OncePlaced
  <2> HIDE DEF n
  <2>4. ASSUME NEW e \in From(s, n) PROVE e \in From(s, b) \ {b}
    <3>1. PICK i \in 1..Len(s) : s[i] = e /\ \E k \in 1..i : s[k] = n
      BY FromMember
    <3>2. PICK k \in 1..i : s[k] = n
      BY <3>1
    <3>3. k = p + 1
      <4>1. k \in 1..Len(s)
        BY <1>3
      <4> QED BY <4>1, <3>2, <2>3
    <3>4. p \in 1..i /\ i # p
      BY <3>3, <1>1, <1>3
    <3> QED BY <3>1, <3>4, <1>1, <1>4, FromMember
  <2>5. ASSUME NEW e \in From(s, b), e # b PROVE e \in From(s, n)
    <3>1. PICK i \in 1..Len(s) : s[i] = e /\ \E k \in 1..i : s[k] = b
      BY FromMember
    <3>2. PICK k \in 1..i : s[k] = b
      BY <3>1
    <3>3. k = p
      <4>1. k \in 1..Len(s)
        BY <1>3
      <4> QED BY <4>1, <3>2, <1>4
    <3>4. i # p
      BY <3>1, <2>5, <1>1
    <3>5. p + 1 \in 1..i
      BY <3>3, <3>4, <1>1, <1>3
    <3>6. s[p + 1] = n
      BY DEF n
    <3> QED BY <3>1, <3>5, <3>6, FromMember
  <2>6. From(s, n) = From(s, b) \ {b}
    BY <2>4, <2>5
  <2>7. After(s, b, null) = n
    BY <1>2, <1>5 DEF n
  <2> QED BY <2>2, <2>6, <2>7
<1>6. CASE ~(p < Len(s))
  <2>1. After(s, b, null) = null
    BY <1>2, <1>6
  <2>2. ASSUME NEW e \in From(s, b) PROVE e = b
    <3>1. PICK i \in 1..Len(s) : s[i] = e /\ \E k \in 1..i : s[k] = b
      BY FromMember
    <3>2. PICK k \in 1..i : s[k] = b
      BY <3>1
    <3>3. k = p
      <4>1. k \in 1..Len(s)
        BY <1>3
      <4> QED BY <4>1, <3>2, <1>4
    <3>4. i = p
      BY <3>3, <1>1, <1>3, <1>6
    <3> QED BY <3>1, <3>4, <1>1
  <2>3. From(s, null) = {}
    BY FromNull
  <2> QED BY <2>1, <2>2, <2>3
<1> QED BY <1>5, <1>6
=============================================================================
