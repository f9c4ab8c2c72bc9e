--------------------------- MODULE SessionsProofs ---------------------------
(***************************************************************************)
(* That the pointers between sessions and bodies agree, for any number of  *)
(* sessions, bodies and names and with every optional input.               *)
(***************************************************************************)
EXTENDS Sessions, TLAPS

(* The inductive invariant. *)
IInv == TypeOK /\ Linked /\ InWorld /\ Shape /\ OrigOnce

LEMMA InitInv == Init => IInv
BY NoneAssumption DEF Init, IInv, TypeOK, Linked, InWorld, Shape, OrigOnce,
   ConnState, Body

LEMMA DeleteInv ==
  ASSUME IInv, NEW D \in SUBSET Session, DeleteSessions(D)
  PROVE  IInv'
<1> USE NoneAssumption, KindAssumption DEF Body
<1>1. TypeOK'
  BY DEF IInv, TypeOK, DeleteSessions, ConnAfter, CharAfter, OrigAfter,
     DescAfter, NameAfter, SnoopingAfter, SnoopByAfter, Shed, ConnState
<1>2. Linked'
  BY DEF IInv, TypeOK, Linked, DeleteSessions, CharAfter, DescAfter
<1>3. InWorld'
  BY DEF IInv, TypeOK, Linked, InWorld, DeleteSessions, ConnAfter, CharAfter,
     OrigAfter, DescAfter, Shed
<1>4. Shape'
  BY DEF IInv, TypeOK, Linked, InWorld, Shape, PlayerName, Self,
     DeleteSessions, ConnAfter, CharAfter, OrigAfter, NameAfter
<1>5. OrigOnce'
  BY DEF IInv, TypeOK, OrigOnce, DeleteSessions, OrigAfter
<1> QED BY <1>1, <1>2, <1>3, <1>4, <1>5 DEF IInv

LEMMA ConnectInv ==
  ASSUME IInv, NEW d \in Session, Connect(d)
  PROVE  IInv'
<1> USE NoneAssumption, KindAssumption DEF Body
<1>1. TypeOK'
  BY DEF IInv, TypeOK, Connect, ConnState, snoopVars, bodyVars
<1>2. Linked'
  BY DEF IInv, TypeOK, Linked, Connect, ConnState, snoopVars, bodyVars
<1>3. InWorld'
  BY DEF IInv, TypeOK, Linked, InWorld, Shape, Connect, ConnState, snoopVars, bodyVars
<1>4. Shape'
  BY DEF IInv, TypeOK, Linked, InWorld, Shape, PlayerName, Self, Connect, ConnState, snoopVars, bodyVars
<1>5. OrigOnce'
  BY DEF IInv, TypeOK, Linked, InWorld, OrigOnce, Connect, ConnState, snoopVars, bodyVars
<1> QED BY <1>1, <1>2, <1>3, <1>4, <1>5 DEF IInv

LEMMA NewPersonInv ==
  ASSUME IInv, NEW d \in Session, NEW b \in Person,
         NEW state \in {"name", "create"}, NewPerson(d, b, state)
  PROVE  IInv'
<1> USE NoneAssumption, KindAssumption DEF Body
<1>1. TypeOK'
  BY DEF IInv, TypeOK, NewPerson, Free, ConnState, snoopVars, bodyVars
<1>2. Linked'
  BY DEF IInv, TypeOK, Linked, InWorld, NewPerson, Free, ConnState, snoopVars, bodyVars
<1>3. InWorld'
  BY DEF IInv, TypeOK, Linked, InWorld, Shape, NewPerson, Free, ConnState, snoopVars, bodyVars
<1>4. Shape'
  BY DEF IInv, TypeOK, Linked, InWorld, Shape, PlayerName, Self, NewPerson, Free, ConnState, snoopVars, bodyVars
<1>5. OrigOnce'
  BY DEF IInv, TypeOK, Linked, InWorld, OrigOnce, NewPerson, Free, ConnState, snoopVars, bodyVars
<1> QED BY <1>1, <1>2, <1>3, <1>4, <1>5 DEF IInv

LEMMA NameEmptyInv ==
  ASSUME IInv, NEW d \in Session, NameEmpty(d)
  PROVE  IInv'
<1> USE NoneAssumption, KindAssumption DEF Body
<1>1. TypeOK'
  BY DEF IInv, TypeOK, NameEmpty, ConnState, snoopVars, bodyVars
<1>2. Linked'
  BY DEF IInv, TypeOK, Linked, NameEmpty, ConnState, snoopVars, bodyVars
<1>3. InWorld'
  BY DEF IInv, TypeOK, Linked, InWorld, Shape, NameEmpty, ConnState, snoopVars, bodyVars
<1>4. Shape'
  BY DEF IInv, TypeOK, Linked, InWorld, Shape, PlayerName, Self, NameEmpty, ConnState, snoopVars, bodyVars
<1>5. OrigOnce'
  BY DEF IInv, TypeOK, Linked, InWorld, OrigOnce, NameEmpty, ConnState, snoopVars, bodyVars
<1> QED BY <1>1, <1>2, <1>3, <1>4, <1>5 DEF IInv

LEMMA NameGivenConnectedInv ==
  ASSUME IInv, NEW d \in Session, NEW n \in Name, NameGivenConnected(d, n)
  PROVE  IInv'
<1> USE NoneAssumption, KindAssumption DEF Body
<1>1. TypeOK'
  BY DEF IInv, TypeOK, NameGivenConnected, ConnState, snoopVars
<1>2. Linked'
  BY DEF IInv, TypeOK, Linked, NameGivenConnected, ConnState, snoopVars
<1>3. InWorld'
  BY DEF IInv, TypeOK, Linked, InWorld, Shape, NameGivenConnected, ConnState, snoopVars
<1>4. Shape'
  BY DEF IInv, TypeOK, Linked, InWorld, Shape, PlayerName, Self, NameGivenConnected, ConnState, snoopVars
<1>5. OrigOnce'
  BY DEF IInv, TypeOK, Linked, InWorld, OrigOnce, NameGivenConnected, ConnState, snoopVars
<1> QED BY <1>1, <1>2, <1>3, <1>4, <1>5 DEF IInv

LEMMA NameGivenLinkdeadInv ==
  ASSUME IInv, NEW d \in Session, NEW n \in Name, NameGivenLinkdead(d, n)
  PROVE  IInv'
<1> USE NoneAssumption, KindAssumption DEF Body
<1>0. PICK b \in Person \cap list :
        desc[b] = None /\ name[b] = n /\ TakeOver(d, b, desc, name)
  BY DEF NameGivenLinkdead, Abandoned
<1>a. /\ conn[d] = "name" /\ conn' = [conn EXCEPT ![d] = "playing"]
      /\ \A e \in Session \ {d} : PlayerName(e) # n
      /\ UNCHANGED <<orig, snooping, snoopBy, list, form, saved>>
  BY DEF NameGivenLinkdead, Others, snoopVars
<1>b. char[d] \in Person /\ char[d] \notin list /\ orig[d] = None /\ desc[char[d]] = d
  BY <1>a DEF IInv, TypeOK, Shape, Linked, InWorld
<1>c. \A e \in Session : orig[e] # b
  BY <1>0, <1>a, <1>b DEF PlayerName, Self, IInv, TypeOK, InWorld
<1>1. TypeOK'
  BY <1>0, <1>a, <1>b DEF IInv, TypeOK, TakeOver, ConnState
<1>2. Linked'
  BY <1>0, <1>a, <1>b DEF IInv, TypeOK, Linked, TakeOver
<1>3. InWorld'
  BY <1>0, <1>a, <1>b, <1>c DEF IInv, TypeOK, Linked, InWorld, TakeOver
<1>4. Shape'
  BY <1>0, <1>a, <1>b DEF IInv, TypeOK, Linked, InWorld, Shape, PlayerName,
     Self, TakeOver
<1>5. OrigOnce'
  BY <1>a DEF IInv, OrigOnce
<1> QED BY <1>1, <1>2, <1>3, <1>4, <1>5 DEF IInv

LEMMA NameGivenFreshInv ==
  ASSUME IInv, NEW d \in Session, NEW n \in Name, NameGivenFresh(d, n)
  PROVE  IInv'
<1> USE NoneAssumption, KindAssumption DEF Body
<1>1. TypeOK'
  BY DEF IInv, TypeOK, NameGivenFresh, ConnState, snoopVars
<1>2. Linked'
  BY DEF IInv, TypeOK, Linked, NameGivenFresh, ConnState, snoopVars
<1>3. InWorld'
  BY DEF IInv, TypeOK, Linked, InWorld, Shape, NameGivenFresh, ConnState, snoopVars
<1>4. Shape'
  BY DEF IInv, TypeOK, Linked, InWorld, Shape, PlayerName, Self, NameGivenFresh, ConnState, snoopVars
<1>5. OrigOnce'
  BY DEF IInv, TypeOK, Linked, InWorld, OrigOnce, NameGivenFresh, ConnState, snoopVars
<1> QED BY <1>1, <1>2, <1>3, <1>4, <1>5 DEF IInv

LEMMA CreateNameInv ==
  ASSUME IInv, NEW d \in Session, NEW n \in Name, CreateName(d, n)
  PROVE  IInv'
<1> USE NoneAssumption, KindAssumption DEF Body
<1>1. TypeOK'
  BY DEF IInv, TypeOK, CreateName, snoopVars
<1>2. Linked'
  BY DEF IInv, TypeOK, Linked, CreateName, snoopVars
<1>3. InWorld'
  BY DEF IInv, TypeOK, Linked, InWorld, Shape, CreateName, snoopVars
<1>4. Shape'
  BY DEF IInv, TypeOK, Linked, InWorld, Shape, PlayerName, Self, CreateName, snoopVars
<1>5. OrigOnce'
  BY DEF IInv, TypeOK, Linked, InWorld, OrigOnce, CreateName, snoopVars
<1> QED BY <1>1, <1>2, <1>3, <1>4, <1>5 DEF IInv

LEMMA CreateDoneInv ==
  ASSUME IInv, NEW d \in Session, CreateDone(d)
  PROVE  IInv'
<1> USE NoneAssumption, KindAssumption DEF Body
<1>1. TypeOK'
  BY DEF IInv, TypeOK, CreateDone, PlayerName, Self, ConnState, snoopVars, bodyVars
<1>2. Linked'
  BY DEF IInv, TypeOK, Linked, CreateDone, PlayerName, Self, ConnState, snoopVars, bodyVars
<1>3. InWorld'
  BY DEF IInv, TypeOK, Linked, InWorld, Shape, CreateDone, PlayerName, Self, ConnState, snoopVars, bodyVars
<1>4. Shape'
  BY DEF IInv, TypeOK, Linked, InWorld, Shape, PlayerName, Self, CreateDone, PlayerName, Self, ConnState, snoopVars, bodyVars
<1>5. OrigOnce'
  BY DEF IInv, TypeOK, Linked, InWorld, OrigOnce, CreateDone, PlayerName, Self, ConnState, snoopVars, bodyVars
<1> QED BY <1>1, <1>2, <1>3, <1>4, <1>5 DEF IInv

LEMMA EnterGameInv ==
  ASSUME IInv, NEW d \in Session, EnterGame(d)
  PROVE  IInv'
<1> USE NoneAssumption, KindAssumption DEF Body
<1>1. TypeOK'
  BY DEF IInv, TypeOK, EnterGame, Shape, PlayerName, Self, ConnState, snoopVars
<1>2. Linked'
  BY DEF IInv, TypeOK, Linked, EnterGame, Shape, PlayerName, Self, ConnState, snoopVars
<1>3. InWorld'
  BY DEF IInv, TypeOK, Linked, InWorld, Shape, EnterGame, Shape, PlayerName, Self, ConnState, snoopVars
<1>4. Shape'
  BY DEF IInv, TypeOK, Linked, InWorld, Shape, PlayerName, Self, EnterGame, Shape, PlayerName, Self, ConnState, snoopVars
<1>5. OrigOnce'
  BY DEF IInv, TypeOK, Linked, InWorld, OrigOnce, EnterGame, Shape, PlayerName, Self, ConnState, snoopVars
<1> QED BY <1>1, <1>2, <1>3, <1>4, <1>5 DEF IInv

LEMMA QuitInv ==
  ASSUME IInv, NEW d \in Session, Quit(d)
  PROVE  IInv'
<1> USE NoneAssumption, KindAssumption DEF Body
<1>1. TypeOK'
  BY DEF IInv, TypeOK, Quit, BackToMenu, Remove, DescAfter, SnoopingAfter, SnoopByAfter, Shape, ConnState
<1>2. Linked'
  BY DEF IInv, TypeOK, Linked, InWorld, Quit, BackToMenu, Remove, DescAfter
<1>3. InWorld'
  BY DEF IInv, TypeOK, Linked, InWorld, Shape, Quit, BackToMenu, Remove, DescAfter
<1>4. Shape'
  BY DEF IInv, TypeOK, Linked, InWorld, Shape, PlayerName, Self, Quit, BackToMenu, Remove, DescAfter, SnoopingAfter, SnoopByAfter, Shape, ConnState
<1>5. OrigOnce'
  BY DEF IInv, TypeOK, Linked, InWorld, OrigOnce, Quit, BackToMenu, Remove, DescAfter, SnoopingAfter, SnoopByAfter, Shape, ConnState
<1> QED BY <1>1, <1>2, <1>3, <1>4, <1>5 DEF IInv

LEMMA DieAsBeastInv ==
  ASSUME IInv, NEW d \in Session, DieAsBeast(d)
  PROVE  IInv'
<1> USE NoneAssumption, KindAssumption DEF Body
<1>1. TypeOK'
  BY DEF IInv, TypeOK, DieAsBeast, BackToMenu, DescAfter, SnoopingAfter, SnoopByAfter, ConnState
<1>2. Linked'
  BY DEF IInv, TypeOK, Linked, DieAsBeast, BackToMenu, DescAfter
<1>3. InWorld'
  BY DEF IInv, TypeOK, Linked, InWorld, Shape, OrigOnce, DieAsBeast, BackToMenu, DescAfter
<1>4. Shape'
  BY DEF IInv, TypeOK, Linked, InWorld, Shape, OrigOnce, PlayerName, Self, DieAsBeast, BackToMenu, DescAfter
<1>5. OrigOnce'
  BY DEF IInv, TypeOK, OrigOnce, DieAsBeast, BackToMenu, DescAfter
<1> QED BY <1>1, <1>2, <1>3, <1>4, <1>5 DEF IInv

LEMMA ExpelInv ==
  ASSUME IInv, NEW d \in Session, Expel(d), saved' \subseteq saved
  PROVE  IInv'
<1> USE NoneAssumption, KindAssumption DEF Body
<1>1. TypeOK'
  BY DEF IInv, TypeOK, Expel, Remove, ConnAfter, CharAfter, OrigAfter, DescAfter, SnoopingAfter, SnoopByAfter, Shape, ConnState
<1>2. Linked'
  BY DEF IInv, TypeOK, Linked, InWorld, Expel, Remove, CharAfter, DescAfter
<1>3. InWorld'
  BY DEF IInv, TypeOK, Linked, InWorld, Shape, Expel, Remove, ConnAfter, CharAfter, OrigAfter, DescAfter
<1>4. Shape'
  BY DEF IInv, TypeOK, Linked, InWorld, Shape, PlayerName, Self, Expel, Remove, ConnAfter, CharAfter, OrigAfter, DescAfter, SnoopingAfter, SnoopByAfter, Shape, ConnState
<1>5. OrigOnce'
  BY DEF IInv, TypeOK, Linked, InWorld, OrigOnce, Expel, Remove, ConnAfter, CharAfter, OrigAfter, DescAfter, SnoopingAfter, SnoopByAfter, Shape, ConnState
<1> QED BY <1>1, <1>2, <1>3, <1>4, <1>5 DEF IInv

LEMMA DeleteCharInv ==
  ASSUME IInv, NEW d \in Session, NEW n \in Name, DeleteChar(d, n)
  PROVE  IInv'
<1> USE NoneAssumption, KindAssumption DEF Body
<1>1. TypeOK'
  BY DEF IInv, TypeOK, DeleteChar, snoopVars
<1>2. Linked'
  BY DEF IInv, TypeOK, Linked, InWorld, DeleteChar, snoopVars
<1>3. InWorld'
  BY DEF IInv, TypeOK, Linked, InWorld, Shape, DeleteChar, snoopVars
<1>4. Shape'
  BY DEF IInv, TypeOK, Linked, InWorld, Shape, PlayerName, Self, DeleteChar, snoopVars
<1>5. OrigOnce'
  BY DEF IInv, TypeOK, Linked, InWorld, OrigOnce, DeleteChar, snoopVars
<1> QED BY <1>1, <1>2, <1>3, <1>4, <1>5 DEF IInv

LEMMA WipeUnseenInv ==
  ASSUME IInv, NEW d \in Session, NEW n \in Name, WipeUnseen(d, n)
  PROVE  IInv'
<1> USE NoneAssumption, KindAssumption DEF Body
<1>1. TypeOK'
  BY DEF IInv, TypeOK, WipeUnseen, snoopVars
<1>2. Linked'
  BY DEF IInv, TypeOK, Linked, InWorld, WipeUnseen, snoopVars
<1>3. InWorld'
  BY DEF IInv, TypeOK, Linked, InWorld, Shape, WipeUnseen, snoopVars
<1>4. Shape'
  BY DEF IInv, TypeOK, Linked, InWorld, Shape, PlayerName, Self, WipeUnseen, snoopVars
<1>5. OrigOnce'
  BY DEF IInv, TypeOK, Linked, InWorld, OrigOnce, WipeUnseen, snoopVars
<1> QED BY <1>1, <1>2, <1>3, <1>4, <1>5 DEF IInv

LEMMA DeleteAccountInv ==
  ASSUME IInv, NEW d \in Session, NEW A \in SUBSET Name, DeleteAccount(d, A)
  PROVE  IInv'
<1> USE NoneAssumption, KindAssumption DEF Body
<1>1. TypeOK'
  BY DEF IInv, TypeOK, DeleteAccount, ConnState, snoopVars
<1>2. Linked'
  BY DEF IInv, TypeOK, Linked, InWorld, DeleteAccount, ConnState, snoopVars
<1>3. InWorld'
  BY DEF IInv, TypeOK, Linked, InWorld, Shape, DeleteAccount, ConnState, snoopVars
<1>4. Shape'
  BY DEF IInv, TypeOK, Linked, InWorld, Shape, PlayerName, Self, DeleteAccount, ConnState, snoopVars
<1>5. OrigOnce'
  BY DEF IInv, TypeOK, Linked, InWorld, OrigOnce, DeleteAccount, ConnState, snoopVars
<1> QED BY <1>1, <1>2, <1>3, <1>4, <1>5 DEF IInv

LEMMA BeastDiesInv ==
  ASSUME IInv, NEW m \in Beast, BeastDies(m)
  PROVE  IInv'
<1> USE NoneAssumption, KindAssumption DEF Body
<1>1. TypeOK'
  BY DEF IInv, TypeOK, BeastDies, snoopVars
<1>2. Linked'
  BY DEF IInv, TypeOK, Linked, InWorld, BeastDies, snoopVars
<1>3. InWorld'
  BY DEF IInv, TypeOK, Linked, InWorld, Shape, BeastDies, snoopVars
<1>4. Shape'
  BY DEF IInv, TypeOK, Linked, InWorld, Shape, PlayerName, Self, BeastDies, snoopVars
<1>5. OrigOnce'
  BY DEF IInv, TypeOK, Linked, InWorld, OrigOnce, BeastDies, snoopVars
<1> QED BY <1>1, <1>2, <1>3, <1>4, <1>5 DEF IInv

LEMMA PurgeLdeadInv ==
  ASSUME IInv, PurgeLdead
  PROVE  IInv'
<1> USE NoneAssumption, KindAssumption DEF Body
<1>1. TypeOK'
  BY DEF IInv, TypeOK, PurgeLdead, ConnAfter, CharAfter, OrigAfter, DescAfter, NameAfter, SnoopingAfter, SnoopByAfter, Shed, ConnState
<1>2. Linked'
  BY DEF IInv, TypeOK, Linked, InWorld, PurgeLdead, CharAfter, DescAfter
<1>3. InWorld'
  BY DEF IInv, TypeOK, Linked, InWorld, Shape, PurgeLdead, PlayerName, Self, ConnAfter, CharAfter, OrigAfter, DescAfter, Shed
<1>4. Shape'
  <2> DEFINE D == {d \in Session : conn[d] # "closed" /\ PlayerName(d) = None}
             L == {b \in Person \cap list : /\ desc[b] = None
                                           /\ \A d \in Session : orig[d] # b}
  <2>1. /\ conn' = ConnAfter(D) /\ char' = CharAfter(D) /\ orig' = OrigAfter(D)
        /\ name' = [b \in Person |-> IF b \in L THEN None ELSE NameAfter(D)[b]]
    BY DEF PurgeLdead
  <2> SUFFICES ASSUME NEW d \in Session
               PROVE  /\ orig'[d] # None => conn'[d] = "playing"
                      /\ orig'[d] = None /\ char'[d] # None => char'[d] \in Person
                      /\ conn'[d] \in {"discon", "motd", "playing"} =>
                           PlayerName(d)' \in Name
    BY DEF Shape
  <2>2. CASE d \in D
    BY <2>1, <2>2 DEF ConnAfter, CharAfter, OrigAfter
  <2>3. CASE d \notin D
    <3>1. conn'[d] = conn[d] /\ char'[d] = char[d] /\ orig'[d] = orig[d]
      BY <2>1, <2>3 DEF ConnAfter, CharAfter, OrigAfter
    <3>2. ASSUME char[d] # None, Self(d) \in Person
          PROVE  Self(d) \notin L /\ desc[Self(d)] \notin D
      BY <2>3, <3>2 DEF IInv, TypeOK, Linked, InWorld, Shape, Self
    <3>3. ASSUME conn[d] \in {"discon", "motd", "playing"}
          PROVE  PlayerName(d)' \in Name
      <4>1. char[d] # None /\ Self(d) \in Person /\ name[Self(d)] \in Name
        BY <3>3 DEF IInv, TypeOK, Shape, Linked, InWorld, PlayerName, Self
      <4>2. name'[Self(d)] = name[Self(d)]
        BY <2>1, <3>2, <4>1 DEF NameAfter
      <4> QED BY <3>1, <4>1, <4>2 DEF PlayerName, Self
    <3> QED BY <3>1, <3>3 DEF IInv, Shape
  <2> QED BY <2>2, <2>3
<1>5. OrigOnce'
  BY DEF IInv, TypeOK, Linked, InWorld, OrigOnce, PurgeLdead, OrigAfter
<1> QED BY <1>1, <1>2, <1>3, <1>4, <1>5 DEF IInv

LEMMA SnoopInv ==
  ASSUME IInv, NEW d \in Session, NEW e \in Session, Snoop(d, e)
  PROVE  IInv'
<1> USE NoneAssumption, KindAssumption DEF Body
<1>1. TypeOK'
  BY DEF IInv, TypeOK, Snoop, Shape, bodyVars
<1>2. Linked'
  BY DEF IInv, TypeOK, Linked, InWorld, Snoop, Shape, bodyVars
<1>3. InWorld'
  BY DEF IInv, TypeOK, Linked, InWorld, Shape, Snoop, Shape, bodyVars
<1>4. Shape'
  BY DEF IInv, TypeOK, Linked, InWorld, Shape, PlayerName, Self, Snoop, Shape, bodyVars
<1>5. OrigOnce'
  BY DEF IInv, TypeOK, Linked, InWorld, OrigOnce, Snoop, Shape, bodyVars
<1> QED BY <1>1, <1>2, <1>3, <1>4, <1>5 DEF IInv

LEMMA StopSnoopInv ==
  ASSUME IInv, NEW d \in Session, StopSnoop(d)
  PROVE  IInv'
<1> USE NoneAssumption, KindAssumption DEF Body
<1>1. TypeOK'
  BY DEF IInv, TypeOK, StopSnoop, bodyVars
<1>2. Linked'
  BY DEF IInv, TypeOK, Linked, InWorld, StopSnoop, bodyVars
<1>3. InWorld'
  BY DEF IInv, TypeOK, Linked, InWorld, Shape, StopSnoop, bodyVars
<1>4. Shape'
  BY DEF IInv, TypeOK, Linked, InWorld, Shape, PlayerName, Self, StopSnoop, bodyVars
<1>5. OrigOnce'
  BY DEF IInv, TypeOK, Linked, InWorld, OrigOnce, StopSnoop, bodyVars
<1> QED BY <1>1, <1>2, <1>3, <1>4, <1>5 DEF IInv

LEMMA WearInv ==
  ASSUME IInv, NEW d \in Session, NEW m \in Beast,
         desc[m] = None, Wear(d, m), form' \subseteq Beast
  PROVE  IInv'
<1> USE NoneAssumption, KindAssumption DEF Body
<1>1. TypeOK'
  BY DEF IInv, TypeOK, Wear, Shape, InWorld, snoopVars
<1>2. Linked'
  BY DEF IInv, TypeOK, Linked, InWorld, Wear, Shape, InWorld, snoopVars
<1>3. InWorld'
  BY DEF IInv, TypeOK, Linked, InWorld, Shape, Wear, Shape, InWorld, snoopVars
<1>4. Shape'
  BY DEF IInv, TypeOK, Linked, InWorld, Shape, PlayerName, Self, Wear, Shape, InWorld, snoopVars
<1>5. OrigOnce'
  BY DEF IInv, TypeOK, Linked, InWorld, OrigOnce, Wear, Shape, InWorld, snoopVars
<1> QED BY <1>1, <1>2, <1>3, <1>4, <1>5 DEF IInv

LEMMA ReturnInv ==
  ASSUME IInv, NEW d \in Session, Return(d)
  PROVE  IInv'
<1> USE NoneAssumption, KindAssumption DEF Body
<1>1. TypeOK'
  BY DEF IInv, TypeOK, Return, InWorld, Shed, snoopVars
<1>2. Linked'
  BY DEF IInv, TypeOK, Linked, InWorld, Return, InWorld, Shed, snoopVars
<1>3. InWorld'
  BY DEF IInv, TypeOK, Linked, InWorld, Shape, OrigOnce, Return, InWorld, Shed, snoopVars
<1>4. Shape'
  BY DEF IInv, TypeOK, Linked, InWorld, Shape, PlayerName, Self, Return, InWorld, Shed, snoopVars
<1>5. OrigOnce'
  BY DEF IInv, TypeOK, Linked, InWorld, OrigOnce, Return, InWorld, Shed, snoopVars
<1> QED BY <1>1, <1>2, <1>3, <1>4, <1>5 DEF IInv

(* Two cases: nobody left the body behind, or one session did. *)
LEMMA LdeadTimeoutInv ==
  ASSUME IInv, NEW b \in Person, LdeadTimeout(b)
  PROVE  IInv'
<1> USE NoneAssumption, KindAssumption DEF Body
<1>a. b \in list /\ desc[b] = None /\ name' = [name EXCEPT ![b] = None]
  BY DEF LdeadTimeout
<1>b. CASE /\ b \notin {orig[d] : d \in Session}
           /\ list' = list \ {b}
           /\ UNCHANGED <<conn, char, orig, desc, snoopVars, form, saved>>
  <2>1. TypeOK'
    BY <1>a, <1>b DEF IInv, TypeOK, snoopVars
  <2>2. Linked'
    BY <1>a, <1>b DEF IInv, Linked
  <2>3. InWorld'
    BY <1>a, <1>b DEF IInv, TypeOK, Linked, InWorld
  <2>4. Shape'
    BY <1>a, <1>b DEF IInv, TypeOK, Linked, InWorld, Shape, PlayerName, Self
  <2>5. OrigOnce'
    BY <1>b DEF IInv, OrigOnce
  <2> QED BY <2>1, <2>2, <2>3, <2>4, <2>5 DEF IInv
<1>c. ASSUME NEW d \in Session, orig[d] = b, BackToMenu(d),
             list' = list \ (Shed({d}) \cup {b}), form' = form \ Shed({d})
      PROVE  IInv'
  <2>1. TypeOK'
    BY <1>a, <1>c DEF IInv, TypeOK, BackToMenu, DescAfter, SnoopingAfter,
       SnoopByAfter, Shed, ConnState
  <2>2. Linked'
    BY <1>c DEF IInv, TypeOK, Linked, BackToMenu, DescAfter
  <2>3. InWorld'
    BY <1>a, <1>c DEF IInv, TypeOK, Linked, InWorld, Shape, OrigOnce,
       BackToMenu, DescAfter, Shed
  <2>4. Shape'
    BY <1>a, <1>c DEF IInv, TypeOK, Linked, InWorld, Shape, OrigOnce,
       PlayerName, Self, BackToMenu
  <2>5. OrigOnce'
    BY <1>c DEF IInv, TypeOK, OrigOnce, BackToMenu
  <2> QED BY <2>1, <2>2, <2>3, <2>4, <2>5 DEF IInv
<1> QED BY <1>b, <1>c DEF LdeadTimeout

(* The deletion of the other sessions is DeleteSessions(D) but for the     *)
(* session that reconnects, so only that one and its bodies are new.       *)
LEMMA ReconnectTakesOverInv ==
  ASSUME IInv, NEW d \in Session, ReconnectTakesOver(d)
  PROVE  IInv'
<1> USE NoneAssumption, KindAssumption DEF Body
<1> DEFINE D == Others(d, PlayerName(d))
<1>1. PICK b \in Person \cap list :
        /\ DescAfter(D)[b] = None
        /\ name[b] = PlayerName(d)
        /\ char' = [CharAfter(D) EXCEPT ![d] = b]
        /\ desc' = [DescAfter(D) EXCEPT ![char[d]] = None, ![b] = d]
        /\ name' = [NameAfter(D) EXCEPT ![char[d]] = None]
  BY DEF ReconnectTakesOver
<1>2. /\ conn[d] = "discon"
      /\ conn' = [ConnAfter(D) EXCEPT ![d] = "playing"]
      /\ orig' = OrigAfter(D)
      /\ list' = list \ Shed(D)
      /\ form' = form \ Shed(D)
      /\ snooping' = SnoopingAfter(D)
      /\ snoopBy' = SnoopByAfter(D)
      /\ saved' = saved
  BY DEF ReconnectTakesOver
<1>3. D \subseteq Session \ {d} /\ \A e \in Session \ {d} : PlayerName(e) = PlayerName(d) => e \in D
  BY DEF Others
<1>4. /\ char[d] \in Person /\ char[d] \notin list /\ orig[d] = None
      /\ desc[char[d]] = d /\ PlayerName(d) \in Name
  BY <1>2 DEF IInv, TypeOK, Shape, Linked, InWorld
<1>5. \A e \in Session : orig[e] = b => e \in D
  BY <1>1, <1>3, <1>4 DEF PlayerName, Self, IInv, TypeOK, InWorld
<1>6. desc[b] = None \/ desc[b] \in D
  BY <1>1 DEF DescAfter
<1> HIDE DEF D
<1>7. TypeOK'
  <2>1. conn' \in [Session -> ConnState] /\ char' \in [Session -> Body \cup {None}]
    BY <1>1, <1>2 DEF IInv, TypeOK, ConnAfter, CharAfter, ConnState
  <2>2. orig' \in [Session -> Person \cup {None}]
    BY <1>2 DEF IInv, TypeOK, OrigAfter
  <2>3. /\ snooping' \in [Session -> Body \cup {None}]
        /\ snoopBy' \in [Session -> Body \cup {None}]
    BY <1>2 DEF IInv, TypeOK, SnoopingAfter, SnoopByAfter
  <2>4. desc' \in [Body -> Session \cup {None}]
    BY <1>1 DEF IInv, TypeOK, DescAfter
  <2>5. name' \in [Person -> Name \cup {None}]
    BY <1>1 DEF IInv, TypeOK, NameAfter
  <2>6. list' \subseteq Body /\ form' \subseteq Beast /\ saved' \subseteq Name
    BY <1>2 DEF IInv, TypeOK
  <2> QED BY <2>1, <2>2, <2>3, <2>4, <2>5, <2>6 DEF TypeOK
<1>8. Linked'
  <2>1. ASSUME NEW e \in Session, char'[e] # None PROVE desc'[char'[e]] = e
    <3>1. CASE e = d
      BY <1>1, <1>4, <3>1 DEF IInv, TypeOK, CharAfter, DescAfter
    <3>2. CASE e # d
      <4>1. e \notin D /\ char'[e] = char[e] /\ char[e] # None
        BY <1>1, <2>1, <3>2 DEF IInv, TypeOK, CharAfter
      <4>2. desc[char[e]] = e /\ char[e] # b /\ char[e] # char[d]
        BY <1>3, <1>4, <1>6, <3>2, <4>1 DEF IInv, TypeOK, Linked
      <4> QED BY <1>1, <4>1, <4>2 DEF IInv, TypeOK, DescAfter
    <3> QED BY <3>1, <3>2
  <2>2. ASSUME NEW x \in Body, desc'[x] # None PROVE char'[desc'[x]] = x
    <3>1. CASE x = b
      BY <1>1, <1>4, <3>1 DEF IInv, TypeOK, CharAfter, DescAfter
    <3>2. CASE x # b
      <4>1. x # char[d] /\ desc[x] \notin D /\ desc'[x] = desc[x]
        BY <1>1, <1>4, <2>2, <3>2 DEF IInv, TypeOK, DescAfter
      <4>2. desc[x] \in Session /\ char[desc[x]] = x /\ desc[x] # d
        BY <2>2, <4>1 DEF IInv, TypeOK, Linked
      <4> QED BY <1>1, <4>1, <4>2 DEF IInv, TypeOK, CharAfter
    <3> QED BY <3>1, <3>2
  <2> QED BY <2>1, <2>2 DEF Linked
<1>9. InWorld'
  BY <1>1, <1>2, <1>3, <1>4, <1>5, <1>6, ZenonT(60) DEF IInv, TypeOK, Linked, InWorld,
     ConnAfter, CharAfter, OrigAfter, DescAfter, Shed
<1>10. Shape'
  BY <1>1, <1>2, <1>3, <1>4, <1>5, <1>6 DEF IInv, TypeOK, Linked, InWorld,
     Shape, PlayerName, Self, ConnAfter, CharAfter, OrigAfter, NameAfter
<1>11. OrigOnce'
  BY <1>2 DEF IInv, TypeOK, OrigOnce, OrigAfter
<1> QED BY <1>7, <1>8, <1>9, <1>10, <1>11 DEF IInv

(* No stuttering step disturbs the invariant. *)
LEMMA StutterInv == IInv /\ UNCHANGED vars => IInv'
BY DEF IInv, TypeOK, Linked, InWorld, Shape, OrigOnce, PlayerName, Self, vars

LEMMA StepInv == IInv /\ [Next]_vars => IInv'
<1> SUFFICES ASSUME IInv, Next PROVE IInv'
  BY StutterInv
<1>1. ASSUME NEW d \in Session, LogIn(d) PROVE IInv'
  BY <1>1, ConnectInv, NewPersonInv, NameEmptyInv, NameGivenConnectedInv,
     NameGivenLinkdeadInv, NameGivenFreshInv, CreateNameInv, CreateDoneInv,
     EnterGameInv, ReconnectTakesOverInv, DeleteInv
     DEF LogIn, MenuConnect, MenuAdd, ReconnectFindsNobody, Others
<1>2. ASSUME NEW d \in Session, Leave(d) PROVE IInv'
  <2>1. CASE Disconnect(d)
    <3> {d} \in SUBSET Session OBVIOUS
    <3> QED BY <2>1, DeleteInv DEF Disconnect
  <2>2. CASE IdleBoot(d) \/ \E e \in Session : Wipe(d, e)
    BY <2>2, ExpelInv DEF IdleBoot, Wipe
  <2> QED BY <1>2, <2>1, <2>2, QuitInv, DieAsBeastInv, DeleteCharInv,
         WipeUnseenInv, DeleteAccountInv DEF Leave
<1>3. ASSUME NEW d \in Session, Play(d) PROVE IInv'
  <2>1. CASE \E m \in Beast : Switch(d, m)
    BY <2>1, WearInv DEF Switch, IInv, TypeOK
  <2>2. CASE \E m \in Beast : Disguise(d, m) \/ Lycanthrope(d, m)
    BY <2>2, WearInv DEF Disguise, Lycanthrope, Free, IInv, TypeOK
  <2> QED BY <1>3, <2>1, <2>2, ReturnInv, SnoopInv, StopSnoopInv DEF Play
<1> QED
  BY <1>1, <1>2, <1>3, LdeadTimeoutInv, PurgeLdeadInv, BeastDiesInv DEF Next

LEMMA Invariant == Spec => []IInv
BY InitInv, StepInv, PTL DEF Spec

(* Every variable keeps its type, whatever the constants. *)
THEOREM TypeCorrect == Spec => []TypeOK
<1>1. IInv => TypeOK
  BY DEF IInv
<1> QED BY <1>1, Invariant, PTL

(* Sessions and bodies always point at each other. *)
THEOREM LinksAgree == Spec => []Linked
<1>1. IInv => Linked
  BY DEF IInv
<1> QED BY <1>1, Invariant, PTL

(* character_list holds the bodies in play or left behind, and no other    *)
(* body of a session.                                                      *)
THEOREM WorldAgrees == Spec => []InWorld
<1>1. IInv => InWorld
  BY DEF IInv
<1> QED BY <1>1, Invariant, PTL

-----------------------------------------------------------------------------
(* A step of HandOver's box, without the subscript. *)
Kept == \A b \in Body, d, e \in Session :
          desc[b] = d /\ desc'[b] = e /\ d # e
            => conn[e] = "discon" /\ conn'[d] = "closed"

(* A body with a session is only ever left alone or let go. *)
LEMMA DescKept ==
  ASSUME TypeOK,
         \A b \in Body : desc[b] # None => desc'[b] \in {desc[b], None}
  PROVE  Kept
BY NoneAssumption DEF TypeOK, Kept

LEMMA ReconnectHandsOver ==
  ASSUME IInv, NEW d \in Session, ReconnectTakesOver(d)
  PROVE  Kept
<1> USE NoneAssumption, KindAssumption DEF Body
<1> DEFINE D == Others(d, PlayerName(d))
<1>1. PICK c \in Person \cap list :
        /\ DescAfter(D)[c] = None
        /\ desc' = [DescAfter(D) EXCEPT ![char[d]] = None, ![c] = d]
  BY DEF ReconnectTakesOver
<1>2. conn[d] = "discon" /\ conn' = [ConnAfter(D) EXCEPT ![d] = "playing"]
  BY DEF ReconnectTakesOver
<1>3. d \notin D /\ D \subseteq Session
  BY DEF Others
<1> HIDE DEF D
<1> SUFFICES ASSUME NEW b \in Body, NEW f \in Session, NEW e \in Session,
                    desc[b] = f, desc'[b] = e, f # e
             PROVE  conn[e] = "discon" /\ conn'[f] = "closed"
  BY DEF Kept
<1>4. b = c
  BY <1>1 DEF IInv, TypeOK, DescAfter
<1>5. e = d
  BY <1>1, <1>4 DEF IInv, TypeOK, DescAfter
<1>6. f \in D
  BY <1>1, <1>4 DEF DescAfter
<1> QED BY <1>2, <1>3, <1>5, <1>6 DEF IInv, TypeOK, ConnAfter

LEMMA StepKept == IInv /\ Next => Kept
<1> USE NoneAssumption, KindAssumption DEF Body
<1> SUFFICES ASSUME IInv, Next PROVE Kept
  OBVIOUS
<1> DEFINE LetGo == \A b \in Body : desc[b] # None => desc'[b] \in {desc[b], None}
<1>1. ASSUME NEW d \in Session, LogIn(d) PROVE Kept
  <2>1. CASE Connect(d) \/ NameEmpty(d) \/ CreateDone(d) \/ EnterGame(d)
    <3>1. LetGo
      BY <2>1 DEF Connect, NameEmpty, CreateDone, EnterGame, IInv, TypeOK
    <3> QED BY <3>1, DescKept DEF IInv
  <2>2. CASE \E b \in Person : MenuConnect(d, b) \/ MenuAdd(d, b)
    <3>1. LetGo
      BY <2>2 DEF MenuConnect, MenuAdd, NewPerson, Free, IInv, TypeOK
    <3> QED BY <3>1, DescKept DEF IInv
  <2>3. CASE \E n \in Name : \/ NameGivenConnected(d, n)
                            \/ NameGivenFresh(d, n)
                            \/ CreateName(d, n)
    <3>1. LetGo
      BY <2>3 DEF NameGivenConnected, NameGivenFresh, CreateName
    <3> QED BY <3>1, DescKept DEF IInv
  <2>4. CASE \E n \in Name : NameGivenLinkdead(d, n)
    <3>1. LetGo
      BY <2>4 DEF NameGivenLinkdead, TakeOver, Abandoned, IInv, TypeOK
    <3> QED BY <3>1, DescKept DEF IInv
  <2>5. CASE ReconnectTakesOver(d)
    BY <2>5, ReconnectHandsOver
  <2>6. CASE ReconnectFindsNobody(d)
    <3>1. LetGo
      BY <2>6 DEF ReconnectFindsNobody, DeleteSessions, DescAfter
    <3> QED BY <3>1, DescKept DEF IInv
  <2> QED BY <1>1, <2>1, <2>2, <2>3, <2>4, <2>5, <2>6 DEF LogIn
<1>2. ASSUME NEW d \in Session, Leave(d) PROVE Kept
  <2>1. LetGo
    BY <1>2 DEF Leave, Disconnect, DeleteSessions, Quit, BackToMenu, IdleBoot,
       Wipe, Expel, DieAsBeast, WipeUnseen, DeleteChar, DeleteAccount, DescAfter
  <2> QED BY <2>1, DescKept DEF IInv
<1>3. ASSUME NEW d \in Session, Play(d) PROVE Kept
  <2>1. CASE \E m \in Beast : Switch(d, m) \/ Disguise(d, m) \/ Lycanthrope(d, m)
    <3>1. LetGo
      BY <2>1 DEF Switch, Disguise, Lycanthrope, Free, Wear, IInv, TypeOK
    <3> QED BY <3>1, DescKept DEF IInv
  <2>2. CASE Return(d)
    <3>1. LetGo
      BY <2>2 DEF Return, IInv, TypeOK, InWorld
    <3> QED BY <3>1, DescKept DEF IInv
  <2>3. CASE (\E e \in Session : Snoop(d, e)) \/ StopSnoop(d)
    BY <2>3, DescKept DEF Snoop, StopSnoop, IInv
  <2> QED BY <1>3, <2>1, <2>2, <2>3 DEF Play
<1>4. ASSUME NEW b \in Person, LdeadTimeout(b) PROVE Kept
  <2>1. LetGo
    BY <1>4 DEF LdeadTimeout, BackToMenu, DescAfter
  <2> QED BY <2>1, DescKept DEF IInv
<1>5. CASE PurgeLdead
  <2>1. LetGo
    BY <1>5 DEF PurgeLdead, DescAfter
  <2> QED BY <2>1, DescKept DEF IInv
<1>6. CASE \E m \in Beast : BeastDies(m)
  BY <1>6, DescKept DEF BeastDies, IInv
<1> QED BY <1>1, <1>2, <1>3, <1>4, <1>5, <1>6 DEF Next

(* A played body changes hands only by a confirmed reconnect, and the      *)
(* session that had it is deleted in the same step.                        *)
THEOREM HandsOver == Spec => HandOver
<1>1. IInv /\ [Next]_vars => [Kept]_vars
  BY StepKept
<1> QED BY <1>1, Invariant, PTL DEF Spec, HandOver, Kept

-----------------------------------------------------------------------------
LEMMA StepSaved ==
  ASSUME "deleteaccount" \notin Optional, "wipe" \notin Optional,
         IInv, InWorldSaved, [Next]_vars
  PROVE  InWorldSaved'
<1> USE NoneAssumption, KindAssumption DEF Body
<1>0. CASE UNCHANGED vars
  BY <1>0 DEF InWorldSaved, vars
<1>1. ASSUME NEW d \in Session, LogIn(d) PROVE InWorldSaved'
  <2>1. CASE \/ Connect(d) \/ NameEmpty(d) \/ CreateDone(d)
             \/ \E b \in Person : MenuConnect(d, b) \/ MenuAdd(d, b)
    BY <2>1 DEF Connect, NameEmpty, CreateDone, MenuConnect, MenuAdd,
       NewPerson, InWorldSaved, bodyVars
  <2>2. CASE \E n \in Name : \/ NameGivenConnected(d, n)
                            \/ NameGivenFresh(d, n)
                            \/ CreateName(d, n)
    BY <2>2 DEF NameGivenConnected, NameGivenFresh, CreateName, IInv, TypeOK,
       InWorld, InWorldSaved
  <2>3. CASE \E n \in Name : NameGivenLinkdead(d, n)
    BY <2>3 DEF NameGivenLinkdead, TakeOver, IInv, TypeOK, InWorld, InWorldSaved
  <2>4. CASE EnterGame(d)
    BY <2>4 DEF EnterGame, PlayerName, Self, IInv, TypeOK, InWorld, InWorldSaved
  <2>5. CASE ReconnectTakesOver(d)
    BY <2>5 DEF ReconnectTakesOver, NameAfter, IInv, TypeOK, InWorld,
       InWorldSaved
  <2>6. CASE ReconnectFindsNobody(d)
    BY <2>6 DEF ReconnectFindsNobody, DeleteSessions, NameAfter, InWorldSaved
  <2> QED BY <1>1, <2>1, <2>2, <2>3, <2>4, <2>5, <2>6 DEF LogIn
<1>2. ASSUME NEW d \in Session, Leave(d) PROVE InWorldSaved'
  BY <1>2 DEF Leave, Disconnect, DeleteSessions, NameAfter, Quit, BackToMenu,
     Remove, DieAsBeast, IdleBoot, Expel, Wipe, WipeUnseen, DeleteChar,
     DeleteAccount, IInv, TypeOK, InWorldSaved
<1>3. ASSUME NEW d \in Session, Play(d) PROVE InWorldSaved'
  BY <1>3 DEF Play, Switch, Disguise, Lycanthrope, Wear, Return, Snoop,
     StopSnoop, InWorldSaved, bodyVars
<1>4. ASSUME NEW b \in Person, LdeadTimeout(b) PROVE InWorldSaved'
  <2>1. /\ name' = [name EXCEPT ![b] = None]
        /\ list' \subseteq list \ {b} /\ saved' = saved
    BY <1>4 DEF LdeadTimeout, BackToMenu
  <2> QED BY <2>1 DEF IInv, TypeOK, InWorldSaved
<1>5. CASE PurgeLdead
  BY <1>5 DEF PurgeLdead, NameAfter, InWorldSaved
<1>6. CASE \E m \in Beast : BeastDies(m)
  BY <1>6 DEF BeastDies, InWorldSaved
<1> QED BY <1>0, <1>1, <1>2, <1>3, <1>4, <1>5, <1>6 DEF Next

(* Every character in the world has a player file, as long as no account   *)
(* is deleted and no player is wiped: neither looks at everybody who plays. *)
THEOREM WorldSaved ==
  ASSUME "deleteaccount" \notin Optional, "wipe" \notin Optional
  PROVE  Spec => []InWorldSaved
<1>1. Init => InWorldSaved
  BY DEF Init, InWorldSaved
<1>2. IInv /\ InWorldSaved /\ [Next]_vars => InWorldSaved'
  BY StepSaved
<1> QED BY <1>1, <1>2, Invariant, PTL DEF Spec

-----------------------------------------------------------------------------
(* What keeps names unique while no character is being created: whoever is *)
(* about to enter the game is the only one, and not in it already.         *)
Entering ==
  /\ \A d \in Session : conn[d] # "create"
  /\ \A d \in Session : conn[d] = "motd" =>
       \A b \in Person \cap list : name[b] # name[char[d]]
  /\ \A d, e \in Session : /\ conn[d] = "motd" /\ conn[e] = "motd"
                           /\ name[char[d]] = name[char[e]]
                           => d = e
UInv == OneBodyPerName /\ Entering

(* Sessions that enter and bodies in the world stay the same or get fewer. *)
LEMMA FewerUnique ==
  ASSUME IInv, UInv,
         list' \cap Person \subseteq list,
         \A b \in Person \cap list' : name'[b] = name[b],
         \A d \in Session : conn'[d] # "create",
         \A d \in Session : conn'[d] = "motd" =>
           /\ conn[d] = "motd" /\ char'[d] = char[d]
           /\ name'[char[d]] = name[char[d]]
  PROVE  UInv'
BY DEF UInv, OneBodyPerName, Entering

LEMMA FreshUnique ==
  ASSUME IInv, UInv, NEW d \in Session, NEW n \in Name, NameGivenFresh(d, n)
  PROVE  UInv'
<1> USE NoneAssumption, KindAssumption DEF Body
<1>1. /\ conn[d] = "name" /\ conn' = [conn EXCEPT ![d] = "motd"]
      /\ name' = [name EXCEPT ![char[d]] = n]
      /\ char' = char /\ list' = list
  BY DEF NameGivenFresh
<1>2. \A e \in Session \ {d} : PlayerName(e) # n
  BY DEF NameGivenFresh, Others
<1>3. char[d] \in Person /\ char[d] \notin list /\ desc[char[d]] = d
  BY <1>1 DEF IInv, TypeOK, Shape, Linked, InWorld
<1>4. \A b \in Person \cap list : name[b] # n
  <2> SUFFICES ASSUME NEW b \in Person \cap list, name[b] = n PROVE FALSE
    OBVIOUS
  <2>1. desc[b] # None
    BY DEF NameGivenFresh, Abandoned
  <2>2. desc[b] \in Session /\ char[desc[b]] = b /\ desc[b] # d
    BY <2>1, <1>3 DEF IInv, TypeOK, Linked
  <2>3. orig[desc[b]] = None
    BY <2>2 DEF IInv, TypeOK, InWorld
  <2> QED BY <1>2, <2>2, <2>3 DEF PlayerName, Self
<1>5. \A e \in Session : e # d /\ conn[e] = "motd" =>
        char[e] \in Person /\ char[e] # char[d] /\ name[char[e]] # n
  BY <1>2, <1>3 DEF PlayerName, Self, IInv, TypeOK, Shape, Linked, InWorld
<1>6. OneBodyPerName'
  BY <1>1, <1>3 DEF UInv, OneBodyPerName, IInv, TypeOK
<1>7. Entering'
  BY <1>1, <1>3, <1>4, <1>5 DEF UInv, Entering, IInv, TypeOK
<1> QED BY <1>6, <1>7 DEF UInv

LEMMA EnterUnique ==
  ASSUME IInv, UInv, NEW d \in Session, EnterGame(d)
  PROVE  UInv'
<1> USE NoneAssumption, KindAssumption DEF Body
<1>1. /\ conn[d] = "motd" /\ conn' = [conn EXCEPT ![d] = "playing"]
      /\ list' = list \cup {char[d]} /\ name' = name /\ char' = char
  BY DEF EnterGame
<1>2. OneBodyPerName'
  BY <1>1 DEF UInv, OneBodyPerName, Entering
<1>3. Entering'
  BY <1>1 DEF UInv, Entering, IInv, TypeOK
<1> QED BY <1>2, <1>3 DEF UInv

LEMMA StepUnique ==
  ASSUME "create" \notin Optional, IInv, UInv, Next
  PROVE  UInv'
<1> USE NoneAssumption, KindAssumption DEF Body
<1> DEFINE Fewer == /\ list' \cap Person \subseteq list
                    /\ \A b \in Person \cap list' : name'[b] = name[b]
                    /\ \A d \in Session : conn'[d] # "create"
                    /\ \A d \in Session : conn'[d] = "motd" =>
                         /\ conn[d] = "motd" /\ char'[d] = char[d]
                         /\ name'[char[d]] = name[char[d]]
<1>0. Fewer => UInv'
  BY FewerUnique
<1>m. \A d \in Session : conn[d] = "motd" =>
        char[d] \in Person /\ char[d] \notin list /\ desc[char[d]] = d
  BY DEF IInv, TypeOK, Shape, Linked, InWorld
<1>1. ASSUME NEW d \in Session, LogIn(d) PROVE UInv'
  <2>1. CASE \/ Connect(d) \/ NameEmpty(d)
             \/ \E b \in Person : MenuConnect(d, b) \/ MenuAdd(d, b)
    <3>1. Fewer
      BY <2>1 DEF Connect, NameEmpty, MenuConnect, MenuAdd, NewPerson,
         bodyVars, UInv, Entering, IInv, TypeOK
    <3> QED BY <1>0, <3>1
  <2>2. CASE \E n \in Name : NameGivenConnected(d, n)
    <3>1. Fewer
      BY <2>2 DEF NameGivenConnected, UInv, Entering, IInv, TypeOK, InWorld,
         Linked
    <3> QED BY <1>0, <3>1
  <2>3. CASE \E n \in Name : NameGivenLinkdead(d, n)
    <3>1. Fewer
      BY <2>3 DEF NameGivenLinkdead, TakeOver, UInv, Entering, IInv, TypeOK,
         InWorld, Linked
    <3> QED BY <1>0, <3>1
  <2>4. CASE (\E n \in Name : CreateName(d, n)) \/ CreateDone(d)
    BY <2>4 DEF CreateName, CreateDone, UInv, Entering
  <2>5. CASE ReconnectTakesOver(d)
    <3>1. Fewer
      <4>1. list' \cap Person \subseteq list
        BY <2>5 DEF ReconnectTakesOver
      <4>2. \A b \in Person \cap list' : name'[b] = name[b]
        BY <2>5 DEF ReconnectTakesOver, NameAfter, IInv, TypeOK, InWorld
      <4>3. \A e \in Session : conn'[e] # "create"
        BY <2>5 DEF ReconnectTakesOver, ConnAfter, UInv, Entering, IInv, TypeOK
      <4>4. \A e \in Session : conn'[e] = "motd" =>
              /\ conn[e] = "motd" /\ char'[e] = char[e]
              /\ name'[char[e]] = name[char[e]]
        BY <2>5, <1>m DEF ReconnectTakesOver, ConnAfter, CharAfter, NameAfter, IInv,
           TypeOK, Linked
      <4> QED BY <4>1, <4>2, <4>3, <4>4
    <3> QED BY <1>0, <3>1
  <2>6. CASE ReconnectFindsNobody(d)
    <3>1. Fewer
      BY <2>6 DEF ReconnectFindsNobody, DeleteSessions, ConnAfter, CharAfter,
         NameAfter, UInv, Entering, IInv, TypeOK, Linked, InWorld, Shape
    <3> QED BY <1>0, <3>1
  <2> QED BY <1>1, <2>1, <2>2, <2>3, <2>4, <2>5, <2>6, FreshUnique,
         EnterUnique DEF LogIn
<1>2. ASSUME NEW d \in Session, Leave(d) PROVE UInv'
  <2>1. CASE \/ Disconnect(d) \/ Quit(d) \/ IdleBoot(d)
             \/ \E n \in Name : DeleteChar(d, n) \/ WipeUnseen(d, n)
             \/ \E A \in SUBSET Name : DeleteAccount(d, A)
    <3>1. Fewer
      BY <2>1 DEF Disconnect, DeleteSessions, ConnAfter, CharAfter,
         NameAfter, Quit, BackToMenu, Remove, IdleBoot, Expel, WipeUnseen,
         DeleteChar, DeleteAccount, UInv, Entering, IInv, TypeOK, Linked,
         InWorld, Shape
    <3> QED BY <1>0, <3>1
  <2>2. CASE \E e \in Session : Wipe(d, e)
    <3>1. Fewer
      BY <2>2 DEF Wipe, Expel, Remove, ConnAfter, CharAfter, UInv, Entering,
         IInv, TypeOK, Linked, InWorld, Shape
    <3> QED BY <1>0, <3>1
  <2>3. CASE DieAsBeast(d)
    <3>1. Fewer
      BY <2>3 DEF DieAsBeast, BackToMenu, UInv, Entering, IInv, TypeOK, Linked,
         InWorld, Shape, OrigOnce
    <3> QED BY <1>0, <3>1
  <2> QED BY <1>2, <2>1, <2>2, <2>3 DEF Leave
<1>3. ASSUME NEW d \in Session, Play(d) PROVE UInv'
  <2>1. Fewer
    BY <1>3 DEF Play, Switch, Disguise, Lycanthrope, Wear, Return, Snoop,
       StopSnoop, bodyVars, UInv, Entering, IInv, TypeOK, Shape
  <2> QED BY <1>0, <2>1
<1>4. ASSUME NEW b \in Person, LdeadTimeout(b) PROVE UInv'
  <2>1. Fewer
    <3>1. list' \cap Person \subseteq list
      BY <1>4 DEF LdeadTimeout
    <3>2. \A c \in Person \cap list' : name'[c] = name[c]
      BY <1>4 DEF LdeadTimeout, IInv, TypeOK
    <3>3. \A d \in Session : conn'[d] # "create"
      BY <1>4 DEF LdeadTimeout, BackToMenu, UInv, Entering, IInv, TypeOK
    <3>4. \A d \in Session : conn'[d] = "motd" =>
            /\ conn[d] = "motd" /\ char'[d] = char[d]
            /\ name'[char[d]] = name[char[d]]
      <4>1. b \in list /\ name' = [name EXCEPT ![b] = None]
        BY <1>4 DEF LdeadTimeout
      <4>2. \A d \in Session : conn'[d] = "motd" =>
              conn[d] = "motd" /\ char'[d] = char[d]
        BY <1>4 DEF LdeadTimeout, BackToMenu, IInv, TypeOK
      <4> QED BY <1>m, <4>1, <4>2 DEF IInv, TypeOK
    <3> QED BY <3>1, <3>2, <3>3, <3>4
  <2> QED BY <1>0, <2>1
<1>5. CASE PurgeLdead
  <2>1. Fewer
    <3>1. list' \cap Person \subseteq list
      BY <1>5 DEF PurgeLdead
    <3>2. \A b \in Person \cap list' : name'[b] = name[b]
      BY <1>5 DEF PurgeLdead, NameAfter
    <3>3. \A d \in Session : conn'[d] # "create"
      BY <1>5 DEF PurgeLdead, ConnAfter, UInv, Entering
    <3>4. \A d \in Session : conn'[d] = "motd" =>
            /\ conn[d] = "motd" /\ char'[d] = char[d]
            /\ name'[char[d]] = name[char[d]]
      BY <1>5, <1>m DEF PurgeLdead, ConnAfter, CharAfter, NameAfter, IInv, TypeOK
    <3> QED BY <3>1, <3>2, <3>3, <3>4
  <2> QED BY <1>0, <2>1
<1>6. CASE \E m \in Beast : BeastDies(m)
  <2>1. Fewer
    BY <1>6 DEF BeastDies, UInv, Entering
  <2> QED BY <1>0, <2>1
<1> QED BY <1>1, <1>2, <1>3, <1>4, <1>5, <1>6 DEF Next

(* Logging in never brings a second body of a character into the world.    *)
(* Creation does: it looks for a name among the player files only.         *)
THEOREM NamesUnique ==
  ASSUME "create" \notin Optional
  PROVE  Spec => []OneBodyPerName
<1>1. Init => UInv
  BY DEF Init, UInv, OneBodyPerName, Entering
<1>2. IInv /\ UInv /\ [Next]_vars => UInv'
  <2>1. CASE UNCHANGED vars
    BY <2>1 DEF vars, UInv, OneBodyPerName, Entering
  <2> QED BY <2>1, StepUnique
<1>3. UInv => OneBodyPerName
  BY DEF UInv
<1> QED BY <1>1, <1>2, <1>3, Invariant, PTL DEF Spec

-----------------------------------------------------------------------------
(* Only a player in the own body snoops or is snooped. *)
SnoopOwn ==
  \A d \in Session : snooping[d] # None \/ snoopBy[d] # None
                      => conn[d] = "playing" /\ orig[d] = None
SInv == SnoopPaired /\ SnoopOwn

(* Sessions leave, taking their snooping with them; the others that snoop  *)
(* or are snooped stay as they are.                                        *)
LEMMA SnoopDropped ==
  ASSUME IInv, SInv, TypeOK', NEW D \in SUBSET Session,
         snooping' = SnoopingAfter(D), snoopBy' = SnoopByAfter(D),
         \A e \in Session \ D : snooping[e] # None \/ snoopBy[e] # None =>
           /\ conn'[e] = conn[e] /\ orig'[e] = orig[e] /\ char'[e] = char[e]
           /\ desc'[char[e]] = e
  PROVE  SInv'
<1> USE NoneAssumption, KindAssumption DEF Body
<1>1. \A d \in Session : /\ snooping[d] # None \/ snoopBy[d] # None =>
                              char[d] # None /\ desc[char[d]] = d
                         /\ \A b \in Body : desc[b] = d => char[d] = b
  BY DEF IInv, TypeOK, SInv, SnoopOwn, Linked, InWorld
<1>2. ASSUME NEW d \in Session, snooping'[d] # None
      PROVE  /\ desc'[snooping'[d]] # None
             /\ snoopBy'[desc'[snooping'[d]]] = char'[d]
  <2>1. d \notin D /\ snooping'[d] = snooping[d] /\ snooping[d] \in Body
    BY <1>2 DEF SnoopingAfter, IInv, TypeOK
  <2> DEFINE e == desc[snooping[d]]
  <2>2. e \in Session /\ snoopBy[e] = char[d] /\ char[e] = snooping[d]
    BY <1>1, <1>2, <2>1 DEF IInv, TypeOK, SInv, SnoopPaired
  <2>3. desc[char[d]] = d /\ char[d] # None
    BY <1>1, <1>2, <2>1
  <2>4. e \notin D
    BY <1>2, <2>2, <2>3 DEF SnoopingAfter
  <2>5. desc'[snooping[d]] = e /\ char'[d] = char[d]
    BY <1>2, <2>1, <2>2, <2>3, <2>4
  <2>6. ASSUME NEW f \in D, snooping[f] # None, desc[snooping[f]] = e PROVE FALSE
    <3>1. snoopBy[e] = char[f] /\ desc[char[f]] = f
      BY <1>1, <2>6 DEF SInv, SnoopPaired
    <3> QED BY <2>1, <2>2, <2>3, <3>1
  <2>7. snoopBy'[e] = snoopBy[e]
    BY <2>2, <2>4, <2>6 DEF SnoopByAfter
  <2> QED BY <2>1, <2>2, <2>5, <2>7
<1>3. ASSUME NEW d \in Session, snoopBy'[d] # None
      PROVE  /\ desc'[snoopBy'[d]] # None
             /\ snooping'[desc'[snoopBy'[d]]] = char'[d]
  <2>1. d \notin D /\ snoopBy'[d] = snoopBy[d] /\ snoopBy[d] \in Body
    BY <1>3 DEF SnoopByAfter, IInv, TypeOK
  <2> DEFINE e == desc[snoopBy[d]]
  <2>2. e \in Session /\ snooping[e] = char[d] /\ char[e] = snoopBy[d]
    BY <1>1, <1>3, <2>1 DEF IInv, TypeOK, SInv, SnoopPaired
  <2>3. desc[char[d]] = d /\ char[d] # None
    BY <1>1, <1>3, <2>1
  <2>4. e \notin D
    BY <1>3, <2>2, <2>3 DEF SnoopByAfter
  <2>5. desc'[snoopBy[d]] = e /\ char'[d] = char[d]
    BY <1>3, <2>1, <2>2, <2>3, <2>4
  <2>6. ASSUME NEW f \in D, snoopBy[f] # None, desc[snoopBy[f]] = e PROVE FALSE
    <3>1. snooping[e] = char[f] /\ desc[char[f]] = f
      BY <1>1, <2>6 DEF SInv, SnoopPaired
    <3> QED BY <2>1, <2>2, <2>3, <3>1
  <2>7. snooping'[e] = snooping[e]
    BY <2>2, <2>4, <2>6 DEF SnoopingAfter
  <2> QED BY <2>1, <2>2, <2>5, <2>7
<1>4. SnoopOwn'
  BY DEF SInv, SnoopOwn, SnoopingAfter, SnoopByAfter
<1> QED BY <1>2, <1>3, <1>4 DEF SInv, SnoopPaired

LEMMA SnoopKept ==
  ASSUME IInv, SInv, TypeOK', UNCHANGED snoopVars,
         \A e \in Session : snooping[e] # None \/ snoopBy[e] # None =>
           /\ conn'[e] = conn[e] /\ orig'[e] = orig[e] /\ char'[e] = char[e]
           /\ desc'[char[e]] = e
  PROVE  SInv'
<1>1. snooping' = SnoopingAfter({}) /\ snoopBy' = SnoopByAfter({})
  BY DEF SnoopingAfter, SnoopByAfter, snoopVars, IInv, TypeOK
<1> QED BY <1>1, SnoopDropped

LEMMA SnoopStarts ==
  ASSUME IInv, SInv, NEW d \in Session, NEW e \in Session, Snoop(d, e)
  PROVE  SInv'
<1> USE NoneAssumption, KindAssumption DEF Body
<1>1. /\ char[d] \in Body /\ desc[char[d]] = d
      /\ char[e] \in Body /\ desc[char[e]] = e /\ snoopBy[e] = None
      /\ conn[d] = "playing" /\ orig[d] = None
      /\ conn[e] = "playing" /\ orig[e] = None
  BY DEF Snoop, IInv, TypeOK, InWorld, Linked
<1>2. /\ snooping' = [snooping EXCEPT ![d] = char[e]]
      /\ snoopBy' = [f \in Session |->
           IF f = e THEN char[d]
           ELSE IF snooping[d] # None /\ desc[snooping[d]] = f THEN None
           ELSE snoopBy[f]]
      /\ conn' = conn /\ char' = char /\ orig' = orig /\ desc' = desc
  BY DEF Snoop
<1>3. ASSUME NEW f \in Session, snooping'[f] # None
      PROVE  /\ desc[snooping'[f]] # None
             /\ snoopBy'[desc[snooping'[f]]] = char[f]
  <2>1. CASE f = d
    BY <1>1, <1>2, <2>1 DEF IInv, TypeOK
  <2>2. CASE f # d
    <3> DEFINE g == desc[snooping[f]]
    <3>1. snooping'[f] = snooping[f] /\ g \in Session /\ snoopBy[g] = char[f]
      BY <1>2, <1>3, <2>2 DEF IInv, TypeOK, SInv, SnoopPaired
    <3>2. char[f] # None /\ char[f] # char[d]
      BY <1>1, <1>3, <2>2, <3>1 DEF IInv, TypeOK, Linked, InWorld, SInv, SnoopOwn
    <3>3. g # e
      BY <1>1, <3>1, <3>2
    <3>4. ~(snooping[d] # None /\ desc[snooping[d]] = g)
      BY <3>1, <3>2 DEF SInv, SnoopPaired
    <3> QED BY <1>2, <3>1, <3>3, <3>4
  <2> QED BY <2>1, <2>2
<1>4. ASSUME NEW f \in Session, snoopBy'[f] # None
      PROVE  /\ desc[snoopBy'[f]] # None
             /\ snooping'[desc[snoopBy'[f]]] = char[f]
  <2>1. CASE f = e
    BY <1>1, <1>2, <2>1 DEF IInv, TypeOK
  <2>2. CASE f # e
    <3> DEFINE g == desc[snoopBy[f]]
    <3>1. /\ snoopBy'[f] = snoopBy[f] /\ snoopBy[f] # None
          /\ ~(snooping[d] # None /\ desc[snooping[d]] = f)
      BY <1>2, <1>4, <2>2
    <3>2. /\ g \in Session /\ snooping[g] = char[f]
          /\ char[f] # None /\ desc[char[f]] = f
      BY <3>1 DEF IInv, TypeOK, Linked, InWorld, SInv, SnoopPaired, SnoopOwn
    <3>3. g # d
      BY <3>1, <3>2
    <3> QED BY <1>2, <3>1, <3>2, <3>3 DEF IInv, TypeOK
  <2> QED BY <2>1, <2>2
<1>5. SnoopOwn'
  <2>1. \A f \in Session : f # d => snooping'[f] = snooping[f]
    BY <1>2 DEF IInv, TypeOK
  <2>2. \A f \in Session : f # e => snoopBy'[f] \in {snoopBy[f], None}
    BY <1>2
  <2> QED BY <1>1, <1>2, <2>1, <2>2 DEF SInv, SnoopOwn
<1> QED BY <1>2, <1>3, <1>4, <1>5 DEF SInv, SnoopPaired

LEMMA SnoopStops ==
  ASSUME IInv, SInv, NEW d \in Session, StopSnoop(d)
  PROVE  SInv'
<1> USE NoneAssumption, KindAssumption DEF Body
<1> DEFINE v == desc[snooping[d]]
<1>1. /\ v \in Session /\ snoopBy[v] = char[d]
      /\ char[d] # None /\ desc[char[d]] = d
  BY DEF StopSnoop, IInv, TypeOK, InWorld, Linked, SInv, SnoopPaired
<1>2. /\ snooping' = [snooping EXCEPT ![d] = None]
      /\ snoopBy' = [f \in Session |-> IF v = f THEN None ELSE snoopBy[f]]
      /\ conn' = conn /\ char' = char /\ orig' = orig /\ desc' = desc
  BY DEF StopSnoop
<1>3. ASSUME NEW f \in Session, snooping'[f] # None
      PROVE  /\ desc[snooping'[f]] # None
             /\ snoopBy'[desc[snooping'[f]]] = char[f]
  <2> DEFINE g == desc[snooping[f]]
  <2>1. f # d /\ snooping'[f] = snooping[f] /\ g \in Session /\ snoopBy[g] = char[f]
    BY <1>2, <1>3 DEF IInv, TypeOK, SInv, SnoopPaired
  <2>2. char[f] # char[d]
    BY <1>1, <1>3, <2>1 DEF IInv, TypeOK, Linked, InWorld, SInv, SnoopOwn
  <2> QED BY <1>1, <1>2, <2>1, <2>2
<1>4. ASSUME NEW f \in Session, snoopBy'[f] # None
      PROVE  /\ desc[snoopBy'[f]] # None
             /\ snooping'[desc[snoopBy'[f]]] = char[f]
  <2> DEFINE g == desc[snoopBy[f]]
  <2>1. f # v /\ snoopBy'[f] = snoopBy[f] /\ snoopBy[f] # None
    BY <1>2, <1>4
  <2>2. /\ g \in Session /\ snooping[g] = char[f]
        /\ char[f] # None /\ desc[char[f]] = f
    BY <2>1 DEF IInv, TypeOK, Linked, InWorld, SInv, SnoopPaired, SnoopOwn
  <2>3. g # d
    BY <2>1, <2>2
  <2> QED BY <1>2, <2>1, <2>2, <2>3 DEF IInv, TypeOK
<1>5. SnoopOwn'
  BY <1>2 DEF SInv, SnoopOwn, IInv, TypeOK
<1> QED BY <1>2, <1>3, <1>4, <1>5 DEF SInv, SnoopPaired

(* Without the transformations that do not look at snooping, every step    *)
(* keeps snooper and snooped paired.                                       *)
LEMMA StepSnoop ==
  ASSUME "disguise" \notin Optional, "lycanthropy" \notin Optional,
         IInv, SInv, Next
  PROVE  SInv'
<1> USE NoneAssumption, KindAssumption DEF Body
<1>0. TypeOK'
  BY StepInv DEF IInv
<1>a. \A d \in Session : snooping[d] # None \/ snoopBy[d] # None =>
        /\ conn[d] = "playing" /\ orig[d] = None
        /\ char[d] # None /\ desc[char[d]] = d
  BY DEF IInv, TypeOK, SInv, SnoopOwn, Linked, InWorld
<1> DEFINE Same == \A e \in Session : snooping[e] # None \/ snoopBy[e] # None =>
                     /\ conn'[e] = conn[e] /\ orig'[e] = orig[e]
                     /\ char'[e] = char[e] /\ desc'[char[e]] = e
<1> DEFINE SameBut(D) == \A e \in Session \ D :
                     snooping[e] # None \/ snoopBy[e] # None =>
                       /\ conn'[e] = conn[e] /\ orig'[e] = orig[e]
                       /\ char'[e] = char[e] /\ desc'[char[e]] = e
<1>1. ASSUME NEW d \in Session, LogIn(d) PROVE SInv'
  <2>1. CASE ReconnectTakesOver(d)
    <3> DEFINE D == Others(d, PlayerName(d))
    <3>1. D \in SUBSET Session
      BY DEF Others
    <3>2. snooping' = SnoopingAfter(D) /\ snoopBy' = SnoopByAfter(D)
      BY <2>1 DEF ReconnectTakesOver
    <3>3. SameBut(D)
      <4> SUFFICES ASSUME NEW e \in Session \ D,
                          snooping[e] # None \/ snoopBy[e] # None
                   PROVE  /\ conn'[e] = conn[e] /\ orig'[e] = orig[e]
                          /\ char'[e] = char[e] /\ desc'[char[e]] = e
        OBVIOUS
      <4>1. /\ conn[e] = "playing" /\ char[e] # None /\ desc[char[e]] = e
            /\ char[e] \in Body /\ conn[d] = "discon" /\ e # d
        BY <1>a, <2>1 DEF ReconnectTakesOver, IInv, TypeOK
      <4>2. PICK b \in Person \cap list :
              /\ DescAfter(D)[b] = None
              /\ char' = [CharAfter(D) EXCEPT ![d] = b]
              /\ desc' = [DescAfter(D) EXCEPT ![char[d]] = None, ![b] = d]
        BY <2>1 DEF ReconnectTakesOver
      <4>3. DescAfter(D)[char[e]] = e /\ char[e] # b
        BY <4>1, <4>2 DEF DescAfter
      <4>4. char[e] # char[d]
        BY <4>1 DEF IInv, TypeOK, Linked, InWorld
      <4>5. desc'[char[e]] = e /\ char'[e] = char[e]
        BY <4>1, <4>2, <4>3, <4>4 DEF DescAfter, CharAfter
      <4>6. conn'[e] = conn[e] /\ orig'[e] = orig[e]
        BY <2>1, <4>1 DEF ReconnectTakesOver, ConnAfter, OrigAfter
      <4> QED BY <4>5, <4>6
    <3> HIDE DEF D
    <3> QED BY <1>0, <3>1, <3>2, <3>3, SnoopDropped
  <2>2. CASE ReconnectFindsNobody(d)
    <3> DEFINE D == Others(d, PlayerName(d))
    <3>1. D \in SUBSET Session
      BY DEF Others
    <3>2. DeleteSessions(D)
      BY <2>2 DEF ReconnectFindsNobody
    <3> HIDE DEF D
    <3>3. SameBut(D)
      BY <1>a, <3>2 DEF DeleteSessions, ConnAfter, CharAfter, OrigAfter,
         DescAfter, IInv, TypeOK
    <3> QED BY <1>0, <3>1, <3>2, <3>3, SnoopDropped DEF DeleteSessions
  <2>3. CASE \E n \in Name : NameGivenLinkdead(d, n)
    <3>1. PICK n \in Name : NameGivenLinkdead(d, n)
      BY <2>3
    <3>2. PICK b \in Person \cap list :
            /\ desc[b] = None /\ conn[d] = "name"
            /\ char' = [char EXCEPT ![d] = b]
            /\ desc' = [desc EXCEPT ![char[d]] = None, ![b] = d]
      BY <3>1 DEF NameGivenLinkdead, Abandoned, TakeOver
    <3>3. Same
      BY <1>a, <3>1, <3>2 DEF NameGivenLinkdead, IInv, TypeOK, Linked, InWorld
    <3> QED BY <1>0, <3>1, <3>3, SnoopKept DEF NameGivenLinkdead
  <2>4. CASE NameEmpty(d)
    <3>1. Same
      BY <1>a, <2>4 DEF NameEmpty, IInv, TypeOK, Linked, InWorld
    <3> QED BY <1>0, <2>4, <3>1, SnoopKept DEF NameEmpty
  <2>5. CASE \E b \in Person : MenuConnect(d, b) \/ MenuAdd(d, b)
    <3>1. UNCHANGED snoopVars
      BY <2>5 DEF MenuConnect, MenuAdd, NewPerson
    <3>2. Same
      BY <1>a, <2>5 DEF MenuConnect, MenuAdd, NewPerson, Free, IInv, TypeOK
    <3> QED BY <1>0, <3>1, <3>2, SnoopKept
  <2>6. CASE \/ Connect(d)
             \/ \E n \in Name : NameGivenConnected(d, n)
             \/ \E n \in Name : NameGivenFresh(d, n)
             \/ \E n \in Name : CreateName(d, n)
             \/ CreateDone(d)
             \/ EnterGame(d)
    <3>1. UNCHANGED snoopVars
      BY <2>6 DEF Connect, NameGivenConnected, NameGivenFresh, CreateName,
         CreateDone, EnterGame
    <3>2. Same
      BY <1>a, <2>6 DEF Connect, NameGivenConnected, NameGivenFresh,
         CreateName, CreateDone, EnterGame, IInv, TypeOK
    <3> QED BY <1>0, <3>1, <3>2, SnoopKept
  <2> QED BY <1>1, <2>1, <2>2, <2>3, <2>4, <2>5, <2>6 DEF LogIn
<1>2. ASSUME NEW d \in Session, Leave(d) PROVE SInv'
  <2>1. CASE \/ \E n \in Name : DeleteChar(d, n) \/ WipeUnseen(d, n)
             \/ \E A \in SUBSET Name : DeleteAccount(d, A)
    <3>1. UNCHANGED snoopVars /\ Same
      BY <1>a, <2>1 DEF DeleteChar, WipeUnseen, DeleteAccount, IInv, TypeOK
    <3> QED BY <1>0, <3>1, SnoopKept
  <2>2. CASE Disconnect(d) \/ Quit(d) \/ IdleBoot(d) \/ DieAsBeast(d)
    <3>1. snooping' = SnoopingAfter({d}) /\ snoopBy' = SnoopByAfter({d})
      BY <2>2 DEF Disconnect, DeleteSessions, Quit, BackToMenu, DieAsBeast,
         IdleBoot, Expel
    <3>2. SameBut({d})
      BY <1>a, <2>2 DEF Disconnect, DeleteSessions, Quit, BackToMenu, DieAsBeast,
         IdleBoot, Expel, ConnAfter, CharAfter, OrigAfter, DescAfter, IInv, TypeOK
    <3> QED BY <1>0, <3>1, <3>2, SnoopDropped
  <2>3. ASSUME NEW e \in Session, Wipe(d, e) PROVE SInv'
    <3>1. snooping' = SnoopingAfter({e}) /\ snoopBy' = SnoopByAfter({e})
      BY <2>3 DEF Wipe, Expel
    <3>2. SameBut({e})
      BY <1>a, <2>3 DEF Wipe, Expel, ConnAfter, CharAfter, OrigAfter,
         DescAfter, IInv, TypeOK
    <3> QED BY <1>0, <3>1, <3>2, SnoopDropped
  <2> QED BY <1>2, <2>1, <2>2, <2>3 DEF Leave
<1>3. ASSUME NEW d \in Session, Play(d) PROVE SInv'
  <2>1. CASE \E m \in Beast : Switch(d, m)
    <3>1. UNCHANGED snoopVars
      BY <2>1 DEF Switch, Wear
    <3>2. Same
      BY <1>a, <2>1 DEF Switch, Wear, IInv, TypeOK, Linked, InWorld
    <3> QED BY <1>0, <3>1, <3>2, SnoopKept
  <2>2. CASE Return(d)
    <3>1. UNCHANGED snoopVars
      BY <2>2 DEF Return
    <3>2. Same
      BY <1>a, <2>2 DEF Return, IInv, TypeOK, Linked, InWorld
    <3> QED BY <1>0, <3>1, <3>2, SnoopKept
  <2>3. CASE \E e \in Session : Snoop(d, e)
    BY <2>3, SnoopStarts
  <2>4. CASE StopSnoop(d)
    BY <2>4, SnoopStops
  <2> QED BY <1>3, <2>1, <2>2, <2>3, <2>4 DEF Play, Disguise, Lycanthrope
<1>4. ASSUME NEW b \in Person, LdeadTimeout(b) PROVE SInv'
  <2>1. CASE UNCHANGED <<conn, char, orig, desc, snoopVars>>
    <3>1. UNCHANGED snoopVars /\ Same
      BY <1>a, <2>1
    <3> QED BY <1>0, <3>1, SnoopKept
  <2>2. ASSUME NEW d \in Session, orig[d] = b, BackToMenu(d) PROVE SInv'
    <3>1. snooping' = SnoopingAfter({d}) /\ snoopBy' = SnoopByAfter({d})
      BY <2>2 DEF BackToMenu
    <3>2. SameBut({d})
      BY <1>a, <2>2 DEF BackToMenu, DescAfter, IInv, TypeOK
    <3> QED BY <1>0, <3>1, <3>2, SnoopDropped
  <2> QED BY <1>4, <2>1, <2>2 DEF LdeadTimeout
<1>5. CASE PurgeLdead
  <2> DEFINE D == {d \in Session : conn[d] # "closed" /\ PlayerName(d) = None}
  <2>1. D \in SUBSET Session
    OBVIOUS
  <2>2. snooping' = SnoopingAfter(D) /\ snoopBy' = SnoopByAfter(D)
    BY <1>5 DEF PurgeLdead
  <2>3. /\ conn' = ConnAfter(D) /\ char' = CharAfter(D)
        /\ orig' = OrigAfter(D) /\ desc' = DescAfter(D)
    BY <1>5 DEF PurgeLdead
  <2> HIDE DEF D
  <2>4. SameBut(D)
    BY <1>a, <2>3 DEF ConnAfter, CharAfter, OrigAfter, DescAfter, IInv, TypeOK
  <2> QED BY <1>0, <2>1, <2>2, <2>4, SnoopDropped
<1>6. CASE \E m \in Beast : BeastDies(m)
  <2>1. UNCHANGED snoopVars /\ Same
    BY <1>a, <1>6 DEF BeastDies
  <2> QED BY <1>0, <2>1, SnoopKept
<1> QED BY <1>1, <1>2, <1>3, <1>4, <1>5, <1>6 DEF Next

(* Snooper and snooped stay paired, so that ~Descriptor() never follows a  *)
(* victim without a session - in a world without the transformations that  *)
(* do not look at snooping: they break it.                                 *)
THEOREM SnoopSafe ==
  ASSUME "disguise" \notin Optional, "lycanthropy" \notin Optional
  PROVE  Spec => []SnoopPaired
<1>1. Init => SInv
  BY DEF Init, SInv, SnoopPaired, SnoopOwn
<1>2. IInv /\ SInv /\ [Next]_vars => SInv'
  <2>1. CASE UNCHANGED vars
    BY <2>1 DEF vars, snoopVars, SInv, SnoopPaired, SnoopOwn
  <2> QED BY <2>1, StepSnoop
<1>3. SInv => SnoopPaired
  BY DEF SInv
<1> QED BY <1>1, <1>2, <1>3, Invariant, PTL DEF Spec

-----------------------------------------------------------------------------
(* Roll: where a session stands, seen through its own body.                *)

LEMMA PlayerBody ==
  ASSUME IInv, NEW d \in Session, conn[d] = "playing"
  PROVE  /\ Self(d) \in Person \cap list
         /\ PlayerName(d) = name[Self(d)]
         /\ PlayerName(d) \in Name
         /\ ~Adrift(Self(d))
<1> USE NoneAssumption, KindAssumption DEF Body
<1>1. CASE orig[d] = None
  BY <1>1 DEF IInv, TypeOK, Shape, InWorld, Linked, Self, PlayerName, Adrift
<1>2. CASE orig[d] # None
  BY <1>2 DEF IInv, TypeOK, Shape, InWorld, Linked, Self, PlayerName, Adrift
<1> QED BY <1>1, <1>2

LEMMA SelfOnce ==
  ASSUME IInv, NEW d \in Session, NEW e \in Session,
         conn[d] = "playing", conn[e] = "playing", Self(d) = Self(e)
  PROVE  d = e
<1> USE NoneAssumption, KindAssumption DEF Body
<1> QED BY DEF IInv, TypeOK, Shape, InWorld, Linked, OrigOnce, Self

(* With one body per name a character is played once, or linkdead. *)
LEMMA PlayedOnce ==
  ASSUME IInv, UInv, NEW d \in Session, conn[d] = "playing"
  PROVE  /\ PlayerName(d) \notin Linkdead
         /\ \A e \in Session : conn[e] = "playing" /\ PlayerName(e) = PlayerName(d)
                                 => e = d
<1>1. Self(d) \in Person \cap list /\ PlayerName(d) = name[Self(d)] /\ ~Adrift(Self(d))
  BY PlayerBody
<1>2. PlayerName(d) \notin Linkdead
  BY <1>1 DEF Linkdead, Adrift, UInv, OneBodyPerName
<1>3. ASSUME NEW e \in Session, conn[e] = "playing", PlayerName(e) = PlayerName(d)
      PROVE  e = d
  <2>1. Self(e) \in Person \cap list /\ PlayerName(e) = name[Self(e)]
    BY <1>3, PlayerBody
  <2>2. Self(e) = Self(d)
    BY <1>1, <1>3, <2>1 DEF UInv, OneBodyPerName
  <2> QED BY <1>3, <2>2, SelfOnce
<1> QED BY <1>2, <1>3

(* Whoever has the name of a character in the game: a body in the world    *)
(* that is played, or one that is adrift.                                  *)
LEMMA BodyInGame ==
  ASSUME IInv, NEW b \in Person \cap list, name[b] \in Name
  PROVE  \/ name[b] \in Linkdead
         \/ \E d \in Session : conn[d] = "playing" /\ Self(d) = b
<1> USE NoneAssumption, KindAssumption DEF Body
<1>1. CASE Adrift(b)
  BY <1>1 DEF Linkdead
<1>2. CASE \E d \in Session : orig[d] = b
  BY <1>2 DEF IInv, TypeOK, Shape, Self
<1>3. CASE desc[b] # None
  <2>1. desc[b] \in Session /\ char[desc[b]] = b
    BY <1>3 DEF IInv, TypeOK, Linked
  <2>2. orig[desc[b]] = None /\ conn[desc[b]] = "playing"
    BY <2>1 DEF IInv, TypeOK, InWorld
  <2> QED BY <2>1, <2>2 DEF Self
<1> QED BY <1>1, <1>2, <1>3 DEF Adrift

(* A step that leaves the sessions that play or are asked, and the bodies  *)
(* that are adrift, as they are.                                           *)
Unmoved ==
  /\ \A d \in Session : conn[d] \in {"playing", "discon"}
                        \/ conn'[d] \in {"playing", "discon"}
       => conn'[d] = conn[d] /\ PlayerName(d)' = PlayerName(d)
  /\ \A b \in Person : Adrift(b) \/ Adrift(b)'
       => (Adrift(b) <=> Adrift(b)') /\ name'[b] = name[b]

LEMMA UnmovedRoll == Unmoved => UNCHANGED <<Plays, Asks, Linkdead>>
<1> SUFFICES ASSUME Unmoved PROVE UNCHANGED <<Plays, Asks, Linkdead>>
  OBVIOUS
<1>1. Plays' = Plays
  BY DEF Unmoved, Plays
<1>2. Asks' = Asks
  BY DEF Unmoved, Asks
<1>3. Linkdead' = Linkdead
  BY DEF Unmoved, Linkdead
<1> QED BY <1>1, <1>2, <1>3

(* An idle session that takes up a character, from its file or from a body *)
(* that was left in the world.                                             *)
LEMMA EnterRoll ==
  ASSUME IInv, IInv', UInv, NEW d \in Session, EnterGame(d)
  PROVE  R!Next
<1> USE NoneAssumption, KindAssumption DEF Body
<1> DEFINE n == PlayerName(d)
<1>1. /\ conn[d] = "motd" /\ conn' = [conn EXCEPT ![d] = "playing"]
      /\ list' = list \cup {char[d]}
      /\ UNCHANGED <<char, orig, desc, name>>
  BY DEF EnterGame
<1>2. n \in Name /\ n = name[char[d]] /\ orig[d] = None /\ char[d] \in Person
      /\ desc[char[d]] = d
  BY <1>1 DEF IInv, TypeOK, Shape, InWorld, Linked, PlayerName, Self
<1>3. \A b \in Person \cap list : name[b] # n
  BY <1>1, <1>2 DEF UInv, Entering
<1>4. ~R!InGame(n)
  <2>1. n \notin Linkdead
    BY <1>3 DEF Linkdead, Adrift
  <2>2. \A e \in Session : Plays[e] # n
    <3> SUFFICES ASSUME NEW e \in Session, Plays[e] = n PROVE FALSE
      OBVIOUS
    <3>1. conn[e] = "playing" /\ PlayerName(e) = n
      BY <1>2 DEF Plays
    <3> QED BY <1>3, <3>1, PlayerBody
  <2> QED BY <2>1, <2>2 DEF R!InGame
<1>5. Plays' = [Plays EXCEPT ![d] = n]
  BY <1>1, <1>2 DEF Plays, PlayerName, Self, IInv, TypeOK
<1>6. Asks' = Asks
  BY <1>1, <1>2 DEF Asks, PlayerName, Self, IInv, TypeOK
<1>7. Linkdead' = Linkdead
  BY <1>1, <1>2 DEF Linkdead, Adrift
<1>8. Plays[d] = None /\ Asks[d] = None
  BY <1>1 DEF Plays, Asks
<1>9. R!Enter(d, n)
  BY <1>4, <1>5, <1>6, <1>7, <1>8 DEF R!Enter, R!Idle
<1> QED BY <1>2, <1>9 DEF R!Next

LEMMA ResumeRoll ==
  ASSUME IInv, IInv', UInv, NEW d \in Session, NEW n \in Name,
         NameGivenLinkdead(d, n)
  PROVE  R!Next
<1> USE NoneAssumption, KindAssumption DEF Body
<1>1. PICK b \in Abandoned(n) : TakeOver(d, b, desc, name)
  BY DEF NameGivenLinkdead
<1>2. /\ conn[d] = "name" /\ conn' = [conn EXCEPT ![d] = "playing"]
      /\ UNCHANGED <<orig, list>>
      /\ \A e \in Session \ {d} : PlayerName(e) # n
  BY DEF NameGivenLinkdead, Others
<1>3. /\ b \in Person \cap list /\ desc[b] = None /\ name[b] = n
      /\ char' = [char EXCEPT ![d] = b]
      /\ desc' = [desc EXCEPT ![char[d]] = None, ![b] = d]
      /\ name' = [name EXCEPT ![char[d]] = None]
  BY <1>1 DEF Abandoned, TakeOver
<1>4. /\ char[d] \in Person /\ char[d] \notin list /\ orig[d] = None
      /\ desc[char[d]] = d /\ char[d] # b
  BY <1>2, <1>3 DEF IInv, TypeOK, Shape, Linked, InWorld
<1>5. \A e \in Session : orig[e] # b
  BY <1>2, <1>3, <1>4 DEF PlayerName, Self, IInv, TypeOK, InWorld
<1>6. n \in Linkdead
  BY <1>3, <1>5 DEF Linkdead, Adrift
<1>7. \A e \in Session \ {d} : PlayerName(e)' = PlayerName(e)
  <2> SUFFICES ASSUME NEW e \in Session \ {d} PROVE PlayerName(e)' = PlayerName(e)
    OBVIOUS
  <2>1. char'[e] = char[e] /\ orig'[e] = orig[e]
    BY <1>2, <1>3 DEF IInv, TypeOK
  <2>2. char[e] # None => Self(e) \in Person /\ Self(e) # char[d]
    BY <1>4 DEF Self, IInv, TypeOK, Shape, Linked, InWorld
  <2> QED BY <1>3, <2>1, <2>2 DEF PlayerName, Self, IInv, TypeOK
<1>8. PlayerName(d)' = n
  BY <1>2, <1>3, <1>4 DEF PlayerName, Self, IInv, TypeOK
<1>9. Plays' = [Plays EXCEPT ![d] = n]
  BY <1>2, <1>7, <1>8 DEF Plays, IInv, TypeOK
<1>10. Asks' = Asks
  BY <1>2, <1>7 DEF Asks, IInv, TypeOK
<1>11. Linkdead' = Linkdead \ {n}
  <2>1. \A c \in Person : Adrift(c)' <=> Adrift(c) /\ c # b
    BY <1>2, <1>3, <1>4, <1>5 DEF Adrift, IInv, TypeOK
  <2>2. \A c \in Person : Adrift(c) => name'[c] = name[c]
    BY <1>3, <1>4 DEF Adrift, IInv, TypeOK
  <2>3. \A c \in Person : Adrift(c) /\ name[c] = n => c = b
    BY <1>3 DEF Adrift, UInv, OneBodyPerName
  <2> QED BY <1>3, <2>1, <2>2, <2>3 DEF Linkdead
<1>12. \A e \in Session : Asks[e] # n
  BY <1>2 DEF Asks
<1>13. Plays[d] = None /\ Asks[d] = None
  BY <1>2 DEF Plays, Asks
<1>14. R!Resume(d, n)
  BY <1>6, <1>9, <1>10, <1>11, <1>12, <1>13 DEF R!Resume, R!Idle
<1> QED BY <1>14 DEF R!Next

LEMMA AskRoll ==
  ASSUME IInv, IInv', NEW d \in Session, NEW n \in Name,
         NameGivenConnected(d, n)
  PROVE  R!Next
<1> USE NoneAssumption, KindAssumption DEF Body
<1>1. /\ conn[d] = "name" /\ conn' = [conn EXCEPT ![d] = "discon"]
      /\ name' = [name EXCEPT ![char[d]] = n]
      /\ UNCHANGED <<char, orig, desc, list>>
  BY DEF NameGivenConnected
<1>2. /\ char[d] \in Person /\ char[d] \notin list /\ orig[d] = None
      /\ desc[char[d]] = d
  BY <1>1 DEF IInv, TypeOK, Shape, Linked, InWorld
<1>3. \A e \in Session \ {d} : PlayerName(e)' = PlayerName(e)
  <2> SUFFICES ASSUME NEW e \in Session \ {d} PROVE PlayerName(e)' = PlayerName(e)
    OBVIOUS
  <2>1. char[e] # None => Self(e) \in Person /\ Self(e) # char[d]
    BY <1>2 DEF Self, IInv, TypeOK, Shape, Linked, InWorld
  <2> QED BY <1>1, <2>1 DEF PlayerName, Self, IInv, TypeOK
<1>4. PlayerName(d)' = n
  BY <1>1, <1>2 DEF PlayerName, Self, IInv, TypeOK
<1>5. Plays' = Plays
  BY <1>1, <1>3 DEF Plays, IInv, TypeOK
<1>6. Asks' = [Asks EXCEPT ![d] = n]
  BY <1>1, <1>3, <1>4 DEF Asks, IInv, TypeOK
<1>7. Linkdead' = Linkdead
  BY <1>1, <1>2 DEF Linkdead, Adrift, IInv, TypeOK
<1>8. Plays[d] = None /\ Asks[d] = None
  BY <1>1 DEF Plays, Asks
<1>9. R!Ask(d, n)
  BY <1>5, <1>6, <1>7, <1>8 DEF R!Ask, R!Idle
<1> QED BY <1>9 DEF R!Next

(* Whom a deleted session played stays in the world, adrift; the others    *)
(* and their bodies are not touched.                                       *)
LEMMA OthersKept ==
  ASSUME IInv, NEW D \in SUBSET Session, NEW e \in Session \ D,
         char[e] # None
  PROVE  /\ Self(e) \in Person
         /\ NameAfter(D)[Self(e)] = name[Self(e)]
<1> USE NoneAssumption, KindAssumption DEF Body
<1>1. Self(e) \in Person /\ (desc[Self(e)] = e \/ desc[Self(e)] = None)
  BY DEF Self, IInv, TypeOK, Shape, Linked, InWorld
<1> QED BY <1>1 DEF NameAfter

(* Deleting sessions sets adrift the bodies they played. *)
LEMMA DeletedRoll ==
  ASSUME IInv, NEW D \in SUBSET Session,
         conn' = ConnAfter(D), char' = CharAfter(D), orig' = OrigAfter(D),
         desc' = DescAfter(D), name' = NameAfter(D),
         list' \cap Person = list \cap Person
  PROVE  /\ Plays' = [e \in Session |-> IF e \in D THEN None ELSE Plays[e]]
         /\ Asks' = [e \in Session |-> IF e \in D THEN None ELSE Asks[e]]
         /\ Linkdead' = Linkdead \cup {n \in Name : \E e \in D : Plays[e] = n}
<1> USE NoneAssumption, KindAssumption DEF Body
<1>1. \A e \in Session \ D :
        /\ conn'[e] = conn[e]
        /\ PlayerName(e)' = PlayerName(e)
  <2> SUFFICES ASSUME NEW e \in Session \ D
               PROVE  conn'[e] = conn[e] /\ PlayerName(e)' = PlayerName(e)
    OBVIOUS
  <2>1. conn'[e] = conn[e] /\ char'[e] = char[e] /\ orig'[e] = orig[e]
    BY DEF ConnAfter, CharAfter, OrigAfter
  <2>2. char[e] # None => name'[Self(e)] = name[Self(e)]
    BY OthersKept
  <2> QED BY <2>1, <2>2 DEF PlayerName, Self
<1>2. \A e \in D : conn'[e] = "closed"
  BY DEF ConnAfter
<1>3. Plays' = [e \in Session |-> IF e \in D THEN None ELSE Plays[e]]
  BY <1>1, <1>2 DEF Plays
<1>4. Asks' = [e \in Session |-> IF e \in D THEN None ELSE Asks[e]]
  BY <1>1, <1>2 DEF Asks
<1>5. \A b \in Person : Adrift(b)' <=>
        Adrift(b) \/ \E e \in D : conn[e] = "playing" /\ Self(e) = b
  <2> SUFFICES ASSUME NEW b \in Person
               PROVE  Adrift(b)' <=>
                        Adrift(b) \/ \E e \in D : conn[e] = "playing" /\ Self(e) = b
    OBVIOUS
  <2>1. Adrift(b)' <=> /\ b \in list
                       /\ desc[b] = None \/ desc[b] \in D
                       /\ \A e \in Session \ D : orig[e] # b
    BY DEF Adrift, DescAfter, OrigAfter, IInv, TypeOK
  <2>2. b \in list /\ desc[b] \in D => conn[desc[b]] = "playing" /\ Self(desc[b]) = b
    BY DEF Self, IInv, TypeOK, Linked, InWorld
  <2>3. \A e \in D : orig[e] = b => conn[e] = "playing" /\ Self(e) = b
    BY DEF Self, IInv, TypeOK, Shape
  <2>4. ASSUME NEW e \in D, conn[e] = "playing", Self(e) = b
        PROVE  /\ b \in list /\ (desc[b] = None \/ desc[b] \in D)
               /\ \A f \in Session \ D : orig[f] # b
    BY <2>4 DEF Self, IInv, TypeOK, Shape, Linked, InWorld, OrigOnce
  <2> QED BY <2>1, <2>2, <2>3, <2>4 DEF Adrift
<1>6. \A b \in Person \cap list : name'[b] = name[b]
  BY DEF NameAfter
<1>7. \A n \in Name : n \in Linkdead' <=> n \in Linkdead \/ \E e \in D : Plays[e] = n
  <2> SUFFICES ASSUME NEW n \in Name
               PROVE  n \in Linkdead' <=> n \in Linkdead \/ \E e \in D : Plays[e] = n
    OBVIOUS
  <2>1. n \in Linkdead' <=> \E b \in Person : Adrift(b)' /\ name[b] = n
    BY <1>6 DEF Linkdead, Adrift
  <2>2. \A e \in D : Plays[e] = n <=> conn[e] = "playing" /\ name[Self(e)] = n
    BY PlayerBody DEF Plays
  <2>3. \A e \in D : conn[e] = "playing" => Self(e) \in Person
    BY PlayerBody
  <2> QED BY <1>5, <2>1, <2>2, <2>3 DEF Linkdead
<1>8. Linkdead' = Linkdead \cup {n \in Name : \E e \in D : Plays[e] = n}
  BY <1>7 DEF Linkdead
<1> QED BY <1>3, <1>4, <1>8

LEMMA DisconnectRoll ==
  ASSUME IInv, NEW d \in Session, Disconnect(d)
  PROVE  R!Next \/ UNCHANGED <<Plays, Asks, Linkdead>>
<1> USE NoneAssumption, KindAssumption DEF Body
<1>1. /\ Plays' = [e \in Session |-> IF e \in {d} THEN None ELSE Plays[e]]
      /\ Asks' = [e \in Session |-> IF e \in {d} THEN None ELSE Asks[e]]
      /\ Linkdead' = Linkdead \cup {n \in Name : \E e \in {d} : Plays[e] = n}
  <2>1. list' \cap Person = list \cap Person
    BY DEF Disconnect, DeleteSessions, Shed, IInv, TypeOK
  <2> QED BY <2>1, DeletedRoll DEF Disconnect, DeleteSessions
<1>2. CASE conn[d] = "playing"
  <2>1. Plays[d] \in Name /\ Asks[d] = None
    BY <1>2, PlayerBody DEF Plays, Asks
  <2>2. R!LoseLink(d, Plays[d])
    BY <1>1, <2>1 DEF R!LoseLink, Plays, Asks
  <2> QED BY <2>1, <2>2 DEF R!Next
<1>3. CASE conn[d] = "discon"
  <2>1. Asks[d] \in Name /\ Plays[d] = None
    BY <1>3 DEF Plays, Asks, IInv, Shape
  <2>2. R!Withdraw(d)
    BY <1>1, <2>1 DEF R!Withdraw, Plays, Asks
  <2> QED BY <2>2 DEF R!Next
<1>4. CASE conn[d] \notin {"playing", "discon"}
  BY <1>1, <1>4 DEF Plays, Asks
<1> QED BY <1>2, <1>3, <1>4

LEMMA FindsNobodyRoll ==
  ASSUME IInv, NEW d \in Session, ReconnectFindsNobody(d)
  PROVE  R!Next
<1> USE NoneAssumption, KindAssumption DEF Body
<1> DEFINE n == PlayerName(d)
           D == Others(d, n)
<1>1. conn[d] = "discon" /\ n \in Name /\ Asks[d] = n
  BY DEF ReconnectFindsNobody, IInv, Shape, Asks
<1>2. D \in SUBSET Session /\ \A e \in Session : e \in D <=> e # d /\ PlayerName(e) = n
  BY DEF Others
<1>3. /\ DeleteSessions(D)
      /\ \A b \in Person \cap list : name[b] = n => DescAfter(D)[b] # None
  BY DEF ReconnectFindsNobody
<1> HIDE DEF D
<1>4. \A e \in Session : Plays[e] # n
  <2> SUFFICES ASSUME NEW e \in Session, Plays[e] = n PROVE FALSE
    OBVIOUS
  <2>1. conn[e] = "playing" /\ PlayerName(e) = n /\ e # d
    BY <1>1 DEF Plays
  <2>2. Self(e) \in Person \cap list /\ name[Self(e)] = n
    BY <2>1, PlayerBody
  <2>3. desc[Self(e)] \in {None, e}
    BY <2>1 DEF Self, IInv, TypeOK, Linked, InWorld
  <2> QED BY <1>2, <1>3, <2>1, <2>2, <2>3 DEF DescAfter
<1>5. n \notin Linkdead
  BY <1>3 DEF Linkdead, Adrift, DescAfter
<1>6. /\ Plays' = [e \in Session |-> IF e \in D THEN None ELSE Plays[e]]
      /\ Asks' = [e \in Session |-> IF e \in D THEN None ELSE Asks[e]]
      /\ Linkdead' = Linkdead \cup {m \in Name : \E e \in D : Plays[e] = m}
  <2>1. list' \cap Person = list \cap Person
    BY <1>3 DEF DeleteSessions, Shed, IInv, TypeOK
  <2> QED BY <1>2, <1>3, <2>1, DeletedRoll DEF DeleteSessions
<1>7. \A e \in D : Plays[e] = None /\ Asks[e] \in {n, None}
  BY <1>2, <1>4 DEF Plays, Asks
<1>8. \A e \in Session : Asks[e] = n => e = d \/ e \in D
  BY <1>1, <1>2 DEF Asks
<1>9. Plays' = Plays /\ Linkdead' = Linkdead
  BY <1>6, <1>7 DEF Plays
<1>10. Asks' = [e \in Session |-> IF e # d /\ Asks[e] = n THEN None ELSE Asks[e]]
  BY <1>2, <1>6, <1>7, <1>8
<1>11. R!FindNobody(d, n)
  BY <1>1, <1>4, <1>5, <1>9, <1>10 DEF R!FindNobody, R!InGame
<1> QED BY <1>1, <1>11 DEF R!Next

(* A character that leaves the game with its session and its body. *)
LEMMA GoneRoll ==
  ASSUME IInv, IInv', NEW d \in Session, conn[d] = "playing",
         conn'[d] \notin {"playing", "discon"},
         \A e \in Session \ {d} : /\ conn'[e] = conn[e] /\ char'[e] = char[e]
                                  /\ orig'[e] = orig[e],
         orig'[d] = None,
         desc' = DescAfter({d}),
         list' \cap Person = (list \cap Person) \ {Self(d)},
         name' = [name EXCEPT ![Self(d)] = None]
  PROVE  R!Next
<1> USE NoneAssumption, KindAssumption DEF Body
<1>1. Self(d) \in Person \cap list /\ PlayerName(d) \in Name /\ ~Adrift(Self(d))
  BY PlayerBody
<1>2. \A e \in Session \ {d} : PlayerName(e)' = PlayerName(e)
  <2> SUFFICES ASSUME NEW e \in Session \ {d} PROVE PlayerName(e)' = PlayerName(e)
    OBVIOUS
  <2>1. char[e] # None => Self(e) \in Person /\ Self(e) # Self(d)
    BY DEF Self, IInv, TypeOK, Shape, Linked, InWorld, OrigOnce
  <2> QED BY <1>1, <2>1 DEF PlayerName, Self, IInv, TypeOK
<1>3. Plays' = [Plays EXCEPT ![d] = None]
  BY <1>2 DEF Plays
<1>4. Asks' = Asks
  BY <1>2 DEF Asks
<1>5. \A b \in Person : Adrift(b)' <=> Adrift(b)
  <2> SUFFICES ASSUME NEW b \in Person PROVE Adrift(b)' <=> Adrift(b)
    OBVIOUS
  <2>1. Adrift(b)' <=> /\ b \in list /\ b # Self(d)
                       /\ desc[b] = None \/ desc[b] = d
                       /\ \A e \in Session \ {d} : orig[e] # b
    BY DEF Adrift, DescAfter, IInv, TypeOK
  <2>2. b \in list /\ b # Self(d) => desc[b] # d /\ orig[d] # b
    BY DEF Self, IInv, TypeOK, Linked, InWorld
  <2> QED BY <1>1, <2>1, <2>2 DEF Adrift
<1>6. Linkdead' = Linkdead
  BY <1>1, <1>5 DEF Linkdead, IInv, TypeOK
<1>7. Plays[d] # None
  BY <1>1 DEF Plays
<1>8. R!Quit(d)
  BY <1>3, <1>4, <1>6, <1>7 DEF R!Quit
<1> QED BY <1>8 DEF R!Next

LEMMA QuitRoll ==
  ASSUME IInv, IInv', NEW d \in Session, Quit(d)
  PROVE  R!Next
<1> USE NoneAssumption, KindAssumption DEF Body
<1>1. conn[d] = "playing" /\ Self(d) = char[d] /\ char[d] \in Body
  BY DEF Quit, Self, IInv, TypeOK, InWorld
<1>2. /\ conn'[d] = "menu" /\ orig'[d] = None /\ desc' = DescAfter({d})
      /\ \A e \in Session \ {d} : /\ conn'[e] = conn[e] /\ char'[e] = char[e]
                                  /\ orig'[e] = orig[e]
  BY DEF Quit, BackToMenu, IInv, TypeOK
<1>3. /\ list' \cap Person = (list \cap Person) \ {Self(d)}
      /\ name' = [name EXCEPT ![Self(d)] = None]
  BY <1>1 DEF Quit, Remove
<1> QED BY <1>1, <1>2, <1>3, GoneRoll

LEMMA DieAsBeastRoll ==
  ASSUME IInv, IInv', NEW d \in Session, DieAsBeast(d)
  PROVE  R!Next
<1> USE NoneAssumption, KindAssumption DEF Body
<1>1. conn[d] = "playing" /\ Self(d) = orig[d] /\ char[d] \in Beast
  BY DEF DieAsBeast, Self, IInv, TypeOK, Shape, InWorld
<1>2. /\ conn'[d] = "menu" /\ orig'[d] = None /\ desc' = DescAfter({d})
      /\ \A e \in Session \ {d} : /\ conn'[e] = conn[e] /\ char'[e] = char[e]
                                  /\ orig'[e] = orig[e]
  BY DEF DieAsBeast, BackToMenu, IInv, TypeOK
<1>3. /\ list' \cap Person = (list \cap Person) \ {Self(d)}
      /\ name' = [name EXCEPT ![Self(d)] = None]
  BY <1>1 DEF DieAsBeast
<1> QED BY <1>1, <1>2, <1>3, GoneRoll

LEMMA ExpelRoll ==
  ASSUME IInv, IInv', NEW d \in Session, Expel(d)
  PROVE  R!Next
<1> USE NoneAssumption, KindAssumption DEF Body
<1>1. conn[d] = "playing" /\ Self(d) = char[d] /\ char[d] \in Body
  BY DEF Expel, Self, IInv, TypeOK, InWorld
<1>2. /\ conn'[d] = "closed" /\ orig'[d] = None /\ desc' = DescAfter({d})
      /\ \A e \in Session \ {d} : /\ conn'[e] = conn[e] /\ char'[e] = char[e]
                                  /\ orig'[e] = orig[e]
  BY DEF Expel, ConnAfter, CharAfter, OrigAfter
<1>3. /\ list' \cap Person = (list \cap Person) \ {Self(d)}
      /\ name' = [name EXCEPT ![Self(d)] = None]
  BY <1>1 DEF Expel, Remove
<1> QED BY <1>1, <1>2, <1>3, GoneRoll

LEMMA TimeoutRoll ==
  ASSUME IInv, IInv', UInv, NEW b \in Person, LdeadTimeout(b)
  PROVE  R!Next
<1> USE NoneAssumption, KindAssumption DEF Body
<1>1. b \in list /\ desc[b] = None /\ name' = [name EXCEPT ![b] = None]
  BY DEF LdeadTimeout
<1>2. CASE /\ b \notin {orig[d] : d \in Session}
           /\ list' = list \ {b}
           /\ UNCHANGED <<conn, char, orig, desc, snoopVars, form, saved>>
  <2>1. \A e \in Session : PlayerName(e)' = PlayerName(e)
    <3> SUFFICES ASSUME NEW e \in Session PROVE PlayerName(e)' = PlayerName(e)
      OBVIOUS
    <3>1. char[e] # None => Self(e) \in Person /\ Self(e) # b
      BY <1>1, <1>2 DEF Self, IInv, TypeOK, Shape, Linked
    <3> QED BY <1>1, <1>2, <3>1 DEF PlayerName, Self, IInv, TypeOK
  <2>2. Plays' = Plays /\ Asks' = Asks
    BY <1>2, <2>1 DEF Plays, Asks
  <2>3. \A c \in Person : Adrift(c)' <=> Adrift(c) /\ c # b
    BY <1>2 DEF Adrift
  <2>4. \A c \in Person : Adrift(c) /\ name[c] = name[b] => c = b
    BY <1>1 DEF Adrift, UInv, OneBodyPerName
  <2> DEFINE C == {name[b]} \cap Name
  <2>5. Linkdead' = Linkdead \ C
    BY <1>1, <2>3, <2>4 DEF Linkdead, IInv, TypeOK
  <2>6. R!Expire(C)
    BY <2>2, <2>5 DEF R!Expire
  <2> QED BY <2>6 DEF R!Next
<1>3. ASSUME NEW d \in Session, orig[d] = b, BackToMenu(d),
             list' = list \ (Shed({d}) \cup {b})
      PROVE  R!Next
  <2>1. conn[d] = "playing" /\ Self(d) = b
    BY <1>3 DEF Self, IInv, TypeOK, Shape
  <2>2. /\ conn'[d] = "menu" /\ orig'[d] = None /\ desc' = DescAfter({d})
        /\ \A e \in Session \ {d} : /\ conn'[e] = conn[e] /\ char'[e] = char[e]
                                    /\ orig'[e] = orig[e]
    BY <1>3 DEF BackToMenu, IInv, TypeOK
  <2>3. list' \cap Person = (list \cap Person) \ {Self(d)}
    BY <1>3, <2>1 DEF Shed, IInv, TypeOK
  <2> QED BY <1>1, <2>1, <2>2, <2>3, GoneRoll
<1> QED BY <1>2, <1>3 DEF LdeadTimeout

LEMMA PurgeRoll ==
  ASSUME IInv, PurgeLdead
  PROVE  R!Next
<1> USE NoneAssumption, KindAssumption DEF Body
<1> DEFINE D == {d \in Session : conn[d] # "closed" /\ PlayerName(d) = None}
           L == {b \in Person \cap list : /\ desc[b] = None
                                          /\ \A d \in Session : orig[d] # b}
<1>1. /\ conn' = ConnAfter(D) /\ char' = CharAfter(D) /\ orig' = OrigAfter(D)
      /\ desc' = DescAfter(D) /\ list' = list \ (Shed(D) \cup L)
      /\ name' = [b \in Person |-> IF b \in L THEN None ELSE NameAfter(D)[b]]
  BY DEF PurgeLdead
<1>2. D \in SUBSET Session /\ \A e \in D : conn[e] \notin {"playing", "discon"}
  BY DEF IInv, Shape
<1>3. L = {b \in Person : Adrift(b)}
  BY DEF Adrift
<1> HIDE DEF D, L
<1>4. \A e \in Session \ D : conn'[e] = conn[e] /\ PlayerName(e)' = PlayerName(e)
  <2> SUFFICES ASSUME NEW e \in Session \ D
               PROVE  conn'[e] = conn[e] /\ PlayerName(e)' = PlayerName(e)
    OBVIOUS
  <2>1. conn'[e] = conn[e] /\ char'[e] = char[e] /\ orig'[e] = orig[e]
    BY <1>1 DEF ConnAfter, CharAfter, OrigAfter
  <2>2. char[e] # None => /\ Self(e) \in Person
                          /\ NameAfter(D)[Self(e)] = name[Self(e)]
    BY <1>2, OthersKept
  <2>3. char[e] # None => Self(e) \notin L
    BY <1>3 DEF Adrift, Self, IInv, TypeOK, Linked
  <2> QED BY <1>1, <2>1, <2>2, <2>3 DEF PlayerName, Self
<1>5. \A e \in D : conn'[e] = "closed"
  BY <1>1, <1>2 DEF ConnAfter
<1>6. Plays' = Plays /\ Asks' = Asks
  BY <1>2, <1>4, <1>5 DEF Plays, Asks
<1>7. \A b \in Person : ~Adrift(b)'
  <2> SUFFICES ASSUME NEW b \in Person, Adrift(b)' PROVE FALSE
    OBVIOUS
  <2>1. b \in list /\ b \notin L /\ (desc[b] = None \/ desc[b] \in D)
        /\ \A e \in Session \ D : orig[e] # b
    BY <1>1 DEF Adrift, DescAfter, OrigAfter
  <2>2. desc[b] = None
    BY <1>2, <2>1 DEF IInv, TypeOK, Linked, InWorld
  <2>3. \A e \in D : orig[e] # b
    BY <1>2 DEF IInv, TypeOK, Shape
  <2> QED BY <1>2, <1>3, <2>1, <2>2, <2>3 DEF Adrift
<1>8. Linkdead' = Linkdead \ Name
  BY <1>7 DEF Linkdead
<1>9. R!Expire(Name)
  BY <1>6, <1>8 DEF R!Expire
<1> QED BY <1>9 DEF R!Next

(* "Y" to "Reconnect?" with a body in the world. *)
LEMMA DisplaceRoll ==
  ASSUME IInv, IInv', UInv, NEW d \in Session, ReconnectTakesOver(d)
  PROVE  R!Next
<1> USE NoneAssumption, KindAssumption DEF Body
<1> DEFINE n == PlayerName(d)
           D == Others(d, n)
<1>1. PICK b \in Person \cap list :
        /\ DescAfter(D)[b] = None
        /\ name[b] = n
        /\ char' = [CharAfter(D) EXCEPT ![d] = b]
        /\ desc' = [DescAfter(D) EXCEPT ![char[d]] = None, ![b] = d]
        /\ name' = [NameAfter(D) EXCEPT ![char[d]] = None]
  BY DEF ReconnectTakesOver
<1>2. /\ conn[d] = "discon"
      /\ conn' = [ConnAfter(D) EXCEPT ![d] = "playing"]
      /\ orig' = OrigAfter(D)
      /\ list' \cap Person = list \cap Person
  BY DEF ReconnectTakesOver, Shed, IInv, TypeOK
<1>3. D \in SUBSET Session /\ \A e \in Session : e \in D <=> e # d /\ PlayerName(e) = n
  BY DEF Others
<1>4. /\ char[d] \in Person /\ char[d] \notin list /\ orig[d] = None
      /\ desc[char[d]] = d /\ n \in Name
  BY <1>2 DEF IInv, TypeOK, Shape, Linked, InWorld
<1> HIDE DEF D
<1>5. \A e \in Session \ D : e # d =>
        conn'[e] = conn[e] /\ PlayerName(e)' = PlayerName(e)
  <2> SUFFICES ASSUME NEW e \in Session \ D, e # d
               PROVE  conn'[e] = conn[e] /\ PlayerName(e)' = PlayerName(e)
    OBVIOUS
  <2>1. conn'[e] = conn[e] /\ char'[e] = char[e] /\ orig'[e] = orig[e]
    BY <1>1, <1>2 DEF ConnAfter, CharAfter, OrigAfter
  <2>2. char[e] # None => /\ Self(e) \in Person
                          /\ NameAfter(D)[Self(e)] = name[Self(e)]
    BY <1>3, OthersKept
  <2>3. char[e] # None => Self(e) # char[d]
    BY <1>4 DEF Self, IInv, TypeOK, Shape, Linked, InWorld
  <2>4. NameAfter(D) \in [Person -> Name \cup {None}]
    BY DEF NameAfter, IInv, TypeOK
  <2> QED BY <1>1, <2>1, <2>2, <2>3, <2>4 DEF PlayerName, Self
<1>6. \A e \in D : conn'[e] = "closed"
  BY <1>2, <1>3 DEF ConnAfter
<1>7. \A c \in Person \cap list : name'[c] = name[c]
  BY <1>1, <1>4 DEF NameAfter
<1>8. conn'[d] = "playing" /\ PlayerName(d)' = n
  <2>1. conn'[d] = "playing" /\ char'[d] = b /\ orig'[d] = None
    BY <1>1, <1>2, <1>3, <1>4 DEF ConnAfter, CharAfter, OrigAfter
  <2> QED BY <1>1, <1>7, <2>1 DEF PlayerName, Self
<1>9. R!InGame(n)
  <2>1. \A e \in Session : conn[e] = "playing" /\ Self(e) = b => Plays[e] = n
    BY <1>1, PlayerBody DEF Plays
  <2> QED BY <1>1, <1>4, <2>1, BodyInGame DEF R!InGame
<1>10. Plays' = [e \in Session |-> IF e = d THEN n
                                   ELSE IF Plays[e] = n THEN None ELSE Plays[e]]
  BY <1>3, <1>4, <1>5, <1>6, <1>8 DEF Plays
<1>11. Asks' = [e \in Session |-> IF Asks[e] = n THEN None ELSE Asks[e]]
  BY <1>2, <1>3, <1>4, <1>5, <1>6, <1>8 DEF Asks
<1>12. \A c \in Person : Adrift(c)' <=> Adrift(c) /\ c # b
  <2> SUFFICES ASSUME NEW c \in Person PROVE Adrift(c)' <=> Adrift(c) /\ c # b
    OBVIOUS
  <2>1. c = b => ~Adrift(c)'
    BY <1>1, <1>4 DEF Adrift, DescAfter
  <2>2. c # b => (Adrift(c)' <=> /\ c \in list
                                 /\ desc[c] = None \/ desc[c] \in D
                                 /\ \A e \in Session \ D : orig[e] # c)
    <3>1. c \in list' <=> c \in list
      BY <1>2
    <3>2. \A e \in Session : orig'[e] # c <=> e \in D \/ orig[e] # c
      BY <1>2 DEF OrigAfter
    <3>3. c # b /\ c # char[d] => desc'[c] = DescAfter(D)[c]
      BY <1>1, <1>4 DEF DescAfter
    <3>4. DescAfter(D)[c] = None <=> desc[c] = None \/ desc[c] \in D
      BY <1>3 DEF DescAfter, IInv, TypeOK
    <3> QED BY <1>4, <3>1, <3>2, <3>3, <3>4 DEF Adrift
  <2>3. ASSUME c \in list, desc[c] \in D PROVE c = b
    <3>1. char[desc[c]] = c /\ orig[desc[c]] = None
      BY <1>3, <2>3 DEF IInv, TypeOK, Linked, InWorld
    <3>2. name[c] = n
      BY <1>3, <2>3, <3>1 DEF PlayerName, Self
    <3> QED BY <1>1, <2>3, <3>2 DEF UInv, OneBodyPerName
  <2>4. ASSUME NEW e \in D, orig[e] = c PROVE c = b
    <3>1. c \in list /\ name[c] = n
      BY <1>3, <2>4 DEF PlayerName, Self, IInv, TypeOK, InWorld, Linked, Shape
    <3> QED BY <1>1, <3>1 DEF UInv, OneBodyPerName
  <2> QED BY <2>1, <2>2, <2>3, <2>4 DEF Adrift
<1>13. Linkdead' = Linkdead \ {n}
  <2>1. \A c \in Person : Adrift(c) => name'[c] = name[c]
    BY <1>7 DEF Adrift
  <2>2. \A c \in Person : Adrift(c) /\ name[c] = n => c = b
    BY <1>1 DEF Adrift, UInv, OneBodyPerName
  <2> QED BY <1>1, <1>12, <2>1, <2>2 DEF Linkdead
<1>14. Asks[d] = n
  BY <1>2 DEF Asks
<1>15. R!Displace(d, n)
  BY <1>9, <1>10, <1>11, <1>13, <1>14 DEF R!Displace
<1> QED BY <1>4, <1>15 DEF R!Next

(* Every step of the login code is a step of Roll, or none. *)
LEMMA StepRoll ==
  ASSUME "create" \notin Optional, IInv, IInv', UInv, Next
  PROVE  R!Next \/ UNCHANGED <<Plays, Asks, Linkdead>>
<1> USE NoneAssumption, KindAssumption DEF Body
<1>1. ASSUME NEW d \in Session, LogIn(d)
      PROVE  R!Next \/ UNCHANGED <<Plays, Asks, Linkdead>>
  <2>1. CASE Connect(d)
    <3>1. Unmoved
      BY <2>1 DEF Connect, Unmoved, Adrift, PlayerName, Self, bodyVars, IInv, TypeOK
    <3> QED BY <3>1, UnmovedRoll
  <2>2. CASE \E b \in Person : MenuConnect(d, b) \/ MenuAdd(d, b)
    <3>1. Unmoved
      BY <2>2 DEF MenuConnect, MenuAdd, NewPerson, Free, Unmoved, Adrift,
         PlayerName, Self, bodyVars, IInv, TypeOK
    <3> QED BY <3>1, UnmovedRoll
  <2>3. CASE NameEmpty(d)
    <3>1. Unmoved
      BY <2>3 DEF NameEmpty, Unmoved, Adrift, PlayerName, Self, bodyVars, IInv,
         TypeOK, InWorld
    <3> QED BY <3>1, UnmovedRoll
  <2>4. CASE \E n \in Name : NameGivenFresh(d, n)
    <3>1. PICK n \in Name : NameGivenFresh(d, n)
      BY <2>4
    <3>2. /\ conn[d] = "name" /\ conn' = [conn EXCEPT ![d] = "motd"]
          /\ name' = [name EXCEPT ![char[d]] = n]
          /\ UNCHANGED <<char, orig, desc, list>>
      BY <3>1 DEF NameGivenFresh
    <3>3. /\ char[d] \in Person /\ char[d] \notin list /\ orig[d] = None
          /\ desc[char[d]] = d
      BY <3>2 DEF IInv, TypeOK, Shape, Linked, InWorld
    <3>4. \A e \in Session \ {d} : PlayerName(e)' = PlayerName(e)
      <4> SUFFICES ASSUME NEW e \in Session \ {d}
                   PROVE  PlayerName(e)' = PlayerName(e)
        OBVIOUS
      <4>1. char[e] # None => Self(e) \in Person /\ Self(e) # char[d]
        BY <3>3 DEF Self, IInv, TypeOK, Shape, Linked, InWorld
      <4> QED BY <3>2, <4>1 DEF PlayerName, Self, IInv, TypeOK
    <3>5. Unmoved
      BY <3>2, <3>3, <3>4 DEF Unmoved, Adrift, IInv, TypeOK
    <3> QED BY <3>5, UnmovedRoll
  <2>5. CASE (\E n \in Name : CreateName(d, n)) \/ CreateDone(d)
    BY <2>5 DEF CreateName, CreateDone, UInv, Entering
  <2> QED BY <1>1, <2>1, <2>2, <2>3, <2>4, <2>5, EnterRoll, ResumeRoll,
         AskRoll, DisplaceRoll, FindsNobodyRoll DEF LogIn
<1>2. ASSUME NEW d \in Session, Leave(d)
      PROVE  R!Next \/ UNCHANGED <<Plays, Asks, Linkdead>>
  <2>1. CASE \/ \E n \in Name : DeleteChar(d, n) \/ WipeUnseen(d, n)
             \/ \E A \in SUBSET Name : DeleteAccount(d, A)
    <3>1. Unmoved
      BY <2>1 DEF DeleteChar, WipeUnseen, DeleteAccount, Unmoved, Adrift,
         PlayerName, Self, IInv, TypeOK
    <3> QED BY <3>1, UnmovedRoll
  <2>2. CASE IdleBoot(d) \/ \E e \in Session : Wipe(d, e)
    BY <2>2, ExpelRoll DEF IdleBoot, Wipe
  <2> QED BY <1>2, <2>1, <2>2, DisconnectRoll, QuitRoll,
         DieAsBeastRoll DEF Leave
<1>3. ASSUME NEW d \in Session, Play(d)
      PROVE  R!Next \/ UNCHANGED <<Plays, Asks, Linkdead>>
  <2>1. CASE \E m \in Beast : Switch(d, m) \/ Disguise(d, m) \/ Lycanthrope(d, m)
    <3>1. PICK m \in Beast : Wear(d, m) /\ desc[m] = None
      BY <2>1 DEF Switch, Disguise, Lycanthrope, Free
    <3>2. /\ conn[d] = "playing" /\ orig[d] = None /\ conn' = conn
          /\ char' = [char EXCEPT ![d] = m]
          /\ orig' = [orig EXCEPT ![d] = char[d]]
          /\ desc' = [desc EXCEPT ![char[d]] = None, ![m] = d]
          /\ list' = list \cup {m} /\ name' = name
      BY <3>1 DEF Wear
    <3>3. char[d] \in Person /\ char[d] # None /\ desc[char[d]] = d /\ m # None
      BY <3>2 DEF IInv, TypeOK, Shape, Linked, InWorld
    <3>4. \A e \in Session : PlayerName(e)' = PlayerName(e)
      BY <3>2, <3>3 DEF PlayerName, Self, IInv, TypeOK
    <3>5. \A b \in Person : Adrift(b)' <=> Adrift(b)
      BY <3>2, <3>3 DEF Adrift, IInv, TypeOK
    <3>6. Unmoved
      BY <3>2, <3>4, <3>5 DEF Unmoved
    <3> QED BY <3>6, UnmovedRoll
  <2>2. CASE Return(d)
    <3>1. /\ orig[d] # None /\ conn' = conn
          /\ char' = [char EXCEPT ![d] = orig[d]]
          /\ orig' = [orig EXCEPT ![d] = None]
          /\ desc' = [desc EXCEPT ![char[d]] = None, ![orig[d]] = d]
          /\ list' \in {list, list \ {char[d]}} /\ name' = name
      BY <2>2 DEF Return
    <3>2. char[d] \in Beast /\ orig[d] \in Person /\ desc[orig[d]] = None
      BY <3>1 DEF IInv, TypeOK, InWorld
    <3>3. \A e \in Session : PlayerName(e)' = PlayerName(e)
      BY <3>1, <3>2 DEF PlayerName, Self, IInv, TypeOK
    <3>4. \A b \in Person : Adrift(b)' <=> Adrift(b)
      BY <3>1, <3>2 DEF Adrift, IInv, TypeOK, OrigOnce
    <3>5. Unmoved
      BY <3>1, <3>3, <3>4 DEF Unmoved
    <3> QED BY <3>5, UnmovedRoll
  <2>3. CASE (\E e \in Session : Snoop(d, e)) \/ StopSnoop(d)
    <3>1. Unmoved
      BY <2>3 DEF Snoop, StopSnoop, Unmoved, Adrift, PlayerName, Self, bodyVars
    <3> QED BY <3>1, UnmovedRoll
  <2> QED BY <1>3, <2>1, <2>2, <2>3 DEF Play
<1>4. CASE \E m \in Beast : BeastDies(m)
  <2>1. Unmoved
    BY <1>4 DEF BeastDies, Unmoved, Adrift, PlayerName, Self
  <2> QED BY <2>1, UnmovedRoll
<1> QED BY <1>1, <1>2, <1>3, <1>4, TimeoutRoll, PurgeRoll DEF Next

(* The login code implements the roll of characters, while no character is *)
(* being created: no session takes over a character another one plays      *)
(* without being asked, and a lost link leaves it in the game.             *)
THEOREM RollImplemented ==
  ASSUME "create" \notin Optional
  PROVE  Spec => ImplementsRoll
<1>1. Init => R!Init
  BY DEF Init, R!Init, Plays, Asks, Linkdead, Adrift
<1>2. Init => UInv
  BY DEF Init, UInv, OneBodyPerName, Entering
<1>3. IInv /\ UInv /\ [Next]_vars => UInv'
  <2>1. CASE UNCHANGED vars
    BY <2>1 DEF vars, UInv, OneBodyPerName, Entering
  <2> QED BY <2>1, StepUnique
<1>4. IInv /\ IInv' /\ UInv /\ [Next]_vars => [R!Next]_<<Plays, Asks, Linkdead>>
  <2>1. CASE UNCHANGED vars
    BY <2>1 DEF vars, Plays, Asks, Linkdead, Adrift, PlayerName, Self
  <2> QED BY <2>1, StepRoll
<1>5. Spec => R!Init /\ [][R!Next]_<<Plays, Asks, Linkdead>>
  BY <1>1, <1>2, <1>3, <1>4, Invariant, PTL DEF Spec
<1> QED BY <1>5 DEF ImplementsRoll, R!Spec, R!vars

-----------------------------------------------------------------------------
(* Whoever plays stays the same player until the session leaves the game:  *)
(* no switch, disguise, return, reconnection of others or purge puts a     *)
(* session into another character.                                         *)
SamePlayer ==
  [][\A d \in Session : conn[d] = "playing" /\ conn'[d] = "playing"
       => Self(d)' = Self(d) /\ PlayerName(d)' = PlayerName(d)]_vars

(* A step of SamePlayer's box, without the subscript. *)
Same == \A d \in Session : conn[d] = "playing" /\ conn'[d] = "playing"
          => Self(d)' = Self(d) /\ PlayerName(d)' = PlayerName(d)

(* Bodies in the world keep their names, but for those deleted. *)
LEMMA SameBody ==
  ASSUME IInv, IInv',
         \A d \in Session : conn[d] = "playing" /\ conn'[d] = "playing" =>
           Self(d)' = Self(d) /\ name'[Self(d)] = name[Self(d)]
  PROVE  Same
<1> USE NoneAssumption, KindAssumption DEF Body
<1>1. \A d \in Session : conn[d] = "playing" => char[d] # None
  BY DEF IInv, InWorld
<1>2. \A d \in Session : conn'[d] = "playing" => char'[d] # None
  BY DEF IInv, InWorld
<1> QED BY <1>1, <1>2 DEF Same, PlayerName

LEMMA StepSame ==
  ASSUME IInv, IInv', Next
  PROVE  Same
<1> USE NoneAssumption, KindAssumption DEF Body
<1> DEFINE Steady == \A d \in Session : conn[d] = "playing" /\ conn'[d] = "playing" =>
                       /\ Self(d)' = Self(d) /\ name'[Self(d)] = name[Self(d)]
<1>0. Steady => Same
  BY SameBody
<1>p. \A d \in Session : conn[d] = "playing" =>
        /\ Self(d) \in Person \cap list
        /\ desc[Self(d)] \in {d, None}
  BY PlayerBody DEF Self, IInv, TypeOK, Linked, InWorld
<1>d. \A D \in SUBSET Session, e \in Session :
        e \notin D /\ conn[e] = "playing" =>
          NameAfter(D)[Self(e)] = name[Self(e)]
  BY <1>p DEF NameAfter
<1>1. ASSUME NEW d \in Session, LogIn(d) PROVE Steady
  <2>1. CASE \/ Connect(d) \/ CreateDone(d) \/ EnterGame(d) \/ NameEmpty(d)
             \/ \E b \in Person : MenuConnect(d, b) \/ MenuAdd(d, b)
    BY <2>1 DEF Connect, CreateDone, EnterGame, NameEmpty, MenuConnect,
       MenuAdd, NewPerson, bodyVars, Self, IInv, TypeOK
  <2>2. CASE \E n \in Name : \/ NameGivenConnected(d, n)
                             \/ NameGivenFresh(d, n)
                             \/ CreateName(d, n)
    <3>1. /\ conn[d] \in {"name", "create"} /\ UNCHANGED <<char, orig>>
          /\ \E n \in Name : name' = [name EXCEPT ![char[d]] = n]
      BY <2>2 DEF NameGivenConnected, NameGivenFresh, CreateName
    <3>2. char[d] \notin list
      BY <3>1 DEF IInv, TypeOK, InWorld
    <3> QED BY <1>p, <3>1, <3>2 DEF Self, IInv, TypeOK
  <2>3. CASE \E n \in Name : NameGivenLinkdead(d, n)
    <3>1. PICK b \in Person \cap list :
            /\ conn[d] = "name" /\ UNCHANGED orig
            /\ char' = [char EXCEPT ![d] = b]
            /\ name' = [name EXCEPT ![char[d]] = None]
      BY <2>3 DEF NameGivenLinkdead, Abandoned, TakeOver
    <3>2. char[d] \notin list
      BY <3>1 DEF IInv, TypeOK, InWorld
    <3> QED BY <1>p, <3>1, <3>2 DEF Self, IInv, TypeOK
  <2>4. CASE ReconnectTakesOver(d)
    <3> DEFINE D == Others(d, PlayerName(d))
    <3>1. PICK b \in Person \cap list :
            /\ char' = [CharAfter(D) EXCEPT ![d] = b]
            /\ name' = [NameAfter(D) EXCEPT ![char[d]] = None]
      BY <2>4 DEF ReconnectTakesOver
    <3>2. /\ conn[d] = "discon" /\ conn' = [ConnAfter(D) EXCEPT ![d] = "playing"]
          /\ orig' = OrigAfter(D) /\ char[d] \notin list
      BY <2>4 DEF ReconnectTakesOver, IInv, TypeOK, InWorld
    <3>3. D \in SUBSET Session
      BY DEF Others
    <3> HIDE DEF D
    <3>4. ASSUME NEW e \in Session, conn[e] = "playing", conn'[e] = "playing"
          PROVE  Self(e)' = Self(e) /\ name'[Self(e)] = name[Self(e)]
      <4>1. e # d /\ e \notin D
        BY <3>2, <3>4 DEF ConnAfter
      <4>2. char'[e] = char[e] /\ orig'[e] = orig[e]
        BY <3>1, <3>2, <4>1 DEF CharAfter, OrigAfter
      <4>3. name'[Self(e)] = NameAfter(D)[Self(e)]
        BY <1>p, <3>1, <3>2, <3>4 DEF NameAfter
      <4> QED BY <1>d, <3>3, <3>4, <4>1, <4>2, <4>3 DEF Self
    <3> QED BY <3>4
  <2>5. CASE ReconnectFindsNobody(d)
    <3>1. PICK D \in SUBSET Session : DeleteSessions(D)
      BY <2>5 DEF ReconnectFindsNobody, Others
    <3> QED BY <1>d, <3>1 DEF DeleteSessions, ConnAfter, CharAfter, OrigAfter, Self
  <2> QED BY <1>1, <2>1, <2>2, <2>3, <2>4, <2>5 DEF LogIn
<1>2. ASSUME NEW d \in Session, Leave(d) PROVE Steady
  <2>1. CASE \/ \E n \in Name : DeleteChar(d, n) \/ WipeUnseen(d, n)
             \/ \E A \in SUBSET Name : DeleteAccount(d, A)
    BY <2>1 DEF DeleteChar, WipeUnseen, DeleteAccount, Self
  <2>2. CASE Disconnect(d)
    <3>1. {d} \in SUBSET Session
      OBVIOUS
    <3> QED BY <1>d, <2>2, <3>1 DEF Disconnect, DeleteSessions, ConnAfter, CharAfter,
       OrigAfter, Self
  <2>3. ASSUME NEW e \in Session, Quit(e) \/ Expel(e) PROVE Steady
    <3>1. /\ conn[e] = "playing" /\ orig[e] = None /\ conn'[e] # "playing"
          /\ \A f \in Session \ {e} : char'[f] = char[f] /\ orig'[f] = orig[f]
          /\ name' = [name EXCEPT ![char[e]] = None]
      BY <2>3 DEF Quit, BackToMenu, Expel, Remove, ConnAfter, CharAfter,
         OrigAfter, IInv, TypeOK
    <3>2. \A f \in Session \ {e} : conn[f] = "playing" => Self(f) # char[e]
      BY <3>1, SelfOnce DEF Self
    <3> QED BY <1>p, <3>1, <3>2 DEF Self, IInv, TypeOK
  <2>4. CASE DieAsBeast(d)
    <3>1. /\ conn[d] = "playing" /\ Self(d) = orig[d] /\ conn'[d] # "playing"
          /\ \A f \in Session \ {d} : char'[f] = char[f] /\ orig'[f] = orig[f]
          /\ name' = [name EXCEPT ![orig[d]] = None]
      BY <2>4 DEF DieAsBeast, BackToMenu, Self, IInv, TypeOK, Shape
    <3>2. \A f \in Session \ {d} : conn[f] = "playing" => Self(f) # orig[d]
      BY <3>1, SelfOnce
    <3> QED BY <1>p, <3>1, <3>2 DEF Self, IInv, TypeOK
  <2> QED BY <1>2, <2>1, <2>2, <2>3, <2>4 DEF Leave, IdleBoot, Wipe
<1>3. ASSUME NEW d \in Session, Play(d) PROVE Steady
  <2>1. CASE Return(d)
    BY <2>1 DEF Return, Self, IInv, TypeOK
  <2>2. CASE \E m \in Beast : Switch(d, m) \/ Disguise(d, m) \/ Lycanthrope(d, m)
    BY <2>2 DEF Switch, Disguise, Lycanthrope, Wear, Self, IInv, TypeOK, InWorld
  <2>3. CASE (\E e \in Session : Snoop(d, e)) \/ StopSnoop(d)
    BY <2>3 DEF Snoop, StopSnoop, bodyVars, Self
  <2> QED BY <1>3, <2>1, <2>2, <2>3 DEF Play
<1>4. ASSUME NEW b \in Person, LdeadTimeout(b) PROVE Steady
  <2>1. b \in list /\ desc[b] = None /\ name' = [name EXCEPT ![b] = None]
    BY <1>4 DEF LdeadTimeout
  <2>2. ASSUME NEW e \in Session, conn[e] = "playing", conn'[e] = "playing"
        PROVE  char'[e] = char[e] /\ orig'[e] = orig[e] /\ Self(e) # b
    <3>1. orig[e] # b
      BY <1>4, <2>2 DEF LdeadTimeout, BackToMenu, IInv, TypeOK, OrigOnce
    <3>2. char[e] # b
      BY <2>1, <2>2 DEF IInv, TypeOK, InWorld, Linked
    <3>3. char'[e] = char[e] /\ orig'[e] = orig[e]
      BY <1>4, <2>2 DEF LdeadTimeout, BackToMenu, IInv, TypeOK
    <3> QED BY <3>1, <3>2, <3>3 DEF Self
  <2> QED BY <1>p, <2>1, <2>2 DEF Self, IInv, TypeOK
<1>5. ASSUME PurgeLdead PROVE Steady
  <2> DEFINE D == {d \in Session : conn[d] # "closed" /\ PlayerName(d) = None}
             L == {b \in Person \cap list : /\ desc[b] = None
                                            /\ \A d \in Session : orig[d] # b}
  <2>1. /\ conn' = ConnAfter(D) /\ char' = CharAfter(D) /\ orig' = OrigAfter(D)
        /\ name' = [b \in Person |-> IF b \in L THEN None ELSE NameAfter(D)[b]]
        /\ D \in SUBSET Session
    BY <1>5 DEF PurgeLdead
  <2>2. \A e \in Session : conn[e] = "playing" => Self(e) \notin L
    BY DEF Self, IInv, TypeOK, Linked, InWorld
  <2> HIDE DEF D, L
  <2>3. ASSUME NEW e \in Session, conn[e] = "playing", conn'[e] = "playing"
        PROVE  Self(e)' = Self(e) /\ name'[Self(e)] = name[Self(e)]
    <3>1. e \notin D
      BY <2>1, <2>3 DEF ConnAfter
    <3>2. char'[e] = char[e] /\ orig'[e] = orig[e]
      BY <2>1, <3>1 DEF CharAfter, OrigAfter
    <3>3. name'[Self(e)] = NameAfter(D)[Self(e)]
      BY <1>p, <2>1, <2>2, <2>3
    <3> QED BY <1>d, <2>1, <2>3, <3>1, <3>2, <3>3 DEF Self
  <2> QED BY <2>3
<1>6. ASSUME NEW m \in Beast, BeastDies(m) PROVE Steady
  <2>1. UNCHANGED <<char, orig, name>>
    BY <1>6 DEF BeastDies
  <2> QED BY <2>1 DEF Self
<1> QED BY <1>0, <1>1, <1>2, <1>3, <1>4, <1>5, <1>6 DEF Next

(* Nobody who plays becomes another player. *)
THEOREM PlayersKeepTheirCharacter == Spec => SamePlayer
<1>1. IInv /\ IInv' /\ [Next]_vars => [Same]_vars
  BY StepSame
<1> QED BY <1>1, Invariant, PTL DEF Spec, SamePlayer, Same

-----------------------------------------------------------------------------
(* Beasts that a transformation made. *)

(* What FormsHavePlayers rests on: such a beast is listed, and played.     *)
FormsWorn == \A m \in form : m \in list /\ desc[m] # None

LEMMA StepForms ==
  ASSUME IInv, FormsWorn, Next
  PROVE  FormsWorn'
<1> USE NoneAssumption, KindAssumption DEF Body
<1> DEFINE Kept2 == /\ form' \subseteq form
                    /\ \A m \in form' : m \in list' /\ desc'[m] = desc[m]
<1>0. Kept2 => FormsWorn'
  BY DEF FormsWorn
<1>f. /\ \A m \in form : m \in list /\ m \in Beast
      /\ \A d \in Session : char[d] # None => desc[char[d]] = d
      /\ \A b \in Body : desc[b] # None => char[desc[b]] = b
      /\ \A b \in Person : b \notin Beast /\ b # None
  BY DEF FormsWorn, IInv, TypeOK, Linked
<1>1. ASSUME NEW d \in Session, LogIn(d) PROVE Kept2
  <2>1. CASE \/ Connect(d) \/ CreateDone(d) \/ EnterGame(d)
             \/ \E n \in Name : \/ NameGivenConnected(d, n)
                                \/ NameGivenFresh(d, n)
                                \/ CreateName(d, n)
    <3>1. /\ conn[d] # "playing" /\ UNCHANGED <<char, desc, form>>
          /\ list \subseteq list'
          /\ \A e \in Session \ {d} : conn'[e] = conn[e]
      BY <2>1 DEF Connect, CreateDone, EnterGame, NameGivenConnected,
         NameGivenFresh, CreateName, bodyVars, IInv, TypeOK
    <3>2. char[d] \notin Beast
      BY <3>1 DEF IInv, TypeOK, Shape
    <3> QED BY <1>f, <3>1, <3>2
  <2>2. CASE NameEmpty(d) \/ \E b \in Person : MenuConnect(d, b) \/ MenuAdd(d, b)
    BY <1>f, <2>2 DEF NameEmpty, MenuConnect, MenuAdd, NewPerson, Free,
       bodyVars, IInv, TypeOK, InWorld
  <2>3. CASE \E n \in Name : NameGivenLinkdead(d, n)
    <3>1. PICK b \in Person :
            /\ conn[d] = "name" /\ conn' = [conn EXCEPT ![d] = "playing"]
            /\ UNCHANGED <<list, form>>
            /\ char' = [char EXCEPT ![d] = b]
            /\ desc' = [desc EXCEPT ![char[d]] = None, ![b] = d]
      BY <2>3 DEF NameGivenLinkdead, Abandoned, TakeOver
    <3>2. char[d] \notin list
      BY <3>1 DEF IInv, TypeOK, InWorld
    <3> QED BY <1>f, <3>1, <3>2 DEF IInv, TypeOK
  <2>4. CASE ReconnectTakesOver(d)
    <3> DEFINE D == Others(d, PlayerName(d))
    <3>1. PICK b \in Person :
            /\ char' = [CharAfter(D) EXCEPT ![d] = b]
            /\ desc' = [DescAfter(D) EXCEPT ![char[d]] = None, ![b] = d]
      BY <2>4 DEF ReconnectTakesOver
    <3>2. /\ conn[d] = "discon" /\ conn' = [ConnAfter(D) EXCEPT ![d] = "playing"]
          /\ list' = list \ Shed(D) /\ form' = form \ Shed(D)
          /\ char[d] \notin list
      BY <2>4 DEF ReconnectTakesOver, IInv, TypeOK, InWorld
    <3>3. D \in SUBSET Session
      BY DEF Others
    <3> HIDE DEF D
    <3>5. ASSUME NEW m \in form' PROVE m \in list' /\ desc'[m] = desc[m]
      <4>1. m \in form /\ m \notin Shed(D) /\ m # b /\ m # char[d]
        BY <1>f, <3>2
      <4> QED BY <1>f, <3>1, <3>2, <4>1 DEF DescAfter, Shed
    <3> QED BY <3>2, <3>5 DEF Shed
  <2>5. CASE ReconnectFindsNobody(d)
    <3>1. PICK D \in SUBSET Session : DeleteSessions(D)
      BY <2>5 DEF ReconnectFindsNobody, Others
    <3> QED BY <1>f, <3>1 DEF DeleteSessions, ConnAfter, CharAfter, DescAfter, Shed
  <2> QED BY <1>1, <2>1, <2>2, <2>3, <2>4, <2>5 DEF LogIn
<1>2. ASSUME NEW d \in Session, Leave(d) PROVE Kept2
  <2>1. CASE \/ \E n \in Name : DeleteChar(d, n) \/ WipeUnseen(d, n)
             \/ \E A \in SUBSET Name : DeleteAccount(d, A)
    BY <1>f, <2>1 DEF DeleteChar, WipeUnseen, DeleteAccount, IInv, TypeOK, InWorld
  <2>2. CASE Disconnect(d)
    <3>1. {d} \in SUBSET Session
      OBVIOUS
    <3> QED BY <1>f, <2>2, <3>1 DEF Disconnect, DeleteSessions, ConnAfter, CharAfter,
       DescAfter, Shed
  <2>3. ASSUME NEW e \in Session, Quit(e) \/ Expel(e) PROVE Kept2
    <3>1. /\ conn[e] = "playing" /\ orig[e] = None
          /\ \A f \in Session \ {e} : char'[f] = char[f] /\ conn'[f] = conn[f]
          /\ char'[e] = None /\ form' = form /\ list' = list \ {char[e]}
          /\ desc' = DescAfter({e})
      BY <2>3 DEF Quit, BackToMenu, Expel, Remove, ConnAfter, CharAfter,
         IInv, TypeOK
    <3>2. char[e] \in Person
      BY <3>1 DEF IInv, TypeOK, Shape, InWorld
    <3> QED BY <1>f, <3>1, <3>2 DEF DescAfter
  <2>4. CASE DieAsBeast(d)
    <3>1. orig[d] \in Person /\ desc' = DescAfter({d}) /\ form' = form \ {char[d]}
          /\ list' \in {list \ {orig[d]}, list \ {orig[d], char[d]}}
      BY <2>4 DEF DieAsBeast, BackToMenu, IInv, TypeOK
    <3> QED BY <1>f, <3>1 DEF DescAfter
  <2> QED BY <1>2, <2>1, <2>2, <2>3, <2>4 DEF Leave, IdleBoot, Wipe
<1>3. ASSUME NEW d \in Session, Play(d) PROVE FormsWorn'
  <2>1. ASSUME NEW m \in Beast, Wear(d, m), desc[m] = None,
               form' \in {form, form \cup {m}}
        PROVE  FormsWorn'
    <3>1. char[d] \in Person /\ m # None
      BY <2>1 DEF Wear, IInv, TypeOK, Shape, InWorld
    <3>2. m \notin form
      BY <2>1 DEF FormsWorn
    <3>3. /\ list' = list \cup {m}
          /\ desc' = [desc EXCEPT ![char[d]] = None, ![m] = d]
      BY <2>1 DEF Wear
    <3> QED BY <1>f, <2>1, <3>1, <3>2, <3>3 DEF FormsWorn, IInv, TypeOK
  <2>2. CASE \E m \in Beast : Switch(d, m) \/ Disguise(d, m) \/ Lycanthrope(d, m)
    BY <2>1, <2>2 DEF Switch, Disguise, Lycanthrope, Free
  <2>3. CASE Return(d)
    <3>1. /\ orig[d] # None /\ conn' = conn
          /\ char' = [char EXCEPT ![d] = orig[d]]
          /\ desc' = [desc EXCEPT ![char[d]] = None, ![orig[d]] = d]
          /\ list' \in {list, list \ {char[d]}} /\ form' = form \ {char[d]}
          /\ orig[d] \in Person /\ char[d] \in Beast
      BY <2>3 DEF Return, IInv, TypeOK, InWorld
    <3>2. Kept2
      BY <1>f, <3>1 DEF IInv, TypeOK
    <3> QED BY <1>0, <3>2
  <2>4. CASE (\E e \in Session : Snoop(d, e)) \/ StopSnoop(d)
    <3>1. Kept2
      BY <1>f, <2>4 DEF Snoop, StopSnoop, bodyVars
    <3> QED BY <1>0, <3>1
  <2> QED BY <1>3, <2>1, <2>2, <2>3, <2>4 DEF Play
<1>4. ASSUME NEW b \in Person, LdeadTimeout(b) PROVE Kept2
  <2>1. CASE list' = list \ {b} /\ UNCHANGED <<conn, char, desc, form>>
    BY <1>f, <2>1
  <2>2. ASSUME NEW d \in Session, BackToMenu(d), form' = form \ Shed({d}),
               list' = list \ (Shed({d}) \cup {b})
        PROVE  Kept2
    BY <1>f, <2>2 DEF BackToMenu, DescAfter, Shed, IInv, TypeOK
  <2> QED BY <1>4, <2>1, <2>2 DEF LdeadTimeout
<1>5. ASSUME PurgeLdead PROVE Kept2
  <2>1. PICK D \in SUBSET Session, L \in SUBSET Person :
          /\ conn' = ConnAfter(D) /\ char' = CharAfter(D)
          /\ desc' = DescAfter(D) /\ list' = list \ (Shed(D) \cup L)
          /\ form' = form \ Shed(D)
    <3> DEFINE D == {d \in Session : conn[d] # "closed" /\ PlayerName(d) = None}
               L == {b \in Person \cap list : /\ desc[b] = None
                                              /\ \A d \in Session : orig[d] # b}
    <3> WITNESS D \in SUBSET Session, L \in SUBSET Person
    <3> QED BY <1>5 DEF PurgeLdead
  <2> QED BY <1>f, <2>1 DEF ConnAfter, CharAfter, DescAfter, Shed
<1>6. ASSUME NEW m \in Beast, BeastDies(m) PROVE Kept2
  BY <1>f, <1>6 DEF BeastDies, FormsWorn
<1> QED BY <1>0, <1>1, <1>2, <1>3, <1>4, <1>5, <1>6 DEF Next

(* A beast with ACT_POLYSELF always has a player whose own body was left   *)
(* behind, whatever befalls the beast, that body and the connection.       *)
THEOREM FormsPlayed == Spec => []FormsHavePlayers
<1>1. Init => FormsWorn
  BY DEF Init, FormsWorn
<1>2. IInv /\ FormsWorn /\ [Next]_vars => FormsWorn'
  <2>1. CASE UNCHANGED vars
    BY <2>1 DEF vars, FormsWorn
  <2> QED BY <2>1, StepForms
<1>3. IInv /\ FormsWorn => FormsHavePlayers
  BY NoneAssumption, KindAssumption
     DEF FormsWorn, FormsHavePlayers, IInv, TypeOK, Linked, Shape, Body
<1> QED BY <1>1, <1>2, <1>3, Invariant, PTL DEF Spec
=============================================================================
