SPECIFICATION Spec
CONSTANTS
  Session = {s1, s2, s3}
  Person = {p1, p2, p3}
  Beast = {m1, m2}
  mortal = mortal
  god = god
  elder = elder
  Name = {mortal, god, elder}
  Level <- MCLevel
  Optional = {"create", "disguise", "lycanthropy", "deleteaccount",
              "wipe"}
  None = None
SYMMETRY Sym
INVARIANTS
  TypeOK
  Linked
  InWorld
  FormsHavePlayers
PROPERTIES
  HandOver
