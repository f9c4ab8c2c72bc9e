SPECIFICATION Spec
CONSTANTS
  Session = {s1, s2, s3}
  Person = {p1, p2, p3, p4}
  Beast = {m1}
  mortal = mortal
  god = god
  elder = elder
  Name = {mortal, god, elder}
  Level <- MCLevel
  Optional = {"disguise"}
  None = None
SYMMETRY Sym
PROPERTIES
  LdeadTimerHitsLdead
