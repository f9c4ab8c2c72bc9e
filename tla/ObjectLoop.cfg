SPECIFICATION FairSpec
CONSTANTS
  lamp = lamp
  sword = sword
  corpse = corpse
  coin = coin
  Object = {lamp, sword, corpse, coin}
  World <- MCWorld
  Part = 4
  None = None
INVARIANTS
  TypeOK
  Listed
  RoundRobin
PROPERTIES
  Served
  ImplementsRota
