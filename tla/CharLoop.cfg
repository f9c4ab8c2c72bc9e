SPECIFICATION FairSpec
CONSTANTS
  hero = hero
  guard = guard
  rat = rat
  ratling = ratling
  Player = {hero}
  Monster = {guard, rat, ratling}
  World <- MCWorld
  Part = 3
  None = None
INVARIANTS
  TypeOK
PROPERTIES
  SomebodyRuns
  EverybodyRuns
