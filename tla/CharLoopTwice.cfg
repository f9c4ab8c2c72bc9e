SPECIFICATION Spec
CONSTANTS
  hero = hero
  guard = guard
  rat = rat
  ratling = ratling
  Player = {hero}
  Monster = {guard, rat, ratling}
  World <- MCWorld
  Part = 2
  None = None
INVARIANT DeletedOnce
