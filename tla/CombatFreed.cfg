SPECIFICATION Spec
CONSTANTS
  brute = brute
  orc = orc
  troll = troll
  Player = {brute}
  Monster = {orc, troll}
  Berserker = {brute}
  AutoEngage = {brute}
  QuestMob = {troll}
  StrikesBack = {}
  Purged = {brute, orc, troll}
  COMBAT = 1
  MaxCount = 2
  Nobody = Nobody
INVARIANT
  NobodyFightsTheFreed
