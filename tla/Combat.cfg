SPECIFICATION FairSpec
CONSTANTS
  brute = brute
  orc = orc
  troll = troll
  Player = {brute}
  Monster = {orc, troll}
  Berserker = {brute}
  AutoEngage = {brute}
  QuestMob = {troll}
  StrikesBack = {troll}
  Purged = {orc, troll}
  COMBAT = 1
  MaxCount = 2
  Nobody = Nobody
INVARIANTS
  TypeOK
  ListedFight
  NobodyFightsTheFreed
  TurnsInOrder
  NeverTooFew
PROPERTIES
  RoundEnds
  EverybodyHasATurn
