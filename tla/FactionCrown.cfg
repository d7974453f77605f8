SPECIFICATION Spec
CONSTANTS
  MAXREP = 2
  vlASALTO = 1
  vlASESINO = 2
  vlNoble = 1
  vlCAZADOR = 1
  vlLadron = 1
  vlProleta = 1
  Parts = 1
  SpellBandit = 2
  SpellNoble = 1
  GuardMurder = 1
  MAXUSERMATADOS = 2
  LimiteNewbie = 0
  Users = {1, 2}
  Players = {1}
  Characters <- MCCharacters
  Creatures <- MCCreatures
  RealLadder <- MCLadder
  CaosLadder <- MCLadder
  MinCrim = 1
  MinCiud = 1
  MinElv = 1
  MinNoble = 1
  MaxReenl = 1
INVARIANT CrownIsClean
