SPECIFICATION MCSpec
CONSTANTS
  User = {a, b}
  NoOne = NoOne
  Npc = {1, 2}
  FirstKinds <- MCFirstKinds
  Domable <- MCDomable
  MaxHp <- MCMaxHp
  GiveEXP <- MCGiveEXP
  MaxDamage = 1
  IntervaloParalizado = 0
SYMMETRY Symmetry
INVARIANTS
  CombatSound
  DiesOnce
