SPECIFICATION VitalsSpec
CONSTANTS
  MaxHp = 2
  MaxMan = 1
  MaxSta = 1
  Mana = 1
  MaxDamage = 2
  IntervaloParalizado = 3
  IntervaloInvisible = 1
  IntervaloOculto = 2
  Jitter = 0
INVARIANT HidersAreRevealed
