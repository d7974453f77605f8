SPECIFICATION Spec
CONSTANTS
  MAX_GUILDS = 2
  Name = {a, b}
  Nadie = Nadie
  MAXASPIRANTES = 3
  MaxMiembros = 3
SYMMETRY Symmetry
INVARIANTS
  RegisterSound
  RelationsAreFiled
  RelationsAgree
PROPERTIES
  LeaderIsElected
  VotesStand
