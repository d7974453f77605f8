SPECIFICATION Spec
CONSTANTS
  Side = 2
  Stripe = 1
  Maps = {1, 4}
  NumMaps = 4
  MaxUsers = 2
  MAXNPCS = 2
  MAXCHARS = 3
  MAXMASCOTAS = 1
  Kinds = {1, 2}
  Respawns = {1}
  Domables = {1}
  Invocables = {2}
  Reach = 0
  MaxPets = 2
  Pk = {1}
  NoSpawn = {}
  Blocked <- MCBlocked
  Statuses <- MCStatuses
  Births <- MCBirths
  Starts <- MCStarts
  Warps <- MCWarps
INVARIANT PetsAreOwn
