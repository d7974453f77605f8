CONSTANTS
  Ana = Ana
  Beto = Beto
  Users = {Ana, Beto}
  Stands <- MCStands
  MAX_NORMAL_INVENTORY_SLOTS = 1
  MAX_INVENTORY_SLOTS = 2
  MAX_INVENTORY_OBJS = 2
  IntRange = 14
  NumTiles = 2
  ZONAPELEA = {2}
  NumObjDatas = 8
  ObjData <- MCObjData
  Trait <- MCTrait
  MAX_BANCOINVENTORY_SLOTS = 1
  NpcSlots = 2
  Plantilla <- MCPlantilla
  InvReSpawn = FALSE
  MAXORO = 2
  ProtectedGold = 1
  MaxTirarOro = 1
  iORO = 6
  Gathered = {4}
  NpcDrops = {2, 6, 8}
  Hammer = 1
  MaxBatch = 2
  Weight <- MCWeight
  MaxLoad <- MCMaxLoad
  MaxPile = 3
  MaxHeld = 5
SPECIFICATION Spec
CHECK_DEADLOCK FALSE
INVARIANT NothingOutOfReach
