SPECIFICATION FairSpec
CONSTANTS
  MaxUsers = 1
  IntervaloCerrarConexion = 2
  MaxQueue = 1
  MaxConn = 2
PROPERTIES
  DroppedIsFreed
