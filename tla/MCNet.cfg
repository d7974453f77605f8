SPECIFICATION Spec
CONSTANTS
  MaxUsers = 2
  IntervaloCerrarConexion = 1
  MaxQueue = 2
  MaxConn = 2
INVARIANTS
  SockMapOK
  NetReleased
  DroppedIsLeaving
  NumUsersExact
  NoStall
PROPERTIES
  RestartFreesAll
  ImplementsSlotLife
