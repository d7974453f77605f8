\* Neither invariant holds: tlc -continue shows a trace for each.
SPECIFICATION Spec
CONSTANTS
  MaxUsers = 2
  IntervaloCerrarConexion = 1
  MaxQueue = 2
  MaxConn = 2
INVARIANTS
  ReceivedIsOwn
  LastUserCovers
