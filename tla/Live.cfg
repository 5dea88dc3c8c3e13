CONSTANTS
  BufferSize = 2
  NIO = 2
  ByteRange = 4
  MaxConnects = 1
  MaxMoves = 0
  MaxChanges = 1
  LinkMayDrop = FALSE
  Dofs = 2
  Calls = {"modulehandle","setIO"}
  HandleCounts = {2}
  IoIds = {0,2,5}
  Reconnects = FALSE
  MaxInits = 1
  MaxRequests = 2
SPECIFICATION LiveSpec
PROPERTIES CallbacksReturn TargetsDrain OutputsReported
CHECK_DEADLOCK FALSE
