CONSTANTS
  BufferSize = 2
  NIO = 1
  ByteRange = 2
  MaxConnects = 1
  MaxMoves = 1
  MaxChanges = 0
  LinkMayDrop = FALSE
  Dofs = 2
  Calls = {"modulehandle"}
  HandleCounts = {2}
  IoIds = {0}
  Reconnects = FALSE
  MaxInits = 2
  MaxRequests = 0
SPECIFICATION LiveSpec
PROPERTIES CallbacksReturn
CHECK_DEADLOCK FALSE
