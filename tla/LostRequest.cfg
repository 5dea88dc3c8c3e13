CONSTANTS
  BufferSize = 2
  NIO = 2
  ByteRange = 2
  MaxConnects = 1
  MaxMoves = 0
  MaxChanges = 0
  LinkMayDrop = FALSE
  Dofs = 2
  Calls = {"setIO"}
  HandleCounts = {2}
  IoIds = {0,1}
  Reconnects = FALSE
  MaxInits = 1
  MaxRequests = 2
SPECIFICATION Spec
INVARIANTS NoRequestLost
CHECK_DEADLOCK FALSE
