CONSTANTS
  BufferSize = 2
  NIO = 1
  ByteRange = 2
  MaxConnects = 2
  MaxMoves = 1
  MaxChanges = 0
  LinkMayDrop = TRUE
  Dofs = 2
  Calls = {}
  HandleCounts = {2}
  IoIds = {0}
  Reconnects = TRUE
  MaxInits = 1
  MaxRequests = 0
SPECIFICATION Spec
INVARIANTS ConnectedIsServed
CHECK_DEADLOCK FALSE
