CONSTANTS
  BufferSize = 2
  NIO = 2
  ByteRange = 4
  MaxConnects = 1
  MaxMoves = 1
  MaxChanges = 2
  LinkMayDrop = TRUE
  Dofs = 2
  Calls = {"modulehandle","getIO","setIO"}
  HandleCounts = {2}
  IoIds = {5}
  Reconnects = FALSE
  MaxInits = 1
  MaxRequests = 1
SPECIFICATION Spec
INVARIANTS TypeOK NoFault ConnectedIsServed AnswersLag
PROPERTIES MirrorSpec AnswersOrdered
CHECK_DEADLOCK FALSE
