CONSTANTS
  BufferSize = 2
  NIO = 1
  ByteRange = 2
  MaxConnects = 2
  MaxMoves = 1
  MaxChanges = 0
  LinkMayDrop = TRUE
  Dofs = 2
  Calls = {"modulehandle","disconnect"}
  HandleCounts = {2}
  IoIds = {0}
  Reconnects = TRUE
  MaxInits = 2
  MaxRequests = 0
SPECIFICATION LiveSpec
INVARIANTS WorkersJoined QueuesBounded
PROPERTIES TelemetryStays LinkLossStops JoinsReturn
CHECK_DEADLOCK FALSE
