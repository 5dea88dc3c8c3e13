CONSTANTS
  HeaderLength = 2
  MaxPacketSize = 4
  CountRange = 4
  ClockRange = 8
  Limit = 1
  Receivers = {"in", "out"}
  Sizes = {1, 4}
  MaxMessages = 2
  MaxFailures = 3
  MaxTime = 10
SPECIFICATION LiveSpec
INVARIANTS TypeOK
PROPERTIES TransferSpec Patient Arrives
CHECK_DEADLOCK FALSE
