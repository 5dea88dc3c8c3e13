CONSTANTS
  Descriptors = {0, 1, 2}
  MaxObjects = 2
  MaxLapses = 1
SPECIFICATION Spec
INVARIANTS NumbersOwned NothingLeft SameMemory
