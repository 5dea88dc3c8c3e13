CONSTANTS
  StackCalls <- MCStackCalls
  BufferCalls <- MCCalls
SPECIFICATION Spec
INVARIANTS BuffersExact
PROPERTIES ArgumentsArrive ResultsArrive
