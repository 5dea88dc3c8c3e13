CONSTANTS
  sim = sim
  worker = worker
  other = other
  Nobody = Nobody
  Threads <- MCThreads
  Calls <- MCCalls
  MaxCalls = 3
  MaxWakes = 1
SPECIFICATION LiveSpec
INVARIANTS TypeOK LockInv WakeupsSuffice
PROPERTIES AtomicSpec SleeperServed
CHECK_DEADLOCK FALSE
