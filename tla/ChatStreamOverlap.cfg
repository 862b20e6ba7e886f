SPECIFICATION Spec
CONSTANTS
  Faults = {}
  StaleAfter = 1
  MaxThreads = 1
  MaxEvents = 1
  MaxPending = 2
INVARIANTS
  DisabledWhileRunning
CHECK_DEADLOCK FALSE
