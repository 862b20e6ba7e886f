SPECIFICATION FairSpec
CONSTANTS
  w1 = w1
  w2 = w2
  s1 = s1
  NoOne = NoOne
  Worker <- MCWorkers
  Step <- OneStep
  Outcomes <- ToolMessages
  LeaseSecs = 3
  Reliable = TRUE
  MaxClaims = 4
  MaxEnqueues = 2
INVARIANTS
  Exclusive
  NoOrphans
PROPERTIES
  PendingStepsComplete
