SPECIFICATION Spec
CONSTANTS
  w1 = w1
  w2 = w2
  s1 = s1
  NoOne = NoOne
  Worker <- MCWorkers
  Step <- OneStep
  Outcomes <- ToolMessages
  LeaseSecs = 2
  Reliable = FALSE
  MaxClaims = 3
  MaxEnqueues = 2
SYMMETRY WorkerSymmetry
INVARIANTS
  TypeOK
  OneResultPerClaim
  ResultOfOwnClaim
PROPERTIES
  FinishedStaysFinished
  ImplementsLedger
