SPECIFICATION FairSpec
CONSTANTS
  w1 = w1
  w2 = w2
  s1 = s1
  s2 = s2
  None = None
  Worker <- MCWorkers
  Step <- TwoSteps
  LeaseSecs = 2
  MaxMessages = 2
  MaxFaults = 2
INVARIANTS
  TypeOK
  OneReceiptAtHand
  NothingLost
  Exclusive
PROPERTIES
  MessagesDone
CHECK_DEADLOCK FALSE
