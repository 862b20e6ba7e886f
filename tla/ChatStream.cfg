SPECIFICATION FairSpec
CONSTANTS
  Faults <- Failures
  StaleAfter = 1
  MaxThreads = 2
  MaxEvents = 1
  MaxPending = 2
INVARIANTS
  TypeOK
  HandledInOrder
PROPERTIES
  RepliesAnswerQuestions
  InputComesBack
  PollingStops
CHECK_DEADLOCK FALSE
