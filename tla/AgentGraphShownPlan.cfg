SPECIFICATION Spec
CONSTANTS
  Replies <- PlainReplies
  AutoModes <- AutoOff
  CacheWired = FALSE
  RecursionLimit = 9
  MaxCalls = 5
INVARIANTS
  ApprovedPlanIsShownPlan
CHECK_DEADLOCK FALSE
