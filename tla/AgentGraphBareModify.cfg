SPECIFICATION Spec
CONSTANTS
  Replies <- AllReplies
  AutoModes <- AutoOff
  CacheWired = FALSE
  RecursionLimit = 9
  MaxCalls = 3
PROPERTIES
  OnlyApprovedToolsRun
CHECK_DEADLOCK FALSE
