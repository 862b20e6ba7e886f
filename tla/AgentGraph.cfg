SPECIFICATION FairSpec
CONSTANTS
  Replies <- AllReplies
  AutoModes <- AutoMixed
  CacheWired = TRUE
  RecursionLimit = 8
  MaxCalls = 3
INVARIANTS
  TypeOK
  ToolCallsRemembered
PROPERTIES
  ToolCallsPermitted
  ChainPermitted
  CallsEnd
CHECK_DEADLOCK FALSE
