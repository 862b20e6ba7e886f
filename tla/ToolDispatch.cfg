SPECIFICATION Spec
SYMMETRY CallerSymmetry
CONSTANTS
  c1 = c1
  c2 = c2
  Callers <- TwoCallers
  Lookups <- ToolsAndSearch
  Empty = {}
  Failures = TRUE
  Ttl = 1
  RagTtl = 2
  MaxVersion = 1
  MaxKeys = 2
  MaxAge = 4
  Builtin = {}
  Secured = {1}
  Canned = {}
  ToolTtl = 1
INVARIANTS
  TypeOK
  HealthyLookupsSucceed
PROPERTIES
  BoundedStaleness
  ContractsAreCurrent
  AnswersAreCurrent
