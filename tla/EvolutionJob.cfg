SPECIFICATION Spec
SYMMETRY SessionSymmetry
CONSTANTS
  s1 = s1
  s2 = s2
  Sessions <- TwoSessions
  Tool = {1, 2, 3}
  OrderingMin = 60
  ParallelMin = 60
  Samples <- FourSteps
  Plans <- ForkChainFlat
  BatchSize = 3
  MaxPlans = 6
INVARIANTS
  TypeOK
  PatternsAreExact
  RulesWereSeen
  NoContradiction
  DecisionsStand
CHECK_DEADLOCK FALSE
