SPECIFICATION FairSpec
CONSTANTS
  c1 = c1
  c2 = c2
  f1 = f1
  Chains <- TwoChains
  Findings <- SameFindings
  Faults <- InOrder
  MaxText = 1
  MaxPolls = 2
INVARIANTS
  TypeOK
  PlansAreAdmitted
  PageAgreesWithChat
PROPERTIES
  NoRegress
  StreamingEnds
  PageCatchesUp
CHECK_DEADLOCK FALSE
