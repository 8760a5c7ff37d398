SPECIFICATION Spec
CONSTANTS
  Keys <- MCKeys
  Lowest <- MCLowest
  max_fanout = 4
  SplitAt = 2
  kMinOutOfDomainKeys = 2
  kMaxOutOfDomainKeys = 3
  kOutOfDomainToleranceFactor = 1
  MaxNodes = 8
INVARIANTS ValidStructure LeavesLinked NoneLost CountsNearlyRight
PROPERTIES ListSpec
CHECK_DEADLOCK FALSE
