SPECIFICATION Spec
CONSTANTS
  Keys <- MCKeys
  Nodes <- MCNodes
  LogSlots = 1
  PageSlots = 29
  SplitAt = 1
  HOT_NODE_NUM = 0
  TwoWay = FALSE
  Duplicates = FALSE
  MaxOps = 5
INVARIANTS ColdKeysFound
CHECK_DEADLOCK FALSE
