SPECIFICATION Spec
CONSTANTS
  Keys <- MCKeys
  Nodes <- MCNodes
  LogSlots = 1
  PageSlots = 29
  SplitAt = 1
  HOT_NODE_NUM = 0
  TwoWay = FALSE
  Duplicates = TRUE
  MaxOps = 6
INVARIANTS EraseIsComplete
CHECK_DEADLOCK FALSE
