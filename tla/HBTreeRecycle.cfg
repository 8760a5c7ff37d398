SPECIFICATION Spec
CONSTANTS
  Keys <- MCKeys
  Nodes <- MCNodes
  LogSlots = 1
  PageSlots = 29
  SplitAt = 1
  HOT_NODE_NUM = 0
  TwoWay = TRUE
  Duplicates = FALSE
  MaxOps = 4
INVARIANTS NoLeafDangles
CHECK_DEADLOCK FALSE
