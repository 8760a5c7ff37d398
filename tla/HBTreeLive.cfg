SPECIFICATION LiveSpec
CONSTANTS
  Keys <- MCKeys
  Nodes <- MCNodes
  LogSlots = 1
  PageSlots = 29
  SplitAt = 2
  HOT_NODE_NUM = 1
  TwoWay = FALSE
  Duplicates = FALSE
  MaxOps = 4
PROPERTIES CallsReturn LogsDrain
CHECK_DEADLOCK FALSE
