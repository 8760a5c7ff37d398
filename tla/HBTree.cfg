SPECIFICATION Spec
CONSTANTS
  Keys <- MCKeys
  Nodes <- MCNodes6
  LogSlots = 1
  PageSlots = 29
  SplitAt = 1
  HOT_NODE_NUM = 1
  TwoWay = FALSE
  Duplicates = FALSE
  MaxOps = 5
INVARIANTS TypeOK OneProducer KeepsACopy TreesCatchUp SearchesRight ChainIsLeaves NoLeafDangles
PROPERTIES EndsTurnColdByMerge
CHECK_DEADLOCK FALSE
