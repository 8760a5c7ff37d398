SPECIFICATION AlgorithmsSpec
CONSTANTS
  p1 = p1
  p2 = p2
  none = none
  Keys <- MCKeys
  Payloads <- MCPayloads
  NoPayload = none
  kEndSentinel = 9
  Word = 4
  max_slots = 8
  MaxKeys = 4
  MaxCapacity = 14
  MaxLevel = 2
  kNodeLookupsWeight = 1
  DataNodeWeight = 1
  PointerWeight = 1
  hot_node_num = 1
  IdWidth = 1
  MaxCreated = 6
  MaxCalls = 2
  MaxRounds = 2
  MaxMoved = 1
INVARIANTS GapIsClosest UsedTile NeverOneChild CostOfChildren
PROPERTIES HottestAreHot
CHECK_DEADLOCK FALSE
