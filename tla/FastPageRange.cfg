SPECIFICATION Spec
CONSTANTS
  r1 = r1
  Card = 4
  PerLine = 2
  HeaderSlots = 1
  MaxOps = 5
  Evicting = FALSE
  Keys <- MCKeys
  ValueOf <- MCValueOf
  Top <- MCTop
  Readers = {}
INVARIANTS RangeExact
CHECK_DEADLOCK FALSE
