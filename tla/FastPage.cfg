SPECIFICATION Spec
CONSTANTS
  r1 = r1
  Card = 4
  PerLine = 2
  HeaderSlots = 1
  MaxOps = 4
  Evicting = TRUE
  Keys <- MCKeys
  ValueOf <- MCValueOf
  Top <- MCTop
  Readers <- MCReaders
INVARIANTS TypeOK AlwaysReadable RestingOrder SearchesCorrect InsertsPersist
CHECK_DEADLOCK FALSE
