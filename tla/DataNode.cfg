SPECIFICATION Spec
CONSTANTS
  p1 = p1
  p2 = p2
  none = none
  Keys <- MCKeys
  Payloads <- MCPayloads
  NoPayload = none
  kEndSentinel = 9
  Word = 2
  max_slots = 5
  MaxKeys = 4
INVARIANTS TypeOK Structure SearchesExact
PROPERTIES EntriesSpec
SYMMETRY Symmetry
