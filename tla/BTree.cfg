SPECIFICATION Spec
CONSTANTS
  Card = 6
  Keys <- MCKeys
  ReadKeys <- MCReadKeys
  FirstPage = 100
  Loads <- MCLoads
  MaxOps = 2
INVARIANTS Shape AlwaysReadable SiblingFound SearchesRight
