SPECIFICATION SymSpec
CONSTANTS
  SIZE = 3
  a = a
  b = b
  c = c
  Names = {a, b, c}
  Values = {0, 1}
  Kinds <- MCKinds
  Keywords <- MCKeywords
  Empty = Empty
  None = None
INVARIANTS ProbesReach AddedFound
PROPERTY IsMap
CHECK_DEADLOCK FALSE
