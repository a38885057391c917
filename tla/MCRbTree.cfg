SPECIFICATION Spec
CONSTANTS
  NKeys = 8
  MaxErases = 2
INVARIANTS
  SearchTree
  RedBlack
  FindExact
PROPERTY KeysExact
CHECK_DEADLOCK FALSE
