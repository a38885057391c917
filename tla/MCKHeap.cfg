SPECIFICATION Spec
CONSTANTS
  HeapBegin = 16
  HeapEnd = 36
  PageSize = 4
  Sizes = {1, 4}
  Aligns = {1, 4}
  MaxLive = 3
  NodeLimit = 8
INVARIANTS
  Tiled
  Coalesced
  LivePagesUsable
  NodesConserved
  OnlyExhaustionPanics
PROPERTY ImplementsAllocator
CHECK_DEADLOCK FALSE
