SPECIFICATION Spec
CONSTANTS
  HeapBegin = 16
  HeapEnd = 36
  PageSize = 4
  Sizes = {1, 4}
  Aligns = {1, 4}
  MaxLive = 3
  NodeLimit = 8
INVARIANT FreePagesReleased
CHECK_DEADLOCK FALSE
