SPECIFICATION Spec
CONSTANTS
  NATEXIT_FUNCS_MAX = 2
  HeapObjects = 1
  MaxObjects = 3
  Dtors = 1
  Word = 256
  PageSize = 4
  TablePages = 4
  KernelStart = 16
  ImageEnds = {20, 21}
  ModuleEnds = {0, 27}
  HeapBegin = 224
  HeapEnd = 240
  Maps <- MCMaps
  StackTop = 8
  StackWords = 3
  KERNEL_STACK_POS = 20
INVARIANTS
  FramesUsable
  StaticMapped
  FramesFollow
  DestroyedInReverse
CHECK_DEADLOCK FALSE
