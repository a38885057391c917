SPECIFICATION Spec
CONSTANTS
  u1 = u1
  h1 = h1
  NFrames = 5
  NDirs = 3
  UserPages = {u1}
  HeapPages = {}
  KStack = kstack
  Values = {0, 1}
  NoEntry = NoEntry
  Unmapped = Unmapped
INVARIANTS
  FramesConserved
  SharedIsReadOnly
PROPERTIES
  FaultServes
  ImplementsPrivateMemory
CHECK_DEADLOCK FALSE
