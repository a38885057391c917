SPECIFICATION Spec
CONSTANTS
  u1 = u1
  h1 = h1
  NFrames = 4
  NDirs = 2
  UserPages = {u1}
  HeapPages = {h1}
  KStack = kstack
  Values = {0, 1}
  NoEntry = NoEntry
  Unmapped = Unmapped
INVARIANTS
  FramesConserved
  TlbCoherent
PROPERTY ImplementsPrivateMemory
CHECK_DEADLOCK FALSE
