SPECIFICATION Spec
CONSTANTS
  PageSize = 4
  USER_MEM_LOW = 4
  USER_MEM_HIGH = 19
  EhdrSize = 2
  PhdrSize = 2
  FileSizes = {1, 6}
  Phoffs = {0, 2, 3}
  Vaddrs = {2, 4, 6, 9}
  Memsz = {0, 2, 3, 6, 11}
  Filesz = {0, 1, 4}
  Offsets = {0, 3, 6}
  MaxSegments = 2
INVARIANTS
  PagesExact
  BssZero
  FileBytesKept
CHECK_DEADLOCK FALSE
