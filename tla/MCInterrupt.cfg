SPECIFICATION Spec
CONSTANTS
  HB = 8
  Lines = {0, 1, 7, 8, 15}
  Glitchy = {7, 8}
  Masks <- MCMasks
  Codes = {30, 31}
  TssAddrs = {1234567, 32765}
  TssSize = 10
  Exceptions = {0}
  Vectors = {0, 8, 9, 15, 32, 33, 39, 40, 47, 112, 119, 128}
  NTasks = 2
INVARIANTS
  EoiExact
  RemapExact
  DescriptorsExact
PROPERTIES
  RequestServed
  KeysRead
