SPECIFICATION ProgSpec
CONSTANTS
  MaxTasks = 2
  Nibbles = 2
  NCOL = 3
  NROW = 2
  COLOR_STACK_SIZE = 2
  Colors <- MCColors
  Formats <- MCFormats
  Probes <- MCProbes
  Sleep = 1
  Wake = 2
  Hello <- MCHello
  MaxCalls = 1
INVARIANTS
  ScreenExact
  LogKeepsColor
PROPERTIES
  SleeperSilent
  BothPrint
