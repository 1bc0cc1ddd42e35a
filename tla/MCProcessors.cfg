SPECIFICATION MCSpec
CONSTANTS
  PAGE_WORDS = 2
  ROM_PAGES = 2
  PAGES = 4
  STACK_SIZE = 2
  Words <- MCWords
  Targets <- MCTargets
  Spice = FALSE
  None = None
  WSIZE = 4
  HEX = 16
  DEC = 10
  EXPSIZE = 2
  SSIZE = 12
  ROM_SIZE = 2
  MAX_DIGIT_POSITION = 5
  MAX_RAM = 2
  TwoDigits = TRUE
  Sessions <- MCSessions
  NUT_SSIZE = 14
  BLOCK = 2
  ram_exists = {0, 1}
  pf_exists = {16, 33}
  KEY_DIGIT = 2
  KeyCode <- MCKeyCode
  NutSessions <- MCNutSessions
  PSetMap <- MCPSetMap
  PTestMap <- MCPTestMap
  ESegment = {0, 2, 6, 8}
  GSegment = {2, 3, 4, 5, 6, 8, 9}
  ACT_SSIZE = 16
  ActRam = {0, 1}
  ACT_BLOCK = 2
  ActSessions <- MCActSessions
INVARIANTS
  TextShowsTheFlow
  RestoredGoOn
  DataIsKept
PROPERTIES
  RestoreResumes
  FramesShowTheRegisters
