SPECIFICATION MCSpec
CONSTANTS
  Pages = {8, 9, 10, 11}
  MAX_BANK = 3
  Ports = {1, 2}
  Modules <- MCModules
  File <- MCFile
  NoPage = NoPage
  Nobody = Nobody
  MAX_BANK_GROUP = 2
  PAGE_WORDS = 1
  NutSize = 4
  NutPage = 2
  STACK_DEPTH = 2
  NutWords <- MCNutWords
  NutSeconds <- MCNutSeconds
  JumpBlock = 1
  Jumps41 = TRUE
  Uninitialized = {TRUE, FALSE}
  WSIZE = 3
  EXPSIZE = 1
  HEX = 3
  DEC = 2
  Machines <- MCMachines
INVARIANTS
  MemoryIsWhole
  NutTextShowsTheFlow
  DoesWhatItSays
PROPERTY BanksStayInModule
