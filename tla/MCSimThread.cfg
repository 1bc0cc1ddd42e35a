SPECIFICATION FairSpec
CONSTANTS
  Words = {w}
  Vals = {v1, v2}
  NoVal = NoVal
  Ops = {"set_run", "set_pause", "get_run", "get_pause", "read", "read_rom", "write", "event", "single_cycle", "single_inst", "quit"}
  MaxBurst = 2
  MaxTime = 3
INVARIANTS
  OneOutstanding
  NoCatchUp
PROPERTIES
  ExecutesOnlyWhenAllowed
  ImplementsService
CHECK_DEADLOCK FALSE
