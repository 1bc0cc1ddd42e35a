SPECIFICATION FairSpec
CONSTANTS
  Words = {w}
  Vals = {v1}
  NoVal = NoVal
  Ops = {"get_run", "single_inst"}
  MaxBurst = 1
  MaxTime = 1
PROPERTY SingleInstIsExecuted
