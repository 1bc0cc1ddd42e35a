SPECIFICATION JSpec
CONSTANTS
  v0 = v0
  v1 = v1
  Menu <- MCMenu
  NWords = 2
  Vals = {v0, v1}
  NoVal = NoVal
  Image <- MCImage
INVARIANT PauseIsReleased
PROPERTIES
  StateFilesAreSnapshots
  ResetIsUndisturbed
  JobsEnd
CHECK_DEADLOCK FALSE
