SPECIFICATION NSpec
CONSTANTS
  ON = ON
  A = A
  NoKey = NoKey
  Keys <- MCKeys
  Pictures = {p0, p1}
  Blank = Blank
  KBD_RELEASE_DEBOUNCE_CYCLES = 3
  REFRESH_CYCLES = 3
INVARIANTS
  WakesLikeItSlept
  NoKeyIsSleptOver
  ReadOnce
PROPERTIES
  DeepSleepEndsWithON
  HeldKeyIsRead
