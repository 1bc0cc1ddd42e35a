CONSTANTS
  MAX_SOUNDS = 2
  MAX_PULSE_WIDTH = 3
  LENGTH = 2
SPECIFICATION SSpec
INVARIANT NoReferenceNoTone
