SPECIFICATION RSpec
CONSTANTS
  Buttons <- HP35Buttons
  Keycode <- HP35Keycode
INVARIANT LastKeyIsRecognisedOnce
