SPECIFICATION MCSpec
CONSTANTS
  Cards = {c1, c2}
  NoCard = NoCard
  Protected = {c1}
  Contents = {blank, v1}
  BlankWord = blank
  CRC_MAX_WORD = 3
  MAX_SOUNDS = 2
  MAX_PULSE_WIDTH = 2
  LENGTH = 1
  HEX = 4
  Fits = 4
  REGISTER_DIGITS = 2
  CONTENTS = 2
  NoChip = "none"
  Chips <- MCChips
  Registers <- MCRegisters
  Modules <- MCModules
  ChipOf <- MCChipOf
  HasRam <- MCHasRam
  RamAddresses <- MCRamAddresses
  PHINEAS_UPDATE_CYCLES = 2
  CLOCKS = 3
  ClockVals = {2}
  CountVals = {2}
  Used = {"A"}
  PICK_KEY_BUFFER_SIZE = 2
  PRINTER_COLUMNS = 2
  PICK_DELAY_CR_SEEN = 1
  PICK_DELAY_HOME = 2
  PickKeys = {1, 2}
  Chars = {3, 4}
  MAX_USES = 4
  HELIOS_BUF_MAX = 3
  HELIOS_PRINTER_WIDTH_PIXELS = 9
  CHAR_COLUMNS = 2
  Bytes <- MCBytes
  WindowButtons = {"PRT_KEY"}
  SwitchModes = {{}, {"MODE_NORM"}}
  MAX_BYTES = 4
  COCONUT_DISPLAY_DIGITS = 6
  LcdWords <- MCLcdWords
  MAX_LCD_OPS = 3
  VOYAGER_LCD_BLINK_DIVISOR = 2
  UPDATE_CYCLES = 3
  Buttons <- HP35Buttons
  Keycode <- HP35Keycode
INVARIANTS
  CardIsHandedOver
  ReadsTheCard
  NoRolloverError
  NoStuckKey
  TheToneIsTheBenders
  MixesWhatItLookedAt
  NoToneWithoutPulses
  PickKeepsOrder
  NothingIsLost
PROPERTIES
  FilesAreWhole
  TransferEnds
  FileRestored
  ServiceWakes
  DisplaysFollow
CHECK_DEADLOCK FALSE
