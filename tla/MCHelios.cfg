SPECIFICATION HeliosSpec
CONSTANTS
  HELIOS_BUF_MAX = 4
  HELIOS_PRINTER_WIDTH_PIXELS = 9
  CHAR_COLUMNS = 2
  Bytes <- MCBytes
  WindowButtons = {"PRT_KEY"}
  SwitchModes = {{}}
  MAX_BYTES = 5
INVARIANT ModeIsThatOfTheStart
