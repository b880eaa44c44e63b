SPECIFICATION SpecTransfer
CONSTANTS
  MaxImports = 1
  LastSecond = 2
  NoOne = NoOne
PROPERTIES
  EditedCookieStays
CHECK_DEADLOCK FALSE
