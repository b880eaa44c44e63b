SPECIFICATION PartsSpec
CONSTANTS
  RadarPhoneAttempts = 2
  GetNumberTries = 2
  NoProgressTicks = 2
  LoginTicks = 3
  MaxRounds = 2
  ScanAccounts = {s1, s2}
  ScanLimit = 1
  Nothing = Nothing
INVARIANTS
  TypeOKParts
  NumbersAreSettled
  CardsSubmittedOnce
  RefusalIsFinal
  ResultIsWhole
  ScanAddsUp
PROPERTIES
  SessionReturns
  ScanEnds
CHECK_DEADLOCK FALSE
