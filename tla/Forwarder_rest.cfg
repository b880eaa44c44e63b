SPECIFICATION WatchSpec
CONSTANTS
  Accounts = {a1}
  Requests = {r1, r2, r3}
  None = None
  Replies = {"quota"}
  HoldTimes = {1, 2}
  AuthHold = 1
  BlindHold = 1
  Longest = 2
  Window = 1
  RetryChoices = {0}
  RPMChoices = {3}
  MaxRestarts = 0
SYMMETRY RequestSymmetry
PROPERTIES
  AnnouncedRest
CHECK_DEADLOCK FALSE
