SPECIFICATION PartsSpec
CONSTANTS
  Accounts = {a1}
  Requests = {r1, r2}
  None = None
  Replies = {"ok", "timeout", "broken", "fatal", "html", "auth", "monthly", "quota", "limited", "retryable"}
  HoldTimes = {1, 2}
  AuthHold = 1
  BlindHold = 1
  Longest = 2
  Window = 1
  RetryChoices = {0}
  RPMChoices = {1, 2}
  MaxRestarts = 1
  MaxImports = 2
  LastSecond = 2
  NoOne = NoOne
SYMMETRY SymmetricRequests
CONSTRAINT FewHeld
INVARIANTS
  TypeOKParts
  InflightIsExact
  HoldIsExact
PROPERTIES
  RefreshKeepsOut
  CookieNeverOlder
  ImportedNeverOlder
CHECK_DEADLOCK FALSE
