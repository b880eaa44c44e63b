SPECIFICATION QuietSpec
CONSTANTS
  Accounts = {a1}
  Jobs = {j1}
  None = None
  Kinds = {"login"}
  MaxLimit = 1
  AuthkitRetries = 0
  MaxRestarts = 0
  InitialLimits <- Ones
INVARIANTS
  QueuedRowHasJob
CHECK_DEADLOCK FALSE
