SPECIFICATION Spec
CONSTANTS
  Accounts = {a1}
  Jobs = {j1}
  None = None
  Kinds = {"login"}
  MaxLimit = 1
  AuthkitRetries = 0
  MaxRestarts = 0
  InitialLimits <- Ones
PROPERTIES
  PaidAccountIsSkipped
CHECK_DEADLOCK FALSE
