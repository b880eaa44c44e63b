SPECIFICATION Spec
CONSTANTS
  Accounts = {a1}
  Jobs = {j1, j2}
  None = None
  Kinds = {"login", "refresh", "cookie"}
  MaxLimit = 1
  AuthkitRetries = 1
  MaxRestarts = 1
  InitialLimits <- AllLimits
SYMMETRY JobSymmetry
INVARIANTS
  TypeOK
  OneJobPerAccount
  SlotsMatchGoroutines
  AutoPaySuccessIsPaid
PROPERTIES
  VerdictIsFinal
  LeaseSpec
CHECK_DEADLOCK FALSE
