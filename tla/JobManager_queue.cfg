SPECIFICATION EditSpec
CONSTANTS
  Accounts = {a1, a2, a3, a4}
  Jobs = {j1, j2, j3, j4}
  None = None
  Kinds = {"login", "cookie"}
  MaxLimit = 2
  AuthkitRetries = 0
  MaxRestarts = 0
  InitialLimits <- AllLimits
CONSTRAINT PairOrCrowd
SYMMETRY JobSymmetry
INVARIANTS
  NoLostWakeup
PROPERTIES
  StartsWithinLimit
  StartsInOrder
CHECK_DEADLOCK FALSE
