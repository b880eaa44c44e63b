SPECIFICATION ManagerSpec
CONSTANTS
  Accounts = {a1, a2}
  Requests = {r1, r2, r3}
  None = None
  Replies = {"ok", "broken"}
  HoldTimes = {1}
  AuthHold = 1
  BlindHold = 1
  Longest = 1
  Window = 2
  RetryChoices = {1}
  RPMChoices = {1, 2}
  MaxRestarts = 0
  Posts = {r1, r2, r3}
  Models = {m1, m2}
  MaxLogs = 2
  ClearBatch = 1
  Rows = {"a", "b"}
  Documents <- Versions
  LastVersion = 3
  Callers = {u1, u2}
  Nil = Nil
SYMMETRY RequestSymmetry
INVARIANTS
  TypeOKManager
  HistoryCountsOnce
  ParseAgrees
  ListIsWhole
PROPERTIES
  RpmIsKept
  LeastBusyFirst
  NeverOlder
CHECK_DEADLOCK FALSE
