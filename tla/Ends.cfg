SPECIFICATION EndsSpec
CONSTANTS
  Launches = {b1, b2}
  Nobody = Nobody
INVARIANTS
  NothingLeaks
  RunningBinaryStays
PROPERTIES
  LaunchEnds
  EveryJobEnds
  EveryRequestIsAnswered
  HeldAccountReturns
CHECK_DEADLOCK FALSE
