SPECIFICATION WatchSpec
CONSTANTS
  Sessions = {w1, w2}
  Warmers = {x1}
  Cards = {c1, c2, c3, c4, c5, c6}
  NoCard = NoCard
  MaxPays = 2
SYMMETRY SessionSymmetry
INVARIANTS
  PaidWithinLimit
