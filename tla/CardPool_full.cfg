SPECIFICATION FairSpec
CONSTANTS
  Sessions = {w1}
  Warmers = {x1, x2}
  Cards = {c1, c2, c3, c4, c5, c6}
  NoCard = NoCard
  MaxPays = 2
INVARIANTS
  TypeOK
PROPERTIES
  NoSecondCard
  UsedCardStays
  CardReturns
