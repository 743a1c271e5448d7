CONSTANTS
  Sizes <- AnySize
  MaxAnswers = 3
  SndMax = 5
  WrMax = 3
SPECIFICATION FairSpec
INVARIANTS OrderKept FitsIntact
PROPERTIES WriteReturns Arrives
