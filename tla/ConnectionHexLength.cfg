CONSTANTS
  Lengths <- Texts
  Requests <- HexLength
  MaxRequests = 1
  Depth = 1
  Impatient = FALSE
  BodyMax = 3
  BufferMax = 16
  RecvMax = 12
SPECIFICATION FairSpec
INVARIANTS ExecutedAsSent
CHECK_DEADLOCK FALSE
