CONSTANTS
  Lengths <- Texts
  Requests <- OnlyPlain
  MaxRequests = 2
  Depth = 2
  Impatient = FALSE
  BodyMax = 3
  BufferMax = 16
  RecvMax = 12
SPECIFICATION FairSpec
PROPERTIES NotLeftWaiting
CHECK_DEADLOCK FALSE
