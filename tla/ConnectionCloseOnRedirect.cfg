CONSTANTS
  Lengths <- Texts
  Requests <- OnlyClosing
  MaxRequests = 2
  Depth = 1
  Impatient = FALSE
  BodyMax = 3
  BufferMax = 16
  RecvMax = 12
SPECIFICATION FairSpec
PROPERTIES CloseHonoured
CHECK_DEADLOCK FALSE
