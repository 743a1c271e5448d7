CONSTANTS
  Lengths <- Texts
  Requests <- LineInChunk
  MaxRequests = 1
  Depth = 1
  Impatient = FALSE
  BodyMax = 3
  BufferMax = 16
  RecvMax = 12
SPECIFICATION FairSpec
INVARIANTS WellFormedAccepted
CHECK_DEADLOCK FALSE
