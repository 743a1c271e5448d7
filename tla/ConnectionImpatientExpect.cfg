CONSTANTS
  Lengths <- Texts
  Requests <- OnlyAnnounced
  MaxRequests = 1
  Depth = 1
  Impatient = TRUE
  BodyMax = 3
  BufferMax = 16
  RecvMax = 12
SPECIFICATION FairSpec
PROPERTIES Answered
CHECK_DEADLOCK FALSE
