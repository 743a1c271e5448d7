CONSTANTS
  Lengths <- Texts
  Requests <- AnnouncedGet
  MaxRequests = 1
  Depth = 1
  Impatient = FALSE
  BodyMax = 3
  BufferMax = 16
  RecvMax = 12
SPECIFICATION FairSpec
PROPERTIES Answered
CHECK_DEADLOCK FALSE
