CONSTANTS
  Texts <- AnyText
  Calls <- ExitsEarly
  MaxRequests = 1
  PipeMax = 4
  WriteMax = 2
  ReadMax = 3
SPECIFICATION FairSpec
PROPERTIES Served
CHECK_DEADLOCK FALSE
