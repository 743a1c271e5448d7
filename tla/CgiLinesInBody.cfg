CONSTANTS
  Texts <- AnyText
  Calls <- LinesInBody
  MaxRequests = 1
  PipeMax = 4
  WriteMax = 2
  ReadMax = 3
SPECIFICATION FairSpec
INVARIANTS BodyKept
