CONSTANTS
  Texts <- AnyText
  Calls <- Ordinary
  MaxRequests = 2
  PipeMax = 4
  WriteMax = 2
  ReadMax = 3
SPECIFICATION FairSpec
INVARIANTS StdinIsBody OutputWhole NothingLeft LengthTrue BodyKept FailureTold
PROPERTIES Served
