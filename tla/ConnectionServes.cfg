CONSTANTS
  Lengths <- Texts
  Requests <- All
  MaxRequests = 3
  Depth = 1
  Impatient = FALSE
  BodyMax = 3
  BufferMax = 8
  RecvMax = 5
SPECIFICATION FairSpec
INVARIANTS StageInTable WellFormedAccepted ExecutedAsSent
PROPERTIES Answered CloseUnlessRedirected
