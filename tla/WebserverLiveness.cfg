CONSTANTS
  c1 = c1
  c2 = c2
  Conns = {c1, c2}
  NPassv = 1
  FirstFd = 3
  FdLimit = 6
  Chunked = {}
  FcntlFails = TRUE
SPECIFICATION FairSpec
PROPERTIES RequestsRead AnswersSent QuitEnds
