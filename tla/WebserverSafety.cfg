CONSTANTS
  c1 = c1
  c2 = c2
  c3 = c3
  Conns = {c1, c2, c3}
  NPassv = 1
  FirstFd = 3
  FdLimit = 6
  Chunked = {}
  FcntlFails = FALSE
SYMMETRY ClientSymmetry
SPECIFICATION Spec
INVARIANTS TypeOK DescriptorsMatch DistinctFds NfdsCovers NoSpuriousIO NoLeak
PROPERTIES KeepsLifecycle
