SPECIFICATION Spec
CONSTANTS
  Tree <- Site
  Routes <- IndexDirectory
  Requests <- OnlyDeep
  MaxAsks = 1
  MaxHops = 3
  Touches <- Others
  MaxTouches = 0
  DiskFills = FALSE
INVARIANTS ServerSurvives
