SPECIFICATION Spec
CONSTANTS
  Tree <- Site
  Routes <- Locations
  Requests <- OnlyOld
  MaxAsks = 1
  MaxHops = 3
  Touches <- Others
  MaxTouches = 0
  DiskFills = FALSE
INVARIANTS ReturnReplaced
