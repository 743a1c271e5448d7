SPECIFICATION Spec
CONSTANTS
  Tree <- Site
  Routes <- Locations
  Requests <- OnlyPut
  MaxAsks = 1
  MaxHops = 3
  Touches <- Others
  MaxTouches = 0
  DiskFills = TRUE
INVARIANTS Stored
