SPECIFICATION Spec
CONSTANTS
  Tree <- Site
  Routes <- Locations
  Requests <- OnlyNameless
  MaxAsks = 1
  MaxHops = 3
  Touches <- Others
  MaxTouches = 2
  DiskFills = FALSE
PROPERTIES ChangesAsAsked
