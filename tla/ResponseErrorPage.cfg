SPECIFICATION Spec
CONSTANTS
  Tree <- Site
  Routes <- AliasError
  Requests <- OnlyMissing
  MaxAsks = 1
  MaxHops = 3
  Touches <- Others
  MaxTouches = 0
  DiskFills = FALSE
PROPERTIES ErrorPageShown
