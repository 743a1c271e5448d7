SPECIFICATION Spec
CONSTANTS
  Tree <- Site
  Routes <- Locations
  Requests <- All
  MaxAsks = 2
  MaxHops = 3
  Touches <- Others
  MaxTouches = 2
  DiskFills = TRUE
INVARIANTS RedirectsEnd OnlyListable Framed
PROPERTIES ErrorPageShown ChangesAsAsked
