CONSTANTS
  Texts <- OddLimits
  Numerals <- Bases
  IntRange = 5000
  Targets <- Uris
  Hosts <- Names
SPECIFICATION FairSpec
INVARIANTS LimitsAsWritten
