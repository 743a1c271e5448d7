CONSTANTS
  Texts <- Two
  Numerals <- Decimals
  IntRange = 100000
  Targets <- Uris
  Hosts <- Names
SPECIFICATION FairSpec
INVARIANTS AbsoluteDecides
