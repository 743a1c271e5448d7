CONSTANTS
  Texts <- Cut_off
  Numerals <- Decimals
  IntRange = 100000
  Targets <- Uris
  Hosts <- Names
SPECIFICATION FairSpec
INVARIANTS ReportedAsFatal
