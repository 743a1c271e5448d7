CONSTANTS
  Texts <- OneScript
  Numerals <- Decimals
  IntRange = 100000
  Targets <- Uris
  Hosts <- Names
SPECIFICATION FairSpec
INVARIANTS ScriptOfItsLocation
