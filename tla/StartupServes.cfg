CONSTANTS
  Texts <- Files
  Numerals <- Decimals
  IntRange = 100000
  Targets <- Uris
  Hosts <- Names
SPECIFICATION FairSpec
INVARIANTS TokensRight AcceptsGrammar BlocksAsWritten
INVARIANTS OneSocketEach NamesUnambiguous HostDecides TargetKept
PROPERTIES Decided
