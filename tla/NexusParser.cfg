SPECIFICATION FrontSpec
CONSTANTS
  Name <- MCName
  NameLen <- MCNameLen
  Target <- MCTarget
  TargetLen <- MCTargetLen
  Handle <- MCHandle
  MaxU32 <- MCMaxU32
  Sources <- MCSources
  Texts <- MCTexts
  Letters <- MCLetters
  Digits <- MCDigits
  HexDigits <- MCHexDigits
  MaxCode = 24
INVARIANTS
  TypeOK
  WellNested
  CleanParsePassesAnalysis
  LongestMatch
  NothingSkipped
  PositionsExact
PROPERTIES
  HangsOnlyThere
CHECK_DEADLOCK FALSE
