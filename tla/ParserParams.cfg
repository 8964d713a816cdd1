SPECIFICATION FrontSpec
CONSTANTS
  Name <- MCName
  NameLen <- MCNameLen
  Target <- MCTarget
  TargetLen <- MCTargetLen
  Handle <- MCHandle
  MaxU32 <- MCMaxU32
  Sources <- NoSources
  Texts <- ParamTexts
  Letters <- MCLetters
  Digits <- MCDigits
  HexDigits <- MCHexDigits
  MaxCode = 24
INVARIANTS
  ParamsNotWarned
CHECK_DEADLOCK FALSE
