SPECIFICATION Spec
CONSTANTS
  Name <- MCName
  NameLen <- MCNameLen
  Target <- MCTarget
  TargetLen <- MCTargetLen
  Handle <- MCHandle
  MaxU32 <- MCMaxU32
  Files <- MCFiles
  Nothing = Nothing
  MaxCalls = 3
INVARIANTS
  TypeOK
  PublicationIsAtomic
PROPERTIES
  AllErrorsReported
  VerdictExplained
  CallsReturn
CHECK_DEADLOCK FALSE
