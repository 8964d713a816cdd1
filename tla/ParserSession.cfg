SPECIFICATION Spec
CONSTANTS
  Name <- MCName
  NameLen <- MCNameLen
  Target <- MCTarget
  TargetLen <- MCTargetLen
  MaxU32 <- MCMaxU32
  Config <- MCConfig
  Op <- MCOp
  Emission <- MCEmission
  NoFile = NoFile
  MaxErrors = 2
  MaxCode = 2
INVARIANTS
  TypeOK
  SavedFileLoads
  TruncationLosesOnlyTail
  IdsResolve
  ErrorsAreReported
PROPERTY
  FailedSessionIsSilent
