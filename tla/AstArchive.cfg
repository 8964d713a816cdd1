SPECIFICATION Spec
CONSTANTS
  Programs <- MCPrograms
  OldArchive <- MCOldArchive
  NoFile = NoFile
INVARIANTS
  RoundTrip
  TruncationSpoilsOneNumber
  NoUseAfterFree
  NothingLeaks
PROPERTIES
  Terminates
CHECK_DEADLOCK FALSE
