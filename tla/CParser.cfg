SPECIFICATION Spec
CONSTANTS
  Texts <- MCTexts
  Words <- MCWords
  Numbers <- MCNumbers
  Listeners <- MCListeners
INVARIANTS
  LongestOperator
  NullMeansError
  OneOwner
  ReadsBack
  GroupsByPrecedence
  OperandsInPlace
PROPERTY
  HangsOnlyInTupleLabels
CHECK_DEADLOCK FALSE
