SPECIFICATION Spec
CONSTANTS
  Programs <- MCPrograms
  HardTypes <- MCHardTypes
  Fractions <- MCFractions
INVARIANTS
  ResolvesLexically
  InnermostWins
  ScopesBalanced
  ReturnTypeIsEnclosing
CHECK_DEADLOCK FALSE
