SPECIFICATION Spec
CONSTANTS
  Proc = {p1, p2}
  Program <- MCProgram
  Input = {"exists", "typed", "eof"}
  None = None
  MaxLive = 1
INVARIANTS
  TypeOK
  AnalysedOwn
PROPERTIES
  Terminates
  KeepsPromise
CHECK_DEADLOCK FALSE
