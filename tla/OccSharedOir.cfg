SPECIFICATION Spec
CONSTANTS
  Proc = {p1, p2}
  Program <- MCProgram
  Input = {"exists", "typed", "eof"}
  None = None
  MaxLive = 2
INVARIANTS
  AnalysedOwn
CHECK_DEADLOCK FALSE
