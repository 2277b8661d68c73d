SPECIFICATION FlushSpec
CONSTANTS
  c1 = c1
  c2 = c2
  Callers = {c1, c2}
  Channels = {uart}
  None = none
  MaxLine = 1
  MaxBytes = 3
SYMMETRY CallerSymmetry
INVARIANTS
  FlushDiscardsPartialLine
