SPECIFICATION Spec
CONSTANTS
  Session = {s1, s2}
  Worker = {w1}
  None = None
  MaxCommit = 2
  MaxStep = 2
SYMMETRY Symmetry
INVARIANTS
  TypeOK
  StepsKept
CHECK_DEADLOCK FALSE
