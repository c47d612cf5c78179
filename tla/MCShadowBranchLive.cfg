SPECIFICATION FairSpec
CONSTANTS
  Session = {s1}
  Worker = {w1, w2}
  None = None
  MaxCommit = 1
  MaxStep = 3
PROPERTIES
  OneStepOnTop
  UnusedGoes
CHECK_DEADLOCK FALSE
