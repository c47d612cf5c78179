SPECIFICATION SweepSpec
CONSTANTS
  t1 = t1
  t2 = t2
  p1 = p1
  p2 = p2
  Thread = {t1, t2}
  Process = {p1, p2}
  ProcOf <- MCProcOf
  w1 = w1
  w2 = w2
  Writes = {w1, w2}
  Absent = Absent
  NoThread = NoThread
  MaxEpoch = 2
INVARIANTS
  LockedWriteSurvivesSweep
