SPECIFICATION Spec
CONSTANTS
  t1 = t1
  w1 = w1
  w2 = w2
  Task = {t1}
  Worker = {w1}
  MaxSaid = 2
  MaxId = 2
  MaxEpoch = 1
CHECK_DEADLOCK FALSE
INVARIANT OnlyEndedAreOrphaned
