SPECIFICATION OrderlySpec
CONSTANTS
  t1 = t1
  w1 = w1
  w2 = w2
  Task = {t1}
  Worker = {w1, w2}
  MaxSaid = 2
  MaxId = 1
  MaxEpoch = 0
CHECK_DEADLOCK FALSE
PROPERTY TasksReachCheckpoint
