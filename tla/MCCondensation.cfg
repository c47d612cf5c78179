SPECIFICATION Spec
CONSTANTS
  t1 = t1
  w1 = w1
  w2 = w2
  Task = {t1}
  Worker = {w1, w2}
  MaxSaid = 1
  MaxId = 2
  MaxEpoch = 1
CHECK_DEADLOCK FALSE
SYMMETRY Symmetry
INVARIANTS TypeOK TasksKept StartIsStored OneCheckpointPerWindow AttemptCoversOrphan
