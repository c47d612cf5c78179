SPECIFICATION FairSpec
CONSTANTS
  t1 = t1
  t2 = t2
  t3 = t3
  p1 = p1
  p2 = p2
  Thread = {t1, t2, t3}
  Process = {p1, p2}
  ProcOf <- MCProcOf
  w1 = w1
  Writes = {w1}
  Absent = Absent
  NoThread = NoThread
  MaxEpoch = 2
INVARIANTS
  TypeOK
  MutualExclusion
  GateLeftClean
  NoLostWrite
  NoResurrection
  AnnouncedOnceAndDurable
PROPERTIES
  EffectsOutsideLock
  ImplementsRecord
  LockIsReleased
