SPECIFICATION Spec
CONSTANTS
  a = a
  b = b
  s1 = s1
  s2 = s2
  s3 = s3
  w1 = w1
  w2 = w2
  f1 = f1
  f2 = f2
  r1 = r1
  r2 = r2
  Clone = {a, b}
  Creator = a
  Session = {s1, s2}
  HomeOf <- MCHomeOf
  Writer = {w1, w2}
  Flusher = {f1, f2}
  Reader = {r1, r2}
  CloneOf <- MCCloneOf
  MaxRev <- MCRevisions
INVARIANTS TypeOK DeliveredStays ReadableUnlessReplayed QueueCovers LocalKeepsWrites
