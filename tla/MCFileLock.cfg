SPECIFICATION Spec
CONSTANTS
  Process = {p1, p2, p3}
  Inode = {i1, i2, i3}
  None = None
  MaxTries = 3
SYMMETRY Symmetry
INVARIANTS
  TypeOK
PROPERTIES
  ImplementsLock
