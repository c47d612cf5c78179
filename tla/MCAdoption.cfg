SPECIFICATION Spec
CONSTANTS
  Store = {1, 2}
  Adopter = {a1, a2}
  Task = {x}
  None = None
  MaxAdopt = 2
  MaxAttach = 1
SYMMETRY Symmetry
INVARIANTS
  TypeOK
  OneHome
  NoCircularWait
PROPERTIES
  ImplementsHome
