SPECIFICATION Spec
CONSTANTS
  Hex = {h}
  Ulid = {u}
  Worker = {w1, w2}
  MaxWrites = 2
  MaxSwitches = 2
  MaxMigrations = 2
SYMMETRY Symmetry
INVARIANTS TypeOK ReadersFindIt SessionsStayTogether UlidsAreInRefs ImportsAreHeld BackfillsDoNotFork
CHECK_DEADLOCK FALSE
