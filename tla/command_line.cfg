SPECIFICATION Spec
CONSTANTS
  Procs = {p1, p2}
  Existing = existing
  None = none
  MaxDeaths = 2
SYMMETRY Symmetry
INVARIANTS
  KeyIsForever
  OneRunnerPerRole
  NothingLeftBehind
PROPERTIES
  SetPublisherSticks
CHECK_DEADLOCK FALSE
