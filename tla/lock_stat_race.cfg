SPECIFICATION Spec
CONSTANTS
  ghost = ghost
  p1 = p1
  p2 = p2
  NoProc = NoProc
  Procs = {ghost, p1, p2}
  Ghosts = {ghost}
  MaxAttempts = 2
INVARIANT MutualExclusion
CHECK_DEADLOCK FALSE
