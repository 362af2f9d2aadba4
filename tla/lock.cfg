SPECIFICATION FairSpec
CONSTANTS
  ghost = ghost
  p1 = p1
  p2 = p2
  NoProc = NoProc
  Procs = {ghost, p1, p2}
  Ghosts = {ghost}
  MaxAttempts = 3
INVARIANTS
  OnlyTheRaceBreaksExclusion
  LoneStarterWins
PROPERTY
  AcquireSettles
CHECK_DEADLOCK FALSE
