SPECIFICATION FairSpec
CONSTANTS
  c1 = c1
  c2 = c2
  None = None
  Configs = {c1, c2}
  p1 = p1
  p2 = p2
  Publishers = {p1, p2}
  Boots = {1, 2}
  Launches <- MCLaunches
  Targets <- MCTargets
  MaxRounds = 3
  MaxGenerations = 2
INVARIANTS
  RunsOnItsOwn
  NoOrphanLock
  FreshServices
  NothingLeft
PROPERTIES
  StopCompletes
CHECK_DEADLOCK FALSE
