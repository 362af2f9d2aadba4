SPECIFICATION FairSpec
CONSTANTS
  p1 = p1
  p2 = p2
  None = None
  Publishers = {p1, p2}
  MaxRequests = 3
  MaxRestarts = 1
INVARIANTS
  RunsWhatIsOnDisk
  RegistryIsThePublishers
PROPERTIES
  RequestsAreAnswered
  RegistryArrives
CHECK_DEADLOCK FALSE
