SPECIFICATION Spec
CONSTANTS
  p1 = p1
  p2 = p2
  None = None
  Publishers = {p1, p2}
  MaxRequests = 1
  MaxRestarts = 1
INVARIANTS
  ApprovalIsShown
CHECK_DEADLOCK FALSE
