SPECIFICATION Spec
CONSTANTS
  Requests <- MCRequests
  SegmentTime = 4
  Nodes = {n1}
  Base = 3
  Width = 1
  Offset = 3
INVARIANT PlanFollowsTheClock
CHECK_DEADLOCK FALSE
