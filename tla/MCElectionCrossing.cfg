\* A hub, one joiner below it and one above; no node stops.
CONSTANTS
  hub = hub
  a = a
  b = b
  c = c
  Nodes = {hub, a, b}
  Hub = hub
  Priority <- MCPriorityOneEachSide
  None = None
  MaxFaults = 0
SPECIFICATION FairSpec
CHECK_DEADLOCK FALSE
PROPERTY HighestBecomesMaster
