\* A hub, one joiner below it and two above, in any order; one node stops.
CONSTANTS
  hub = hub
  a = a
  b = b
  c = c
  Nodes = {hub, a, b, c}
  Hub = hub
  Priority <- MCPriority
  None = None
  MaxFaults = 1
SPECIFICATION FairSpec
CHECK_DEADLOCK FALSE
INVARIANTS
  TypeOK
  LeadersApart
PROPERTIES
  VictoryIsEarned
  HubFindsMaster
