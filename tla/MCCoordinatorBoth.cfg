SPECIFICATION Spec
CONSTANTS
  Launches <- MCLaunches
  Splitters = 3
  Workers = 2
  Base = 2
  Width = 2
  Flags <- BothFlags
INVARIANTS
  SmartWinsOverCopy
CHECK_DEADLOCK FALSE
