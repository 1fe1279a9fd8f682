SPECIFICATION Spec
CONSTANTS
  Launches <- MCLaunches
  Splitters = 3
  Workers = 2
  Base = 2
  Width = 2
  Flags <- MCFlags
INVARIANTS
  TypeOK
  OutputIsWhole
  NothingRunsAfterExit
  OwnGroupsDecide
  StatusIsTrue
  DeletedIsGone
PROPERTY EverythingEnds
CHECK_DEADLOCK FALSE
