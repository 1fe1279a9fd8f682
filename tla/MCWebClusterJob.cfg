SPECIFICATION Spec
CONSTANTS
  Requests <- MCRequests
  SegmentTime = 4
  Nodes = {n1, n2}
  Base = 3
  Width = 1
  Offset = 0
SYMMETRY NodeSymmetry
INVARIANTS
  FilesTypeOK
  PiecesInOrder
  RangesAreNotEmpty
  PlanReadsItsPiece
  FinalIsWhole
  CompleteIsTrue
  EndIsHeard
CHECK_DEADLOCK FALSE
