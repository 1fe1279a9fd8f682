SPECIFICATION Spec
CONSTANTS
  Sources <- MCSources
  Lengths = {1, 4, 6}
  Offsets = {0, 2}
  Targets = {0, 1, 2, 3, 7}
  Modes = {"seek", "split", "copy"}
  Delay = 1
  Near = 1
  HwDecode = TRUE
  MaxLost = 1
INVARIANTS
  WorkerTypeOK
  Contiguous
  Covering
  NoFrameLost
  OnlyBoundariesTwice
  InOrderWithoutGaps
  AudioInSync
PROPERTY AllEncoded
CHECK_DEADLOCK FALSE
