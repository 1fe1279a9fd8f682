\* One job of two segments, two workers of one slot each; one node wrongly
\* suspected, one worker or connection lost, or the role lost once.
CONSTANTS
  w1 = w1
  w2 = w2
  Workers = {w1, w2}
  Jobs = {j1}
  Segs = {s1, s2}
  MaxWorkers = 1
  Cores <- EqualCores
  HasStore = TRUE
  None = None
  MaxSuspects = 1
  MaxFaults = 1
SPECIFICATION Spec
INVARIANTS
  TypeOK
  NoSegmentForgotten
  NoSegmentQueuedTwice
  HolderIsWatched
  SuccessMeansAllEncoded
  OutputIsAnnounced
  NoStrandedAssignment
  OneOutcome
  AttemptsStayApart
SYMMETRY Symmetry
