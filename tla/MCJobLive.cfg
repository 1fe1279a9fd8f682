\* Two jobs of one segment each, so both use the same segment id, and two
\* unequal workers; one worker or connection lost, or the role lost once.
CONSTANTS
  w1 = w1
  w2 = w2
  Workers = {w1, w2}
  Jobs = {j1, j2}
  Segs = {s1}
  MaxWorkers = 1
  Cores <- MCCores
  HasStore = TRUE
  None = None
  MaxSuspects = 0
  MaxFaults = 1
SPECIFICATION FairSpec
INVARIANT NoStrandedAssignment
PROPERTIES
  JobsEnd
  KeepsPromise
