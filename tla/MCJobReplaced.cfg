\* Two jobs with the same segment id, no fault, no object store.
CONSTANTS
  w1 = w1
  w2 = w2
  Workers = {w1, w2}
  Jobs = {j1, j2}
  Segs = {s1}
  MaxWorkers = 1
  Cores <- EqualCores
  HasStore = FALSE
  None = None
  MaxSuspects = 0
  MaxFaults = 0
SPECIFICATION Spec
PROPERTY ResultsAreRelayed
