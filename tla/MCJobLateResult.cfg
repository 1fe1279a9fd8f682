\* A node is declared dead while it still encodes; its result comes late.
CONSTANTS
  w1 = w1
  w2 = w2
  Workers = {w1, w2}
  Jobs = {j1}
  Segs = {s1, s2}
  MaxWorkers = 1
  Cores <- EqualCores
  HasStore = TRUE
  None = None
  MaxSuspects = 1
  MaxFaults = 1
SPECIFICATION Spec
INVARIANT CompleteCarriesOutput
