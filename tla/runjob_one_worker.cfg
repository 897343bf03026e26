SPECIFICATION Spec
CONSTANTS
  Workers = {w1, w2}
  NoWorker = NoWorker
  MaxResumes = 0
  MaxCrashes = 0
  Stalls = FALSE
  Overwrites = FALSE
INVARIANT
  AtMostOneActiveWorker
CHECK_DEADLOCK FALSE
