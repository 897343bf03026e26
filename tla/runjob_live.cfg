SPECIFICATION FairSpec
CONSTANTS
  Workers = {w1, w2}
  NoWorker = NoWorker
  MaxResumes = 1
  MaxCrashes = 0
  Stalls = FALSE
  Overwrites = FALSE
PROPERTIES
  CancelReachesChild
  ResumeContinuesChild
  ClaimedJobSettles
CHECK_DEADLOCK FALSE
