SPECIFICATION Spec
CONSTANTS
  Workers = {w1, w2}
  NoWorker = NoWorker
  MaxResumes = 2
  MaxCrashes = 1
  Stalls = TRUE
  Overwrites = TRUE
SYMMETRY ClaimSymmetry
INVARIANTS
  TypeOK
  TokenIdentifiesClaim
  NoVerdictBeforeExit
  PausedMeansStopped
  RequeuedOnce
PROPERTIES
  OnlyClaimantWrites
  KeepsPromises
\* A job whose claims are used up or whose processes are gone stops.
CHECK_DEADLOCK FALSE
