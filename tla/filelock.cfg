SPECIFICATION Spec
CONSTANTS
  Procs = {p1, p2, p3}
  NoProc = NoProc
  MaxCrashes = 1
  Stalls = TRUE
SYMMETRY ProcSymmetry
INVARIANTS
  TypeOK
  ExclusiveUnlessStolen
  NoLostUpdate
  ReleasesItsOwn
PROPERTIES
  Serial
CHECK_DEADLOCK FALSE
