SPECIFICATION Spec
CONSTANTS
  Procs = {p1, p2, p3}
  NoProc = NoProc
  MaxCrashes = 1
  Stalls = FALSE
INVARIANT
  NeverStolen
CHECK_DEADLOCK FALSE
