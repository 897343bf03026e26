SPECIFICATION Spec
CONSTANTS
  key = key
  Units <- PairUnits
  Depends <- PairDepends
  Keys <- PairKeys
  HasGates = TRUE
  Ceiling = 1
  Budget = 2
  Commands = {k1, k2}
  MaxAttempts = 2
  MaxFaults = 1
  MaxIntegrations = 0
SYMMETRY CommandSymmetry
INVARIANTS
  TypeOK
  WithinCeiling
  BudgetCountsAttempts
  ChildrenAreTracked
  CanceledIsQuiet
PROPERTIES
  VerdictOfActiveChild
CHECK_DEADLOCK FALSE
