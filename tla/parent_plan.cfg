SPECIFICATION Spec
CONSTANTS
  key = key
  Units <- PlanUnits
  Depends <- PlanDepends
  Keys <- PlanKeys
  HasGates = TRUE
  Ceiling = 2
  Budget = 3
  Commands = {k1}
  MaxAttempts = 1
  MaxFaults = 0
  MaxIntegrations = 1
INVARIANTS
  ConflictsExclude
  DependenciesFirst
PROPERTIES
  PlanIsKept
CHECK_DEADLOCK FALSE
