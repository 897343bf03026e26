SPECIFICATION Spec
CONSTANTS
  key = key
  Units <- PairUnits
  Depends <- PairDepends
  Keys <- PairKeys
  HasGates = FALSE
  Ceiling = 2
  Budget = 2
  Commands = {}
  MaxAttempts = 1
  MaxFaults = 0
  MaxIntegrations = 0
INVARIANT
  CompletionAdvances
CHECK_DEADLOCK FALSE
