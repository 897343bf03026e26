SPECIFICATION Spec
CONSTANTS
  key = key
  Units <- SoloUnits
  Depends <- SoloDepends
  Keys <- SoloKeys
  HasGates = FALSE
  Ceiling = 1
  Budget = 2
  Commands = {k1}
  MaxAttempts = 2
  MaxFaults = 0
  MaxIntegrations = 0
INVARIANT
  CanceledAfterChildren
CHECK_DEADLOCK FALSE
