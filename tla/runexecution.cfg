SPECIFICATION Spec
CONSTANTS
  start = start
  pause = pause
  cancel = cancel
  anyRevision = anyRevision
  NoCommand = NoCommand
  AnyRevision = anyRevision
  Commands <- RunCommands
  Action <- RunAction
  Guarded <- NoGuard
  Mortal <- Dying
  Expected <- RunExpected
  Policy <- RunPolicy
  FallbackOn <- Retryable
  Denials <- Denied
  StartCommand = start
  LoopLimit = 2
  Fallbacks = 1
  MaxFaults = 1
INVARIANTS
  ExecutionTypeOK
  BudgetsKept
  CancelSticks
  VerdictsAgree
  AuditsAreKept
  OneLateProvider
PROPERTIES
  CancelStopsProvider
  RunSettles
CHECK_DEADLOCK FALSE
