SPECIFICATION StreamSpec
CONSTANTS
  cancel = cancel
  reuse = reuse
  evidence = evidence
  progress = progress
  primaryKey = primaryKey
  evidenceKey = evidenceKey
  noKey = noKey
  NoKey = noKey
  NoCall = NoCall
  Calls <- CommandCalls
  Key <- CommandKey
  Payload <- CommandPayload
  Terminal <- TerminalPayloads
  MaxReplay = 2
  MaxFaults = 1
  MaxDrops = 1
INVARIANTS
  TypeOK
  JournalIsExact
  FilesAgree
  StreamTypeOK
  InOrder
  NothingMissed
PROPERTIES
  Journal
  CaughtUp
CHECK_DEADLOCK FALSE
