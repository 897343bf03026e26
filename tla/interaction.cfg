SPECIFICATION InteractionSpec
CONSTANTS
  Workers = {w1}
  NoWorker = NoWorker
  MaxResumes = 1
  MaxCrashes = 0
  Stalls = FALSE
  Overwrites = FALSE
  Answers = {a1}
  Shown = {FALSE}
INVARIANTS
  QuestionHoldsJob
\* A job whose claims are used up stops.
CHECK_DEADLOCK FALSE
