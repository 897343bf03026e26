--------------------------- MODULE MCEventStream ---------------------------
(***************************************************************************)
(* EventStream on the two events of an operator's cancel, on another command  *)
(* that reuses the first one's key, and on an event of the run itself.     *)
(***************************************************************************)
EXTENDS EventStream, TLC

CONSTANTS cancel, reuse, evidence, progress, primaryKey, evidenceKey, noKey

CommandCalls == {cancel, reuse, evidence, progress}
CommandKey ==
  [c \in CommandCalls |-> CASE c = progress -> noKey
                           [] c = evidence -> evidenceKey
                           [] OTHER -> primaryKey]
CommandPayload ==
  [c \in CommandCalls |-> CASE c = cancel -> "run.terminal"
                           [] c = reuse -> "warning.raised"
                           [] c = evidence -> "evidence.linked"
                           [] c = progress -> "step.updated"]
TerminalPayloads == {"run.terminal"}
=============================================================================
