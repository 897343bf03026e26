--------------------------- MODULE MCRunExecution ---------------------------
(***************************************************************************)
(* RunExecution with a start, a pause and a cancel.                        *)
(***************************************************************************)
EXTENDS RunExecution, TLC

CONSTANTS start, pause, cancel, anyRevision

RunCommands == {start, pause, cancel}
RunAction == start :> "start" @@ pause :> "pause" @@ cancel :> "cancel"
NoGuard == {}
Dying == {start, cancel}
RunExpected == start :> anyRevision @@ pause :> 1 @@ cancel :> anyRevision
RunPolicy == [a \in Repeats |-> IF a = "retry" THEN 0 ELSE 1]
Retryable == {"failed"}
Denied == {"timeout"}
=============================================================================
