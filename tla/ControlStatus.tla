---------------------------- MODULE ControlStatus ----------------------------
(***************************************************************************)
(* What the status of a run's control state promises to those who only     *)
(* read it, the worker of the run's job above all.  The writers and their  *)
(* locks are out of sight: overtaken says whether one of them has ever     *)
(* replaced a state it has not seen.                                       *)
(***************************************************************************)

VARIABLES
  control,      \* the status, "none" before the start
  overtaken

vars == <<control, overtaken>>

Open  == {"running", "paused"}
Final == {"completed", "failed", "canceled"}

Init == control = "none" /\ overtaken \in BOOLEAN

Begin  == control = "none" /\ control' = "running" /\ overtaken' = overtaken
Pause  == control = "running" /\ control' = "paused" /\ overtaken' = overtaken
Resume == control = "paused" /\ control' = "running" /\ overtaken' = overtaken
Cancel == control \in Open /\ control' = "canceled" /\ overtaken' = overtaken

\* The run ends: a canceled one as canceled, or as failed by an
\* exception, unless the cancel goes unseen.
Finish ==
  \/ /\ \/ control \in Open /\ control' \in {"completed", "failed"}
        \/ control = "canceled" /\ control' \in {"canceled", "failed"}
     /\ overtaken' = overtaken
  \/ overtaken' /\ control # "none" /\ control' \in Final

\* A writer brings back what it has seen or was told, over any status but that of
\* a run never started.
Overwrite ==
  /\ overtaken'
  /\ control # "none" /\ control' \in Open \cup {"canceled"}

Next == Begin \/ Pause \/ Resume \/ Cancel \/ Finish \/ Overwrite

Spec == Init /\ [][Next]_vars
=============================================================================
