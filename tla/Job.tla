-------------------------------- MODULE Job --------------------------------
(***************************************************************************)
(* What a run job promises to those who wait for it: the parent run whose  *)
(* child it is, the operator who canceled it, the one who answered its     *)
(* question.  Claims, leases and children are out of sight.                *)
(***************************************************************************)

VARIABLES
  job,        \* how the job stands
  answered,   \* has its question been answered?
  starting    \* has a worker read the job, to write that it runs?

vars == <<job, answered, starting>>

Ended == {"succeeded", "failed", "canceled"}

Init == job = "none" /\ answered = FALSE /\ starting \in BOOLEAN

\* A job that cannot be started is there, and has failed.
Start == job = "none" /\ job' \in {"active", "failed"} /\ UNCHANGED <<answered, starting>>

\* A worker starts, has started or is gone.
Worker == starting' \in BOOLEAN /\ UNCHANGED <<job, answered>>

Cancel == job = "active" /\ job' = "canceling" /\ UNCHANGED <<answered, starting>>

\* A starting worker writes over the cancel it has read: nobody else undoes it.
Forget ==
  /\ job = "canceling" /\ starting
  /\ job' = "active" /\ starting' \in BOOLEAN
  /\ UNCHANGED answered

\* A canceled job does not succeed.
End ==
  /\ \/ job = "active" /\ job' \in Ended
     \/ job = "canceling" /\ job' \in {"canceled", "failed"}
  /\ UNCHANGED <<answered, starting>>

Answer == job = "active" /\ ~answered /\ answered' = TRUE /\ UNCHANGED <<job, starting>>

\* The answer starts the fencing tokens anew: a process of the time before it may
\* write over what the job ended with.
Rewrite ==
  /\ answered /\ job \in Ended
  /\ job' \in {"active"} \cup Ended /\ starting' \in BOOLEAN
  /\ UNCHANGED answered

Next == Start \/ Worker \/ Cancel \/ Forget \/ End \/ Answer \/ Rewrite

Spec == Init /\ [][Next]_vars
=============================================================================
