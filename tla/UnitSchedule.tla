---------------------------- MODULE UnitSchedule ----------------------------
(***************************************************************************)
(* What the parent run promises about its plan: the order and the limits   *)
(* in which execution units are taken, and what they are taken back for.   *)
(* Who schedules, and how a child comes into being, is out of sight.       *)
(***************************************************************************)
EXTENDS Integers, FiniteSets

CONSTANTS Units, Depends, Keys, Ceiling, Budget

VARIABLES
  phase,    \* how each unit stands
  started   \* child starts that count against the budget

vars == <<phase, started>>

Busy == {u \in Units : phase[u] = "active"}

Init == phase = [u \in Units |-> "pending"] /\ started = 0

\* Units are taken together: each after its dependencies, none beside a unit it
\* conflicts with, and no more than the ceiling and the budget allow.
Take(S) ==
  /\ \A u \in S : phase[u] = "pending" /\ \A d \in Depends[u] : phase[d] = "succeeded"
  /\ \A u \in S, v \in Busy \cup S : u # v => Keys[u] \cap Keys[v] = {}
  /\ Cardinality(Busy \cup S) <= Ceiling
  /\ started' = started + Cardinality(S) /\ started' <= Budget
  /\ phase' = [u \in Units |-> IF u \in S THEN "active" ELSE phase[u]]

End(u) ==
  /\ phase[u] = "active"
  /\ \E s \in {"succeeded", "failed", "canceled"} : phase' = [phase EXCEPT ![u] = s]
  /\ UNCHANGED started

\* A launch that failed costs nothing.
GiveBack(u) ==
  /\ phase[u] = "active"
  /\ phase' = [phase EXCEPT ![u] = "pending"]
  /\ started' = started - 1

Retry(u) ==
  /\ phase[u] = "failed"
  /\ phase' = [phase EXCEPT ![u] = "pending"]
  /\ UNCHANGED started

Next ==
  \/ \E S \in (SUBSET Units) \ {{}} : Take(S)
  \/ \E u \in Units : End(u) \/ GiveBack(u) \/ Retry(u)

Spec == Init /\ [][Next]_vars
=============================================================================
