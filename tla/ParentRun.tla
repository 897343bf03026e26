----------------------------- MODULE ParentRun -----------------------------
(***************************************************************************)
(* One parent run: the parent file with its execution units, the           *)
(* schedulers that reserve and launch child runs, the operators that       *)
(* control the parent, and the workers of the children, which report back  *)
(* when a child ends.                                                      *)
(*                                                                         *)
(* Every updateParent runs under the file lock and is one step; scheduling *)
(* and control are chains of such updates with calls to the children       *)
(* between them.  A child run is a unit and an attempt number, which is    *)
(* what its run id is derived from.                                        *)
(***************************************************************************)
EXTENDS Integers, FiniteSets

CONSTANTS
  Units,           \* the execution units: numbers, in the order of their ids
  Depends,         \* depends_on of each unit
  Keys,            \* conflict_keys of each unit
  HasGates,        \* does the plan name integration gates?
  Ceiling,         \* min of max_concurrency, provider slots and tool slots
  Budget,          \* max_child_starts
  Commands,        \* the command ids operators use
  MaxAttempts,     \* bound on the attempts of a unit
  MaxFaults,       \* bound on calls that fail and processes that die between two steps
  MaxIntegrations  \* bound on integration reports and repairs applied

ASSUME UnitsAreNumbers == Units \subseteq Nat /\ IsFiniteSet(Units)
ASSUME PlanShape ==
  Depends \in [Units -> SUBSET Units] /\ DOMAIN Keys = Units
ASSUME GatesAreOptional == HasGates \in BOOLEAN
ASSUME BoundsAreNaturals ==
  {Ceiling, Budget, MaxAttempts, MaxFaults, MaxIntegrations} \subseteq Nat

VARIABLES
  \* the parent file
  pstatus, unit, active, attempts, entry, consumed, blocker, gates,
  used,       \* command_ids
  fresh,      \* the children whose worker still knows the file's revision
  \* the processes
  launch,     \* how far the scheduler that reserved a child has got with it
  order,      \* the control command that is being propagated
  targets,    \* the children a control command has yet to reach
  missed,     \* did the command fail to reach one?
  child,      \* the run job of the child
  advance,    \* how far the child's worker has got with reporting its end
  faults, integrations

unitVars   == <<unit, active, attempts, entry, consumed>>
parentVars == <<pstatus, unitVars, blocker, gates, used, fresh>>
procVars   == <<launch, order, targets, missed, child, advance>>
counters   == <<faults, integrations>>
vars       == <<parentVars, procVars, counters>>

Children == Units \X (1..MaxAttempts)
Active   == {"launching", "queued", "running", "paused", "canceling"}
Terminal == {"succeeded", "failed", "canceled", "blocked"}
Ended    == {"succeeded", "failed", "canceled"}
Live     == {"active", "canceling"}

TypeOK ==
  /\ pstatus \in {"absent", "queued", "running", "paused", "canceling",
                  "integration-pending"} \cup Terminal
  /\ unit \in [Units -> {"pending", "launching", "queued", "canceling"} \cup Ended]
  /\ active \in [Units -> 0..MaxAttempts]
  /\ attempts \in [Units -> 0..MaxAttempts]
  /\ entry \in [Children -> {"none", "launching", "queued", "launch-failed"} \cup Ended]
  /\ consumed \in Nat
  /\ blocker \in {"none", "budget", "control", "integration", "repair"}
  /\ gates \in {"pending", "passed", "failed"}
  /\ used \in SUBSET Commands
  /\ fresh \in SUBSET Children
  /\ launch \in [Children -> {"none", "reserved", "spawned", "threw", "settled"}]
  /\ order \in [Commands -> {"none", "pause", "resume", "cancel"}]
  /\ targets \in [Commands -> SUBSET Children]
  /\ missed \in [Commands -> BOOLEAN]
  /\ child \in [Children -> {"none"} \cup Live \cup Ended]
  /\ advance \in [Children -> {"off", "read", "completed", "done"}]
  /\ faults \in Nat /\ integrations \in Nat

\* A plan without integration gates passes them vacuously.
Init ==
  /\ pstatus = "absent"
  /\ unit = [u \in Units |-> "pending"]
  /\ active = [u \in Units |-> 0]
  /\ attempts = [u \in Units |-> 0]
  /\ entry = [c \in Children |-> "none"]
  /\ consumed = 0 /\ blocker = "none" /\ gates = IF HasGates THEN "pending" ELSE "passed"
  /\ used = {} /\ fresh = {}
  /\ launch = [c \in Children |-> "none"]
  /\ order = [k \in Commands |-> "none"]
  /\ targets = [k \in Commands |-> {}]
  /\ missed = [k \in Commands |-> FALSE]
  /\ child = [c \in Children |-> "none"]
  /\ advance = [c \in Children |-> "off"]
  /\ faults = 0 /\ integrations = 0

-----------------------------------------------------------------------------
(* updateParent.                                                           *)

ActiveUnits == {u \in Units : unit[u] \in Active}

\* Mutant: a cancel is terminal as soon as it is accepted.
Aggregate_CancelNow(ps, un, bl) ==
  IF ps \in {"paused", "canceled", "canceling"} THEN IF ps = "canceling" THEN "canceled" ELSE ps
  ELSE IF bl # "none" \/ \E u \in Units : un[u] = "failed" THEN "blocked"
  ELSE IF \A u \in Units : un[u] = "succeeded"
    THEN IF gates = "passed" THEN "succeeded" ELSE "integration-pending"
  ELSE IF \E u \in Units : un[u] \in Active THEN "running" ELSE "queued"

\* aggregateStatus, for a record with status ps, units un and blocker bl.
Aggregate(ps, un, bl) ==
  IF ps \in {"paused", "canceled"} THEN ps
  ELSE IF ps = "canceling"
    THEN IF \E u \in Units : un[u] \in Active THEN "canceling" ELSE "canceled"
  ELSE IF bl # "none" \/ \E u \in Units : un[u] = "failed" THEN "blocked"
  ELSE IF \A u \in Units : un[u] = "succeeded"
    THEN IF gates = "passed" THEN "succeeded" ELSE "integration-pending"
  ELSE IF \E u \in Units : un[u] \in Active THEN "running" ELSE "queued"

\* The update stores status ps, units un and blocker bl, and a new revision.
Store(ps, un, bl) ==
  /\ pstatus' = Aggregate(ps, un, bl)
  /\ unit' = un
  /\ blocker' = bl
  /\ fresh' = {}

Start ==
  /\ pstatus = "absent"
  /\ pstatus' = "queued"
  /\ UNCHANGED <<unitVars, blocker, gates, used, fresh, procVars, counters>>

-----------------------------------------------------------------------------
(* scheduleParentRun.                                                      *)

Conflict(u, v) == Keys[u] \cap Keys[v] # {}

\* Mutant: a dependency that has not failed is good enough.
Ready_NotFailed ==
  {u \in Units :
     /\ unit[u] = "pending" /\ attempts[u] < MaxAttempts
     /\ \A d \in Depends[u] : unit[d] # "failed"
     /\ \A v \in ActiveUnits : ~Conflict(u, v)}

Ready ==
  {u \in Units :
     /\ unit[u] = "pending" /\ attempts[u] < MaxAttempts
     /\ \A d \in Depends[u] : unit[d] = "succeeded"
     /\ \A v \in ActiveUnits : ~Conflict(u, v)}

\* Mutant: a launch that is not acknowledged yet takes no slot.
Capacity_Acknowledged == Ceiling - Cardinality({u \in ActiveUnits : unit[u] # "launching"})

Capacity == Ceiling - Cardinality(ActiveUnits)
Remaining == Budget - consumed

\* Mutant: units of the same pass are not compared with each other.
Selection_NoSelectedKeys(S) ==
  \A u \in Ready :
    u \in S <=> LET before == {v \in S : v < u} IN
                  Cardinality(before) < Capacity /\ Cardinality(before) < Remaining

\* S is what the pass over the ready units, in the order of their ids, takes.
Selection(S) ==
  \A u \in Ready :
    u \in S <=> LET before == {v \in S : v < u} IN
                  /\ Cardinality(before) < Capacity
                  /\ Cardinality(before) < Remaining
                  /\ \A v \in before : ~Conflict(u, v)

\* The reservation transaction writes nothing when it has nothing to say: then
\* the readers in keep still know the revision.
ReserveNothing(keep) ==
  fresh' = keep /\ UNCHANGED <<pstatus, unitVars, blocker, gates, used, launch>>

Reserve(keep) ==
  IF pstatus \in Terminal \cup {"paused"}
    THEN ReserveNothing(keep)
    ELSE \E S \in SUBSET Ready :
      /\ Selection(S)
      /\ LET exhausted == Capacity > 0 /\ Remaining <= 0 /\ Ready # {}
             bl        == IF exhausted THEN "budget" ELSE blocker
             taken     == {<<u, attempts[u] + 1>> : u \in S}
         IN IF S = {} /\ bl = "none" THEN ReserveNothing(keep)
            ELSE /\ Store(IF exhausted THEN "blocked" ELSE pstatus,
                          [u \in Units |-> IF u \in S THEN "launching" ELSE unit[u]], bl)
                 /\ attempts' = [u \in Units |-> IF u \in S THEN attempts[u] + 1 ELSE attempts[u]]
                 /\ active' = [u \in Units |-> IF u \in S THEN attempts[u] + 1 ELSE active[u]]
                 /\ entry' = [c \in Children |-> IF c \in taken THEN "launching" ELSE entry[c]]
                 /\ launch' = [c \in Children |-> IF c \in taken THEN "reserved" ELSE launch[c]]
                 /\ consumed' = consumed + Cardinality(S)
                 /\ UNCHANGED <<gates, used>>

\* "run start" of a parent run schedules, the first time and when repeated.
Schedule ==
  /\ pstatus # "absent"
  /\ Reserve(fresh)
  /\ UNCHANGED <<order, targets, missed, child, advance, counters>>

\* Mutant: any child of a busy unit passes for the one the unit waits for.
Owns_AnyAttempt(c) == active[c[1]] # 0

\* active_child_run_id of its unit names child c.
Owns(c) == active[c[1]] = c[2]

\* startChild: it starts the child's run job, or throws before or after that.
LaunchChild(c) ==
  /\ launch[c] = "reserved"
  /\ \/ /\ launch' = [launch EXCEPT ![c] = "spawned"]
        /\ child' = [child EXCEPT ![c] = "active"]
        /\ UNCHANGED faults
     \/ /\ faults < MaxFaults /\ faults' = faults + 1
        /\ launch' = [launch EXCEPT ![c] = "threw"]
        /\ child' \in {child, [child EXCEPT ![c] = "failed"]}
  /\ UNCHANGED <<parentVars, order, targets, missed, advance, integrations>>

\* The launch is acknowledged, unless the unit moved on or the update fails.
Acknowledge(c) ==
  /\ launch[c] = "spawned"
  /\ \/ /\ Owns(c) /\ unit[c[1]] = "launching"
        /\ Store(pstatus, [unit EXCEPT ![c[1]] = "queued"], blocker)
        /\ entry' = [entry EXCEPT ![c] = "queued"]
        /\ launch' = [launch EXCEPT ![c] = "settled"]
        /\ UNCHANGED <<active, attempts, consumed, gates, used, faults>>
     \/ /\ ~(Owns(c) /\ unit[c[1]] = "launching")
        /\ launch' = [launch EXCEPT ![c] = "threw"]
        /\ UNCHANGED <<parentVars, faults>>
     \/ /\ faults < MaxFaults /\ faults' = faults + 1
        /\ launch' = [launch EXCEPT ![c] = "threw"]
        /\ UNCHANGED parentVars
  /\ UNCHANGED <<order, targets, missed, child, advance, integrations>>

\* Mutant: the failure is recorded whatever the unit does meanwhile.
LaunchFailed_Unchecked(c) ==
  /\ launch[c] = "threw"
  /\ launch' = [launch EXCEPT ![c] = "settled"]
  /\ Store(pstatus, [unit EXCEPT ![c[1]] = "pending"], blocker)
  /\ active' = [active EXCEPT ![c[1]] = 0]
  /\ entry' = [entry EXCEPT ![c] = "launch-failed"]
  /\ consumed' = IF consumed > 0 THEN consumed - 1 ELSE 0
  /\ UNCHANGED <<attempts, gates, used, order, targets, missed, child, advance, counters>>

\* Mutant: the budget is refunded whether or not the reservation still stands.
LaunchFailed_RefundsAlways(c) ==
  /\ launch[c] = "threw"
  /\ launch' = [launch EXCEPT ![c] = "settled"]
  /\ consumed' = IF consumed > 0 THEN consumed - 1 ELSE 0
  /\ IF Owns(c)
       THEN /\ Store(pstatus, [unit EXCEPT ![c[1]] = "pending"], blocker)
            /\ active' = [active EXCEPT ![c[1]] = 0]
            /\ entry' = [entry EXCEPT ![c] = "launch-failed"]
            /\ UNCHANGED <<attempts, gates, used>>
       ELSE UNCHANGED <<pstatus, unit, active, attempts, entry, blocker, gates, used, fresh>>
  /\ UNCHANGED <<order, targets, missed, child, advance, counters>>

\* The failure releases the reservation and refunds the budget.
LaunchFailed(c) ==
  /\ launch[c] = "threw"
  /\ launch' = [launch EXCEPT ![c] = "settled"]
  /\ IF Owns(c)
       THEN /\ Store(pstatus, [unit EXCEPT ![c[1]] = "pending"], blocker)
            /\ active' = [active EXCEPT ![c[1]] = 0]
            /\ entry' = [entry EXCEPT ![c] = "launch-failed"]
            /\ consumed' = IF consumed > 0 THEN consumed - 1 ELSE 0
            /\ UNCHANGED <<attempts, gates, used>>
       ELSE UNCHANGED parentVars
  /\ UNCHANGED <<order, targets, missed, child, advance, counters>>

\* The scheduling process dies with the launch half done.
SchedulerCrashes(c) ==
  /\ launch[c] \in {"reserved", "spawned", "threw"} /\ faults < MaxFaults
  /\ launch' = [launch EXCEPT ![c] = "settled"]
  /\ faults' = faults + 1
  /\ UNCHANGED <<parentVars, order, targets, missed, child, advance, integrations>>

-----------------------------------------------------------------------------
(* The child runs, seen from the parent, and their workers.                *)

\* The child's job ends; its worker looks up the unit that waits for the child
\* (advanceParentForChildRun) and remembers the revision of the parent.
ChildEnds(c) ==
  /\ child[c] \in Live
  /\ child' \in {[child EXCEPT ![c] = s] : s \in IF child[c] = "canceling" THEN {"canceled"} ELSE Ended}
  /\ IF Owns(c)
       THEN advance' = [advance EXCEPT ![c] = "read"] /\ fresh' = fresh \cup {c}
       ELSE advance' = [advance EXCEPT ![c] = "done"] /\ UNCHANGED fresh
  /\ UNCHANGED <<pstatus, unitVars, blocker, gates, used, launch, order, targets, missed, counters>>

\* A cancel that reaches the child while its worker starts may be written over
\* by it.
ChildForgets(c) ==
  /\ child[c] = "canceling"
  /\ child' = [child EXCEPT ![c] = "active"]
  /\ UNCHANGED <<parentVars, launch, order, targets, missed, advance, counters>>

\* The worker dies or fails before it can: nothing advances the parent.
WorkerCrashes(c) ==
  /\ faults < MaxFaults
  /\ \/ child[c] \in Live /\ child' = [child EXCEPT ![c] = "failed"]
     \/ advance[c] \in {"read", "completed"} /\ UNCHANGED child
  /\ advance' = [advance EXCEPT ![c] = "done"]
  /\ fresh' = fresh \ {c}
  /\ faults' = faults + 1
  /\ UNCHANGED <<pstatus, unitVars, blocker, gates, used, launch, order, targets, missed, integrations>>

\* completeChildRun; a conflict is written into the job and ends the advance.
AdvanceComplete(c) ==
  /\ advance[c] = "read"
  /\ IF c \in fresh /\ Owns(c)
       THEN LET un == [unit EXCEPT ![c[1]] = child[c]] IN
            /\ pstatus' = Aggregate(pstatus, un, blocker)
            /\ unit' = un
            /\ fresh' = {c}
            /\ entry' = [entry EXCEPT ![c] = child[c]]
            /\ active' = [active EXCEPT ![c[1]] = 0]
            /\ advance' = [advance EXCEPT ![c] = "completed"]
            /\ UNCHANGED <<attempts, consumed, blocker, gates, used>>
       ELSE advance' = [advance EXCEPT ![c] = "done"] /\ UNCHANGED parentVars
  /\ UNCHANGED <<launch, order, targets, missed, child, counters>>

\* It then schedules what became ready, at the revision it has just written.
AdvanceSchedule(c) ==
  /\ advance[c] = "completed"
  /\ advance' = [advance EXCEPT ![c] = "done"]
  /\ IF c \in fresh THEN Reserve(fresh \ {c}) ELSE UNCHANGED <<parentVars, launch>>
  /\ UNCHANGED <<order, targets, missed, child, counters>>

-----------------------------------------------------------------------------
(* Operators.                                                              *)

\* A command id is good for one command; reach are the children it goes to.
Issue(k, word, ps, un, reach) ==
  /\ pstatus # "absent" /\ k \notin used
  /\ used' = used \cup {k}
  /\ Store(ps, un, blocker)
  /\ order' = [order EXCEPT ![k] = IF reach = {} THEN "none" ELSE word]
  /\ targets' = [targets EXCEPT ![k] = reach]
  /\ UNCHANGED <<active, attempts, entry, consumed, gates, launch, missed, child, advance, counters>>

ActiveChildren == {<<u, active[u]>> : u \in ActiveUnits}

\* Mutant: a pause marks the units as well.
Pause_MarksUnits(k) ==
  Issue(k, "pause", "paused", [u \in Units |-> IF u \in ActiveUnits THEN "paused" ELSE unit[u]],
        ActiveChildren)

Pause(k) == Issue(k, "pause", "paused", unit, ActiveChildren)
Resume(k) == pstatus = "paused" /\ Issue(k, "resume", "queued", unit, ActiveChildren)

\* Mutant: a cancel withdraws what already ended as well.
Cancel_EveryUnit(k) ==
  Issue(k, "cancel", "canceling",
        [u \in Units |-> IF unit[u] # "pending" THEN "canceling" ELSE unit[u]], ActiveChildren)

Cancel(k) ==
  Issue(k, "cancel", "canceling",
        [u \in Units |-> IF u \in ActiveUnits THEN "canceling" ELSE unit[u]], ActiveChildren)

\* A cancel reaches the job of the child; a child whose job does not exist yet
\* is passed over without an error.
Propagate(k, c) ==
  /\ c \in targets[k]
  /\ targets' = [targets EXCEPT ![k] = @ \ {c}]
  /\ \/ /\ child' = IF order[k] = "cancel" /\ child[c] = "active"
                      THEN [child EXCEPT ![c] = "canceling"] ELSE child
        /\ UNCHANGED <<missed, faults>>
     \/ /\ faults < MaxFaults /\ faults' = faults + 1
        /\ missed' = [missed EXCEPT ![k] = TRUE]
        /\ UNCHANGED child
  /\ UNCHANGED <<parentVars, order, launch, advance, integrations>>

\* Children that were not reached block the parent.
FinishControl(k) ==
  /\ order[k] # "none" /\ targets[k] = {}
  /\ order' = [order EXCEPT ![k] = "none"]
  /\ Store(pstatus, unit, IF missed[k] THEN "control" ELSE blocker)
  /\ UNCHANGED <<active, attempts, entry, consumed, gates, used, launch, targets, missed, child,
                 advance, counters>>

\* The operator's process dies while it goes through the children.
ControlCrashes(k) ==
  /\ order[k] # "none" /\ faults < MaxFaults
  /\ order' = [order EXCEPT ![k] = "none"]
  /\ targets' = [targets EXCEPT ![k] = {}]
  /\ faults' = faults + 1
  /\ UNCHANGED <<parentVars, launch, missed, child, advance, integrations>>

Retry(k, u) ==
  /\ unit[u] = "failed"
  /\ Issue(k, "retry", pstatus, [unit EXCEPT ![u] = "pending"], {})

\* The canonical report is applied whatever the units have come to: it is made from
\* output files that the operator names, which nothing ties to a child's success.
\* The status is set without a look at the one it replaces.
ApplyIntegration(passed) ==
  /\ pstatus # "absent" /\ integrations < MaxIntegrations
  /\ pstatus' = IF passed THEN "succeeded" ELSE "blocked"
  /\ blocker' = IF passed THEN "none" ELSE "integration"
  /\ gates' = IF passed THEN "passed" ELSE "failed"
  /\ fresh' = {}
  /\ integrations' = integrations + 1
  /\ UNCHANGED <<unitVars, used, procVars, faults>>

RequestRepair ==
  /\ pstatus # "absent" /\ integrations < MaxIntegrations
  /\ pstatus' = "blocked" /\ blocker' = "repair" /\ fresh' = {}
  /\ integrations' = integrations + 1
  /\ UNCHANGED <<unitVars, gates, used, procVars, faults>>

-----------------------------------------------------------------------------
LaunchStep(c)  == LaunchChild(c) \/ Acknowledge(c) \/ LaunchFailed(c)
AdvanceStep(c) == AdvanceComplete(c) \/ AdvanceSchedule(c)
Crash(c)       == SchedulerCrashes(c) \/ WorkerCrashes(c)

OperatorStep(k) ==
  \/ Pause(k) \/ Resume(k) \/ Cancel(k) \/ FinishControl(k) \/ ControlCrashes(k)
  \/ \E c \in Children : Propagate(k, c)
  \/ \E u \in Units : Retry(k, u)

Next ==
  \/ Start \/ Schedule
  \/ \E c \in Children : LaunchStep(c) \/ ChildEnds(c) \/ ChildForgets(c) \/ AdvanceStep(c) \/ Crash(c)
  \/ \E k \in Commands : OperatorStep(k)
  \/ \E passed \in BOOLEAN : ApplyIntegration(passed)
  \/ RequestRepair

Spec == Init /\ [][Next]_vars

-----------------------------------------------------------------------------
(* What the parent promises.                                               *)

\* Two units that share a conflict key are never active together, whichever
\* schedulers reserved them (readyUnits and the selection of one pass).
ConflictsExclude ==
  \A u, v \in ActiveUnits : u # v => ~Conflict(u, v)

\* The active units never outnumber the ceiling, however many schedulers and
\* completions interleave.
WithinCeiling == Cardinality(ActiveUnits) <= Ceiling

\* No unit has been started before all it depends on succeeded, and nothing
\* takes that success back later.
DependenciesFirst ==
  \A u \in Units : unit[u] # "pending" => \A d \in Depends[u] : unit[d] = "succeeded"

\* The budget is debited once for every attempt that is not a failed launch,
\* whatever completions, cancels and failures overtake a launch.
BudgetCountsAttempts ==
  /\ consumed = Cardinality({c \in Children : entry[c] \notin {"none", "launch-failed"}})
  /\ consumed <= Budget

\* A child whose launch was acknowledged stays the one its unit waits for
\* until it has ended: no other launch, failure or retry forgets it.
AcknowledgedIsTracked ==
  \A c \in Children : entry[c] = "queued" => Owns(c)

\* No child runs on forgotten: the unit waits for it, or its launch was recorded
\* as failed.
ChildrenAreTracked ==
  /\ AcknowledgedIsTracked
  /\ \A c \in Children : child[c] \in Live => Owns(c) \/ entry[c] = "launch-failed"

\* A unit ends only with what its own active child ended with: a child of an
\* earlier attempt decides nothing.
VerdictOfActiveChild ==
  [][\A u \in Units : unit'[u] \in Ended /\ unit'[u] # unit[u]
       => Owns(<<u, active[u]>>) /\ active[u] # 0 /\ child[<<u, active[u]>>] = unit'[u]]_vars

\* A unit that succeeded is never run again or withdrawn.
SuccessStays ==
  [][\A u \in Units : unit[u] = "succeeded" => unit'[u] = "succeeded"]_vars

\* A canceled parent waits for no child any more (aggregateStatus).
CanceledIsQuiet == pstatus = "canceled" => ActiveUnits = {}

\* Whatever schedulers, completions, commands and failed launches interleave,
\* the units are taken, ended and taken back as UnitSchedule says.
Phase == [u \in Units |-> IF unit[u] \in Active THEN "active" ELSE unit[u]]
Plan == INSTANCE UnitSchedule WITH phase <- Phase, started <- consumed
PlanIsKept == Plan!Spec

\* To the parent a child is a job that may start at any time and is not answered:
\* the promises of Job, which RunJob keeps, are all that it relies on.
ChildJob(c) == INSTANCE Job WITH job <- child[c], answered <- FALSE, starting <- TRUE
ChildrenAreJobs ==
  /\ \A c \in Children : ChildJob(c)!Init
  /\ [][\A c \in Children : [ChildJob(c)!Next]_(ChildJob(c)!vars)]_vars

-----------------------------------------------------------------------------
(* What the documents promise beyond that.                                 *)

\* "a parent cancel remains canceling until every active child acknowledges a
\* terminal state, then becomes canceled".
CanceledAfterChildren ==
  pstatus = "canceled" => \A c \in Children : child[c] \notin Live

\* "Terminal child persistence advances the scheduler": a worker that reported
\* the end of its child does not leave the unit waiting for it.
CompletionAdvances ==
  \A c \in Children : advance[c] = "done" => ~Owns(c)
=============================================================================
