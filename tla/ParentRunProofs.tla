-------------------------- MODULE ParentRunProofs --------------------------
(***************************************************************************)
(* Proofs about ParentRun, for any plan, any number of attempts, commands  *)
(* and faults.                                                             *)
(*                                                                         *)
(* UnitInv ties a unit to the child it waits for, through every launch     *)
(* that fails, completion that comes late and command that intervenes.     *)
(***************************************************************************)
EXTENDS ParentRun, TLAPS, FiniteSetTheorems, FunctionTheorems, WellFoundedInduction

\* A child comes into being with its attempt, runs after its launch, and its
\* worker reports after it has ended.
ChildInv ==
  \A c \in Children :
    /\ c[2] > attempts[c[1]] => entry[c] = "none" /\ launch[c] = "none" /\ child[c] = "none"
    /\ launch[c] \in {"none", "reserved"} => child[c] = "none"
    /\ child[c] \in {"none"} \cup Live => advance[c] = "off"

\* The unit waits for a child exactly while it is active, and the record of that
\* child says so.
UnitInv ==
  /\ \A u \in Units : unit[u] \in Active <=> active[u] # 0
  /\ \A u \in Units : active[u] <= attempts[u]
  /\ \A c \in Children : Owns(c) => entry[c] \in {"launching", "queued"}
  /\ AcknowledgedIsTracked

\* The entry of a child says whether the unit waits for it, and whether it has
\* been, is or may yet be run.
EntryInv ==
  \A c \in Children :
    /\ entry[c] = "none" => child[c] = "none"
    /\ launch[c] = "reserved" => entry[c] = "launching"
    /\ entry[c] \in {"launching", "queued"} => Owns(c)
    /\ entry[c] \in Ended => child[c] \in Ended

-----------------------------------------------------------------------------
\* Children are pairs.
LEMMA ChildParts == \A c \in Children : c[1] \in Units /\ c[2] \in 1..MaxAttempts
BY DEF Children

\* The parts of a child make it up.
LEMMA ChildrenArePairs ==
  /\ \A c \in Children : c = <<c[1], c[2]>>
  /\ \A u \in Units, n \in 1..MaxAttempts : <<u, n>> \in Children
  /\ \A c, d \in Children : c[1] = d[1] /\ c[2] = d[2] => c = d
BY DEF Children

Words == {"queued", "running", "paused", "canceling", "integration-pending"} \cup Terminal

\* aggregateStatus yields a status.
LEMMA AggregateType ==
  ASSUME NEW ps \in Words \cup {"absent"}, NEW un, NEW bl
  PROVE  Aggregate(ps, un, bl) \in Words
BY DEF Aggregate, Words, Terminal

\* A scheduling transaction changes nothing but the revision, or takes S.
Takes(S) ==
  /\ S \subseteq Ready /\ Selection(S)
  /\ pstatus \notin Terminal \cup {"paused"}
  /\ \E ps \in {"blocked", pstatus}, bl \in {"budget", blocker} :
       pstatus' = Aggregate(ps, unit', bl) /\ blocker' = bl
  /\ unit' = [u \in Units |-> IF u \in S THEN "launching" ELSE unit[u]]
  /\ attempts' = [u \in Units |-> IF u \in S THEN attempts[u] + 1 ELSE attempts[u]]
  /\ active' = [u \in Units |-> IF u \in S THEN attempts[u] + 1 ELSE active[u]]
  /\ entry' = [c \in Children |-> IF c \in {<<u, attempts[u] + 1>> : u \in S} THEN "launching" ELSE entry[c]]
  /\ launch' = [c \in Children |-> IF c \in {<<u, attempts[u] + 1>> : u \in S} THEN "reserved" ELSE launch[c]]
  /\ consumed' = consumed + Cardinality(S)
  /\ UNCHANGED <<gates, used>>

Idles == UNCHANGED <<pstatus, unitVars, blocker, gates, used, launch>>

\* The two cases of scheduleParentRun's transaction.
LEMMA ReserveEffect ==
  ASSUME NEW keep \in SUBSET fresh, Reserve(keep)
  PROVE  fresh' \in SUBSET fresh /\ (Idles \/ \E S : Takes(S))
<1>1. CASE ReserveNothing(keep)
  BY <1>1 DEF ReserveNothing, Idles
<1>2. CASE ~ReserveNothing(keep)
  <2> DEFINE Exhausted == Capacity > 0 /\ Remaining <= 0 /\ Ready # {}
             Taken(S) == {<<u, attempts[u] + 1>> : u \in S}
  <2>1. pstatus \notin Terminal \cup {"paused"}
    BY <1>2 DEF Reserve
  <2>2. PICK S \in SUBSET Ready :
          /\ Selection(S)
          /\ Store(IF Exhausted THEN "blocked" ELSE pstatus,
                   [u \in Units |-> IF u \in S THEN "launching" ELSE unit[u]],
                   IF Exhausted THEN "budget" ELSE blocker)
          /\ attempts' = [u \in Units |-> IF u \in S THEN attempts[u] + 1 ELSE attempts[u]]
          /\ active' = [u \in Units |-> IF u \in S THEN attempts[u] + 1 ELSE active[u]]
          /\ entry' = [c \in Children |-> IF c \in Taken(S) THEN "launching" ELSE entry[c]]
          /\ launch' = [c \in Children |-> IF c \in Taken(S) THEN "reserved" ELSE launch[c]]
          /\ consumed' = consumed + Cardinality(S)
          /\ UNCHANGED <<gates, used>>
    BY <1>2, <2>1, Zenon DEF Reserve
  <2>3. Takes(S)
    <3> HIDE DEF Exhausted
    <3> QED BY <2>1, <2>2 DEF Takes, Store
  <2>4. fresh' = {}
    BY <2>2 DEF Store
  <2> QED
    BY <2>3, <2>4
<1> QED
  BY <1>1, <1>2

-----------------------------------------------------------------------------
\* What scheduleParentRun's transaction is to the children that exist: the
\* worker that calls it has reported.
Bystanders ==
  /\ child' = child
  /\ \A c \in Children : advance'[c] \in {advance[c], "done"} /\ (advance[c] = "off" => advance'[c] = "off")
  /\ advance' \in [Children -> {"off", "read", "completed", "done"}]
  /\ UNCHANGED <<order, targets, missed, counters>>

\* Types survive the transaction.
LEMMA ScheduleTypes ==
  ASSUME TypeOK, Bystanders, NEW keep \in SUBSET fresh, Reserve(keep)
  PROVE  TypeOK'
<1> USE DEF TypeOK, Bystanders, counters
<1>1. CASE Idles
  BY <1>1, ReserveEffect DEF Idles, unitVars
<1>2. ASSUME NEW S, Takes(S)
      PROVE  TypeOK'
  <2>1. IsFiniteSet(S) /\ Cardinality(S) \in Nat
    BY <1>2, UnitsAreNumbers, FS_Subset, FS_CardinalityType DEF Takes, Ready
  <2>2. \A u \in S : u \in Units /\ attempts[u] + 1 \in 0..MaxAttempts
    BY <1>2, BoundsAreNaturals DEF Takes, Ready
  <2>3. pstatus' \in Words /\ blocker' \in {"none", "budget", "control", "integration", "repair"}
    BY <1>2, AggregateType DEF Takes, Words, Terminal
  <2>4. fresh' \in SUBSET Children
    BY ReserveEffect
  <2>5. attempts' \in [Units -> 0..MaxAttempts] /\ active' \in [Units -> 0..MaxAttempts]
    BY <1>2, <2>2 DEF Takes
  <2>6. /\ unit' \in [Units -> {"pending", "launching", "queued", "canceling"} \cup Ended]
        /\ entry' \in [Children -> {"none", "launching", "queued", "launch-failed"} \cup Ended]
        /\ launch' \in [Children -> {"none", "reserved", "spawned", "threw", "settled"}]
    BY <1>2 DEF Takes
  <2>7. consumed' \in Nat /\ gates' = gates /\ used' = used
    BY <1>2, <2>1 DEF Takes
  <2> QED
    BY <2>3, <2>4, <2>5, <2>6, <2>7 DEF Words
<1> QED
  BY <1>1, <1>2, ReserveEffect

\* The fields of a control or retry command have their types.
LEMMA IssueTypes ==
  ASSUME TypeOK, NEW k \in Commands, NEW word \in {"pause", "resume", "cancel", "retry"},
         NEW ps \in Words, NEW reach \in SUBSET Children, word = "retry" => reach = {},
         NEW un \in [Units -> {"pending", "launching", "queued", "canceling"} \cup Ended],
         Issue(k, word, ps, un, reach)
  PROVE  TypeOK'
<1> USE DEF TypeOK, Issue
<1>1. pstatus' \in Words
  BY AggregateType DEF Store
<1>2. order' \in [Commands -> {"none", "pause", "resume", "cancel"}]
  OBVIOUS
<1>3. targets' \in [Commands -> SUBSET Children]
  OBVIOUS
<1> QED
  BY <1>1, <1>2, <1>3 DEF Store, Words, counters

\* A command that changes the parent goes to children it has.
LEMMA ActiveChildrenAreChildren == TypeOK /\ UnitInv => ActiveChildren \in SUBSET Children
BY ChildrenArePairs DEF TypeOK, UnitInv, ActiveChildren, ActiveUnits

\* Recording that a child was not reached keeps the record's type.
LEMMA MissedType ==
  ASSUME missed \in [Commands -> BOOLEAN], NEW k \in Commands
  PROVE  [missed EXCEPT ![k] = TRUE] \in [Commands -> BOOLEAN]
BY Zenon

\* Every variable keeps its type.
LEMMA TypeStep == TypeOK /\ ChildInv /\ UnitInv /\ [Next]_vars => TypeOK'
<1> SUFFICES ASSUME TypeOK, ChildInv, UnitInv, [Next]_vars PROVE TypeOK'
  OBVIOUS
<1> USE ChildParts, AggregateType DEF TypeOK, Words, Terminal
<1>1. CASE Start
  BY <1>1 DEF Start, Store, parentVars, unitVars, procVars, counters
<1>2. CASE Schedule
  <2>1. Bystanders
    BY <1>2 DEF Schedule, Bystanders, TypeOK
  <2>2. fresh \in SUBSET fresh /\ Reserve(fresh)
    BY <1>2 DEF Schedule
  <2> QED
    BY <2>1, <2>2, ScheduleTypes
<1>3. ASSUME NEW c \in Children, LaunchChild(c)
      PROVE  TypeOK'
  <2>1. child' \in [Children -> {"none"} \cup Live \cup Ended]
    BY <1>3 DEF LaunchChild, Live, Ended
  <2>2. launch' \in [Children -> {"none", "reserved", "spawned", "threw", "settled"}]
    BY <1>3 DEF LaunchChild
  <2>3. faults' \in Nat
    BY <1>3 DEF LaunchChild
  <2> QED
    BY <1>3, <2>1, <2>2, <2>3 DEF LaunchChild, parentVars, unitVars
<1>4. ASSUME NEW c \in Children, Acknowledge(c)
      PROVE  TypeOK'
  BY <1>4 DEF Acknowledge, Store, parentVars, unitVars, procVars, counters
<1>5. ASSUME NEW c \in Children, LaunchFailed(c)
      PROVE  TypeOK'
  <2>1. unit' \in [Units -> {"pending", "launching", "queued", "canceling"} \cup Ended]
    BY <1>5 DEF LaunchFailed, Store, parentVars, unitVars
  <2>2. pstatus' \in Words \cup {"absent"}
    BY <1>5 DEF LaunchFailed, Store, parentVars
  <2>3. /\ active' \in [Units -> 0..MaxAttempts]
        /\ entry' \in [Children -> {"none", "launching", "queued", "launch-failed"} \cup Ended]
        /\ consumed' \in Nat
    BY <1>5, BoundsAreNaturals DEF LaunchFailed, parentVars, unitVars
  <2> QED
    BY <1>5, <2>1, <2>2, <2>3 DEF LaunchFailed, Store, parentVars, unitVars, counters
<1>6. ASSUME NEW c \in Children, SchedulerCrashes(c)
      PROVE  TypeOK'
  BY <1>6 DEF SchedulerCrashes, Store, parentVars, unitVars, procVars, counters
<1>7. ASSUME NEW c \in Children, ChildEnds(c)
      PROVE  TypeOK'
  <2>1. child' \in [Children -> {"none"} \cup Live \cup Ended]
    BY <1>7 DEF ChildEnds, Ended
  <2>2. advance' \in [Children -> {"off", "read", "completed", "done"}] /\ fresh' \in SUBSET Children
    BY <1>7 DEF ChildEnds
  <2> QED
    BY <1>7, <2>1, <2>2 DEF ChildEnds, unitVars, counters
<1>f. ASSUME NEW c \in Children, ChildForgets(c)
      PROVE  TypeOK'
  <2>1. child' \in [Children -> {"none"} \cup Live \cup Ended]
    BY <1>f DEF ChildForgets, Live
  <2> QED
    BY <1>f, <2>1 DEF ChildForgets, parentVars, unitVars, counters
<1>8. ASSUME NEW c \in Children, WorkerCrashes(c)
      PROVE  TypeOK'
  <2>1. child' \in [Children -> {"none"} \cup Live \cup Ended]
    BY <1>8 DEF WorkerCrashes, Ended
  <2>2. /\ advance' \in [Children -> {"off", "read", "completed", "done"}]
        /\ fresh' \in SUBSET Children /\ faults' \in Nat
    BY <1>8 DEF WorkerCrashes
  <2> QED
    BY <1>8, <2>1, <2>2 DEF WorkerCrashes, unitVars
<1>9. ASSUME NEW c \in Children, AdvanceComplete(c)
      PROVE  TypeOK'
  <2>1. child[c] \in Ended
    BY <1>9 DEF AdvanceComplete, ChildInv
  <2>2. /\ unit' \in [Units -> {"pending", "launching", "queued", "canceling"} \cup Ended]
        /\ entry' \in [Children -> {"none", "launching", "queued", "launch-failed"} \cup Ended]
    BY <1>9, <2>1 DEF AdvanceComplete, parentVars, unitVars
  <2>3. pstatus' \in Words \cup {"absent"}
    BY <1>9 DEF AdvanceComplete, parentVars
  <2>4. /\ active' \in [Units -> 0..MaxAttempts]
        /\ advance' \in [Children -> {"off", "read", "completed", "done"}] /\ fresh' \in SUBSET Children
    BY <1>9, BoundsAreNaturals DEF AdvanceComplete, parentVars, unitVars
  <2> QED
    BY <1>9, <2>2, <2>3, <2>4 DEF AdvanceComplete, parentVars, unitVars, counters
<1>10. ASSUME NEW c \in Children, AdvanceSchedule(c)
      PROVE  TypeOK'
  <2>1. CASE c \in fresh
    <3>1. Bystanders
      BY <1>10 DEF AdvanceSchedule, Bystanders, TypeOK
    <3>2. fresh \ {c} \in SUBSET fresh /\ Reserve(fresh \ {c})
      BY <1>10, <2>1 DEF AdvanceSchedule
    <3> QED
      BY <3>1, <3>2, ScheduleTypes
  <2>2. CASE c \notin fresh
    BY <1>10, <2>2 DEF AdvanceSchedule, parentVars, unitVars, procVars, counters
  <2> QED
    BY <2>1, <2>2
<1>11. ASSUME NEW k \in Commands, Pause(k)
      PROVE  TypeOK'
  <2> DEFINE un == unit
  <2>1. un \in [Units -> {"pending", "launching", "queued", "canceling"} \cup Ended]
    BY DEF Ended
  <2>2. "paused" \in Words
    BY <1>11 DEF Pause, Issue, Words
  <2> HIDE DEF un
  <2>3. Issue(k, "pause", "paused", un, ActiveChildren)
    BY <1>11 DEF Pause, un
  <2> QED
    BY <2>1, <2>2, <2>3, IssueTypes, ActiveChildrenAreChildren
<1>12. ASSUME NEW k \in Commands, Resume(k)
      PROVE  TypeOK'
  <2> DEFINE un == unit
  <2>1. un \in [Units -> {"pending", "launching", "queued", "canceling"} \cup Ended]
    BY DEF Ended
  <2>2. "queued" \in Words
    BY <1>12 DEF Resume, Issue, Words
  <2> HIDE DEF un
  <2>3. Issue(k, "resume", "queued", un, ActiveChildren)
    BY <1>12 DEF Resume, un
  <2> QED
    BY <2>1, <2>2, <2>3, IssueTypes, ActiveChildrenAreChildren
<1>13. ASSUME NEW k \in Commands, Cancel(k)
      PROVE  TypeOK'
  <2> DEFINE un == [u \in Units |-> IF u \in ActiveUnits THEN "canceling" ELSE unit[u]]
  <2>1. un \in [Units -> {"pending", "launching", "queued", "canceling"} \cup Ended]
    BY DEF Ended
  <2>2. "canceling" \in Words
    BY <1>13 DEF Cancel, Issue, Words
  <2> HIDE DEF un
  <2>3. Issue(k, "cancel", "canceling", un, ActiveChildren)
    BY <1>13 DEF Cancel, un
  <2> QED
    BY <2>1, <2>2, <2>3, IssueTypes, ActiveChildrenAreChildren
<1>14. ASSUME NEW k \in Commands, NEW c \in Children, Propagate(k, c)
      PROVE  TypeOK'
  <2>1. child' \in [Children -> {"none"} \cup Live \cup Ended]
    BY <1>14 DEF Propagate, Live
  <2>2. missed' \in [Commands -> BOOLEAN]
    BY <1>14, MissedType DEF Propagate
  <2>3. faults' \in Nat /\ targets' \in [Commands -> SUBSET Children]
    BY <1>14 DEF Propagate
  <2> QED
    BY <1>14, <2>1, <2>2, <2>3 DEF Propagate, parentVars, unitVars
<1>15. ASSUME NEW k \in Commands, FinishControl(k)
      PROVE  TypeOK'
  BY <1>15 DEF FinishControl, Store, parentVars, unitVars, procVars, counters
<1>16. ASSUME NEW k \in Commands, ControlCrashes(k)
      PROVE  TypeOK'
  BY <1>16 DEF ControlCrashes, Store, parentVars, unitVars, procVars, counters
<1>17. ASSUME NEW k \in Commands, NEW u \in Units, Retry(k, u)
      PROVE  TypeOK'
  <2> DEFINE un == [unit EXCEPT ![u] = "pending"]
  <2>1. un \in [Units -> {"pending", "launching", "queued", "canceling"} \cup Ended]
    BY DEF Ended
  <2>2. pstatus \in Words
    BY <1>17 DEF Retry, Issue, Words
  <2> HIDE DEF un
  <2>3. Issue(k, "retry", pstatus, un, {})
    BY <1>17 DEF Retry, un
  <2> QED
    BY <2>1, <2>2, <2>3, IssueTypes
<1>18. ASSUME NEW passed \in BOOLEAN, ApplyIntegration(passed)
      PROVE  TypeOK'
  BY <1>18 DEF ApplyIntegration, Store, parentVars, unitVars, procVars, counters
<1>19. CASE RequestRepair
  BY <1>19 DEF RequestRepair, Store, parentVars, unitVars, procVars, counters
<1>20. CASE UNCHANGED vars
  BY <1>20 DEF vars, parentVars, unitVars, procVars, counters
<1>21. QED
  BY <1>1, <1>2, <1>3, <1>4, <1>5, <1>6, <1>7, <1>f, <1>8, <1>9, <1>10, <1>11, <1>12, <1>13,
     <1>14, <1>15, <1>16, <1>17, <1>18, <1>19, <1>20
  DEF Next, LaunchStep, AdvanceStep, Crash, OperatorStep

-----------------------------------------------------------------------------
\* The transaction starts attempts nobody has seen before.
LEMMA ScheduleChildren ==
  ASSUME TypeOK, ChildInv, Bystanders, NEW keep \in SUBSET fresh, Reserve(keep)
  PROVE  ChildInv'
<1> USE ChildParts DEF TypeOK, ChildInv, Bystanders
<1>1. CASE Idles
  BY <1>1 DEF Idles, unitVars
<1>2. ASSUME NEW S, Takes(S)
      PROVE  ChildInv'
  <2> DEFINE taken == {<<u, attempts[u] + 1>> : u \in S}
  <2>1. S \subseteq Units
    BY <1>2 DEF Takes, Ready
  <2>2. \A c \in Children : c \in taken => c[1] \in S /\ c[2] = attempts[c[1]] + 1
    OBVIOUS
  <2>3. \A c \in Children : attempts'[c[1]] \in Nat /\ attempts'[c[1]] >= attempts[c[1]]
                            /\ (c \in taken => attempts'[c[1]] = c[2])
    BY <1>2, <2>1, <2>2, BoundsAreNaturals DEF Takes
  <2>4. \A c \in Children : entry'[c] = IF c \in taken THEN "launching" ELSE entry[c]
    BY <1>2 DEF Takes
  <2>5. \A c \in Children : launch'[c] = IF c \in taken THEN "reserved" ELSE launch[c]
    BY <1>2 DEF Takes
  <2> HIDE DEF taken
  <2> QED
    BY <2>2, <2>3, <2>4, <2>5
<1> QED
  BY <1>1, <1>2, ReserveEffect

\* ChildInv is kept by every step.
LEMMA ChildStep == TypeOK /\ ChildInv /\ [Next]_vars => ChildInv'
<1> SUFFICES ASSUME TypeOK, ChildInv, [Next]_vars PROVE ChildInv'
  OBVIOUS
<1> USE ChildParts DEF TypeOK, ChildInv, Live, Ended
<1>1. CASE Start
  BY <1>1 DEF Start, parentVars, unitVars, procVars
<1>2. CASE Schedule
  <2>1. Bystanders
    BY <1>2 DEF Schedule, Bystanders, TypeOK
  <2>2. fresh \in SUBSET fresh /\ Reserve(fresh)
    BY <1>2 DEF Schedule
  <2> QED
    BY <2>1, <2>2, ScheduleChildren
<1>3. ASSUME NEW c \in Children, LaunchChild(c)
      PROVE  ChildInv'
  BY <1>3 DEF LaunchChild, parentVars, unitVars, procVars
<1>4. ASSUME NEW c \in Children, Acknowledge(c)
      PROVE  ChildInv'
  BY <1>4 DEF Acknowledge, parentVars, unitVars, procVars
<1>5. ASSUME NEW c \in Children, LaunchFailed(c)
      PROVE  ChildInv'
  BY <1>5 DEF LaunchFailed, parentVars, unitVars, procVars
<1>6. ASSUME NEW c \in Children, SchedulerCrashes(c)
      PROVE  ChildInv'
  BY <1>6 DEF SchedulerCrashes, parentVars, unitVars, procVars
<1>7. ASSUME NEW c \in Children, ChildEnds(c)
      PROVE  ChildInv'
  BY <1>7 DEF ChildEnds, parentVars, unitVars, procVars
<1>f. ASSUME NEW c \in Children, ChildForgets(c)
      PROVE  ChildInv'
  BY <1>f DEF ChildForgets, parentVars, unitVars, procVars, counters
<1>8. ASSUME NEW c \in Children, WorkerCrashes(c)
      PROVE  ChildInv'
  BY <1>8 DEF WorkerCrashes, parentVars, unitVars, procVars
<1>9. ASSUME NEW c \in Children, AdvanceComplete(c)
      PROVE  ChildInv'
  BY <1>9 DEF AdvanceComplete, parentVars, unitVars, procVars
<1>10. ASSUME NEW c \in Children, AdvanceSchedule(c)
      PROVE  ChildInv'
  <2>1. CASE c \in fresh
    <3>1. Bystanders
      BY <1>10 DEF AdvanceSchedule, Bystanders, TypeOK
    <3>2. fresh \ {c} \in SUBSET fresh /\ Reserve(fresh \ {c})
      BY <1>10, <2>1 DEF AdvanceSchedule
    <3> QED
      BY <3>1, <3>2, ScheduleChildren
  <2>2. CASE c \notin fresh
    BY <1>10, <2>2 DEF AdvanceSchedule, parentVars, unitVars, procVars, counters
  <2> QED
    BY <2>1, <2>2
<1>11. ASSUME NEW k \in Commands, Pause(k)
      PROVE  ChildInv'
  BY <1>11 DEF Pause, Issue, parentVars, unitVars, procVars
<1>12. ASSUME NEW k \in Commands, Resume(k)
      PROVE  ChildInv'
  BY <1>12 DEF Resume, Issue, parentVars, unitVars, procVars
<1>13. ASSUME NEW k \in Commands, Cancel(k)
      PROVE  ChildInv'
  BY <1>13 DEF Cancel, Issue, parentVars, unitVars, procVars
<1>14. ASSUME NEW k \in Commands, NEW c \in Children, Propagate(k, c)
      PROVE  ChildInv'
  BY <1>14 DEF Propagate, parentVars, unitVars, procVars
<1>15. ASSUME NEW k \in Commands, FinishControl(k)
      PROVE  ChildInv'
  BY <1>15 DEF FinishControl, parentVars, unitVars, procVars
<1>16. ASSUME NEW k \in Commands, ControlCrashes(k)
      PROVE  ChildInv'
  BY <1>16 DEF ControlCrashes, parentVars, unitVars, procVars
<1>17. ASSUME NEW k \in Commands, NEW u \in Units, Retry(k, u)
      PROVE  ChildInv'
  BY <1>17 DEF Retry, Issue, parentVars, unitVars, procVars
<1>18. ASSUME NEW passed \in BOOLEAN, ApplyIntegration(passed)
      PROVE  ChildInv'
  BY <1>18 DEF ApplyIntegration, parentVars, unitVars, procVars
<1>19. CASE RequestRepair
  BY <1>19 DEF RequestRepair, parentVars, unitVars, procVars
<1>20. CASE UNCHANGED vars
  BY <1>20 DEF vars, parentVars, unitVars, procVars, counters
<1>21. QED
  BY <1>1, <1>2, <1>3, <1>4, <1>5, <1>6, <1>7, <1>f, <1>8, <1>9, <1>10, <1>11, <1>12, <1>13,
     <1>14, <1>15, <1>16, <1>17, <1>18, <1>19, <1>20
  DEF Next, LaunchStep, AdvanceStep, Crash, OperatorStep

\* The units the transaction takes were pending, so they waited for no child.
LEMMA ScheduleUnits ==
  ASSUME TypeOK, ChildInv, UnitInv, Bystanders, NEW keep \in SUBSET fresh, Reserve(keep)
  PROVE  UnitInv'
<1> USE ChildParts, ChildrenArePairs DEF TypeOK, UnitInv, AcknowledgedIsTracked, Owns
<1>1. CASE Idles
  BY <1>1 DEF Idles, unitVars
<1>2. ASSUME NEW S, Takes(S)
      PROVE  UnitInv'
  <2> DEFINE taken == {<<u, attempts[u] + 1>> : u \in S}
  <2>1. \A u \in S : u \in Units /\ unit[u] = "pending"
    BY <1>2 DEF Takes, Ready
  <2>2. \A u \in Units :
          /\ u \in S => unit'[u] = "launching" /\ active'[u] = attempts[u] + 1 /\ attempts'[u] = attempts[u] + 1
          /\ u \notin S => unit'[u] = unit[u] /\ active'[u] = active[u] /\ attempts'[u] = attempts[u]
    BY <1>2 DEF Takes
  <2>3. \A c \in Children : c \in taken <=> c[1] \in S /\ c[2] = attempts[c[1]] + 1
    BY <2>1
  <2>4. \A c \in Children : entry'[c] = IF c \in taken THEN "launching" ELSE entry[c]
    BY <1>2 DEF Takes
  <2> HIDE DEF taken
  <2>5. \A u \in Units : (unit'[u] \in Active <=> active'[u] # 0) /\ active'[u] <= attempts'[u]
    BY <2>2, BoundsAreNaturals DEF Active
  <2>6. ASSUME NEW c \in Children, active'[c[1]] = c[2]
        PROVE  entry'[c] \in {"launching", "queued"}
    BY <2>2, <2>3, <2>4, <2>6
  <2>7. ASSUME NEW c \in Children, entry'[c] = "queued"
        PROVE  active'[c[1]] = c[2]
    <3>1. active[c[1]] = c[2] /\ unit[c[1]] \in Active
      BY <2>4, <2>7
    <3> QED
      BY <3>1, <2>1, <2>2 DEF Active
  <2> QED
    BY <2>5, <2>6, <2>7
<1> QED
  BY <1>1, <1>2, ReserveEffect

\* UnitInv is kept by every step.
LEMMA UnitStep == TypeOK /\ ChildInv /\ UnitInv /\ [Next]_vars => UnitInv'
<1> SUFFICES ASSUME TypeOK, ChildInv, UnitInv, [Next]_vars PROVE UnitInv'
  OBVIOUS
<1> USE ChildParts, ChildrenArePairs DEF TypeOK, UnitInv, AcknowledgedIsTracked, Owns, Active
<1>1. CASE Start
  BY <1>1 DEF Start, Store, parentVars, unitVars, procVars
<1>2. CASE Schedule
  <2>1. Bystanders
    BY <1>2 DEF Schedule, Bystanders, TypeOK
  <2>2. fresh \in SUBSET fresh /\ Reserve(fresh)
    BY <1>2 DEF Schedule
  <2> QED
    BY <2>1, <2>2, ScheduleUnits
<1>3. ASSUME NEW c \in Children, LaunchChild(c)
      PROVE  UnitInv'
  BY <1>3 DEF LaunchChild, Store, parentVars, unitVars, procVars
<1>4. ASSUME NEW c \in Children, Acknowledge(c)
      PROVE  UnitInv'
  <2>1. CASE Owns(c) /\ unit[c[1]] = "launching" /\ entry' # entry
    <3>1. /\ unit' = [unit EXCEPT ![c[1]] = "queued"]
          /\ active' = active /\ attempts' = attempts
          /\ entry' = [entry EXCEPT ![c] = "queued"]
      BY <1>4, <2>1 DEF Acknowledge, Store, parentVars, unitVars
    <3>2. \A u \in Units : (unit'[u] \in Active <=> active'[u] # 0) /\ active'[u] <= attempts'[u]
      BY <2>1, <3>1 DEF Ended
    <3>3. \A d \in Children : active'[d[1]] = d[2] => entry'[d] \in {"launching", "queued"}
      BY <2>1, <3>1
    <3>4. \A d \in Children : entry'[d] = "queued" => active'[d[1]] = d[2]
      BY <2>1, <3>1 DEF Ended
    <3> QED
      BY <3>2, <3>3, <3>4
  <2>2. CASE ~(Owns(c) /\ unit[c[1]] = "launching" /\ entry' # entry)
    <3>1. UNCHANGED <<active, attempts, entry>> /\ unit' \in {unit, [unit EXCEPT ![c[1]] = "queued"]}
      BY <1>4, <2>2 DEF Acknowledge, Store, parentVars, unitVars
    <3> QED
      BY <1>4, <2>2, <3>1 DEF Acknowledge, Store, parentVars, unitVars
  <2> QED
    BY <2>1, <2>2
<1>5. ASSUME NEW c \in Children, LaunchFailed(c)
      PROVE  UnitInv'
  <2>1. CASE Owns(c)
    <3>1. /\ unit' = [unit EXCEPT ![c[1]] = "pending"]
          /\ active' = [active EXCEPT ![c[1]] = 0] /\ attempts' = attempts
          /\ entry' = [entry EXCEPT ![c] = "launch-failed"]
      BY <1>5, <2>1 DEF LaunchFailed, Store
    <3>2. \A u \in Units : (unit'[u] \in Active <=> active'[u] # 0) /\ active'[u] <= attempts'[u]
      BY <2>1, <3>1 DEF Ended
    <3>3. \A d \in Children : active'[d[1]] = d[2] => entry'[d] \in {"launching", "queued"}
      BY <2>1, <3>1
    <3>4. \A d \in Children : entry'[d] = "queued" => active'[d[1]] = d[2]
      BY <2>1, <3>1 DEF Ended
    <3> QED
      BY <3>2, <3>3, <3>4
  <2>2. CASE ~(Owns(c))
    BY <1>5, <2>2 DEF LaunchFailed, Store, parentVars, unitVars
  <2> QED
    BY <2>1, <2>2
<1>6. ASSUME NEW c \in Children, SchedulerCrashes(c)
      PROVE  UnitInv'
  BY <1>6 DEF SchedulerCrashes, Store, parentVars, unitVars, procVars
<1>7. ASSUME NEW c \in Children, ChildEnds(c)
      PROVE  UnitInv'
  BY <1>7 DEF ChildEnds, Store, parentVars, unitVars, procVars
<1>f. ASSUME NEW c \in Children, ChildForgets(c)
      PROVE  UnitInv'
  BY <1>f DEF ChildForgets, parentVars, unitVars, procVars, counters
<1>8. ASSUME NEW c \in Children, WorkerCrashes(c)
      PROVE  UnitInv'
  BY <1>8 DEF WorkerCrashes, Store, parentVars, unitVars, procVars
<1>9. ASSUME NEW c \in Children, AdvanceComplete(c)
      PROVE  UnitInv'
  <2>1. CASE c \in fresh /\ Owns(c)
    <3>1. /\ unit' = [unit EXCEPT ![c[1]] = child[c]] /\ child[c] \in Ended
          /\ active' = [active EXCEPT ![c[1]] = 0] /\ attempts' = attempts
          /\ entry' = [entry EXCEPT ![c] = child[c]]
      BY <1>9, <2>1 DEF AdvanceComplete, ChildInv
    <3>2. \A u \in Units : (unit'[u] \in Active <=> active'[u] # 0) /\ active'[u] <= attempts'[u]
      BY <2>1, <3>1 DEF Ended
    <3>3. \A d \in Children : active'[d[1]] = d[2] => entry'[d] \in {"launching", "queued"}
      BY <2>1, <3>1
    <3>4. \A d \in Children : entry'[d] = "queued" => active'[d[1]] = d[2]
      BY <2>1, <3>1 DEF Ended
    <3> QED
      BY <3>2, <3>3, <3>4
  <2>2. CASE ~(c \in fresh /\ Owns(c))
    BY <1>9, <2>2 DEF AdvanceComplete, ChildInv, parentVars, unitVars
  <2> QED
    BY <2>1, <2>2
<1>10. ASSUME NEW c \in Children, AdvanceSchedule(c)
      PROVE  UnitInv'
  <2>1. CASE c \in fresh
    <3>1. Bystanders
      BY <1>10 DEF AdvanceSchedule, Bystanders, TypeOK
    <3>2. fresh \ {c} \in SUBSET fresh /\ Reserve(fresh \ {c})
      BY <1>10, <2>1 DEF AdvanceSchedule
    <3> QED
      BY <3>1, <3>2, ScheduleUnits
  <2>2. CASE c \notin fresh
    BY <1>10, <2>2 DEF AdvanceSchedule, parentVars, unitVars, procVars, counters
  <2> QED
    BY <2>1, <2>2
<1>11. ASSUME NEW k \in Commands, Pause(k)
      PROVE  UnitInv'
  BY <1>11 DEF Pause, Issue, Store, parentVars, unitVars, procVars
<1>12. ASSUME NEW k \in Commands, Resume(k)
      PROVE  UnitInv'
  BY <1>12 DEF Resume, Issue, Store, parentVars, unitVars, procVars
<1>13. ASSUME NEW k \in Commands, Cancel(k)
      PROVE  UnitInv'
  <2> DEFINE un == [u \in Units |-> IF u \in ActiveUnits THEN "canceling" ELSE unit[u]]
  <2>1. unit' = un /\ UNCHANGED <<active, attempts, entry>>
    BY <1>13 DEF Cancel, Issue, Store
  <2>2. \A u \in Units : un[u] \in Active <=> unit[u] \in Active
    BY DEF ActiveUnits
  <2> HIDE DEF un
  <2> QED
    BY <2>1, <2>2
<1>14. ASSUME NEW k \in Commands, NEW c \in Children, Propagate(k, c)
      PROVE  UnitInv'
  BY <1>14 DEF Propagate, Store, parentVars, unitVars, procVars
<1>15. ASSUME NEW k \in Commands, FinishControl(k)
      PROVE  UnitInv'
  BY <1>15 DEF FinishControl, Store, parentVars, unitVars, procVars
<1>16. ASSUME NEW k \in Commands, ControlCrashes(k)
      PROVE  UnitInv'
  BY <1>16 DEF ControlCrashes, Store, parentVars, unitVars, procVars
<1>17. ASSUME NEW k \in Commands, NEW u \in Units, Retry(k, u)
      PROVE  UnitInv'
  BY <1>17 DEF Retry, Issue, Store, parentVars, unitVars, procVars
<1>18. ASSUME NEW passed \in BOOLEAN, ApplyIntegration(passed)
      PROVE  UnitInv'
  BY <1>18 DEF ApplyIntegration, Store, parentVars, unitVars, procVars
<1>19. CASE RequestRepair
  BY <1>19 DEF RequestRepair, Store, parentVars, unitVars, procVars
<1>20. CASE UNCHANGED vars
  BY <1>20 DEF vars, parentVars, unitVars, procVars, counters
<1>21. QED
  BY <1>1, <1>2, <1>3, <1>4, <1>5, <1>6, <1>7, <1>f, <1>8, <1>9, <1>10, <1>11, <1>12, <1>13,
     <1>14, <1>15, <1>16, <1>17, <1>18, <1>19, <1>20
  DEF Next, LaunchStep, AdvanceStep, Crash, OperatorStep
-----------------------------------------------------------------------------
(* The entries of the children.                                            *)

\* The children the transaction makes were not there before.
LEMMA ScheduleEntries ==
  ASSUME TypeOK, ChildInv, UnitInv, EntryInv, Bystanders, NEW keep \in SUBSET fresh, Reserve(keep)
  PROVE  EntryInv'
<1> USE ChildParts, ChildrenArePairs DEF TypeOK, EntryInv, Bystanders, Owns
<1>1. CASE Idles
  BY <1>1 DEF Idles, unitVars
<1>2. ASSUME NEW S, Takes(S)
      PROVE  EntryInv'
  <2> DEFINE taken == {<<u, attempts[u] + 1>> : u \in S}
  <2>1. \A u \in S : u \in Units /\ active[u] = 0
    BY <1>2 DEF Takes, Ready, UnitInv, Active
  <2>2. \A u \in Units :
          active'[u] = IF u \in S THEN attempts[u] + 1 ELSE active[u]
    BY <1>2 DEF Takes
  <2>3. \A c \in Children : c \in taken <=> c[1] \in S /\ c[2] = attempts[c[1]] + 1
    BY <2>1
  <2>4. \A c \in Children :
          /\ entry'[c] = IF c \in taken THEN "launching" ELSE entry[c]
          /\ launch'[c] = IF c \in taken THEN "reserved" ELSE launch[c]
    BY <1>2 DEF Takes
  <2>5. \A c \in taken : active'[c[1]] = c[2]
    BY <2>1, <2>2
  <2>6. \A c \in Children : c[1] \in S => active[c[1]] # c[2]
    BY <2>1
  <2> HIDE DEF taken
  <2>7. ASSUME NEW c \in Children
        PROVE  /\ entry'[c] = "none" => child'[c] = "none"
               /\ launch'[c] = "reserved" => entry'[c] = "launching"
               /\ entry'[c] \in {"launching", "queued"} => active'[c[1]] = c[2]
               /\ entry'[c] \in Ended => child'[c] \in Ended
    <3>1. CASE c \in taken
      BY <2>4, <2>5, <3>1 DEF Ended
    <3>2. CASE c \notin taken
      BY <2>2, <2>4, <2>6, <3>2
    <3> QED
      BY <3>1, <3>2
  <2> QED
    BY <2>7
<1> QED
  BY <1>1, <1>2, ReserveEffect

\* EntryInv is kept by every step.
LEMMA EntryStep == TypeOK /\ ChildInv /\ UnitInv /\ EntryInv /\ [Next]_vars => EntryInv'
<1> SUFFICES ASSUME TypeOK, ChildInv, UnitInv, EntryInv, [Next]_vars PROVE EntryInv'
  OBVIOUS
<1> USE ChildParts, ChildrenArePairs DEF TypeOK, EntryInv, Owns, Live, Ended
<1>1. CASE Start
  BY <1>1 DEF Start, parentVars, unitVars, procVars
<1>2. CASE Schedule
  <2>1. Bystanders
    BY <1>2 DEF Schedule, Bystanders, TypeOK
  <2>2. fresh \in SUBSET fresh /\ Reserve(fresh)
    BY <1>2 DEF Schedule
  <2> QED
    BY <2>1, <2>2, ScheduleEntries
<1>3. ASSUME NEW c \in Children, LaunchChild(c)
      PROVE  EntryInv'
  BY <1>3 DEF LaunchChild, parentVars, unitVars, procVars
<1>4. ASSUME NEW c \in Children, Acknowledge(c)
      PROVE  EntryInv'
  BY <1>4 DEF Acknowledge, parentVars, unitVars, procVars
<1>5. ASSUME NEW c \in Children, LaunchFailed(c)
      PROVE  EntryInv'
  BY <1>5 DEF LaunchFailed, parentVars, unitVars, procVars
<1>6. ASSUME NEW c \in Children, SchedulerCrashes(c)
      PROVE  EntryInv'
  BY <1>6 DEF SchedulerCrashes, parentVars, unitVars, procVars
<1>7. ASSUME NEW c \in Children, ChildEnds(c)
      PROVE  EntryInv'
  BY <1>7 DEF ChildEnds, parentVars, unitVars, procVars
<1>f. ASSUME NEW c \in Children, ChildForgets(c)
      PROVE  EntryInv'
  BY <1>f DEF ChildForgets, parentVars, unitVars, procVars, counters
<1>8. ASSUME NEW c \in Children, WorkerCrashes(c)
      PROVE  EntryInv'
  BY <1>8 DEF WorkerCrashes, parentVars, unitVars, procVars
<1>9. ASSUME NEW c \in Children, AdvanceComplete(c)
      PROVE  EntryInv'
  <2>1. CASE c \in fresh /\ Owns(c)
    <3>1. child[c] \in Ended
      BY <1>9 DEF AdvanceComplete, ChildInv
    <3>2. /\ entry' = [entry EXCEPT ![c] = child[c]] /\ active' = [active EXCEPT ![c[1]] = 0]
          /\ UNCHANGED <<child, launch>>
      BY <1>9, <2>1 DEF AdvanceComplete
    <3>3. \A d \in Children : Owns(d) /\ d # c => d[1] # c[1]
      BY <2>1
    <3>4. entry[c] \in {"launching", "queued"} /\ child[c] # "none" /\ launch[c] # "reserved"
      BY <2>1, <3>1 DEF UnitInv, ChildInv
    <3>5. c[1] \in Units
      OBVIOUS
    <3> QED
      BY <3>1, <3>2, <3>3, <3>4, <3>5
  <2>2. CASE ~(c \in fresh /\ Owns(c))
    BY <1>9, <2>2 DEF AdvanceComplete, parentVars, unitVars, procVars
  <2> QED
    BY <2>1, <2>2
<1>10. ASSUME NEW c \in Children, AdvanceSchedule(c)
      PROVE  EntryInv'
  <2>1. CASE c \in fresh
    <3>1. Bystanders
      BY <1>10 DEF AdvanceSchedule, Bystanders, TypeOK
    <3>2. fresh \ {c} \in SUBSET fresh /\ Reserve(fresh \ {c})
      BY <1>10, <2>1 DEF AdvanceSchedule
    <3> QED
      BY <3>1, <3>2, ScheduleEntries
  <2>2. CASE c \notin fresh
    BY <1>10, <2>2 DEF AdvanceSchedule, parentVars, unitVars, procVars, counters
  <2> QED
    BY <2>1, <2>2
<1>11. ASSUME NEW k \in Commands, Pause(k)
      PROVE  EntryInv'
  BY <1>11 DEF Pause, Issue, Store, parentVars, unitVars, procVars
<1>12. ASSUME NEW k \in Commands, Resume(k)
      PROVE  EntryInv'
  BY <1>12 DEF Resume, Issue, Store, parentVars, unitVars, procVars
<1>13. ASSUME NEW k \in Commands, Cancel(k)
      PROVE  EntryInv'
  BY <1>13 DEF Cancel, Issue, parentVars, unitVars, procVars
<1>14. ASSUME NEW k \in Commands, NEW c \in Children, Propagate(k, c)
      PROVE  EntryInv'
  BY <1>14 DEF Propagate, parentVars, unitVars, procVars
<1>15. ASSUME NEW k \in Commands, FinishControl(k)
      PROVE  EntryInv'
  BY <1>15 DEF FinishControl, parentVars, unitVars, procVars
<1>16. ASSUME NEW k \in Commands, ControlCrashes(k)
      PROVE  EntryInv'
  BY <1>16 DEF ControlCrashes, parentVars, unitVars, procVars
<1>17. ASSUME NEW k \in Commands, NEW u \in Units, Retry(k, u)
      PROVE  EntryInv'
  BY <1>17 DEF Retry, Issue, parentVars, unitVars, procVars
<1>18. ASSUME NEW passed \in BOOLEAN, ApplyIntegration(passed)
      PROVE  EntryInv'
  BY <1>18 DEF ApplyIntegration, parentVars, unitVars, procVars
<1>19. CASE RequestRepair
  BY <1>19 DEF RequestRepair, parentVars, unitVars, procVars
<1>20. CASE UNCHANGED vars
  BY <1>20 DEF vars, parentVars, unitVars, procVars, counters
<1>21. QED
  BY <1>1, <1>2, <1>3, <1>4, <1>5, <1>6, <1>7, <1>f, <1>8, <1>9, <1>10, <1>11, <1>12, <1>13,
     <1>14, <1>15, <1>16, <1>17, <1>18, <1>19, <1>20
  DEF Next, LaunchStep, AdvanceStep, Crash, OperatorStep

-----------------------------------------------------------------------------
(* What a step does to the units and the budget: the only ways a unit      *)
(* changes state.                                                          *)

Withdraws ==
  /\ unit' = [u \in Units |-> IF u \in ActiveUnits THEN "canceling" ELSE unit[u]]
  /\ consumed' = consumed

Relaunches(c) ==
  /\ Owns(c) /\ unit[c[1]] \in Active
  /\ \/ unit' = [unit EXCEPT ![c[1]] = "queued"] /\ consumed' = consumed
     \/ /\ unit' = [unit EXCEPT ![c[1]] = "pending"]
        /\ consumed' = IF consumed > 0 THEN consumed - 1 ELSE 0

Completes(c) ==
  /\ Owns(c) /\ unit[c[1]] \in Active /\ child[c] \in Ended
  /\ unit' = [unit EXCEPT ![c[1]] = child[c]]
  /\ consumed' = consumed

Retries(u) ==
  /\ unit[u] = "failed" /\ unit' = [unit EXCEPT ![u] = "pending"]
  /\ consumed' = consumed

UnitsMove ==
  \/ unit' = unit /\ consumed' = consumed
  \/ Withdraws
  \/ \E S : Takes(S)
  \/ \E c \in Children : Relaunches(c) \/ Completes(c)
  \/ \E u \in Units : Retries(u)

\* Every step moves the units in one of these ways.
LEMMA UnitEffect == TypeOK /\ ChildInv /\ UnitInv /\ [Next]_vars => UnitsMove
<1> SUFFICES ASSUME TypeOK, ChildInv, UnitInv, [Next]_vars PROVE UnitsMove
  OBVIOUS
<1> USE DEF UnitsMove
<1>1. CASE Start
  BY <1>1 DEF Start, Store, parentVars, unitVars, procVars
<1>2. CASE Schedule
  <2>1. fresh \in SUBSET fresh /\ Reserve(fresh)
    BY <1>2 DEF Schedule
  <2> QED
    BY <2>1, ReserveEffect DEF Idles, unitVars
<1>3. ASSUME NEW c \in Children, LaunchChild(c)
      PROVE  UnitsMove
  BY <1>3 DEF LaunchChild, Store, parentVars, unitVars, procVars
<1>4. ASSUME NEW c \in Children, Acknowledge(c)
      PROVE  UnitsMove
  <2>1. CASE Owns(c) /\ unit[c[1]] = "launching" /\ unit' # unit
    BY <1>4, <2>1 DEF Acknowledge, Store, Relaunches, Active, parentVars, unitVars
  <2>2. CASE ~(Owns(c) /\ unit[c[1]] = "launching" /\ unit' # unit)
    BY <1>4, <2>2 DEF Acknowledge, Store, parentVars, unitVars
  <2> QED
    BY <2>1, <2>2
<1>5. ASSUME NEW c \in Children, LaunchFailed(c)
      PROVE  UnitsMove
  <2>1. CASE Owns(c)
    <3>1. unit[c[1]] \in Active
      BY <2>1, ChildParts DEF Owns, UnitInv, TypeOK
    <3> QED
      BY <1>5, <2>1, <3>1 DEF LaunchFailed, Store, Relaunches
  <2>2. CASE ~Owns(c)
    BY <1>5, <2>2 DEF LaunchFailed, parentVars, unitVars
  <2> QED
    BY <2>1, <2>2
<1>6. ASSUME NEW c \in Children, SchedulerCrashes(c)
      PROVE  UnitsMove
  BY <1>6 DEF SchedulerCrashes, Store, parentVars, unitVars, procVars
<1>7. ASSUME NEW c \in Children, ChildEnds(c)
      PROVE  UnitsMove
  BY <1>7 DEF ChildEnds, Store, parentVars, unitVars, procVars
<1>f. ASSUME NEW c \in Children, ChildForgets(c)
      PROVE  UnitsMove
  BY <1>f DEF ChildForgets, parentVars, unitVars, procVars, counters
<1>8. ASSUME NEW c \in Children, WorkerCrashes(c)
      PROVE  UnitsMove
  BY <1>8 DEF WorkerCrashes, Store, parentVars, unitVars, procVars
<1>9. ASSUME NEW c \in Children, AdvanceComplete(c)
      PROVE  UnitsMove
  <2>1. CASE c \in fresh /\ Owns(c)
    <3>1. unit[c[1]] \in Active
      BY <2>1, ChildParts DEF Owns, UnitInv, TypeOK
    <3>2. child[c] \in Ended
      BY <1>9 DEF AdvanceComplete, ChildInv, TypeOK
    <3> QED
      BY <1>9, <2>1, <3>1, <3>2 DEF AdvanceComplete, Completes
  <2>2. CASE ~(c \in fresh /\ Owns(c))
    BY <1>9, <2>2 DEF AdvanceComplete, parentVars, unitVars
  <2> QED
    BY <2>1, <2>2
<1>10. ASSUME NEW c \in Children, AdvanceSchedule(c)
      PROVE  UnitsMove
  <2>1. CASE c \in fresh
    <3>1. fresh \ {c} \in SUBSET fresh /\ Reserve(fresh \ {c})
      BY <1>10, <2>1 DEF AdvanceSchedule
    <3> QED
      BY <3>1, ReserveEffect DEF Idles, unitVars
  <2>2. CASE c \notin fresh
    BY <1>10, <2>2 DEF AdvanceSchedule, parentVars, unitVars
  <2> QED
    BY <2>1, <2>2
<1>11. ASSUME NEW k \in Commands, Pause(k)
      PROVE  UnitsMove
  BY <1>11 DEF Pause, Issue, Store, parentVars, unitVars, procVars
<1>12. ASSUME NEW k \in Commands, Resume(k)
      PROVE  UnitsMove
  BY <1>12 DEF Resume, Issue, Store, parentVars, unitVars, procVars
<1>13. ASSUME NEW k \in Commands, Cancel(k)
      PROVE  UnitsMove
  BY <1>13 DEF Cancel, Issue, Store, Withdraws
<1>14. ASSUME NEW k \in Commands, NEW c \in Children, Propagate(k, c)
      PROVE  UnitsMove
  BY <1>14 DEF Propagate, Store, parentVars, unitVars, procVars
<1>15. ASSUME NEW k \in Commands, FinishControl(k)
      PROVE  UnitsMove
  BY <1>15 DEF FinishControl, Store, parentVars, unitVars, procVars
<1>16. ASSUME NEW k \in Commands, ControlCrashes(k)
      PROVE  UnitsMove
  BY <1>16 DEF ControlCrashes, Store, parentVars, unitVars, procVars
<1>17. ASSUME NEW k \in Commands, NEW u \in Units, Retry(k, u)
      PROVE  UnitsMove
  BY <1>17 DEF Retry, Issue, Store, Retries
<1>18. ASSUME NEW passed \in BOOLEAN, ApplyIntegration(passed)
      PROVE  UnitsMove
  BY <1>18 DEF ApplyIntegration, Store, parentVars, unitVars, procVars
<1>19. CASE RequestRepair
  BY <1>19 DEF RequestRepair, Store, parentVars, unitVars, procVars
<1>20. CASE UNCHANGED vars
  BY <1>20 DEF vars, parentVars, unitVars, procVars, counters
<1>21. QED
  BY <1>1, <1>2, <1>3, <1>4, <1>5, <1>6, <1>7, <1>f, <1>8, <1>9, <1>10, <1>11, <1>12, <1>13,
     <1>14, <1>15, <1>16, <1>17, <1>18, <1>19, <1>20
  DEF Next, LaunchStep, AdvanceStep, Crash, OperatorStep

\* The status comes out of aggregateStatus, or is set by integration.
StatusMoves ==
  \/ pstatus' \in {pstatus, "queued", "succeeded", "blocked"}
  \/ \E ps \in {pstatus, "blocked", "paused", "queued", "canceling"}, bl \in {blocker, blocker'} :
       pstatus' = Aggregate(ps, unit', bl)

\* Every step sets the status in one of these ways.
LEMMA StatusEffect == [Next]_vars => StatusMoves
<1> SUFFICES ASSUME [Next]_vars PROVE StatusMoves
  OBVIOUS
<1> USE DEF StatusMoves
<1>1. CASE Start
  BY <1>1 DEF Start, Store, parentVars, unitVars, procVars
<1>2. CASE Schedule
  <2>1. fresh \in SUBSET fresh /\ Reserve(fresh)
    BY <1>2 DEF Schedule
  <2> QED
    BY <2>1, ReserveEffect DEF Idles, Takes
<1>3. ASSUME NEW c \in Children, LaunchChild(c)
      PROVE  StatusMoves
  BY <1>3 DEF LaunchChild, Store, parentVars, unitVars, procVars
<1>4. ASSUME NEW c \in Children, Acknowledge(c)
      PROVE  StatusMoves
  BY <1>4 DEF Acknowledge, Store, parentVars, unitVars, procVars
<1>5. ASSUME NEW c \in Children, LaunchFailed(c)
      PROVE  StatusMoves
  BY <1>5 DEF LaunchFailed, Store, parentVars, unitVars, procVars
<1>6. ASSUME NEW c \in Children, SchedulerCrashes(c)
      PROVE  StatusMoves
  BY <1>6 DEF SchedulerCrashes, Store, parentVars, unitVars, procVars
<1>7. ASSUME NEW c \in Children, ChildEnds(c)
      PROVE  StatusMoves
  BY <1>7 DEF ChildEnds, Store, parentVars, unitVars, procVars
<1>f. ASSUME NEW c \in Children, ChildForgets(c)
      PROVE  StatusMoves
  BY <1>f DEF ChildForgets, parentVars, unitVars, procVars, counters
<1>8. ASSUME NEW c \in Children, WorkerCrashes(c)
      PROVE  StatusMoves
  BY <1>8 DEF WorkerCrashes, Store, parentVars, unitVars, procVars
<1>9. ASSUME NEW c \in Children, AdvanceComplete(c)
      PROVE  StatusMoves
  <2>1. CASE c \in fresh /\ Owns(c)
    BY <1>9, <2>1 DEF AdvanceComplete
  <2>2. CASE ~(c \in fresh /\ Owns(c))
    BY <1>9, <2>2 DEF AdvanceComplete, parentVars
  <2> QED
    BY <2>1, <2>2
<1>10. ASSUME NEW c \in Children, AdvanceSchedule(c)
      PROVE  StatusMoves
  <2>1. CASE c \in fresh
    <3>1. fresh \ {c} \in SUBSET fresh /\ Reserve(fresh \ {c})
      BY <1>10, <2>1 DEF AdvanceSchedule
    <3> QED
      BY <3>1, ReserveEffect DEF Idles, Takes
  <2>2. CASE c \notin fresh
    BY <1>10, <2>2 DEF AdvanceSchedule, parentVars
  <2> QED
    BY <2>1, <2>2
<1>11. ASSUME NEW k \in Commands, Pause(k)
      PROVE  StatusMoves
  BY <1>11 DEF Pause, Issue, Store, parentVars, unitVars, procVars
<1>12. ASSUME NEW k \in Commands, Resume(k)
      PROVE  StatusMoves
  BY <1>12 DEF Resume, Issue, Store, parentVars, unitVars, procVars
<1>13. ASSUME NEW k \in Commands, Cancel(k)
      PROVE  StatusMoves
  BY <1>13 DEF Cancel, Issue, Store, parentVars, unitVars, procVars
<1>14. ASSUME NEW k \in Commands, NEW c \in Children, Propagate(k, c)
      PROVE  StatusMoves
  BY <1>14 DEF Propagate, Store, parentVars, unitVars, procVars
<1>15. ASSUME NEW k \in Commands, FinishControl(k)
      PROVE  StatusMoves
  BY <1>15 DEF FinishControl, Store, parentVars, unitVars, procVars
<1>16. ASSUME NEW k \in Commands, ControlCrashes(k)
      PROVE  StatusMoves
  BY <1>16 DEF ControlCrashes, Store, parentVars, unitVars, procVars
<1>17. ASSUME NEW k \in Commands, NEW u \in Units, Retry(k, u)
      PROVE  StatusMoves
  BY <1>17 DEF Retry, Issue, Store, parentVars, unitVars, procVars
<1>18. ASSUME NEW passed \in BOOLEAN, ApplyIntegration(passed)
      PROVE  StatusMoves
  BY <1>18 DEF ApplyIntegration, Store, parentVars, unitVars, procVars
<1>19. CASE RequestRepair
  BY <1>19 DEF RequestRepair, Store, parentVars, unitVars, procVars
<1>20. CASE UNCHANGED vars
  BY <1>20 DEF vars, parentVars, unitVars, procVars, counters
<1>21. QED
  BY <1>1, <1>2, <1>3, <1>4, <1>5, <1>6, <1>7, <1>f, <1>8, <1>9, <1>10, <1>11, <1>12, <1>13,
     <1>14, <1>15, <1>16, <1>17, <1>18, <1>19, <1>20
  DEF Next, LaunchStep, AdvanceStep, Crash, OperatorStep

-----------------------------------------------------------------------------
(* The selection of one pass.                                              *)

\* A set of units that is not empty has a last element, and the others are the
\* ones before it.
LEMMA LastElement ==
  ASSUME NEW S \in SUBSET Units, S # {}
  PROVE  \E u \in S : {v \in S : v < u} = S \ {u}
<1> DEFINE after(u) == {v \in S : u < v}
           tails == {after(u) : u \in S}
<1>1. IsFiniteSet(S) /\ S \subseteq Nat
  BY UnitsAreNumbers, FS_Subset
<1>2. tails \subseteq FiniteSubsetsOf(S) /\ tails # {}
  <2>1. FiniteSubsetsOf(S) = SUBSET S
    BY <1>1, FS_FiniteSubsetsOfFinite
  <2>2. \A T \in tails : T \in SUBSET S
    OBVIOUS
  <2>3. \E T : T \in tails
    OBVIOUS
  <2> HIDE DEF tails
  <2> QED
    BY <2>1, <2>2, <2>3
<1>3. PICK T \in tails : \A U \in tails : <<U, T>> \notin StrictSubsetOrdering(S)
  <2>1. IsWellFoundedOn(StrictSubsetOrdering(S), FiniteSubsetsOf(S))
    BY FS_StrictSubsetOrderingWellFounded
  <2> HIDE DEF tails
  <2> QED
    BY <1>2, <2>1, WFMin
<1>4. PICK u \in S : T = after(u)
  BY <1>3
<1>5. \A v \in S : ~(u < v)
  <2> SUFFICES ASSUME NEW v \in S, u < v PROVE FALSE
    OBVIOUS
  <2>1. v \in after(u) /\ v \notin after(v)
    BY <1>1
  <2>2. \A w \in after(v) : w \in S /\ w \in Nat /\ u \in Nat /\ v \in Nat /\ u < w
    BY <1>1
  <2>3. after(v) \subseteq after(u) /\ after(u) \in SUBSET S
    BY <2>2
  <2>4. after(v) \in tails
    OBVIOUS
  <2> HIDE DEF after, tails
  <2>5. <<after(v), after(u)>> \in StrictSubsetOrdering(S)
    BY <2>1, <2>3 DEF StrictSubsetOrdering
  <2>6. <<after(v), T>> \notin StrictSubsetOrdering(S)
    BY <1>3, <2>4, Zenon
  <2> QED
    BY <1>4, <2>5, <2>6, Zenon
<1>6. \A v \in S : v < u <=> v # u
  BY <1>1, <1>5
<1>7. {v \in S : v < u} = S \ {u}
  BY <1>6
<1> QED
  BY <1>7, Zenon

\* What a pass takes fits into the capacity and into what remains of the budget.
LEMMA SelectionFits ==
  ASSUME TypeOK, NEW S, S \subseteq Ready, Selection(S), S # {}
  PROVE  /\ IsFiniteSet(S) /\ Cardinality(S) \in Nat
         /\ Cardinality(S) <= Capacity /\ Cardinality(S) <= Remaining
<1>1. S \in SUBSET Units
  BY DEF Ready
<1>2. IsFiniteSet(S) /\ Cardinality(S) \in Nat
  BY <1>1, UnitsAreNumbers, FS_Subset, FS_CardinalityType
<1>3. PICK u \in S : {v \in S : v < u} = S \ {u}
  BY <1>1, LastElement
<1>4. Cardinality(S \ {u}) < Capacity /\ Cardinality(S \ {u}) < Remaining
  BY <1>3 DEF Selection
<1>5. Cardinality(S \ {u}) = Cardinality(S) - 1
  BY <1>2, FS_RemoveElement
<1>6. Capacity \in Int /\ Remaining \in Int
  <2>1. ActiveUnits \in SUBSET Units
    BY DEF ActiveUnits
  <2>2. Cardinality(ActiveUnits) \in Nat
    BY <2>1, UnitsAreNumbers, FS_Subset, FS_CardinalityType
  <2> QED
    BY <2>2, BoundsAreNaturals DEF Capacity, Remaining, TypeOK
<1> QED
  BY <1>2, <1>4, <1>5, <1>6
-----------------------------------------------------------------------------
(* Theorems.                                                               *)

\* The parent file and its processes start out in a state the invariants allow.
LEMMA InitInvariants == Init => TypeOK /\ ChildInv /\ UnitInv
<1> SUFFICES ASSUME Init PROVE TypeOK /\ ChildInv /\ UnitInv
  OBVIOUS
<1> USE ChildParts, BoundsAreNaturals DEF Init
<1>1. /\ missed \in [Commands -> BOOLEAN] /\ gates \in {"pending", "passed", "failed"}
  BY Zenon
<1>2. TypeOK
  BY <1>1 DEF TypeOK, Ended, Live
<1>3. ChildInv
  BY DEF ChildInv
<1>4. UnitInv
  BY DEF UnitInv, AcknowledgedIsTracked, Owns, Active
<1> QED
  BY <1>2, <1>3, <1>4

\* The inductive invariant holds in every behaviour of the parent run.
LEMMA Invariance == Spec => [](TypeOK /\ ChildInv /\ UnitInv)
<1>1. TypeOK /\ ChildInv /\ UnitInv /\ [Next]_vars => (TypeOK /\ ChildInv /\ UnitInv)'
  BY TypeStep, ChildStep, UnitStep
<1> QED
  BY <1>1, InitInvariants, PTL DEF Spec

\* The parent file and its processes keep to their types, whatever the plan
\* (updateParent, scheduleParentRun, startChild).
THEOREM TypeCorrect == Spec => []TypeOK
BY Invariance, PTL

\* The entries say what has become of the children, in every behaviour.
LEMMA EntryInvariance == Spec => []EntryInv
<1>1. Init => EntryInv
  BY DEF Init, EntryInv, Ended
<1>2. TypeOK /\ ChildInv /\ UnitInv /\ EntryInv /\ [Next]_vars => EntryInv'
  BY EntryStep
<1> QED
  BY <1>1, <1>2, Invariance, PTL DEF Spec

\* A child that lives is in the last state its entry has shown, or was given up.
LEMMA LiveChildren ==
  ASSUME TypeOK, EntryInv, NEW c \in Children, child[c] \in Live
  PROVE  Owns(c) \/ entry[c] = "launch-failed"
BY DEF TypeOK, EntryInv, Live, Ended

\* No child runs on forgotten, however launches, completions, commands, failures
\* and crashes interleave, unless its launch was recorded as failed
\* (scheduleParentRun, completeChildRun, controlParentRun, retryParentUnit).
THEOREM ChildrenStayTracked == Spec => []ChildrenAreTracked
<1>1. TypeOK /\ UnitInv /\ EntryInv => ChildrenAreTracked
  BY LiveChildren DEF UnitInv, ChildrenAreTracked
<1> QED
  BY <1>1, Invariance, EntryInvariance, PTL

\* A unit ends only with what its own active child ended with
\* (completeChildRun).
THEOREM VerdictIsOfActiveChild == Spec => VerdictOfActiveChild
<1> DEFINE Verdict ==
      \A u \in Units : unit'[u] \in Ended /\ unit'[u] # unit[u]
        => Owns(<<u, active[u]>>) /\ active[u] # 0 /\ child[<<u, active[u]>>] = unit'[u]
<1>1. ASSUME TypeOK, ChildInv, UnitInv, [Next]_vars
      PROVE  Verdict
  <2> SUFFICES ASSUME NEW u \in Units, unit'[u] \in Ended, unit'[u] # unit[u]
               PROVE  Owns(<<u, active[u]>>) /\ active[u] # 0 /\ child[<<u, active[u]>>] = unit'[u]
    OBVIOUS
  <2>1. UnitsMove
    BY <1>1, UnitEffect
  <2>2. PICK c \in Children : Completes(c)
    BY <2>1, <1>1 DEF UnitsMove, Withdraws, Relaunches, Retries, Takes, Ended, TypeOK
  <2>3. c[1] = u /\ unit'[u] = child[c]
    BY <2>2, <1>1, ChildParts DEF Completes, TypeOK
  <2>4. c = <<u, active[u]>> /\ active[u] # 0
    BY <2>2, <2>3, ChildParts, ChildrenArePairs DEF Completes, Owns
  <2> QED
    BY <2>2, <2>3, <2>4 DEF Completes
<1>2. TypeOK /\ ChildInv /\ UnitInv /\ [Next]_vars => [Verdict]_vars
  BY <1>1
<1> QED
  BY <1>2, Invariance, PTL DEF Spec, VerdictOfActiveChild

\* One step keeps a success.
LEMMA SuccessStep ==
  ASSUME TypeOK, ChildInv, UnitInv, [Next]_vars, NEW u \in Units, unit[u] = "succeeded"
  PROVE  unit'[u] = "succeeded"
<1>1. UnitsMove
  BY UnitEffect
<1> QED
  BY <1>1, ChildParts
  DEF UnitsMove, Withdraws, Relaunches, Completes, Retries, Takes, Ready, ActiveUnits, Active, TypeOK

\* A unit that succeeded is never run again or withdrawn (readyUnits, retry and
\* cancel of controlParentRun).
THEOREM SuccessIsFinal == Spec => SuccessStays
<1>1. TypeOK /\ ChildInv /\ UnitInv /\ [Next]_vars
      => [\A u \in Units : unit[u] = "succeeded" => unit'[u] = "succeeded"]_vars
  BY SuccessStep
<1> QED
  BY <1>1, Invariance, PTL DEF Spec, SuccessStays

\* No unit is started before all it depends on succeeded, and the success stays
\* (readyUnits).
THEOREM DependenciesComeFirst == Spec => []DependenciesFirst
<1>1. Init => DependenciesFirst
  BY DEF Init, DependenciesFirst
<1>2. ASSUME TypeOK, ChildInv, UnitInv, DependenciesFirst, [Next]_vars
      PROVE  DependenciesFirst'
  <2> SUFFICES ASSUME NEW u \in Units, unit'[u] # "pending", NEW d \in Depends[u]
               PROVE  unit'[d] = "succeeded"
    BY DEF DependenciesFirst
  <2>1. d \in Units
    BY PlanShape
  <2>2. UnitsMove
    BY <1>2, UnitEffect
  <2>3. unit[u] # "pending" \/ \E S : Takes(S) /\ u \in S
    BY <2>2, <1>2, ChildParts
    DEF UnitsMove, Withdraws, Relaunches, Completes, Retries, Takes, ActiveUnits, Active, TypeOK
  <2>4. unit[d] = "succeeded"
    BY <2>3, <1>2 DEF DependenciesFirst, Takes, Ready
  <2> QED
    BY <2>1, <2>4, <1>2, SuccessStep
<1> QED
  BY <1>1, <1>2, Invariance, PTL DEF Spec

\* What a step adds to the active units it takes from the ready ones.
LEMMA ActiveEffect ==
  ASSUME TypeOK, ChildInv, UnitInv, [Next]_vars
  PROVE  \/ ActiveUnits' \subseteq ActiveUnits
         \/ \E S : Takes(S) /\ ActiveUnits' = ActiveUnits \cup S
<1>1. UnitsMove
  BY UnitEffect
<1>2. CASE \E S : Takes(S)
  <2>1. PICK S : Takes(S)
    BY <1>2
  <2>2. S \subseteq Units
    BY <2>1 DEF Takes, Ready
  <2>3. \A u \in Units : u \in ActiveUnits' <=> u \in ActiveUnits \cup S
    BY <2>1, <2>2 DEF Takes, ActiveUnits, Active
  <2>4. ActiveUnits' = ActiveUnits \cup S
    BY <2>2, <2>3 DEF ActiveUnits
  <2> QED
    BY <2>1, <2>4
<1>3. CASE ~\E S : Takes(S)
  <2>1. \A u \in Units : unit'[u] \in Active => unit[u] \in Active
    BY <1>1, <1>3, ChildParts
    DEF UnitsMove, Withdraws, Relaunches, Completes, Retries, ActiveUnits, Active, Ended, TypeOK
  <2> QED
    BY <2>1 DEF ActiveUnits
<1> QED
  BY <1>2, <1>3

\* The units a pass takes conflict with none that are active or taken with them.
LEMMA TakenDoNotConflict ==
  ASSUME NEW S, Takes(S)
  PROVE  \A u \in S, v \in ActiveUnits \cup S : u # v => ~Conflict(u, v)
<1>1. S \subseteq Ready /\ Selection(S) /\ Ready \subseteq Units /\ Units \subseteq Nat
  BY UnitsAreNumbers DEF Takes, Ready
<1>2. \A u \in S, v \in ActiveUnits : ~Conflict(u, v)
  BY <1>1 DEF Ready
<1>3. \A u, v \in S : v < u => ~Conflict(u, v)
  BY <1>1 DEF Selection
<1>4. \A u, v \in S : u # v => u < v \/ v < u
  BY <1>1
<1>5. \A u, v : Conflict(u, v) => Conflict(v, u)
  BY DEF Conflict
<1> QED
  BY <1>2, <1>3, <1>4, <1>5

\* They leave the ceiling and the budget room for what is active and consumed.
LEMMA TakenFit ==
  ASSUME TypeOK, NEW S, Takes(S), S # {}
  PROVE  /\ Cardinality(ActiveUnits \cup S) <= Ceiling
         /\ consumed + Cardinality(S) <= Budget
<1>1. IsFiniteSet(ActiveUnits) /\ Cardinality(ActiveUnits) \in Nat
  <2>1. ActiveUnits \in SUBSET Units
    BY DEF ActiveUnits
  <2> QED
    BY <2>1, UnitsAreNumbers, FS_Subset, FS_CardinalityType
<1>2. /\ IsFiniteSet(S) /\ Cardinality(S) \in Nat
      /\ Cardinality(S) <= Capacity /\ Cardinality(S) <= Remaining
  BY SelectionFits DEF Takes
<1>3. ActiveUnits \cap S = {}
  BY DEF Takes, Ready, ActiveUnits, Active
<1>4. Cardinality(ActiveUnits \cap S) = 0
  BY <1>3, FS_EmptySet
<1>5. Cardinality(ActiveUnits \cup S)
      = Cardinality(ActiveUnits) + Cardinality(S) - Cardinality(ActiveUnits \cap S)
  BY <1>1, <1>2, FS_Union
<1> QED
  BY <1>1, <1>2, <1>4, <1>5, BoundsAreNaturals DEF Capacity, Remaining, TypeOK

\* Two units that share a conflict key are never active together
\* (readyUnits, scheduleParentRun).
THEOREM ConflictsAreExcluded == Spec => []ConflictsExclude
<1>1. Init => ConflictsExclude
  BY DEF Init, ConflictsExclude, ActiveUnits, Active
<1>2. ASSUME TypeOK, ChildInv, UnitInv, ConflictsExclude, [Next]_vars
      PROVE  ConflictsExclude'
  <2>1. CASE ActiveUnits' \subseteq ActiveUnits
    BY <2>1, <1>2 DEF ConflictsExclude, Conflict
  <2>2. ASSUME NEW S, Takes(S), ActiveUnits' = ActiveUnits \cup S
        PROVE  ConflictsExclude'
    <3>1. \A u, v : Conflict(u, v) => Conflict(v, u)
      BY DEF Conflict
    <3>2. \A u, v \in ActiveUnits \cup S : u # v => ~Conflict(u, v)
      BY <1>2, <2>2, <3>1, TakenDoNotConflict DEF ConflictsExclude
    <3> QED
      BY <2>2, <3>2 DEF ConflictsExclude, Conflict
  <2> QED
    BY <1>2, <2>1, <2>2, ActiveEffect
<1> QED
  BY <1>1, <1>2, Invariance, PTL DEF Spec

\* The active units never outnumber the ceiling (scheduleParentRun).
THEOREM CeilingHolds == Spec => []WithinCeiling
<1>1. Init => WithinCeiling
  <2> SUFFICES ASSUME Init PROVE WithinCeiling
    OBVIOUS
  <2>1. ActiveUnits = {}
    BY DEF Init, ActiveUnits, Active
  <2> QED
    BY <2>1, FS_EmptySet, BoundsAreNaturals DEF WithinCeiling
<1>2. ASSUME TypeOK, ChildInv, UnitInv, WithinCeiling, [Next]_vars
      PROVE  WithinCeiling'
  <2>1. IsFiniteSet(ActiveUnits) /\ Cardinality(ActiveUnits) \in Nat
    <3>1. ActiveUnits \in SUBSET Units
      BY DEF ActiveUnits
    <3> QED
      BY <3>1, UnitsAreNumbers, FS_Subset, FS_CardinalityType
  <2>2. CASE ActiveUnits' \subseteq ActiveUnits
    <3>1. ActiveUnits' \in SUBSET ActiveUnits
      BY <2>2
    <3>2. Cardinality(ActiveUnits') \in Nat /\ Cardinality(ActiveUnits') <= Cardinality(ActiveUnits)
      BY <2>1, <3>1, FS_Subset, FS_CardinalityType
    <3> QED
      BY <1>2, <2>1, <3>2, BoundsAreNaturals DEF WithinCeiling
  <2>3. ASSUME NEW S, Takes(S), ActiveUnits' = ActiveUnits \cup S, S # {}
        PROVE  WithinCeiling'
    BY <1>2, <2>3, TakenFit DEF WithinCeiling
  <2> QED
    BY <1>2, <2>2, <2>3, ActiveEffect
<1> QED
  BY <1>1, <1>2, Invariance, PTL DEF Spec

\* A canceled parent has no active unit: a cancel ends only with the last one,
\* and nothing is scheduled afterwards (aggregateStatus, scheduleParentRun).
THEOREM CanceledStaysQuiet == Spec => []CanceledIsQuiet
<1>1. Init => CanceledIsQuiet
  BY DEF Init, CanceledIsQuiet
<1>2. ASSUME TypeOK, ChildInv, UnitInv, CanceledIsQuiet, [Next]_vars, pstatus' = "canceled"
      PROVE  ActiveUnits' = {}
  <2>1. CASE pstatus = "canceled"
    BY <1>2, <2>1, ActiveEffect DEF CanceledIsQuiet, Takes, Terminal
  <2>2. CASE pstatus # "canceled"
    <3>1. StatusMoves
      BY <1>2, StatusEffect
    <3>2. PICK ps, bl : pstatus' = Aggregate(ps, unit', bl) /\ ps # "canceled"
      BY <1>2, <2>2, <3>1 DEF StatusMoves
    <3>3. ~\E u \in Units : unit'[u] \in Active
      BY <1>2, <3>2 DEF Aggregate
    <3> QED
      BY <3>3 DEF ActiveUnits
  <2> QED
    BY <2>1, <2>2
<1>3. TypeOK /\ ChildInv /\ UnitInv /\ CanceledIsQuiet /\ [Next]_vars => CanceledIsQuiet'
  BY <1>2 DEF CanceledIsQuiet
<1> QED
  BY <1>1, <1>3, Invariance, PTL DEF Spec

\* What a canceled parent leaves running are launches recorded as failed, and
\* nothing else (controlParentRun, aggregateStatus).
THEOREM CancelLeavesFailedLaunches ==
  Spec => [](pstatus = "canceled"
               => \A c \in Children : child[c] \in Live => entry[c] = "launch-failed")
<1>1. TypeOK /\ UnitInv /\ EntryInv /\ CanceledIsQuiet
      => (pstatus = "canceled"
            => \A c \in Children : child[c] \in Live => entry[c] = "launch-failed")
  <2> SUFFICES ASSUME TypeOK, UnitInv, EntryInv, CanceledIsQuiet, pstatus = "canceled",
                      NEW c \in Children, child[c] \in Live, Owns(c)
               PROVE  FALSE
    BY LiveChildren
  <2>1. c[1] \in ActiveUnits
    BY ChildParts DEF ActiveUnits, UnitInv, Owns
  <2> QED
    BY <2>1 DEF CanceledIsQuiet
<1> QED
  BY <1>1, Invariance, EntryInvariance, CanceledStaysQuiet, PTL
-----------------------------------------------------------------------------
(* The budget.                                                             *)

Debited == {c \in Children : entry[c] \notin {"none", "launch-failed"}}

Stands(c) ==
  /\ entry[c] \in {"launching", "queued"} /\ consumed' = consumed
  /\ \E s \in {"queued"} \cup Ended : entry' = [entry EXCEPT ![c] = s]

Refunds(c) ==
  /\ entry[c] \in {"launching", "queued"}
  /\ entry' = [entry EXCEPT ![c] = "launch-failed"]
  /\ consumed' = IF consumed > 0 THEN consumed - 1 ELSE 0

\* A step leaves the entries alone, adds some, moves one on, or takes one back.
EntriesMove ==
  \/ UNCHANGED <<entry, consumed>>
  \/ \E S : Takes(S)
  \/ \E c \in Children : Stands(c) \/ Refunds(c)

\* Every step moves the entries in one of these ways.
LEMMA EntryEffect == TypeOK /\ ChildInv /\ UnitInv /\ [Next]_vars => EntriesMove
<1> SUFFICES ASSUME TypeOK, ChildInv, UnitInv, [Next]_vars PROVE EntriesMove
  OBVIOUS
<1> USE DEF EntriesMove
<1>1. CASE Start
  BY <1>1 DEF Start, Store, parentVars, unitVars, procVars
<1>2. CASE Schedule
  <2>1. fresh \in SUBSET fresh /\ Reserve(fresh)
    BY <1>2 DEF Schedule
  <2> QED
    BY <2>1, ReserveEffect DEF Idles, unitVars
<1>3. ASSUME NEW c \in Children, LaunchChild(c)
      PROVE  EntriesMove
  BY <1>3 DEF LaunchChild, Store, parentVars, unitVars, procVars
<1>4. ASSUME NEW c \in Children, Acknowledge(c)
      PROVE  EntriesMove
  <2>1. CASE Owns(c) /\ entry' = [entry EXCEPT ![c] = "queued"] /\ consumed' = consumed
    <3>1. entry[c] \in {"launching", "queued"}
      BY <2>1 DEF UnitInv
    <3> QED
      BY <2>1, <3>1 DEF Stands
  <2>2. CASE ~(Owns(c) /\ entry' = [entry EXCEPT ![c] = "queued"] /\ consumed' = consumed)
    BY <1>4, <2>2 DEF Acknowledge, parentVars, unitVars
  <2> QED
    BY <2>1, <2>2
<1>5. ASSUME NEW c \in Children, LaunchFailed(c)
      PROVE  EntriesMove
  <2>1. CASE Owns(c)
    <3>1. entry[c] \in {"launching", "queued"}
      BY <2>1 DEF UnitInv
    <3> QED
      BY <1>5, <2>1, <3>1 DEF LaunchFailed, Refunds
  <2>2. CASE ~Owns(c)
    BY <1>5, <2>2 DEF LaunchFailed, parentVars, unitVars
  <2> QED
    BY <2>1, <2>2
<1>6. ASSUME NEW c \in Children, SchedulerCrashes(c)
      PROVE  EntriesMove
  BY <1>6 DEF SchedulerCrashes, Store, parentVars, unitVars, procVars
<1>7. ASSUME NEW c \in Children, ChildEnds(c)
      PROVE  EntriesMove
  BY <1>7 DEF ChildEnds, Store, parentVars, unitVars, procVars
<1>f. ASSUME NEW c \in Children, ChildForgets(c)
      PROVE  EntriesMove
  BY <1>f DEF ChildForgets, parentVars, unitVars, procVars, counters
<1>8. ASSUME NEW c \in Children, WorkerCrashes(c)
      PROVE  EntriesMove
  BY <1>8 DEF WorkerCrashes, Store, parentVars, unitVars, procVars
<1>9. ASSUME NEW c \in Children, AdvanceComplete(c)
      PROVE  EntriesMove
  <2>1. CASE c \in fresh /\ Owns(c)
    <3>1. entry[c] \in {"launching", "queued"} /\ child[c] \in Ended
      BY <1>9, <2>1 DEF AdvanceComplete, UnitInv, ChildInv, TypeOK
    <3> QED
      BY <1>9, <2>1, <3>1 DEF AdvanceComplete, Stands
  <2>2. CASE ~(c \in fresh /\ Owns(c))
    BY <1>9, <2>2 DEF AdvanceComplete, parentVars, unitVars
  <2> QED
    BY <2>1, <2>2
<1>10. ASSUME NEW c \in Children, AdvanceSchedule(c)
      PROVE  EntriesMove
  <2>1. CASE c \in fresh
    <3>1. fresh \ {c} \in SUBSET fresh /\ Reserve(fresh \ {c})
      BY <1>10, <2>1 DEF AdvanceSchedule
    <3> QED
      BY <3>1, ReserveEffect DEF Idles, unitVars
  <2>2. CASE c \notin fresh
    BY <1>10, <2>2 DEF AdvanceSchedule, parentVars, unitVars
  <2> QED
    BY <2>1, <2>2
<1>11. ASSUME NEW k \in Commands, Pause(k)
      PROVE  EntriesMove
  BY <1>11 DEF Pause, Issue, Store, parentVars, unitVars, procVars
<1>12. ASSUME NEW k \in Commands, Resume(k)
      PROVE  EntriesMove
  BY <1>12 DEF Resume, Issue, Store, parentVars, unitVars, procVars
<1>13. ASSUME NEW k \in Commands, Cancel(k)
      PROVE  EntriesMove
  BY <1>13 DEF Cancel, Issue, Store, parentVars, unitVars, procVars
<1>14. ASSUME NEW k \in Commands, NEW c \in Children, Propagate(k, c)
      PROVE  EntriesMove
  BY <1>14 DEF Propagate, Store, parentVars, unitVars, procVars
<1>15. ASSUME NEW k \in Commands, FinishControl(k)
      PROVE  EntriesMove
  BY <1>15 DEF FinishControl, Store, parentVars, unitVars, procVars
<1>16. ASSUME NEW k \in Commands, ControlCrashes(k)
      PROVE  EntriesMove
  BY <1>16 DEF ControlCrashes, Store, parentVars, unitVars, procVars
<1>17. ASSUME NEW k \in Commands, NEW u \in Units, Retry(k, u)
      PROVE  EntriesMove
  BY <1>17 DEF Retry, Issue, Store, parentVars, unitVars, procVars
<1>18. ASSUME NEW passed \in BOOLEAN, ApplyIntegration(passed)
      PROVE  EntriesMove
  BY <1>18 DEF ApplyIntegration, Store, parentVars, unitVars, procVars
<1>19. CASE RequestRepair
  BY <1>19 DEF RequestRepair, Store, parentVars, unitVars, procVars
<1>20. CASE UNCHANGED vars
  BY <1>20 DEF vars, parentVars, unitVars, procVars, counters
<1>21. QED
  BY <1>1, <1>2, <1>3, <1>4, <1>5, <1>6, <1>7, <1>f, <1>8, <1>9, <1>10, <1>11, <1>12, <1>13,
     <1>14, <1>15, <1>16, <1>17, <1>18, <1>19, <1>20
  DEF Next, LaunchStep, AdvanceStep, Crash, OperatorStep

\* There are finitely many children, so finitely many are debited.
LEMMA DebitedIsFinite == IsFiniteSet(Debited) /\ Cardinality(Debited) \in Nat
<1>1. IsFiniteSet(1..MaxAttempts)
  BY BoundsAreNaturals, FS_Interval
<1>2. IsFiniteSet(Children)
  BY <1>1, UnitsAreNumbers, FS_Product DEF Children
<1>3. Debited \in SUBSET Children
  BY DEF Debited
<1> QED
  BY <1>2, <1>3, FS_Subset, FS_CardinalityType

\* A pass that takes S debits as many new children.
LEMMA DebitedByTakes ==
  ASSUME TypeOK, ChildInv, NEW S, Takes(S)
  PROVE  /\ IsFiniteSet(S) /\ Cardinality(S) \in Nat
         /\ Cardinality(Debited') = Cardinality(Debited) + Cardinality(S)
<1> DEFINE taken == {<<u, attempts[u] + 1>> : u \in S}
           f == [u \in S |-> <<u, attempts[u] + 1>>]
<1>1. S \in SUBSET Units
  BY DEF Takes, Ready
<1>2. IsFiniteSet(S) /\ Cardinality(S) \in Nat
  BY <1>1, UnitsAreNumbers, FS_Subset, FS_CardinalityType
<1>3. ExistsBijection(S, taken)
  <2>1. f \in [S -> taken] /\ \A a, b \in S : f[a] = f[b] => a = b
    OBVIOUS
  <2>2. \A t \in taken : \E s \in S : f[s] = t
    OBVIOUS
  <2> HIDE DEF f, taken
  <2>3. f \in Bijection(S, taken)
    BY <2>1, <2>2, Fun_IsBij
  <2> QED
    BY <2>3, Fun_ExistsBij
<1>4. IsFiniteSet(taken) /\ Cardinality(taken) = Cardinality(S)
  BY <1>2, <1>3, FS_Bijection
<1>5. taken \in SUBSET Children
  <2>1. \A u \in S : attempts[u] + 1 \in 1..MaxAttempts
    BY <1>1, BoundsAreNaturals DEF Takes, Ready, TypeOK
  <2> QED
    BY <1>1, <2>1 DEF Children
<1>6. \A c \in Children : entry'[c] = IF c \in taken THEN "launching" ELSE entry[c]
  BY DEF Takes
<1>7. \A c \in taken : c \in Children /\ c[1] \in Units /\ c[2] = attempts[c[1]] + 1
  BY <1>1, <1>5
<1>8. \A c \in taken : entry[c] = "none"
  BY <1>7, BoundsAreNaturals DEF ChildInv, TypeOK
<1> HIDE DEF taken, f
<1>9. Debited' = Debited \cup taken /\ Debited \cap taken = {}
  BY <1>5, <1>6, <1>8 DEF Debited
<1>10. Cardinality(Debited \cup taken) = Cardinality(Debited) + Cardinality(taken)
  <2>1. Cardinality(Debited \cap taken) = 0
    BY <1>9, FS_EmptySet
  <2>2. Cardinality(Debited \cup taken)
        = Cardinality(Debited) + Cardinality(taken) - Cardinality(Debited \cap taken)
    BY <1>4, DebitedIsFinite, FS_Union
  <2> QED
    BY <1>2, <1>4, <2>1, <2>2, DebitedIsFinite
<1> QED
  BY <1>2, <1>4, <1>9, <1>10

\* The budget is debited once for every attempt that is not a failed launch, and
\* is never overdrawn (scheduleParentRun, releaseReservation, completeChildRun).
THEOREM BudgetIsKept == Spec => []BudgetCountsAttempts
<1> DEFINE Kept == consumed = Cardinality(Debited) /\ consumed <= Budget
<1>1. Kept <=> BudgetCountsAttempts
  BY DEF BudgetCountsAttempts, Debited
<1>2. ASSUME Init PROVE Kept
  <2>1. Debited = {} /\ consumed = 0
    BY <1>2 DEF Init, Debited
  <2> QED
    BY <2>1, FS_EmptySet, BoundsAreNaturals
<1>3. ASSUME TypeOK, ChildInv, UnitInv, Kept, [Next]_vars
      PROVE  Kept'
  <2>1. EntriesMove
    BY <1>3, EntryEffect
  <2>2. CASE UNCHANGED <<entry, consumed>>
    <3>1. Debited' = Debited
      BY <2>2 DEF Debited
    <3> QED
      BY <1>3, <2>2, <3>1
  <2>3. ASSUME NEW S, Takes(S) PROVE Kept'
    <3>1. /\ consumed' = consumed + Cardinality(S) /\ Cardinality(S) \in Nat
          /\ Cardinality(Debited') = Cardinality(Debited) + Cardinality(S)
      BY <1>3, <2>3, DebitedByTakes DEF Takes
    <3>2. S = {} => Cardinality(S) = 0
      BY FS_EmptySet
    <3>3. S # {} => consumed + Cardinality(S) <= Budget
      BY <1>3, <2>3, TakenFit
    <3> QED
      BY <1>3, <3>1, <3>2, <3>3, DebitedIsFinite, BoundsAreNaturals
  <2>4. ASSUME NEW c \in Children, Stands(c) PROVE Kept'
    <3>1. Debited' = Debited
      BY <1>3, <2>4 DEF Debited, Stands, Ended, TypeOK
    <3> QED
      BY <1>3, <2>4, <3>1 DEF Stands
  <2>5. ASSUME NEW c \in Children, Refunds(c) PROVE Kept'
    <3>1. Debited' = Debited \ {c} /\ c \in Debited
      BY <1>3, <2>5 DEF Debited, Refunds, TypeOK
    <3>2. Cardinality(Debited \ {c}) = Cardinality(Debited) - 1 /\ Cardinality(Debited \ {c}) \in Nat
      BY <3>1, DebitedIsFinite, FS_RemoveElement, FS_CardinalityType
    <3> QED
      BY <1>3, <2>5, <3>1, <3>2, DebitedIsFinite, BoundsAreNaturals DEF Refunds
  <2> QED
    BY <2>1, <2>2, <2>3, <2>4, <2>5 DEF EntriesMove
<1>4. TypeOK /\ ChildInv /\ UnitInv /\ BudgetCountsAttempts /\ [Next]_vars => BudgetCountsAttempts'
  <2> HIDE DEF Kept
  <2>1. BudgetCountsAttempts' <=> Kept'
    BY <1>1 DEF BudgetCountsAttempts, Debited, Kept
  <2> QED
    BY <1>1, <1>3, <2>1
<1>5. Init => BudgetCountsAttempts
  BY <1>1, <1>2
<1> QED
  BY <1>4, <1>5, Invariance, PTL DEF Spec

-----------------------------------------------------------------------------
(* The plan.                                                               *)

\* UnitSchedule counts as ParentRun does.
LEMMA CountsAgree == \A S : Plan!Cardinality(S) = Cardinality(S)
BY Zenon DEF Plan!Cardinality, Cardinality, Plan!IsFiniteSet, IsFiniteSet

\* A unit is busy while it is active.
LEMMA BusyAreActive == TypeOK => Plan!Busy = ActiveUnits
BY DEF Plan!Busy, Phase, ActiveUnits, Active, Ended, TypeOK

\* A unit that waits for a child has one start on the budget.
LEMMA ActiveCosts ==
  ASSUME TypeOK, UnitInv, BudgetCountsAttempts, NEW c \in Children, Owns(c)
  PROVE  consumed > 0
<1>1. c \in Debited
  BY DEF Debited, UnitInv
<1>2. Debited # {}
  BY <1>1
<1>3. consumed = Cardinality(Debited)
  BY DEF BudgetCountsAttempts, Debited
<1> QED
  BY <1>2, <1>3, DebitedIsFinite, FS_EmptySet

\* The units are taken, ended and taken back in the order and within the limits of
\* the plan (readyUnits, scheduleParentRun, releaseReservation, completeChildRun).
THEOREM KeepsPlan == Spec => PlanIsKept
<1>1. Init => Plan!Init
  BY DEF Init, Plan!Init, Phase, Active
<1>2. ASSUME TypeOK, ChildInv, UnitInv, BudgetCountsAttempts, [Next]_vars
      PROVE  [Plan!Next]_(Plan!vars)
  <2> USE <1>2
  <2>1. UnitsMove
    BY UnitEffect
  <2>2. CASE unit' = unit /\ consumed' = consumed
    BY <2>2 DEF Plan!vars, Phase
  <2>3. CASE Withdraws
    BY <2>3 DEF Withdraws, ActiveUnits, Active, Plan!vars, Phase
  <2>4. ASSUME NEW S, Takes(S) PROVE [Plan!Next]_(Plan!vars)
    <3>1. CASE S = {}
      <4>1. unit' = unit /\ consumed' = consumed
        BY <2>4, <3>1, FS_EmptySet DEF Takes, TypeOK
      <4> QED
        BY <4>1 DEF Plan!vars, Phase
    <3>2. CASE S # {}
      <4>1. S \subseteq Units /\ \A u \in S : unit[u] = "pending" /\ \A d \in Depends[u] : unit[d] = "succeeded"
        BY <2>4 DEF Takes, Ready
      <4>2. \A u \in S : Phase[u] = "pending" /\ \A d \in Depends[u] : Phase[d] = "succeeded"
        BY <4>1, PlanShape DEF Active, Phase
      <4>3. \A u \in S, v \in Plan!Busy \cup S : u # v => Keys[u] \cap Keys[v] = {}
        BY <2>4, TakenDoNotConflict, BusyAreActive DEF Conflict
      <4>4. Cardinality(Plan!Busy \cup S) <= Ceiling
        BY <2>4, <3>2, TakenFit, BusyAreActive
      <4>5. consumed' = consumed + Cardinality(S) /\ consumed' <= Budget
        BY <2>4, <3>2, TakenFit DEF Takes
      <4>6. Phase' = [u \in Units |-> IF u \in S THEN "active" ELSE Phase[u]]
        BY <2>4 DEF Takes, Active, Phase
      <4>7. Plan!Take(S)
        BY <4>2, <4>3, <4>4, <4>5, <4>6, CountsAgree, Zenon DEF Plan!Take
      <4> QED
        BY <3>2, <4>1, <4>7, Zenon DEF Plan!Next
    <3> QED
      BY <3>1, <3>2
  <2>5. ASSUME NEW c \in Children, Relaunches(c) PROVE [Plan!Next]_(Plan!vars)
    <3>1. c[1] \in Units /\ consumed > 0 /\ consumed \in Nat
      BY <2>5, ChildParts, ActiveCosts DEF Relaunches, TypeOK
    <3>2. CASE unit' = [unit EXCEPT ![c[1]] = "queued"] /\ consumed' = consumed
      BY <2>5, <3>1, <3>2 DEF Relaunches, Active, TypeOK, Plan!vars, Phase
    <3>3. CASE unit' = [unit EXCEPT ![c[1]] = "pending"] /\ consumed' = consumed - 1
      BY <2>5, <3>1, <3>3 DEF Relaunches, Active, TypeOK, Plan!GiveBack, Plan!Next, Phase
    <3> QED
      BY <2>5, <3>1, <3>2, <3>3 DEF Relaunches
  <2>6. ASSUME NEW c \in Children, Completes(c) PROVE [Plan!Next]_(Plan!vars)
    <3>1. c[1] \in Units /\ Phase[c[1]] = "active" /\ child[c] \in {"succeeded", "failed", "canceled"}
      BY <2>6, ChildParts DEF Completes, Phase, Ended
    <3>2. Phase' = [Phase EXCEPT ![c[1]] = child[c]]
      BY <2>6, <3>1 DEF Completes, Phase, Active, TypeOK
    <3>3. Plan!End(c[1])
      BY <2>6, <3>1, <3>2 DEF Completes, Plan!End
    <3> QED
      BY <3>1, <3>3 DEF Plan!Next
  <2>7. ASSUME NEW u \in Units, Retries(u) PROVE [Plan!Next]_(Plan!vars)
    BY <2>7 DEF Retries, Active, TypeOK, Plan!Retry, Plan!Next, Phase
  <2> QED
    BY <2>1, <2>2, <2>3, <2>4, <2>5, <2>6, <2>7 DEF UnitsMove
<1>3. TypeOK /\ ChildInv /\ UnitInv /\ BudgetCountsAttempts /\ [Next]_vars => [Plan!Next]_(Plan!vars)
  BY <1>2
<1> QED
  BY <1>1, <1>3, Invariance, BudgetIsKept, PTL DEF Spec, PlanIsKept, Plan!Spec

-----------------------------------------------------------------------------
\* What a step may do to the job of child c.
JobMoves(c) ==
  \/ child'[c] = child[c]
  \/ child[c] = "none" /\ child'[c] \in {"active", "failed"}
  \/ child[c] = "active" /\ child'[c] \in Ended \cup {"canceling"}
  \/ child[c] = "canceling" /\ child'[c] \in {"canceled", "failed", "active"}

\* A child that has not been launched has no job yet.
LEMMA JobEffect ==
  ASSUME TypeOK, ChildInv, [Next]_vars, NEW c \in Children
  PROVE  JobMoves(c)
<1> USE DEF JobMoves
<1>1. ASSUME NEW d \in Children, LaunchChild(d) PROVE JobMoves(c)
  BY <1>1 DEF LaunchChild, ChildInv, TypeOK
<1>2. ASSUME NEW d \in Children, ChildEnds(d) PROVE JobMoves(c)
  BY <1>2 DEF ChildEnds, TypeOK, Live, Ended
<1>3. ASSUME NEW d \in Children, ChildForgets(d) PROVE JobMoves(c)
  BY <1>3 DEF ChildForgets, TypeOK
<1>4. ASSUME NEW d \in Children, WorkerCrashes(d) PROVE JobMoves(c)
  BY <1>4 DEF WorkerCrashes, TypeOK, Live, Ended
<1>5. ASSUME NEW k \in Commands, NEW d \in Children, Propagate(k, d) PROVE JobMoves(c)
  BY <1>5 DEF Propagate, TypeOK
<1>6. CASE UNCHANGED child
  BY <1>6
<1>7. \/ UNCHANGED child
      \/ \E d \in Children : LaunchChild(d) \/ ChildEnds(d) \/ ChildForgets(d) \/ WorkerCrashes(d)
      \/ \E k \in Commands, d \in Children : Propagate(k, d)
  <2>1. ASSUME NEW d \in Children,
               Acknowledge(d) \/ LaunchFailed(d) \/ SchedulerCrashes(d) \/ AdvanceStep(d)
        PROVE  UNCHANGED child
    BY <2>1 DEF Acknowledge, LaunchFailed, SchedulerCrashes, AdvanceStep, AdvanceComplete,
                AdvanceSchedule
  <2>2. ASSUME NEW k \in Commands,
               Pause(k) \/ Resume(k) \/ Cancel(k) \/ FinishControl(k) \/ ControlCrashes(k)
                 \/ \E u \in Units : Retry(k, u)
        PROVE  UNCHANGED child
    BY <2>2 DEF Pause, Resume, Cancel, FinishControl, ControlCrashes, Retry, Issue
  <2>3. ASSUME Start \/ Schedule \/ (\E passed \in BOOLEAN : ApplyIntegration(passed))
                 \/ RequestRepair \/ UNCHANGED vars
        PROVE  UNCHANGED child
    BY <2>3 DEF Start, Schedule, ApplyIntegration, RequestRepair, vars, procVars
  <2> QED
    BY <2>1, <2>2, <2>3 DEF Next, LaunchStep, Crash, OperatorStep
<1> QED
  BY <1>1, <1>2, <1>3, <1>4, <1>5, <1>6, <1>7

\* Every child keeps the promises of Job, which RunJob implements: what the
\* parent does to its children and sees of them is what a run job allows.
THEOREM ChildrenKeepPromises == Spec => ChildrenAreJobs
<1>1. Init => \A c \in Children : ChildJob(c)!Init
  BY DEF Init, ChildJob!Init
<1>2. TypeOK /\ ChildInv /\ [Next]_vars
        => \A c \in Children : [ChildJob(c)!Next]_(ChildJob(c)!vars)
  <2> SUFFICES ASSUME TypeOK, ChildInv, [Next]_vars, NEW c \in Children
               PROVE  ChildJob(c)!Next \/ UNCHANGED ChildJob(c)!vars
    OBVIOUS
  <2>1. JobMoves(c)
    BY JobEffect
  <2>2. CASE child'[c] = child[c]
    BY <2>2 DEF ChildJob!vars
  <2>3. CASE child[c] = "none" /\ child'[c] \in {"active", "failed"}
    BY <2>3 DEF ChildJob!Next, ChildJob!Start
  <2>4. CASE child[c] = "active" /\ child'[c] \in Ended
    BY <2>4 DEF ChildJob!Next, ChildJob!End, ChildJob!Ended, Ended
  <2>5. CASE child[c] = "active" /\ child'[c] = "canceling"
    BY <2>5 DEF ChildJob!Next, ChildJob!Cancel
  <2>6. CASE child[c] = "canceling" /\ child'[c] \in {"canceled", "failed"}
    BY <2>6 DEF ChildJob!Next, ChildJob!End
  <2>7. CASE child[c] = "canceling" /\ child'[c] = "active"
    BY <2>7 DEF ChildJob!Next, ChildJob!Forget
  <2> QED
    BY <2>1, <2>2, <2>3, <2>4, <2>5, <2>6, <2>7 DEF JobMoves
<1> QED
  BY <1>1, <1>2, Invariance, PTL DEF Spec, ChildrenAreJobs
=============================================================================
