------------------------- MODULE RunExecutionProofs -------------------------
(***************************************************************************)
(* Proofs about RunExecution, for any operators, policies, routes and      *)
(* number of dying processes.                                              *)
(***************************************************************************)
EXTENDS RunExecution, TLAPS

-----------------------------------------------------------------------------
(* Type correctness.                                                       *)

\* What is put into the state file is a state.
LEMMA PutType ==
  ASSUME TypeOK, NEW document \in States, NEW seen, Put(document, seen)
  PROVE  state' \in States /\ overtaken' \in BOOLEAN /\ rolledBack' \in BOOLEAN
BY DEF Put, TypeOK

\* What a command writes is a state.
LEMMA AcceptedType ==
  ASSUME TypeOK, NEW c \in Commands
  PROVE  Accepted(c) \in States /\ [snap EXCEPT !.seq = snap.seq + 1] \in States
BY DEF TypeOK, Accepted, NextStatus, States, Status, Terminal, Provider

\* Types survive the steps of a command.
LEMMA CommandTypes ==
  ASSUME TypeOK, NEW c \in Commands, Begin(c) \/ CommandStep(c) \/ Die(c)
  PROVE  TypeOK'
<1> USE CommandsAreGiven DEF TypeOK
<1>1. CASE Begin(c)
  BY <1>1 DEF Begin, States, historyVars
<1>2. CASE WriteState(c)
  <2>1. state' \in States /\ overtaken' \in BOOLEAN /\ rolledBack' \in BOOLEAN
    BY <1>2, AcceptedType, PutType DEF WriteState
  <2> QED  BY <1>2, <2>1 DEF WriteState
<1>3. CASE WriteRecord(c)
  <2>1. Applies(c) \in BOOLEAN
    BY DEF Applies
  <2>2. [seq |-> snap.seq + 1, applied |-> Applies(c)] \in Records
    BY <2>1 DEF Records, States
  <2> QED  BY <1>3, <2>2 DEF WriteRecord, historyVars
<1>4. CASE Publish(c)
  <2>1. verdicts' \in Seq(Terminal)
    BY <1>4 DEF Publish, Terminal
  <2> QED  BY <1>4, <2>1 DEF Publish, Return, historyVars, States, NoState, Status, Provider
<1>5. CASE Die(c)
  BY <1>5, FaultsAreBounded DEF Die, fileVars, States, NoState, Status, Provider
<1> QED  BY <1>1, <1>2, <1>3, <1>4, <1>5 DEF CommandStep

\* Types survive the steps of the harness.
LEMMA HarnessTypes ==
  ASSUME HarnessTypeOK,
         \/ Attempt \/ AttemptEnds \/ (\E d \in Decisions : Decide(d)) \/ HarnessForgotten
         \/ UNCHANGED harnessVars
  PROVE  HarnessTypeOK'
<1> USE DEF HarnessTypeOK, Repeats
<1>1. CASE Attempt
  BY <1>1 DEF Attempt
<1>2. CASE AttemptEnds
  BY <1>2 DEF AttemptEnds
<1>3. CASE \E d \in Decisions : Decide(d)
  <2> PICK d \in Decisions : Decide(d)
    BY <1>3
  <2>1. CASE d \in Repeats /\ RepeatStep(d)
    BY <2>1 DEF RepeatStep
  <2>2. CASE Rerun
    BY <2>2 DEF Rerun
  <2>3. CASE HarnessReturns("passed") \/ HarnessReturns("failed")
    BY <2>3 DEF HarnessReturns
  <2> QED  BY <2>1, <2>2, <2>3 DEF Decide, Exhausted
<1>4. CASE HarnessForgotten
  BY <1>4 DEF HarnessForgotten
<1>5. CASE UNCHANGED harnessVars
  BY <1>5 DEF harnessVars
<1> QED  BY <1>1, <1>2, <1>3, <1>4, <1>5

\* The document a second look makes.
LEMMA MergedType ==
  ASSUME NEW latest \in States, NEW w \in Writes, write = w
  PROVE  Merged(latest) \in States
BY DEF Merged, States, Writes, Provider

\* A write begins, and is committed.
LEMMA BeginWriteType ==
  ASSUME TypeOK, NEW status \in Provider, NEW effect \in Effects, BeginWrite(status, effect)
  PROVE  write' \in Writes
BY DEF TypeOK, BeginWrite, Writes

\* A finalization has a terminal status to write.
LEMMA FinalStatusType ==
  FinalStatus \in Terminal
BY DEF FinalStatus, Terminal

\* A write that has a stage is a write.
LEMMA WriteStages ==
  ASSUME ExecutionTypeOK, write.stage \in {"again", "commit"}
  PROVE  write \in Writes
BY DEF ExecutionTypeOK, NoWrite

\* Types survive the steps of the supervisor.
LEMMA SupervisorTypes ==
  ASSUME ExecutionTypeOK, SupervisorStep
  PROVE  ExecutionTypeOK'
<1> USE DEF ExecutionTypeOK, TypeOK
<1>1. CASE LookAgain
  <2>1. write \in Writes /\ state \in States
    BY <1>1, WriteStages DEF LookAgain
  <2>2. Merged(state) \in States
    BY <2>1, MergedType
  <2>3. write' \in Writes
    BY <1>1, <2>1, <2>2 DEF LookAgain, Writes
  <2> QED  BY <1>1, <2>3, HarnessTypes DEF LookAgain, controlVars, fileVars, commandVars, historyVars, childVars
<1>2. CASE Commit
  <2>1. write \in Writes
    BY <1>2, WriteStages DEF Commit
  <2>2. state' \in States /\ overtaken' \in BOOLEAN /\ rolledBack' \in BOOLEAN
    BY <1>2, <2>1, PutType DEF Commit, Writes
  <2>3. alarms' \subseteq {"interrupt", "exceed"} /\ late' \in Nat
    BY <1>2 DEF Commit
  <2> QED  BY <1>2, <2>2, <2>3, HarnessTypes DEF Commit, commandVars, childVars
<1>3. CASE SupervisorBegins
  BY <1>3, BeginWriteType, HarnessTypes
  DEF SupervisorBegins, Provider, Effects, controlVars, fileVars, commandVars, historyVars, childVars
<1>4. CASE Progress
  BY <1>4, BeginWriteType, HarnessTypes
  DEF Progress, Provider, Effects, controlVars, fileVars, commandVars, historyVars, childVars
<1>5. CASE HeartbeatInterrupts
  BY <1>5, BeginWriteType, HarnessTypes
  DEF HeartbeatInterrupts, Provider, Effects, controlVars, fileVars, commandVars, historyVars, childVars
<1>6. CASE TimeoutFires
  BY <1>6, BeginWriteType, HarnessTypes
  DEF TimeoutFires, Provider, Effects, controlVars, fileVars, commandVars, historyVars, childVars
<1>7. CASE BudgetExceeded
  BY <1>7, BeginWriteType, HarnessTypes
  DEF BudgetExceeded, Provider, Effects, controlVars, fileVars, commandVars, historyVars, childVars
<1>8. CASE InterruptKills
  BY <1>8, HarnessTypes DEF InterruptKills, controlVars, fileVars, commandVars, historyVars, childVars
<1>9. CASE BudgetKills
  BY <1>9, BeginWriteType, HarnessTypes
  DEF BudgetKills, Provider, Effects, controlVars, fileVars, commandVars, historyVars, childVars
<1>10. CASE ProviderExits
  BY <1>10, HarnessTypes DEF ProviderExits, controlVars, fileVars, commandVars, historyVars, childVars
<1>11. CASE ProviderCloses
  BY <1>11, BeginWriteType, HarnessTypes
  DEF ProviderCloses, Provider, Effects, controlVars, fileVars, commandVars, historyVars, childVars
<1>12. CASE SpawnFails
  BY <1>12, BeginWriteType, HarnessTypes
  DEF SpawnFails, Provider, Effects, controlVars, fileVars, commandVars, historyVars, childVars
<1> QED  BY <1>1, <1>2, <1>3, <1>4, <1>5, <1>6, <1>7, <1>8, <1>9, <1>10, <1>11, <1>12 DEF SupervisorStep

\* Types survive the steps of the child.
LEMMA ChildTypes ==
  ASSUME ExecutionTypeOK, ChildStep
  PROVE  ExecutionTypeOK'
<1> USE DEF ExecutionTypeOK, TypeOK
<1>1. CASE ChildStarts
  BY <1>1, HarnessTypes DEF ChildStarts, controlVars, fileVars, commandVars, historyVars, supVars
<1>2. CASE EngineStarts
  <2>1. state' \in States
    BY <1>2 DEF EngineStarts, States, Provider
  <2> QED  BY <1>2, <2>1, HarnessTypes DEF EngineStarts, NewSupervisor, commandVars, historyVars
<1>3. CASE EngineRejects
  BY <1>3, HarnessTypes
  DEF EngineRejects, Outcomes, controlVars, fileVars, commandVars, historyVars, supVars
<1>4. CASE AttemptRejected
  BY <1>4, HarnessTypes DEF AttemptRejected, controlVars, fileVars, commandVars, historyVars, supVars
<1>5. CASE AdapterReturns
  <2>1. outcome' \in Outcomes
    BY <1>5 DEF AdapterReturns, Results, Outcomes
  <2> QED  BY <1>5, <2>1, HarnessTypes
           DEF AdapterReturns, controlVars, fileVars, commandVars, historyVars
<1>6. CASE MarkInterrupted
  <2>1. [base EXCEPT !.provider = "interrupted"] \in States
    BY DEF States, Provider
  <2>2. state' \in States /\ overtaken' \in BOOLEAN /\ rolledBack' \in BOOLEAN
    BY <1>6, <2>1, PutType DEF MarkInterrupted
  <2> QED  BY <1>6, <2>2, HarnessTypes
           DEF MarkInterrupted, commandVars, supVars, States, NoState, Status, Provider
<1>7. CASE Fallback
  BY <1>7, HarnessTypes
  DEF Fallback, NewSupervisor, controlVars, fileVars, commandVars, historyVars
<1>8. CASE EngineReads
  BY <1>8, HarnessTypes DEF EngineReads, controlVars, fileVars, commandVars, historyVars, supVars
<1>9. CASE EngineRecords
  <2>1. state' \in States
    BY <1>9 DEF EngineRecords, States, Provider
  <2> QED  BY <1>9, <2>1, HarnessTypes
           DEF EngineRecords, commandVars, historyVars, supVars, States, NoState, Status, Provider
<1>10. CASE HarnessDecides
  BY <1>10, HarnessTypes DEF HarnessDecides, controlVars, fileVars, commandVars, historyVars, supVars
<1>11. CASE FinalizationReads
  <2>1. threw' \in BOOLEAN
    BY <1>11 DEF FinalizationReads
  <2> QED  BY <1>11, <2>1, HarnessTypes
           DEF FinalizationReads, controlVars, fileVars, commandVars, historyVars, supVars
<1>12. CASE FinalizationWrites
  <2> DEFINE final == [status |-> FinalStatus, seq |-> records[StartCommand].seq,
                       provider |-> base.provider]
  <2>1. final \in States
    BY FinalStatusType, StartIsGiven DEF States, Status, Records
  <2>2. state' \in States /\ overtaken' \in BOOLEAN /\ rolledBack' \in BOOLEAN
    BY <1>12, <2>1, PutType DEF FinalizationWrites
  <2> QED  BY <1>12, <2>2, HarnessTypes DEF FinalizationWrites, commandVars, supVars
<1>13. CASE ChildPublishes
  <2>1. verdicts' \in Seq(Terminal)
    BY <1>13, FinalStatusType DEF ChildPublishes
  <2> QED  BY <1>13, <2>1, HarnessTypes
           DEF ChildPublishes, commandVars, historyVars, supVars, States, NoState, Status, Provider
<1>14. CASE CandidateBlocked \/ RouteBlocked
  BY <1>14, HarnessTypes
  DEF CandidateBlocked, RouteBlocked, NoSupervisor, Outcomes, controlVars, fileVars, commandVars, historyVars
<1>15. CASE MarkRecommendedAction
  <2>1. \A p \in Provider : [base EXCEPT !.provider = p] \in States
    BY DEF States
  <2>2. [base EXCEPT !.provider = IF base.provider = "none" THEN "failed" ELSE base.provider] \in States
    BY <2>1 DEF States, Provider
  <2>3. state' \in States /\ overtaken' \in BOOLEAN /\ rolledBack' \in BOOLEAN
    BY <1>15, <2>2, PutType DEF MarkRecommendedAction
  <2> QED  BY <1>15, <2>3, HarnessTypes
           DEF MarkRecommendedAction, commandVars, supVars, States, NoState, Status, Provider
<1> QED  BY <1>1, <1>2, <1>3, <1>4, <1>5, <1>6, <1>7, <1>8, <1>9, <1>10, <1>11, <1>12, <1>13,
            <1>14, <1>15
         DEF ChildStep

\* Types survive every step.
LEMMA TypesStay ==
  ASSUME ExecutionTypeOK, [Next]_vars
  PROVE  ExecutionTypeOK'
<1>1. CASE \E c \in Commands : OperatorStep(c)
  <2>1. TypeOK'
    BY <1>1, CommandTypes DEF ExecutionTypeOK, OperatorStep
  <2> QED  BY <1>1, <2>1, HarnessTypes DEF ExecutionTypeOK, OperatorStep, childVars, supVars
<1>2. CASE StartDies
  <2>1. TypeOK'
    BY <1>2, CommandTypes, StartIsGiven DEF ExecutionTypeOK, StartDies
  <2> QED  BY <1>2, <2>1, HarnessTypes DEF ExecutionTypeOK, StartDies, supVars
<1>3. CASE OuterTimeout
  BY <1>3, HarnessTypes
  DEF OuterTimeout, ExecutionTypeOK, TypeOK, controlVars, fileVars, commandVars, historyVars, childVars
<1>4. CASE ChildDies
  <2>1. base' \in States /\ faults' \in Nat
    BY <1>4 DEF ChildDies, ExecutionTypeOK, TypeOK, States, NoState, Status, Provider
  <2> QED  BY <1>4, <2>1, HarnessTypes
           DEF ChildDies, ExecutionTypeOK, TypeOK, fileVars, commandVars, supVars
<1>5. CASE UNCHANGED vars
  BY <1>5, HarnessTypes
  DEF vars, ExecutionTypeOK, TypeOK, controlVars, fileVars, commandVars, historyVars, childVars, supVars
<1> QED  BY <1>1, <1>2, <1>3, <1>4, <1>5, SupervisorTypes, ChildTypes DEF Next

\* The initial values have their types.
LEMMA InitialTypes ==
  ExecutionInit => ExecutionTypeOK
<1> SUFFICES ASSUME ExecutionInit PROVE ExecutionTypeOK
  OBVIOUS
<1>1. verdicts \in Seq(Terminal)
  BY DEF ExecutionInit, Init
<1> QED  BY <1>1, CommandsAreGiven
DEF ExecutionInit, Init, HarnessInit, ExecutionTypeOK, TypeOK, HarnessTypeOK, NoState, States,
    Status, Provider, NoRecord, Records, Repeats, NoWrite

\* The values of the state file, the processes and the harness are what the code
\* takes them for.
THEOREM TypeCorrect == Spec => []ExecutionTypeOK
BY InitialTypes, TypesStay, PTL DEF Spec

-----------------------------------------------------------------------------
(* The inductive invariant.                                                *)

\* The attempts a step may have: with the attempt that is due, and the rerun that
\* a repair still owes.
Allowance == 1 + counters["retry"] + 2 * counters["repair"]

AttemptsInv ==
  /\ attempts <= Allowance
  /\ turn = "attempt" => attempts + 1 <= Allowance
  /\ kind = "repair" => attempts + 1 <= Allowance
  /\ turn = "attempt" /\ kind = "repair" => attempts + 2 <= Allowance

\* The counters against the policy.
CountersInv ==
  \A a \in Repeats :
    /\ counters[a] > Policy[a] => first # a /\ counters[a] = 1
    /\ first = "none" => counters[a] = 0

\* Who is at work.
WorkInv ==
  /\ child = "mark" => outcome = "interrupted"
  /\ child \notin {"supervise", "dead"} => sup = "none" /\ write = NoWrite
  /\ threw => child \in {"finalize", "publish", "done", "dead"} /\ sup = "none" /\ write = NoWrite
  /\ sup \in {"none", "ended", "killed"} => write = NoWrite
  /\ write # NoWrite /\ write.effect = "spawn" => sup = "starting"
  /\ write.stage = "commit" /\ write.seen.status = "canceled" => write.doc.status = "canceled"
  /\ step \in {"state", "record"} => holder \in Commands

\* What the processes remember of a cancel.
Remembered ==
  \/ Canceled(state) \/ Canceled(snap) \/ Canceled(base)
  \/ outcome = "interrupted" \/ "interrupted" \in flags \/ late > 0
  \/ write # NoWrite /\ (write.status = "interrupted" \/ Canceled(write.doc))

\* An accepted cancel: recorded, or about to be.
Accepting ==
  \/ Cancels # {}
  \/ step = "record" /\ Applies(holder) /\ Action[holder] = "cancel"

CancelInv == ~overtaken /\ ~threw /\ (Remembered \/ Accepting) => state.status = "canceled"

\* What the terminal events say is there to stay.
VerdictInv ==
  ~overtaken /\ ~threw =>
    /\ \A i \in DOMAIN verdicts :
         verdicts[i] = state.status /\ (verdicts[i] # "canceled" => child = "done")
    /\ child = "publish" => state.status = FinalStatus

\* The audit file of the command inside the lock, and those of the recorded ones.
AuditInv ==
  ~rolledBack =>
    /\ \A c \in Commands : records[c].applied \/ records[c].seq > 1 =>
         records[c].seq <= state.seq /\ <<records[c].seq, c>> \in audit
    /\ step \in {"state", "record"} => <<snap.seq + 1, holder>> \in audit
    /\ step = "record" /\ (Applies(holder) \/ snap.seq > 0) => snap.seq + 1 <= state.seq

\* A provider spawned after a cancel is the last one.
Last ==
  /\ sup # "starting" /\ child \notin {"boot", "reject"}
  /\ child \in {"mark", "advise", "settle", "record"} => outcome = "interrupted"
  /\ child = "execute" => turn = "over" \/ (turn = "decide" /\ outcome = "interrupted")

LateInv ==
  "interrupted" \notin Denials \cup FallbackOn /\ ~overtaken =>
    late <= 1 /\ (late > 0 => Last)

\* What a step of the run makes of the harness.
LEMMA HarnessSteps ==
  ASSUME [Next]_vars
  PROVE  \/ Attempt \/ AttemptEnds \/ (\E d \in Decisions : Decide(d)) \/ HarnessForgotten
         \/ UNCHANGED harnessVars
<1>1. CASE (\E c \in Commands : OperatorStep(c)) \/ StartDies \/ OuterTimeout \/ ChildDies
  BY <1>1 DEF OperatorStep, StartDies, OuterTimeout, ChildDies
<1>2. CASE SupervisorStep
  BY <1>2 DEF SupervisorStep, LookAgain, Commit, SupervisorBegins, Progress, HeartbeatInterrupts,
              TimeoutFires, BudgetExceeded, InterruptKills, BudgetKills, ProviderExits, SpawnFails,
              ProviderCloses
<1>3. CASE ChildStep
  BY <1>3 DEF ChildStep, ChildStarts, EngineStarts, EngineRejects, AttemptRejected, AdapterReturns,
              CandidateBlocked, RouteBlocked, NoSupervisor,
              MarkInterrupted, MarkRecommendedAction, Fallback, EngineReads, EngineRecords, HarnessDecides,
              FinalizationReads, FinalizationWrites, ChildPublishes
<1>4. CASE UNCHANGED vars
  BY <1>4 DEF vars
<1> QED  BY <1>1, <1>2, <1>3, <1>4 DEF Next

\* The attempts of a step never exceed what the policy's budgets allow.
THEOREM BudgetsAreKept == Spec => []BudgetsKept
<1> DEFINE Inv == AttemptsInv /\ CountersInv
<1>1. ExecutionInit => Inv
  BY PolicyIsGiven DEF ExecutionInit, HarnessInit, AttemptsInv, Allowance, CountersInv, Repeats
<1>2. ASSUME ExecutionTypeOK, Inv, [Next]_vars
      PROVE  Inv'
  <2> USE DEF AttemptsInv, Allowance
  <2>1. counters \in [Repeats -> Nat] /\ attempts \in Nat
    BY <1>2 DEF ExecutionTypeOK, HarnessTypeOK
  <2>2. counters["retry"] \in Nat /\ counters["repair"] \in Nat
    BY <2>1 DEF Repeats
  <2>3. CASE Attempt
    <3>1. AttemptsInv'
      BY <1>2, <2>1, <2>2, <2>3 DEF Attempt
    <3> QED  BY <1>2, <2>3, <3>1 DEF Attempt, CountersInv
  <2>4. CASE AttemptEnds
    <3>1. AttemptsInv'
      BY <1>2, <2>4 DEF AttemptEnds
    <3> QED  BY <1>2, <2>4, <3>1 DEF AttemptEnds, CountersInv
  <2>5. CASE \E d \in Decisions : Decide(d)
    <3> PICK d \in Decisions : Decide(d)
      BY <2>5
    <3>1. turn = "decide"
      BY DEF Decide
    <3>2. CASE d \in Repeats /\ RepeatStep(d)
      <4>1. counters' = [counters EXCEPT ![d] = counters[d] + 1]
        BY <3>2 DEF RepeatStep
      <4>2. AttemptsInv'
        <5>1. CASE d = "retry"
          <6>1. counters'["retry"] = counters["retry"] + 1 /\ counters'["repair"] = counters["repair"]
            BY <2>1, <4>1, <5>1 DEF Repeats
          <6> QED  BY <1>2, <2>1, <2>2, <3>2, <5>1, <6>1 DEF RepeatStep
        <5>2. CASE d = "repair"
          <6>1. counters'["repair"] = counters["repair"] + 1 /\ counters'["retry"] = counters["retry"]
            BY <2>1, <4>1, <5>2 DEF Repeats
          <6> QED  BY <1>2, <2>1, <2>2, <3>2, <5>2, <6>1 DEF RepeatStep
        <5> QED  BY <3>2, <5>1, <5>2 DEF Repeats
      <4>3. CountersInv'
        BY <1>2, <2>1, <3>2, PolicyIsGiven DEF RepeatStep, ActionBudget, CountersInv, Repeats
      <4> QED  BY <4>2, <4>3
    <3>3. CASE Rerun
      <4>1. AttemptsInv'
        BY <1>2, <2>1, <2>2, <3>1, <3>3 DEF Rerun
      <4> QED  BY <1>2, <3>3, <4>1 DEF Rerun, CountersInv
    <3>4. CASE HarnessReturns("passed") \/ HarnessReturns("failed")
      <4>1. AttemptsInv'
        BY <1>2, <3>4 DEF HarnessReturns
      <4> QED  BY <1>2, <3>4, <4>1 DEF HarnessReturns, CountersInv
    <3> QED  BY <3>2, <3>3, <3>4 DEF Decide, Exhausted
  <2>6. CASE HarnessForgotten
    BY <2>6, PolicyIsGiven DEF HarnessForgotten, CountersInv, Repeats
  <2>7. CASE UNCHANGED harnessVars
    BY <1>2, <2>7 DEF harnessVars, CountersInv
  <2> QED  BY <1>2, <2>3, <2>4, <2>5, <2>6, <2>7, HarnessSteps
<1>3. ExecutionTypeOK /\ Inv => BudgetsKept
  BY DEF AttemptsInv, Allowance, CountersInv, BudgetsKept
<1> QED  BY <1>1, <1>2, <1>3, TypeCorrect, PTL DEF Spec

-----------------------------------------------------------------------------
(* Who is at work.                                                         *)

\* At first nobody is at work.
LEMMA WorkInitially ==
  ExecutionInit => WorkInv
BY DEF ExecutionInit, Init, HarnessInit, WorkInv, NoWrite

\* Every step keeps apart who may not be at work together.
LEMMA WorkStays ==
  ASSUME ExecutionTypeOK, WorkInv, [Next]_vars
  PROVE  WorkInv'
<1> USE DEF WorkInv, NoWrite
<1>1. CASE \E c \in Commands : OperatorStep(c)
  BY <1>1 DEF OperatorStep, Begin, CommandStep, WriteState, WriteRecord, Publish, Return, Die,
              childVars, supVars
<1>2. CASE StartDies
  BY <1>2 DEF StartDies, Die, supVars
<1>3. CASE LookAgain
  <2>1. write \in Writes /\ write' = [write EXCEPT !.stage = "commit", !.doc = Merged(state), !.seen = state]
    BY <1>3, WriteStages DEF LookAgain
  <2>2. write'.stage = "commit" /\ write'.seen = state /\ write'.doc = Merged(state) /\ write'.effect = write.effect
    BY <2>1 DEF Writes
  <2>3. state \in States
    BY DEF ExecutionTypeOK, TypeOK
  <2>4. state.status = "canceled" => Merged(state).status = "canceled"
    BY <2>3 DEF Merged, States
  <2> QED  BY <1>3, <2>1, <2>2, <2>4 DEF LookAgain, controlVars, commandVars, childVars
<1>4. CASE Commit
  BY <1>4 DEF Commit, commandVars, childVars
<1>5. CASE SupervisorStep /\ ~LookAgain /\ ~Commit
  BY <1>5 DEF SupervisorStep, SupervisorBegins, Progress, HeartbeatInterrupts, TimeoutFires,
              BudgetExceeded, InterruptKills, BudgetKills, ProviderExits, SpawnFails, ProviderCloses,
              Watching, BeginWrite, controlVars, commandVars, childVars
<1>6. CASE OuterTimeout
  BY <1>6 DEF OuterTimeout, controlVars, commandVars, childVars
<1>7. CASE ChildStep
  BY <1>7 DEF ChildStep, ChildStarts, EngineStarts, NewSupervisor, EngineRejects, AttemptRejected,
              AdapterReturns, CandidateBlocked, RouteBlocked, NoSupervisor,
              MarkInterrupted, MarkRecommendedAction, Fallback, EngineReads, EngineRecords,
              HarnessDecides, FinalizationReads, FinalizationWrites, ChildPublishes,
              controlVars, commandVars, supVars
<1>8. CASE ChildDies
  BY <1>8 DEF ChildDies, commandVars, supVars
<1>9. CASE UNCHANGED vars
  BY <1>9 DEF vars, controlVars, commandVars, childVars, supVars
<1> QED  BY <1>1, <1>2, <1>3, <1>4, <1>5, <1>6, <1>7, <1>8, <1>9 DEF Next

-----------------------------------------------------------------------------
(* A cancel sticks.                                                        *)

\* The steps that write the state file.
StateWrites ==
  \/ \E c \in Commands : OperatorStep(c) /\ WriteState(c)
  \/ Commit \/ EngineStarts \/ MarkInterrupted \/ MarkRecommendedAction \/ EngineRecords
  \/ FinalizationWrites

\* The state file changes in the steps of its six writers only.
LEMMA OnlyWritersWrite ==
  ASSUME [Next]_vars, ~StateWrites
  PROVE  UNCHANGED <<state, overtaken, rolledBack>>
<1>1. CASE \E c \in Commands : OperatorStep(c)
  BY <1>1 DEF StateWrites, OperatorStep, Begin, CommandStep, WriteRecord, Publish, Die, historyVars, fileVars
<1>2. CASE StartDies \/ ChildDies \/ OuterTimeout
  BY <1>2 DEF StartDies, Die, ChildDies, OuterTimeout, controlVars, historyVars, fileVars
<1>3. CASE SupervisorStep
  BY <1>3 DEF StateWrites, SupervisorStep, LookAgain, SupervisorBegins, Progress, HeartbeatInterrupts,
              TimeoutFires, BudgetExceeded, InterruptKills, BudgetKills, ProviderExits, SpawnFails,
              ProviderCloses,
              controlVars, historyVars, fileVars
<1>4. CASE ChildStep
  BY <1>4 DEF StateWrites, ChildStep, ChildStarts, EngineRejects, AttemptRejected, AdapterReturns,
              CandidateBlocked, RouteBlocked, NoSupervisor,
              Fallback, EngineReads, HarnessDecides, FinalizationReads, ChildPublishes,
              controlVars, historyVars, fileVars
<1>5. CASE UNCHANGED vars
  BY <1>5 DEF vars, controlVars, historyVars, fileVars
<1> QED  BY <1>1, <1>2, <1>3, <1>4, <1>5 DEF Next

\* A state overwritten unseen is not forgotten.
LEMMA OvertakenStays ==
  ASSUME ExecutionTypeOK, [Next]_vars, ~overtaken'
  PROVE  ~overtaken
<1>1. CASE StateWrites
  BY <1>1 DEF StateWrites, WriteState, Commit, EngineStarts, MarkInterrupted,
              MarkRecommendedAction, EngineRecords, FinalizationWrites, Put, historyVars, ExecutionTypeOK, TypeOK
<1>2. CASE ~StateWrites
  BY <1>2, OnlyWritersWrite
<1> QED  BY <1>1, <1>2

\* Without an overtaking writer only a command that applies and the finalization
\* change the status; the supervisor may bring back one it has read before, but
\* not over a cancel.
LEMMA StatusStays ==
  ASSUME ExecutionTypeOK, WorkInv, [Next]_vars, ~overtaken',
         ~FinalizationWrites,
         state.status \in Terminal,
         state.status = "canceled" \/ write = NoWrite
  PROVE  state'.status = state.status
<1> USE DEF ExecutionTypeOK, TypeOK
<1>1. CASE ~StateWrites
  BY <1>1, OnlyWritersWrite
<1>2. CASE \E c \in Commands : OperatorStep(c) /\ WriteState(c)
  <2> PICK c \in Commands : WriteState(c)
    BY <1>2
  <2>1. CASE Applies(c)
    <3>1. snap.status = state.status
      BY <2>1 DEF WriteState, Put, Overtakes
    <3> QED  BY <2>1, <3>1 DEF Applies, Allowed, Terminal
  <2>2. CASE ~Applies(c) /\ snap # NoState
    <3>1. state' = [snap EXCEPT !.seq = snap.seq + 1] /\ snap.status = state.status
      BY <2>2 DEF WriteState, Put, Overtakes
    <3> QED  BY <3>1 DEF States
  <2>3. CASE ~Applies(c) /\ snap = NoState
    BY <2>3 DEF WriteState
  <2> QED  BY <2>1, <2>2, <2>3
<1>3. CASE Commit
  <2>1. write # NoWrite /\ write.stage = "commit"
    BY <1>3 DEF Commit, NoWrite
  <2>2. state' = write.doc /\ write.seen.status = state.status
    BY <1>3 DEF Commit, Put, Overtakes
  <2> QED  BY <2>1, <2>2 DEF WorkInv
<1>4. CASE EngineStarts
  BY <1>4 DEF EngineStarts, States
<1>5. CASE MarkInterrupted
  BY <1>5 DEF MarkInterrupted, Put, Overtakes, States
<1>6. CASE EngineRecords
  BY <1>6 DEF EngineRecords, States
<1>7. CASE MarkRecommendedAction
  BY <1>7 DEF MarkRecommendedAction, Put, Overtakes, States
<1> QED  BY <1>1, <1>2, <1>3, <1>4, <1>5, <1>6, <1>7 DEF StateWrites

\* The finalization confirms a cancel that it has not overtaken.
LEMMA FinalizationConfirms ==
  ASSUME ExecutionTypeOK, FinalizationWrites, ~overtaken', ~threw, state.status = "canceled"
  PROVE  state'.status = "canceled" /\ FinalStatus = "canceled"
BY DEF ExecutionTypeOK, TypeOK, FinalizationWrites, Put, Overtakes, FinalStatus, Canceled

\* An exception is not forgotten.
LEMMA ThrewStays ==
  ASSUME ExecutionTypeOK, WorkInv, [Next]_vars, ~threw'
  PROVE  ~threw
<1>1. CASE (\E c \in Commands : OperatorStep(c)) \/ StartDies \/ OuterTimeout \/ ChildDies
  BY <1>1 DEF OperatorStep, StartDies, OuterTimeout, ChildDies, childVars
<1>2. CASE SupervisorStep
  BY <1>2 DEF SupervisorStep, LookAgain, Commit, SupervisorBegins, Progress, HeartbeatInterrupts,
              TimeoutFires, BudgetExceeded, InterruptKills, BudgetKills, ProviderExits, SpawnFails,
              ProviderCloses,
              childVars
<1>3. CASE FinalizationReads
  BY <1>3 DEF FinalizationReads, WorkInv
<1>4. CASE ChildStep /\ ~FinalizationReads
  BY <1>4 DEF ChildStep, ChildStarts, EngineStarts, EngineRejects, AttemptRejected, AdapterReturns,
              CandidateBlocked, RouteBlocked, NoSupervisor,
              MarkInterrupted, MarkRecommendedAction, Fallback, EngineReads, EngineRecords, HarnessDecides,
              FinalizationWrites, ChildPublishes
<1>5. CASE UNCHANGED vars
  BY <1>5 DEF vars, childVars
<1> QED  BY <1>1, <1>2, <1>3, <1>4, <1>5 DEF Next

\* A cancel is remembered only after one was accepted.
LEMMA CancelOrigin ==
  ASSUME ExecutionTypeOK, WorkInv, [Next]_vars, ~Remembered, ~Accepting, Remembered' \/ Accepting'
  PROVE  state'.status = "canceled"
<1> USE DEF Remembered, Canceled
<1>1. CASE \E c \in Commands : OperatorStep(c)
  <2> PICK c \in Commands : OperatorStep(c)
    BY <1>1
  <2>1. UNCHANGED <<outcome, base, flags, late, write>>
    BY DEF OperatorStep, childVars, supVars
  <2>2. CASE Begin(c)
    BY <2>1, <2>2 DEF Begin, Accepting, Cancels, Applies
  <2>3. CASE WriteState(c)
    <3>1. CASE Applies(c) /\ Action[c] = "cancel"
      BY <2>3, <3>1 DEF WriteState, Put, Accepted, NextStatus
    <3>2. CASE Applies(c) /\ Action[c] # "cancel"
      <4>1. state' = Accepted(c) /\ snap' = snap /\ holder' = c /\ records' = records
        BY <2>3, <3>2 DEF WriteState, Put
      <4>2. state'.status # "canceled" /\ state'.provider = snap.provider
        BY <3>2, <4>1, CommandsAreGiven DEF Accepted, NextStatus, Actions, Applies, Allowed
      <4> QED  BY <2>1, <3>2, <4>1, <4>2 DEF Accepting, Cancels
    <3>3. CASE ~Applies(c)
      <4>1. snap' = snap /\ holder' = c /\ records' = records
        BY <2>3 DEF WriteState
      <4>2. state' = state \/ state' = [snap EXCEPT !.seq = snap.seq + 1]
        BY <2>3, <3>3 DEF WriteState, Put
      <4>3. ~Canceled(state')
        BY <4>2 DEF ExecutionTypeOK, TypeOK, States
      <4>4. Applies(c)' = Applies(c)
        BY <4>1 DEF Applies
      <4> QED  BY <2>1, <3>3, <4>1, <4>3, <4>4 DEF Accepting, Cancels
    <3> QED  BY <3>1, <3>2, <3>3
  <2>4. CASE WriteRecord(c)
    <3>1. ~(Applies(c) /\ Action[c] = "cancel")
      BY <2>4 DEF WriteRecord, Accepting
    <3>2. \A d \in Commands : records'[d].applied => records[d].applied \/ (d = c /\ Applies(c))
      BY <2>4 DEF WriteRecord, ExecutionTypeOK, TypeOK
    <3> QED  BY <2>1, <2>4, <3>1, <3>2 DEF WriteRecord, historyVars, Accepting, Cancels
  <2>5. CASE Publish(c) \/ Die(c)
    BY <2>1, <2>5 DEF Publish, Die, Return, fileVars, Accepting, Cancels, NoState
  <2> QED  BY <2>2, <2>3, <2>4, <2>5 DEF OperatorStep, CommandStep
<1>2. CASE StartDies
  BY <1>2 DEF StartDies, Die, fileVars, supVars, Accepting, Cancels, NoState
<1>3. ASSUME SupervisorStep \/ ChildStep \/ OuterTimeout \/ ChildDies \/ UNCHANGED vars
      PROVE  ~Accepting'
  <2>1. UNCHANGED <<records, holder, step, snap>>
    <3>1. CASE SupervisorStep
      BY <3>1 DEF SupervisorStep, LookAgain, Commit, SupervisorBegins, Progress, HeartbeatInterrupts,
                  TimeoutFires, BudgetExceeded, InterruptKills, BudgetKills, ProviderExits, SpawnFails,
                  ProviderCloses, controlVars, commandVars, fileVars
    <3>2. CASE ChildStep
      BY <3>2 DEF ChildStep, ChildStarts, EngineStarts, EngineRejects, AttemptRejected, AdapterReturns,
                  CandidateBlocked, RouteBlocked, NoSupervisor,
                  MarkInterrupted, MarkRecommendedAction, Fallback, EngineReads, EngineRecords, HarnessDecides,
                  FinalizationReads, FinalizationWrites, ChildPublishes,
                  controlVars, commandVars, fileVars
    <3>3. CASE OuterTimeout \/ ChildDies \/ UNCHANGED vars
      BY <3>3 DEF OuterTimeout, ChildDies, vars, controlVars, commandVars, fileVars
    <3> QED  BY <1>3, <3>1, <3>2, <3>3 DEF Next
  <2> QED  BY <2>1 DEF Accepting, Cancels, Applies
<1>4. CASE LookAgain
  <2>1. write \in Writes /\ write' = [write EXCEPT !.stage = "commit", !.doc = Merged(state), !.seen = state]
    BY <1>4, WriteStages DEF LookAgain
  <2>2. write'.doc = Merged(state) /\ write'.status = write.status
    BY <2>1 DEF Writes
  <2>3. state \in States /\ write.doc \in States /\ write # NoWrite
    BY <1>4, <2>1 DEF ExecutionTypeOK, TypeOK, Writes, LookAgain, NoWrite
  <2>4. ~Canceled(Merged(state))
    BY <2>3 DEF Merged, States
  <2> QED  BY <1>3, <1>4, <2>2, <2>3, <2>4
           DEF SupervisorStep, LookAgain, controlVars, commandVars, fileVars, childVars
<1>5. CASE Commit
  <2>1. write # NoWrite
    BY <1>5 DEF Commit, NoWrite
  <2>2. ~Canceled(write.doc) /\ state' = write.doc /\ write' = NoWrite /\ late' = late
    BY <1>5, <2>1 DEF Commit, Put
  <2> QED  BY <1>3, <1>5, <2>2  DEF SupervisorStep, Commit, commandVars, childVars
<1>6. CASE SupervisorStep /\ ~LookAgain /\ ~Commit
  <2>1. UNCHANGED <<controlVars, childVars, late>>
    BY <1>6 DEF SupervisorStep, SupervisorBegins, Progress, HeartbeatInterrupts, TimeoutFires,
                BudgetExceeded, InterruptKills, BudgetKills, ProviderExits, SpawnFails, ProviderCloses
  <2>2. flags' = flags \/ flags' = {"timedOut"} \/ flags' = {"exceeded"}
    BY <1>6 DEF SupervisorStep, SupervisorBegins, Progress, HeartbeatInterrupts, TimeoutFires,
                BudgetExceeded, InterruptKills, BudgetKills, ProviderExits, SpawnFails, ProviderCloses
  <2>3. \/ write' = write
        \/ \E s \in {"running", "completed", "failed"}, e \in Effects : BeginWrite(s, e)
    BY <1>6, <2>2 DEF SupervisorStep, SupervisorBegins, Progress, HeartbeatInterrupts, TimeoutFires,
                BudgetExceeded, InterruptKills, BudgetKills, ProviderExits, SpawnFails, ProviderCloses, Effects
  <2>4. "interrupted" \notin flags'
    BY <2>2
  <2>5. write' # NoWrite => write'.status # "interrupted" /\ ~Canceled(write'.doc)
    BY <2>3 DEF BeginWrite
  <2> QED  BY <1>3, <1>6, <2>1, <2>4, <2>5 DEF controlVars, commandVars, fileVars, childVars
<1>7. CASE OuterTimeout
  BY <1>3, <1>7 DEF OuterTimeout, controlVars, commandVars, fileVars, childVars
<1>8. CASE ChildDies
  BY <1>3, <1>8 DEF ChildDies, commandVars, fileVars, supVars, NoState
<1>9. CASE UNCHANGED vars
  BY <1>3, <1>9 DEF vars, controlVars, commandVars, fileVars, childVars, supVars
<1>10. CASE EngineStarts
  <2>1. ~Canceled(state')
    BY <1>10 DEF EngineStarts, ExecutionTypeOK, TypeOK, States
  <2> QED  BY <1>3, <1>10, <2>1 DEF ChildStep, EngineStarts, NewSupervisor, commandVars
<1>11. CASE AdapterReturns
  <2>1. outcome' # "interrupted"
    BY <1>11 DEF AdapterReturns, Results
  <2> QED  BY <1>3, <1>11, <2>1 DEF ChildStep, AdapterReturns, controlVars, commandVars, fileVars
<1>12. CASE MarkInterrupted
  <2>1. outcome = "interrupted"
    BY <1>12 DEF MarkInterrupted, WorkInv
  <2> QED  BY <2>1
<1>13. CASE EngineRecords
  <2>1. ~Canceled(state')
    BY <1>13 DEF EngineRecords, ExecutionTypeOK, TypeOK, States
  <2> QED  BY <1>3, <1>13, <2>1 DEF ChildStep, EngineRecords, commandVars, supVars, NoState
<1>14. CASE FinalizationWrites
  <2>1. ~Canceled(state')
    BY <1>14 DEF FinalizationWrites, Put, FinalStatus
  <2> QED  BY <1>3, <1>14, <2>1 DEF ChildStep, FinalizationWrites, commandVars, supVars
<1>15. CASE MarkRecommendedAction
  <2>1. ~Canceled(state')
    BY <1>15 DEF MarkRecommendedAction, Put, ExecutionTypeOK, TypeOK, States
  <2> QED  BY <1>3, <1>15, <2>1 DEF ChildStep, MarkRecommendedAction, commandVars, supVars, NoState
<1>16. CASE CandidateBlocked \/ RouteBlocked
  BY <1>3, <1>16
  DEF ChildStep, CandidateBlocked, RouteBlocked, NoSupervisor, controlVars, commandVars, fileVars
<1>17. CASE \/ ChildStarts \/ EngineRejects \/ AttemptRejected \/ Fallback \/ EngineReads
            \/ HarnessDecides \/ FinalizationReads \/ ChildPublishes
  BY <1>3, <1>17 DEF ChildStep, ChildStarts, EngineRejects, AttemptRejected, Fallback, NewSupervisor, EngineReads,
     HarnessDecides, FinalizationReads, ChildPublishes, controlVars, commandVars, fileVars, supVars, NoState
<1> QED  BY <1>1, <1>2, <1>4, <1>5, <1>6, <1>7, <1>8, <1>9, <1>10, <1>11, <1>12, <1>13, <1>14,
            <1>15, <1>16, <1>17
         DEF Next, ChildStep

\* No step makes a process remember a cancel that the file has lost.
LEMMA CancelStays ==
  ASSUME ExecutionTypeOK, WorkInv, CancelInv, [Next]_vars
  PROVE  CancelInv'
<1> SUFFICES ASSUME ~overtaken', ~threw', Remembered' \/ Accepting'
             PROVE  state'.status = "canceled"
  BY DEF CancelInv
<1>1. ~overtaken
  BY OvertakenStays
<1>2. ~threw
  BY ThrewStays
<1>3. CASE Remembered \/ Accepting
  <2>1. state.status = "canceled"
    BY <1>1, <1>2, <1>3 DEF CancelInv
  <2> QED  BY <1>2, <2>1, StatusStays, FinalizationConfirms DEF Terminal
<1>4. CASE ~Remembered /\ ~Accepting
  BY <1>4, CancelOrigin
<1> QED  BY <1>3, <1>4

\* At first there is no cancel to remember.
LEMMA CancelInitially ==
  ExecutionInit => CancelInv
BY DEF ExecutionInit, Init, CancelInv, Remembered, Canceled, NoState, NoWrite, Accepting, Cancels, NoRecord

\* An accepted cancel is final, whatever heartbeats, engine writes and finalization
\* are under way, for any number of commands, attempts and fallbacks.
THEOREM CancelIsFinal == Spec => []CancelSticks
<1>1. ExecutionInit => ExecutionTypeOK /\ WorkInv /\ CancelInv
  BY InitialTypes, WorkInitially, CancelInitially
<1>2. ExecutionTypeOK /\ WorkInv /\ CancelInv /\ [Next]_vars => (ExecutionTypeOK /\ WorkInv /\ CancelInv)'
  BY TypesStay, WorkStays, CancelStays
<1>3. CancelInv => CancelSticks
  BY DEF CancelInv, Accepting, CancelSticks
<1> QED  BY <1>1, <1>2, <1>3, PTL DEF Spec

-----------------------------------------------------------------------------
(* The terminal events.                                                    *)

\* A step publishes nothing, a cancel, or the status the child has finalized.
LEMMA PublishedVerdicts ==
  ASSUME ExecutionTypeOK, [Next]_vars
  PROVE  \/ verdicts' = verdicts
         \/ verdicts' = Append(verdicts, "canceled") /\ Cancels # {} /\ UNCHANGED <<state, child, base, verdict, threw>>
         \/ verdicts' = Append(verdicts, FinalStatus) /\ ChildPublishes
<1>1. CASE \E c \in Commands : OperatorStep(c)
  BY <1>1 DEF OperatorStep, Begin, CommandStep, WriteState, WriteRecord, Publish, Die, Cancels,
              fileVars, harnessVars, childVars
<1>2. CASE StartDies \/ ChildDies \/ OuterTimeout
  BY <1>2 DEF StartDies, Die, ChildDies, OuterTimeout, controlVars, fileVars
<1>3. CASE SupervisorStep
  BY <1>3 DEF SupervisorStep, LookAgain, Commit, SupervisorBegins, Progress, HeartbeatInterrupts,
              TimeoutFires, BudgetExceeded, InterruptKills, BudgetKills, ProviderExits, SpawnFails,
              ProviderCloses,
              controlVars, fileVars
<1>4. CASE ChildStep
  BY <1>4 DEF ChildStep, ChildStarts, EngineStarts, EngineRejects, AttemptRejected, AdapterReturns,
              CandidateBlocked, RouteBlocked, NoSupervisor,
              MarkInterrupted, MarkRecommendedAction, Fallback, EngineReads, EngineRecords, HarnessDecides,
              FinalizationReads, FinalizationWrites, ChildPublishes, controlVars, fileVars
<1>5. CASE UNCHANGED vars
  BY <1>5 DEF vars, controlVars, fileVars
<1> QED  BY <1>1, <1>2, <1>3, <1>4, <1>5 DEF Next

\* Where the child comes from.
LEMMA ChildMoves ==
  ASSUME [Next]_vars
  PROVE  /\ child = "done" => child' = "done"
         /\ child' = "publish" /\ child # "publish" => FinalizationWrites
         /\ child' = "publish" /\ child = "publish" =>
              UNCHANGED <<base, verdict, threw>> /\ ~FinalizationWrites
<1>1. CASE (\E c \in Commands : OperatorStep(c)) \/ StartDies \/ OuterTimeout \/ ChildDies
  BY <1>1 DEF OperatorStep, StartDies, OuterTimeout, ChildDies, childVars, harnessVars,
              FinalizationWrites
<1>2. CASE SupervisorStep
  BY <1>2 DEF SupervisorStep, LookAgain, Commit, SupervisorBegins, Progress, HeartbeatInterrupts,
              TimeoutFires, BudgetExceeded, InterruptKills, BudgetKills, ProviderExits, SpawnFails,
              ProviderCloses,
              childVars, harnessVars, FinalizationWrites
<1>3. CASE ChildStep
  BY <1>3 DEF ChildStep, ChildStarts, EngineStarts, EngineRejects, AttemptRejected, AdapterReturns,
              CandidateBlocked, RouteBlocked, NoSupervisor,
              MarkInterrupted, MarkRecommendedAction, Fallback, EngineReads, EngineRecords, HarnessDecides,
              FinalizationReads, FinalizationWrites, ChildPublishes
<1>4. CASE UNCHANGED vars
  BY <1>4 DEF vars, childVars, harnessVars, FinalizationWrites
<1> QED  BY <1>1, <1>2, <1>3, <1>4 DEF Next

\* Every verdict a step publishes agrees with the state file.
LEMMA VerdictsStay ==
  ASSUME ExecutionTypeOK, WorkInv, CancelInv, VerdictInv, CancelInv', [Next]_vars
  PROVE  VerdictInv'
<1> SUFFICES ASSUME ~overtaken', ~threw'
             PROVE  /\ \A i \in DOMAIN verdicts' :
                         /\ verdicts'[i] = state'.status
                         /\ verdicts'[i] # "canceled" => child' = "done"
                    /\ child' = "publish" => state'.status = FinalStatus'
  BY DEF VerdictInv
<1>1. ~overtaken /\ ~threw
  BY OvertakenStays, ThrewStays
<1>2. verdicts \in Seq(Terminal) /\ verdict \in {"none", "passed", "failed"}
  BY DEF ExecutionTypeOK, TypeOK, HarnessTypeOK
<1>3. FinalStatus \in Terminal
  BY FinalStatusType
<1>4. child' = "publish" => state'.status = FinalStatus'
  <2>1. CASE FinalizationWrites
    BY <2>1 DEF FinalizationWrites, Put, FinalStatus, harnessVars, Canceled
  <2>2. CASE child = "publish" /\ child' = "publish"
    <3>1. FinalStatus' = FinalStatus
      BY <2>2, ChildMoves DEF FinalStatus, Canceled
    <3>2. state.status = FinalStatus
      BY <1>1, <2>2 DEF VerdictInv
    <3>3. write = NoWrite
      BY <2>2 DEF WorkInv
    <3> QED  BY <1>3, <2>2, <3>1, <3>2, <3>3, ChildMoves, StatusStays
  <2> QED  BY <2>1, <2>2, ChildMoves
<1>5. \A i \in DOMAIN verdicts : verdicts[i] = state'.status /\ (verdicts[i] # "canceled" => child' = "done")
  <2> SUFFICES ASSUME NEW i \in DOMAIN verdicts
               PROVE  verdicts[i] = state'.status /\ (verdicts[i] # "canceled" => child' = "done")
    OBVIOUS
  <2>1. verdicts[i] = state.status /\ (verdicts[i] # "canceled" => child = "done")
    BY <1>1 DEF VerdictInv
  <2>2. state.status \in Terminal
    BY <1>2, <2>1
  <2>3. CASE state.status = "canceled"
    BY <1>1, <2>1, <2>2, <2>3, StatusStays, FinalizationConfirms
  <2>4. CASE state.status # "canceled"
    <3>1. child = "done" /\ write = NoWrite /\ ~FinalizationWrites
      BY <2>1, <2>4 DEF WorkInv, FinalizationWrites
    <3> QED  BY <2>1, <2>2, <3>1, StatusStays, ChildMoves
  <2> QED  BY <2>3, <2>4
<1>6. CASE verdicts' = verdicts
  BY <1>4, <1>5, <1>6
<1>7. CASE verdicts' = Append(verdicts, "canceled") /\ Cancels # {} /\ UNCHANGED <<state, child, base, verdict, threw>>
  <2>1. state'.status = "canceled"
    BY <1>1, <1>7 DEF CancelInv, Accepting
  <2> QED  BY <1>2, <1>4, <1>5, <1>7, <2>1
<1>8. CASE verdicts' = Append(verdicts, FinalStatus) /\ ChildPublishes
  <2>1. child' = "done" /\ state' = state /\ state.status = FinalStatus
    BY <1>1, <1>8 DEF ChildPublishes, VerdictInv
  <2> QED  BY <1>2, <1>3, <1>4, <1>5, <1>8, <2>1
<1> QED  BY <1>6, <1>7, <1>8, PublishedVerdicts

\* The terminal events of a run and its state file agree.
THEOREM VerdictsAlwaysAgree == Spec => []VerdictsAgree
<1> DEFINE Inv == ExecutionTypeOK /\ WorkInv /\ CancelInv /\ VerdictInv
<1>1. ExecutionInit => Inv
  BY InitialTypes, WorkInitially, CancelInitially DEF ExecutionInit, Init, VerdictInv
<1>2. Inv /\ [Next]_vars => Inv'
  BY TypesStay, WorkStays, CancelStays, VerdictsStay
<1>3. Inv => VerdictsAgree
  BY DEF VerdictInv, VerdictsAgree
<1> QED  BY <1>1, <1>2, <1>3, PTL DEF Spec

-----------------------------------------------------------------------------
(* The audit files.                                                        *)

\* Unless a writer turns it back, the revision only grows.
LEMMA PutGrows ==
  ASSUME TypeOK, NEW document \in States, NEW seen, Put(document, seen), ~rolledBack'
  PROVE  ~rolledBack /\ state' = document /\ state.seq <= state'.seq
<1>1. ~rolledBack /\ ~(document.seq < state.seq) /\ state' = document
  BY Zenon DEF Put
<1> QED  BY <1>1 DEF TypeOK, States

\* A step that turns no revision back takes it on or leaves it.
LEMMA RevisionGrows ==
  ASSUME ExecutionTypeOK, [Next]_vars, ~rolledBack'
  PROVE  ~rolledBack /\ state.seq <= state'.seq
<1> USE DEF ExecutionTypeOK
<1>1. CASE UNCHANGED rolledBack /\ state'.seq = state.seq
  BY <1>1 DEF TypeOK, States
<1>2. CASE ~StateWrites
  BY <1>1, <1>2, OnlyWritersWrite
<1>3. CASE \E c \in Commands : OperatorStep(c) /\ WriteState(c)
  <2> PICK c \in Commands : WriteState(c)
    BY <1>3
  <2>1. CASE Applies(c)
    BY <2>1, AcceptedType, PutGrows DEF WriteState
  <2>2. CASE ~Applies(c)
    BY <1>1, <2>2, AcceptedType, PutGrows DEF WriteState
  <2> QED  BY <2>1, <2>2
<1>4. CASE Commit
  <2>1. write.doc \in States
    BY <1>4, WriteStages DEF Commit, Writes
  <2> QED  BY <1>4, <2>1, PutGrows DEF Commit
<1>5. CASE MarkInterrupted
  <2>1. [base EXCEPT !.provider = "interrupted"] \in States
    BY DEF States, Provider
  <2> QED  BY <1>5, <2>1, PutGrows DEF MarkInterrupted
<1>6. CASE FinalizationWrites
  <2> DEFINE final == [status |-> FinalStatus, seq |-> records[StartCommand].seq,
                       provider |-> base.provider]
  <2>1. final \in States
    BY FinalStatusType, StartIsGiven DEF TypeOK, States, Status, Records
  <2> QED  BY <1>6, <2>1, PutGrows DEF FinalizationWrites
<1>7. CASE EngineStarts \/ EngineRecords
  BY <1>1, <1>7 DEF EngineStarts, EngineRecords, historyVars, TypeOK, States
<1>8. CASE MarkRecommendedAction
  <2> DEFINE advised == [base EXCEPT !.provider = IF base.provider = "none" THEN "failed" ELSE base.provider]
  <2>1. advised \in States
    BY DEF States, Provider
  <2> QED  BY <1>8, <2>1, PutGrows DEF MarkRecommendedAction
<1> QED  BY <1>2, <1>3, <1>4, <1>5, <1>6, <1>7, <1>8 DEF StateWrites

\* Only the commands touch the audit and command files.
LEMMA CommandFiles ==
  ASSUME [Next]_vars, ~\E c \in Commands : OperatorStep(c)
  PROVE  UNCHANGED <<audit, records>> /\ (UNCHANGED <<holder, step, snap>> \/ step' = "none")
<1>1. CASE SupervisorStep
  BY <1>1 DEF SupervisorStep, LookAgain, Commit, SupervisorBegins, Progress, HeartbeatInterrupts,
              TimeoutFires, BudgetExceeded, InterruptKills, BudgetKills, ProviderExits, SpawnFails,
              ProviderCloses, controlVars, commandVars, fileVars
<1>2. CASE ChildStep
  BY <1>2 DEF ChildStep, ChildStarts, EngineStarts, EngineRejects, AttemptRejected, AdapterReturns,
              CandidateBlocked, RouteBlocked, NoSupervisor,
              MarkInterrupted, MarkRecommendedAction, Fallback, EngineReads, EngineRecords, HarnessDecides,
              FinalizationReads, FinalizationWrites, ChildPublishes,
              controlVars, commandVars, fileVars
<1>3. CASE StartDies \/ OuterTimeout \/ ChildDies \/ UNCHANGED vars
  BY <1>3 DEF StartDies, Die, OuterTimeout, ChildDies, vars, controlVars, commandVars, fileVars
<1> QED  BY <1>1, <1>2, <1>3 DEF Next

\* Every step keeps the audit files of earlier revisions.
LEMMA AuditStays ==
  ASSUME ExecutionTypeOK, WorkInv, AuditInv, [Next]_vars
  PROVE  AuditInv'
<1> SUFFICES ASSUME ~rolledBack' PROVE AuditInv'
  BY DEF AuditInv
<1>1. ~rolledBack /\ state.seq <= state'.seq
  BY RevisionGrows
<1>2. /\ state.seq \in Nat /\ state'.seq \in Nat /\ snap.seq \in Nat
      /\ records \in [Commands -> Records]
      /\ audit \subseteq (Nat \X Commands)
  BY TypesStay DEF ExecutionTypeOK, TypeOK, States
<1>3. \A c \in Commands : records[c].seq \in Nat /\ records[c].applied \in BOOLEAN
  BY <1>2 DEF Records
<1>4. CASE ~\E c \in Commands : OperatorStep(c)
  <2>1. UNCHANGED <<audit, records>> /\ (UNCHANGED <<holder, step, snap>> \/ step' = "none")
    BY <1>4, CommandFiles
  <2>2. CASE UNCHANGED <<holder, step, snap>>
    BY <1>1, <1>2, <1>3, <2>1, <2>2 DEF AuditInv, Applies
  <2>3. CASE step' = "none"
    BY <1>1, <1>2, <1>3, <2>1, <2>3 DEF AuditInv
  <2> QED  BY <2>1, <2>2, <2>3
<1>5. ASSUME NEW c \in Commands, OperatorStep(c)
      PROVE  AuditInv'
  <2>1. CASE Begin(c)
    <3>1. CASE step' = "state"
      <4>1. /\ audit' = {f \in audit : f[1] # state.seq + 1} \cup {<<state.seq + 1, c>>}
            /\ snap' = state /\ holder' = c /\ UNCHANGED <<state, records>>
        <5>1. step # "state"
          BY <2>1, CommandsAreGiven DEF Begin, WorkInv
        <5> QED  BY <2>1, <3>1, <5>1 DEF Begin
      <4>2. <<snap'.seq + 1, holder'>> \in audit'
        BY <4>1
      <4>3. ASSUME NEW d \in Commands, records[d].applied \/ records[d].seq > 1
            PROVE  records[d].seq <= state.seq /\ <<records[d].seq, d>> \in audit'
        <5>1. records[d].seq <= state.seq /\ <<records[d].seq, d>> \in audit
          BY <1>1, <4>3 DEF AuditInv
        <5>2. <<records[d].seq, d>>[1] # state.seq + 1
          BY <1>2, <1>3, <5>1
        <5> QED  BY <4>1, <5>1, <5>2
      <4> QED  BY <3>1, <4>1, <4>2, <4>3 DEF AuditInv
    <3>2. CASE step' # "state"
      <4>1. UNCHANGED <<audit, state, records>> /\ step' \notin {"state", "record"}
        BY <2>1, <3>2, CommandsAreGiven DEF Begin, WorkInv
      <4> QED  BY <1>1, <4>1 DEF AuditInv
    <3> QED  BY <3>1, <3>2
  <2>2. CASE WriteState(c)
    <3>1. UNCHANGED <<audit, records, holder, snap>> /\ holder = c /\ step = "state" /\ step' = "record"
      BY <2>2 DEF WriteState
    <3>2. Applies(c) \/ snap.seq > 0 => state'.seq = snap.seq + 1
      <4>1. CASE Applies(c)
        BY <2>2, <4>1 DEF WriteState, Put, Accepted
      <4>2. CASE ~Applies(c) /\ snap.seq > 0
        <5>1. snap # NoState
          BY <4>2 DEF NoState
        <5>2. state' = [snap EXCEPT !.seq = snap.seq + 1]
          BY <2>2, <4>2, <5>1 DEF WriteState, Put
        <5> QED  BY <5>2 DEF ExecutionTypeOK, TypeOK, States
      <4> QED  BY <4>1, <4>2
    <3>3. Applies(holder)' = Applies(c)
      BY <3>1 DEF Applies
    <3> QED  BY <1>1, <1>2, <1>3, <3>1, <3>2, <3>3 DEF AuditInv
  <2>3. CASE WriteRecord(c)
    <3>1. UNCHANGED <<audit, state>> /\ holder = c /\ step = "record" /\ step' = "publish"
      BY <2>3 DEF WriteRecord
    <3>2. ASSUME NEW d \in Commands, records'[d].applied \/ records'[d].seq > 1
          PROVE  records'[d].seq <= state.seq /\ <<records'[d].seq, d>> \in audit
      <4>1. CASE d = c
        <5>1. records'[c].seq = snap.seq + 1 /\ records'[c].applied = Applies(c)
          BY <1>2, <2>3 DEF WriteRecord
        <5>2. Applies(c) \/ snap.seq > 0
          BY <1>2, <3>2, <4>1, <5>1
        <5> QED  BY <1>1, <3>1, <4>1, <5>1, <5>2 DEF AuditInv
      <4>2. CASE d # c
        <5>1. records'[d] = records[d]
          BY <1>2, <2>3, <4>2 DEF WriteRecord
        <5> QED  BY <1>1, <3>2, <5>1 DEF AuditInv
      <4> QED  BY <4>1, <4>2
    <3> QED  BY <3>1, <3>2 DEF AuditInv
  <2>4. CASE Publish(c) \/ Die(c)
    BY <1>1, <2>4 DEF Publish, Return, Die, fileVars, AuditInv
  <2> QED  BY <1>5, <2>1, <2>2, <2>3, <2>4 DEF OperatorStep, CommandStep
<1> QED  BY <1>4, <1>5

\* As long as no writer turns the revision back, every recorded command of a started
\* run keeps its own audit file, however many commands there are and die.
THEOREM AuditsAlwaysKept == Spec => []AuditsAreKept
<1> DEFINE Inv == ExecutionTypeOK /\ WorkInv /\ AuditInv
<1>1. ExecutionInit => Inv
  BY InitialTypes, WorkInitially DEF ExecutionInit, Init, AuditInv, NoRecord
<1>2. Inv /\ [Next]_vars => Inv'
  BY TypesStay, WorkStays, AuditStays
<1>3. Inv => AuditsAreKept
  BY DEF AuditInv, AuditsAreKept
<1> QED  BY <1>1, <1>2, <1>3, PTL DEF Spec

-----------------------------------------------------------------------------
(* One late provider.                                                      *)

\* After a late provider nothing is spawned.
LEMMA LastStays ==
  ASSUME ExecutionTypeOK, WorkInv, CancelInv, Last, late > 0, ~overtaken, [Next]_vars,
         "interrupted" \notin Denials \cup FallbackOn
  PROVE  Last' /\ late' = late
<1> USE DEF Last
<1>1. CASE (\E c \in Commands : OperatorStep(c)) \/ StartDies \/ OuterTimeout \/ ChildDies \/ UNCHANGED vars
  BY <1>1 DEF OperatorStep, StartDies, OuterTimeout, ChildDies, vars, harnessVars, childVars, supVars
<1>2. CASE SupervisorStep
  <2>1. UNCHANGED <<childVars, harnessVars>>
    BY <1>2 DEF SupervisorStep, LookAgain, Commit, SupervisorBegins, Progress, HeartbeatInterrupts,
                TimeoutFires, BudgetExceeded, InterruptKills, BudgetKills, ProviderExits, SpawnFails,
                ProviderCloses
  <2>2. CASE Commit
    <3>1. write # NoWrite /\ write.effect # "spawn"
      BY <2>2 DEF Commit, WorkInv, NoWrite
    <3>2. sup' \in {sup, "ended"} /\ late' = late
      BY <2>2, <3>1 DEF Commit
    <3> QED  BY <2>1, <3>2 DEF childVars, harnessVars
  <2>3. CASE ~Commit
    <3>1. sup' \in {sup, "closing"} /\ late' = late
      BY <1>2, <2>3 DEF SupervisorStep, LookAgain, SupervisorBegins, Progress, HeartbeatInterrupts,
                  TimeoutFires, BudgetExceeded, InterruptKills, BudgetKills, ProviderExits, SpawnFails,
                  ProviderCloses
    <3> QED  BY <2>1, <3>1 DEF childVars, harnessVars
  <2> QED  BY <2>2, <2>3
<1>3. CASE AdapterReturns
  <2>1. Canceled(state)
    BY <1>3 DEF AdapterReturns, WorkInv, CancelInv, Remembered, Canceled
  <2>2. outcome' = "interrupted"
    BY <1>3, <2>1 DEF AdapterReturns, Results
  <2> QED  BY <1>3, <2>2 DEF AdapterReturns
<1>4. CASE HarnessDecides
  <2>1. turn = "decide" /\ outcome = "interrupted"
    BY <1>4 DEF HarnessDecides, Decide
  <2>2. Decisions = {"stop"}
    BY <2>1 DEF Decisions
  <2>3. turn' = "over"
    BY <1>4, <2>2 DEF HarnessDecides, Decide, HarnessReturns, Repeats
  <2> QED  BY <1>4, <2>3 DEF HarnessDecides, supVars
<1>5. CASE Fallback
  <2>1. FALSE
    BY <1>5 DEF Fallback
  <2> QED  BY <2>1
<1>6. CASE EngineStarts \/ EngineRejects \/ CandidateBlocked \/ RouteBlocked
  <2>1. FALSE
    BY <1>6 DEF EngineStarts, EngineRejects, Attempt, CandidateBlocked, RouteBlocked, NoSupervisor
  <2> QED  BY <2>1
<1>7. CASE EngineRecords
  BY <1>7 DEF EngineRecords, AttemptEnds, supVars
<1>8. CASE \/ ChildStarts \/ AttemptRejected \/ MarkInterrupted \/ MarkRecommendedAction
           \/ EngineReads \/ FinalizationReads \/ FinalizationWrites \/ ChildPublishes
  BY <1>8 DEF ChildStarts, AttemptRejected, MarkInterrupted, MarkRecommendedAction, EngineReads,
              FinalizationReads, FinalizationWrites, ChildPublishes, supVars
<1> QED  BY <1>1, <1>2, <1>3, <1>4, <1>5, <1>6, <1>7, <1>8 DEF Next, ChildStep

\* The commit that spawns a late provider.
LEMMA LateBegins ==
  ASSUME ExecutionTypeOK, WorkInv, [Next]_vars
  PROVE  late' = late \/ (Commit /\ write.effect = "spawn" /\ late' = late + 1)
<1>1. CASE (\E c \in Commands : OperatorStep(c)) \/ StartDies \/ OuterTimeout \/ ChildDies \/ UNCHANGED vars
  BY <1>1 DEF OperatorStep, StartDies, OuterTimeout, ChildDies, vars, supVars
<1>2. CASE SupervisorStep
  BY <1>2 DEF SupervisorStep, LookAgain, Commit, SupervisorBegins, Progress, HeartbeatInterrupts,
              TimeoutFires, BudgetExceeded, InterruptKills, BudgetKills, ProviderExits, SpawnFails,
              ProviderCloses
<1>3. CASE ChildStep
  BY <1>3 DEF ChildStep, ChildStarts, EngineStarts, EngineRejects, AttemptRejected, AdapterReturns,
              CandidateBlocked, RouteBlocked, NoSupervisor,
              MarkInterrupted, MarkRecommendedAction, Fallback, NewSupervisor, EngineReads, EngineRecords,
              HarnessDecides, FinalizationReads, FinalizationWrites, ChildPublishes, supVars
<1> QED  BY <1>1, <1>2, <1>3 DEF Next

\* No step leads from a late provider to another spawn.
LEMMA LateStays ==
  ASSUME ExecutionTypeOK, WorkInv, CancelInv, LateInv, [Next]_vars
  PROVE  LateInv'
<1> SUFFICES ASSUME "interrupted" \notin Denials \cup FallbackOn, ~overtaken'
             PROVE  late' <= 1 /\ (late' > 0 => Last')
  BY DEF LateInv
<1>1. ~overtaken
  BY OvertakenStays
<1>2. late \in Nat
  BY DEF ExecutionTypeOK
<1>3. CASE late > 0
  BY <1>1, <1>3, LastStays DEF LateInv
<1>4. CASE late = 0 /\ late' = 0
  BY <1>4
<1>5. CASE late = 0 /\ Commit /\ write.effect = "spawn" /\ late' = late + 1
  <2>1. write # NoWrite /\ sup' = "watching" /\ UNCHANGED childVars
    BY <1>5 DEF Commit, NoWrite
  <2>2. child \in {"supervise", "dead"}
    BY <2>1 DEF WorkInv
  <2> QED  BY <1>5, <2>1, <2>2 DEF Last, childVars
<1> QED  BY <1>2, <1>3, <1>4, <1>5, LateBegins

\* After a cancel one more provider is spawned at most, whatever the budgets of the
\* harness and the fallbacks of the route, unless the policy falls back on an
\* interruption, or repairs an interrupted step.
THEOREM OneLateProviderAtMost == Spec => []OneLateProvider
<1> DEFINE Inv == ExecutionTypeOK /\ WorkInv /\ CancelInv /\ LateInv
<1>1. ExecutionInit => Inv
  BY InitialTypes, WorkInitially, CancelInitially DEF ExecutionInit, LateInv
<1>2. Inv /\ [Next]_vars => Inv'
  BY TypesStay, WorkStays, CancelStays, LateStays
<1>3. Inv => OneLateProvider
  BY DEF LateInv, OneLateProvider
<1> QED  BY <1>1, <1>2, <1>3, PTL DEF Spec

-----------------------------------------------------------------------------
(* What readers of the state file may rely on.                              *)

\* No state that is read, or about to be written back, looks like a run that has
\* not been started.
BegunInv ==
  /\ state.status = "none" => state = NoState
  /\ snap.status = "none" => snap = NoState
  /\ write # NoWrite => write.doc.status # "none"
  /\ child \in {"mark", "advise"} => base.status # "none"
  /\ \/ snap # NoState \/ sup # "none" \/ write # NoWrite
     \/ child \notin {"boot", "done", "dead"}
     \/ \E c \in Commands : records[c].applied
     \/ step = "record" /\ Applies(holder)
     => state.status # "none"

\* The child has finalized the run, or has never begun, and its supervisors are gone.
Over == child \in {"publish", "done", "dead"} /\ sup = "none" /\ write = NoWrite

Ends == {"completed", "failed"}

\* What the finalization has written is found afterwards only, and by a command
\* that nobody else disturbs.
EndInv ==
  /\ state.status \in Ends \/ snap.status \in Ends => Over
  /\ write # NoWrite => write.doc.status \notin Ends
  /\ child \in {"mark", "advise"} => base.status \notin Ends
  /\ step = "state" /\ snap.status \in Ends => state = snap

\* The second look keeps a cancel and else the status that was read first.
LEMMA LookedAgain ==
  ASSUME ExecutionTypeOK, LookAgain
  PROVE  /\ write # NoWrite /\ write' # NoWrite
         /\ write'.seen = state /\ write'.stage = "commit"
         /\ write'.doc.status = IF state.status = "canceled" THEN "canceled" ELSE write.doc.status
<1>1. write \in Writes /\ write' = [write EXCEPT !.stage = "commit", !.doc = Merged(state), !.seen = state]
  BY WriteStages DEF LookAgain
<1>2. write'.doc = Merged(state) /\ write'.seen = state /\ write'.stage = "commit"
  BY <1>1 DEF Writes
<1>3. state \in States /\ write.doc \in States
  BY <1>1 DEF ExecutionTypeOK, TypeOK, Writes
<1>4. Merged(state).status = IF state.status = "canceled" THEN "canceled" ELSE write.doc.status
  BY <1>3 DEF Merged, States
<1> QED  BY <1>1, <1>2, <1>4 DEF Writes, NoWrite, LookAgain

\* A started run goes on looking started, whoever replaces the state.
LEMMA StartedStays ==
  ASSUME ExecutionTypeOK, WorkInv, BegunInv, [Next]_vars
  PROVE  state' = state \/ state'.status # "none"
<1> USE DEF ExecutionTypeOK, TypeOK
<1>1. CASE ~StateWrites
  BY <1>1, OnlyWritersWrite
<1>2. CASE \E c \in Commands : OperatorStep(c) /\ WriteState(c)
  <2> PICK c \in Commands : WriteState(c)
    BY <1>2
  <2>1. CASE Applies(c)
    <3>1. state'.status = NextStatus(Action[c], snap.status)
      BY <2>1 DEF WriteState, Put, Accepted
    <3>2. NextStatus(Action[c], snap.status) # "none"
      BY <2>1, CommandsAreGiven DEF NextStatus, Applies, Allowed, Actions
    <3> QED  BY <3>1, <3>2
  <2>2. CASE ~Applies(c) /\ snap # NoState
    BY <2>2 DEF WriteState, Put, BegunInv, States
  <2>3. CASE ~Applies(c) /\ snap = NoState
    BY <2>3 DEF WriteState
  <2> QED  BY <2>1, <2>2, <2>3
<1>3. CASE Commit
  BY <1>3 DEF Commit, Put, BegunInv, NoWrite
<1>4. CASE EngineStarts
  BY <1>4 DEF EngineStarts, BegunInv, States
<1>5. CASE MarkInterrupted
  BY <1>5 DEF MarkInterrupted, Put, BegunInv, States
<1>6. CASE EngineRecords
  BY <1>6 DEF EngineRecords, BegunInv, States
<1>7. CASE FinalizationWrites
  BY <1>7, FinalStatusType DEF FinalizationWrites, Put, Terminal
<1>8. CASE MarkRecommendedAction
  BY <1>8 DEF MarkRecommendedAction, Put, BegunInv, States
<1> QED  BY <1>1, <1>2, <1>3, <1>4, <1>5, <1>6, <1>7, <1>8 DEF StateWrites

\* At first the run is not started.
LEMMA BegunInitially ==
  ExecutionInit => BegunInv /\ EndInv
BY DEF ExecutionInit, Init, BegunInv, EndInv, Ends, NoState, NoWrite, NoRecord

\* No step reads or writes back a state of a run that was never started.
LEMMA BegunStays ==
  ASSUME ExecutionTypeOK, WorkInv, BegunInv, [Next]_vars
  PROVE  BegunInv'
<1> DEFINE Traces == \/ snap # NoState \/ sup # "none" \/ write # NoWrite
                     \/ child \notin {"boot", "done", "dead"}
                     \/ \E c \in Commands : records[c].applied
                     \/ step = "record" /\ Applies(holder)
<1>1. state' = state \/ state'.status # "none"
  BY StartedStays
<1>2. SUFFICES /\ snap'.status = "none" => snap' = NoState
               /\ write' # NoWrite => write'.doc.status # "none"
               /\ child' \in {"mark", "advise"} => base'.status # "none"
               /\ Traces' => state'.status # "none" \/ Traces
  BY <1>1 DEF BegunInv
<1> USE DEF BegunInv
<1>3. CASE \E c \in Commands : OperatorStep(c)
  <2> PICK c \in Commands : OperatorStep(c)
    BY <1>3
  <2>1. UNCHANGED <<base, child, sup, write>>
    BY DEF OperatorStep, childVars, supVars
  <2>2. CASE Begin(c)
    <3>1. /\ records' = records
          /\ \/ snap' = snap
             \/ snap' = state
          /\ step' = "record" => UNCHANGED <<step, holder, snap>>
      BY <2>2 DEF Begin
    <3>2. step' = "record" /\ Applies(holder)' => step = "record" /\ Applies(holder)
      BY <3>1 DEF Applies
    <3>3. snap' = state => (snap'.status = "none" => snap' = NoState)
                           /\ (snap' # NoState => state'.status # "none")
      BY <1>1
    <3>4. snap' = snap => (snap'.status = "none" => snap' = NoState)
      OBVIOUS
    <3>5. Traces' => state'.status # "none" \/ Traces
      <4>1. (\E d \in Commands : records[d].applied)' => \E d \in Commands : records[d].applied
        BY <3>1
      <4> QED  BY <2>1, <3>1, <3>2, <3>3, <4>1
    <3> QED  BY <2>1, <3>1, <3>3, <3>4, <3>5
  <2>3. CASE WriteState(c)
    <3>1. UNCHANGED <<snap, records>> /\ holder' = c /\ holder = c
      BY <2>3 DEF WriteState
    <3>2. CASE Applies(c)
      <4>1. state' # state => state'.status # "none"
        BY <1>1
      <4>2. state'.status = NextStatus(Action[c], snap.status)
        BY <2>3, <3>2 DEF WriteState, Put, Accepted
      <4>3. state'.status # "none"
        BY <3>2, <4>2, CommandsAreGiven DEF NextStatus, Applies, Allowed, Actions
      <4> QED  BY <2>1, <3>1, <4>3
    <3>3. CASE ~Applies(c)
      <4>1. ~Applies(holder)'
        BY <3>1, <3>3 DEF Applies
      <4> QED  BY <2>1, <3>1, <4>1
    <3> QED  BY <3>2, <3>3
  <2>4. CASE WriteRecord(c)
    <3>1. \A d \in Commands : records'[d].applied => records[d].applied \/ (d = c /\ Applies(c))
      BY <2>4 DEF WriteRecord, ExecutionTypeOK, TypeOK
    <3>2. step = "record" /\ holder = c /\ step' = "publish" /\ UNCHANGED snap
      BY <2>4 DEF WriteRecord
    <3> QED  BY <2>1, <3>1, <3>2
  <2>5. CASE Publish(c) \/ Die(c)
    BY <2>1, <2>5 DEF Publish, Die, Return, fileVars
  <2> QED  BY <2>2, <2>3, <2>4, <2>5 DEF OperatorStep, CommandStep
<1>4. CASE StartDies
  BY <1>4 DEF StartDies, Die, fileVars, supVars
<1>5. ASSUME UNCHANGED <<records, holder, step, snap>>
      PROVE  UNCHANGED <<snap, \E c \in Commands : records[c].applied,
                         step = "record" /\ Applies(holder)>>
  BY <1>5 DEF Applies
<1>6. CASE LookAgain
  <2>1. write # NoWrite
    BY <1>6 DEF LookAgain, NoWrite
  <2> QED  BY <1>5, <1>6, <2>1, LookedAgain
           DEF LookAgain, controlVars, commandVars, fileVars, childVars
<1>7. CASE Commit
  <2>1. write # NoWrite
    BY <1>7 DEF Commit, NoWrite
  <2> QED  BY <1>5, <1>7, <2>1 DEF Commit, commandVars, childVars
<1>8. CASE SupervisorStep /\ ~LookAgain /\ ~Commit
  <2>1. UNCHANGED <<controlVars, childVars>>
    BY <1>8 DEF SupervisorStep, SupervisorBegins, Progress, HeartbeatInterrupts, TimeoutFires,
                BudgetExceeded, InterruptKills, BudgetKills, ProviderExits, SpawnFails, ProviderCloses
  <2>2. sup' = sup \/ sup # "none"
    BY <1>8 DEF SupervisorStep, SupervisorBegins, Progress, HeartbeatInterrupts, TimeoutFires,
                BudgetExceeded, InterruptKills, BudgetKills, ProviderExits, SpawnFails, ProviderCloses,
                Watching
  <2>3. write' = write \/ (sup # "none" /\ write'.doc = state)
    BY <1>8 DEF SupervisorStep, SupervisorBegins, Progress, HeartbeatInterrupts, TimeoutFires,
                BudgetExceeded, InterruptKills, BudgetKills, ProviderExits, SpawnFails, ProviderCloses,
                Watching, BeginWrite
  <2> QED  BY <1>5, <2>1, <2>2, <2>3 DEF controlVars, commandVars, fileVars, childVars
<1>9. CASE OuterTimeout
  BY <1>5, <1>9 DEF OuterTimeout, controlVars, commandVars, fileVars, childVars
<1>10. CASE ChildDies
  BY <1>5, <1>10 DEF ChildDies, commandVars, fileVars, supVars
<1>11. CASE UNCHANGED vars
  BY <1>5, <1>11 DEF vars, controlVars, commandVars, fileVars, childVars, supVars
<1>12. CASE ChildStep
  <2>1. UNCHANGED <<records, holder, step, snap>>
    BY <1>12 DEF ChildStep, ChildStarts, EngineStarts, EngineRejects, AttemptRejected, AdapterReturns,
                 CandidateBlocked, RouteBlocked, NoSupervisor,
                 MarkInterrupted, MarkRecommendedAction, Fallback, EngineReads, EngineRecords, HarnessDecides,
                 FinalizationReads, FinalizationWrites, ChildPublishes, controlVars, commandVars, fileVars
  <2>2. write' = write \/ write' = NoWrite
    BY <1>12 DEF ChildStep, ChildStarts, EngineStarts, EngineRejects, AttemptRejected, AdapterReturns,
                 CandidateBlocked, RouteBlocked, NoSupervisor,
                 MarkInterrupted, MarkRecommendedAction, Fallback, NewSupervisor, EngineReads, EngineRecords,
                 HarnessDecides, FinalizationReads, FinalizationWrites, ChildPublishes, supVars
  <2>3. child' \in {"mark", "advise"} =>
         \/ child = "supervise" /\ base' = state
         \/ child = "mark" /\ base' = state'
    BY <1>12 DEF ChildStep, ChildStarts, EngineStarts, EngineRejects, AttemptRejected, AdapterReturns,
                 CandidateBlocked, RouteBlocked, NoSupervisor,
                 MarkInterrupted, MarkRecommendedAction, Fallback, EngineReads, EngineRecords, HarnessDecides,
                 FinalizationReads, FinalizationWrites, ChildPublishes
  <2>4. \/ child \notin {"boot", "done", "dead"}
        \/ child = "boot" /\ sup' = sup /\ \E c \in Commands : records[c].applied
        \/ child = "boot" /\ sup' = sup /\ child' = "done"
    BY <1>12, StartIsGiven
    DEF ChildStep, ChildStarts, EngineStarts, EngineRejects, AttemptRejected, AdapterReturns,
        CandidateBlocked, RouteBlocked, NoSupervisor,
        MarkInterrupted, MarkRecommendedAction, Fallback, EngineReads, EngineRecords, HarnessDecides,
        FinalizationReads, FinalizationWrites, ChildPublishes, supVars
  <2> QED  BY <1>1, <1>5, <2>1, <2>2, <2>3, <2>4
<1> QED  BY <1>3, <1>4, <1>6, <1>7, <1>8, <1>9, <1>10, <1>11, <1>12 DEF Next

\* A run that is over stays over.
LEMMA OverStays ==
  ASSUME WorkInv, [Next]_vars, Over
  PROVE  Over'
<1> USE DEF Over
<1>1. CASE \E c \in Commands : OperatorStep(c)
  BY <1>1 DEF OperatorStep, childVars, supVars
<1>2. CASE StartDies
  BY <1>2 DEF StartDies
<1>3. CASE SupervisorStep
  <2>1. UNCHANGED <<child, sup, write>>
    BY <1>3 DEF SupervisorStep, LookAgain, Commit, SupervisorBegins, Progress, HeartbeatInterrupts,
                TimeoutFires, BudgetExceeded, InterruptKills, BudgetKills, ProviderExits, SpawnFails,
                ProviderCloses,
                Watching, NoWrite, childVars
  <2> QED  BY <2>1
<1>4. CASE OuterTimeout
  BY <1>4 DEF OuterTimeout
<1>5. CASE ChildStep
  BY <1>5 DEF ChildStep, ChildStarts, EngineStarts, EngineRejects, AttemptRejected, AdapterReturns,
              CandidateBlocked, RouteBlocked, NoSupervisor,
              MarkInterrupted, MarkRecommendedAction, Fallback, EngineReads, EngineRecords, HarnessDecides,
              FinalizationReads, FinalizationWrites, ChildPublishes, supVars
<1>6. CASE ChildDies
  BY <1>6 DEF ChildDies, supVars
<1>7. CASE UNCHANGED vars
  BY <1>7 DEF vars, childVars, supVars
<1> QED  BY <1>1, <1>2, <1>3, <1>4, <1>5, <1>6, <1>7 DEF Next

\* Whoever else writes the state, writes another status or the one that is there.
LEMMA FinalizationEnds ==
  ASSUME ExecutionTypeOK, EndInv, [Next]_vars,
         state'.status \in Ends, state'.status # state.status
  PROVE  FinalizationWrites
<1> USE DEF ExecutionTypeOK, TypeOK, Ends
<1>1. StateWrites
  BY OnlyWritersWrite
<1>2. ASSUME NEW c \in Commands, WriteState(c)
      PROVE  FALSE
  <2>1. CASE Applies(c)
    <3>1. state'.status = NextStatus(Action[c], snap.status)
      BY <1>2, <2>1 DEF WriteState, Put, Accepted
    <3>2. NextStatus(Action[c], snap.status) \notin Ends
      BY <2>1, CommandsAreGiven DEF NextStatus, Applies, Allowed, Actions
    <3> QED  BY <3>1, <3>2
  <2>2. CASE ~Applies(c) /\ snap # NoState
    <3>1. state'.status = snap.status /\ step = "state"
      BY <1>2, <2>2 DEF WriteState, Put, States
    <3> QED  BY <3>1 DEF EndInv
  <2>3. CASE ~Applies(c) /\ snap = NoState
    BY <1>2, <2>3 DEF WriteState
  <2> QED  BY <2>1, <2>2, <2>3
<1>3. CASE Commit
  BY <1>3 DEF Commit, Put, EndInv, NoWrite
<1>4. CASE EngineStarts
  BY <1>4 DEF EngineStarts, States
<1>5. CASE MarkInterrupted
  BY <1>5 DEF MarkInterrupted, Put, EndInv, States
<1>6. CASE EngineRecords
  BY <1>6 DEF EngineRecords, States
<1>7. CASE MarkRecommendedAction
  BY <1>7 DEF MarkRecommendedAction, Put, EndInv, States
<1> QED  BY <1>1, <1>2, <1>3, <1>4, <1>5, <1>6, <1>7 DEF StateWrites

\* Every step leaves an ended run to a command that knows its latest state.
LEMMA EndStays ==
  ASSUME ExecutionTypeOK, WorkInv, EndInv, [Next]_vars
  PROVE  EndInv'
<1>1. ~Over => state.status \notin Ends /\ snap.status \notin Ends
  BY DEF EndInv
<1>2. state'.status \in Ends => Over'
  <2>1. CASE FinalizationWrites
    BY <2>1 DEF FinalizationWrites, supVars, WorkInv, Over
  <2>2. CASE ~FinalizationWrites
    BY <1>1, <2>2, FinalizationEnds, OverStays
  <2> QED  BY <2>1, <2>2
<1>3. /\ snap' \in {snap, state, NoState}
      /\ step' = "state" => \/ UNCHANGED <<step, snap>> /\ ~\E c \in Commands : WriteState(c)
                            \/ state' = snap'
  <2>1. CASE \E c \in Commands : OperatorStep(c)
    BY <2>1 DEF OperatorStep, CommandStep, Begin, WriteState, WriteRecord, Publish, Die, Return
  <2>2. CASE StartDies
    BY <2>2 DEF StartDies, Die
  <2>3. ASSUME SupervisorStep \/ OuterTimeout \/ ChildStep \/ ChildDies \/ UNCHANGED vars
        PROVE  UNCHANGED <<step, snap, records, holder, pc>>
    <3>1. CASE SupervisorStep
      BY <3>1 DEF SupervisorStep, LookAgain, Commit, SupervisorBegins, Progress, HeartbeatInterrupts,
                  TimeoutFires, BudgetExceeded, InterruptKills, BudgetKills, ProviderExits, SpawnFails,
                  ProviderCloses, controlVars, commandVars, fileVars
    <3>2. CASE ChildStep
      BY <3>2 DEF ChildStep, ChildStarts, EngineStarts, EngineRejects, AttemptRejected, AdapterReturns,
                  CandidateBlocked, RouteBlocked, NoSupervisor,
                  MarkInterrupted, MarkRecommendedAction, Fallback, EngineReads, EngineRecords, HarnessDecides,
                  FinalizationReads, FinalizationWrites, ChildPublishes, controlVars, commandVars, fileVars
    <3>3. CASE OuterTimeout \/ ChildDies \/ UNCHANGED vars
      BY <3>3 DEF OuterTimeout, ChildDies, vars, controlVars, commandVars, fileVars
    <3> QED  BY <2>3, <3>1, <3>2, <3>3
  <2>4. UNCHANGED step /\ step = "state" => ~\E c \in Commands : WriteState(c)
    BY DEF WriteState
  <2> QED  BY <2>1, <2>2, <2>3, <2>4 DEF Next
<1>4. snap'.status \in Ends => Over'
  BY <1>1, <1>3, OverStays DEF NoState, Ends
<1>5. step' = "state" /\ snap'.status \in Ends => state' = snap'
  <2> SUFFICES ASSUME step' = "state", snap'.status \in Ends, UNCHANGED <<step, snap>>,
                      ~\E c \in Commands : WriteState(c)
               PROVE  state' = state
    BY <1>3 DEF EndInv
  <2>1. Over
    BY <1>1
  <2>2. ~StateWrites
    BY <2>1 DEF StateWrites, Over, Commit, NoWrite, EngineStarts, MarkInterrupted,
                MarkRecommendedAction, EngineRecords, FinalizationWrites
  <2> QED  BY <2>2, OnlyWritersWrite
<1>6. /\ write' # NoWrite => write'.doc.status \notin Ends
      /\ child' \in {"mark", "advise"} => base'.status \notin Ends
  <2> USE DEF EndInv
  <2>1. CASE (\E c \in Commands : OperatorStep(c)) \/ StartDies \/ OuterTimeout \/ ChildDies \/ UNCHANGED vars
    BY <2>1 DEF OperatorStep, StartDies, OuterTimeout, ChildDies, vars, childVars, supVars
  <2>2. CASE LookAgain
    BY <2>2, LookedAgain DEF LookAgain, childVars, Ends
  <2>3. CASE Commit
    BY <2>3 DEF Commit, childVars
  <2>4. CASE SupervisorStep /\ ~LookAgain /\ ~Commit
    <3>1. UNCHANGED childVars
      BY <2>4 DEF SupervisorStep, SupervisorBegins, Progress, HeartbeatInterrupts, TimeoutFires,
                  BudgetExceeded, InterruptKills, BudgetKills, ProviderExits, SpawnFails, ProviderCloses
    <3>2. write' = write \/ (sup # "none" /\ write'.doc = state)
      BY <2>4 DEF SupervisorStep, SupervisorBegins, Progress, HeartbeatInterrupts, TimeoutFires,
                  BudgetExceeded, InterruptKills, BudgetKills, ProviderExits, SpawnFails, ProviderCloses,
                  Watching, BeginWrite
    <3> QED  BY <1>1, <3>1, <3>2 DEF Over, childVars
  <2>5. CASE ChildStep
    <3>1. write' = write \/ write' = NoWrite
      BY <2>5 DEF ChildStep, ChildStarts, EngineStarts, EngineRejects, AttemptRejected, AdapterReturns,
                  CandidateBlocked, RouteBlocked, NoSupervisor,
                  MarkInterrupted, MarkRecommendedAction, Fallback, NewSupervisor, EngineReads, EngineRecords,
                  HarnessDecides, FinalizationReads, FinalizationWrites, ChildPublishes, supVars
    <3>2. child' \in {"mark", "advise"} =>
           \/ child = "supervise" /\ base' = state
           \/ child = "mark" /\ base' = state'
      BY <2>5 DEF ChildStep, ChildStarts, EngineStarts, EngineRejects, AttemptRejected, AdapterReturns,
                  CandidateBlocked, RouteBlocked, NoSupervisor,
                  MarkInterrupted, MarkRecommendedAction, Fallback, EngineReads, EngineRecords, HarnessDecides,
                  FinalizationReads, FinalizationWrites, ChildPublishes
    <3> QED  BY <1>1, <1>2, <3>1, <3>2 DEF Over
  <2> QED  BY <2>1, <2>2, <2>3, <2>4, <2>5 DEF Next
<1> QED  BY <1>2, <1>4, <1>5, <1>6 DEF EndInv

\* Each write of the state is a move of ControlStatus.
LEMMA ReadStep ==
  ASSUME ExecutionTypeOK, WorkInv, BegunInv, EndInv, [Next]_vars
  PROVE  [Read!Next]_(Read!vars)
<1> USE DEF ExecutionTypeOK, TypeOK
<1>1. CASE ~StateWrites
  BY <1>1, OnlyWritersWrite DEF Read!vars
<1>2. state.status \in Status /\ state'.status \in Status
  BY TypesStay DEF States
<1>3. ASSUME overtaken', state.status # "none"
      PROVE  Read!Next
  <2>1. state'.status # "none"
    BY <1>3, StartedStays
  <2> QED  BY <1>2, <1>3, <2>1
           DEF Read!Next, Read!Overwrite, Read!Finish, Read!Open, Read!Final, Status, Terminal
<1>4. ASSUME NEW seen, ~Overtakes(seen), NEW document, Put(document, seen)
      PROVE  overtaken' = overtaken /\ seen.status = state.status /\ state' = document
  BY <1>4 DEF Put, Overtakes
<1>5. ASSUME NEW seen, Overtakes(seen), NEW document, Put(document, seen)
      PROVE  overtaken'
  BY <1>5 DEF Put
<1>6. ASSUME NEW c \in Commands, WriteState(c)
      PROVE  [Read!Next]_(Read!vars)
  <2>1. CASE ~Applies(c) /\ snap = NoState
    BY <1>6, <2>1 DEF WriteState, Read!vars
  <2>2. CASE Overtakes(snap) /\ (Applies(c) \/ snap # NoState)
    <3>1. overtaken'
      BY <1>5, <1>6, <2>2 DEF WriteState
    <3>2. state.status # "none"
      BY <2>2 DEF BegunInv, Overtakes, NoState
    <3> QED  BY <1>3, <3>1, <3>2
  <2>3. CASE ~Overtakes(snap) /\ Applies(c)
    <3>1. overtaken' = overtaken /\ snap.status = state.status /\ state' = Accepted(c)
      BY <1>4, <1>6, <2>3 DEF WriteState
    <3>2. state'.status = NextStatus(Action[c], state.status)
      BY <3>1 DEF Accepted
    <3> QED  BY <2>3, <3>1, <3>2, CommandsAreGiven
             DEF NextStatus, Applies, Allowed, Actions, Read!Next, Read!vars, Read!Begin, Read!Pause,
                 Read!Resume, Read!Cancel, Read!Open
  <2>4. CASE ~Overtakes(snap) /\ ~Applies(c) /\ snap # NoState
    <3>1. overtaken' = overtaken /\ snap.status = state.status /\ state' = [snap EXCEPT !.seq = snap.seq + 1]
      BY <1>4, <1>6, <2>4 DEF WriteState
    <3> QED  BY <3>1 DEF Read!vars, States
  <2> QED  BY <2>1, <2>2, <2>3, <2>4
<1>7. CASE Commit
  <2>1. /\ Put(write.doc, write.seen) /\ write # NoWrite
        /\ write.doc.status \notin Ends \cup {"none"}
        /\ state.status \notin Ends \cup {"none"}
        /\ write.seen.status = "canceled" => write.doc.status = "canceled"
    BY <1>7 DEF Commit, NoWrite, WorkInv, BegunInv, EndInv, Over
  <2>2. CASE Overtakes(write.seen)
    BY <1>3, <1>5, <2>1, <2>2
  <2>3. CASE ~Overtakes(write.seen)
    <3>1. overtaken' = overtaken /\ write.seen.status = state.status /\ state' = write.doc
      BY <1>4, <2>1, <2>3
    <3> QED  BY <1>2, <2>1, <3>1
             DEF Ends, Status, Terminal, Read!Next, Read!vars, Read!Pause, Read!Resume, Read!Cancel, Read!Open
  <2> QED  BY <2>2, <2>3
<1>8. CASE EngineStarts
  BY <1>8 DEF EngineStarts, historyVars, States, Read!vars
<1>9. CASE EngineRecords
  BY <1>9 DEF EngineRecords, historyVars, States, Read!vars
<1>10. CASE MarkInterrupted
  <2>1. Put([base EXCEPT !.provider = "interrupted"], base) /\ state.status # "none"
    BY <1>10 DEF MarkInterrupted, BegunInv
  <2>2. CASE Overtakes(base)
    BY <1>3, <1>5, <2>1, <2>2
  <2>3. CASE ~Overtakes(base)
    BY <1>4, <2>1, <2>3 DEF Read!vars, States
  <2> QED  BY <2>2, <2>3
<1>11. CASE FinalizationWrites
  <2> DEFINE final == [status |-> FinalStatus, seq |-> records[StartCommand].seq,
                       provider |-> base.provider]
  <2>1. /\ Put(final, base) /\ FinalStatus \in Terminal
        /\ state.status \notin Ends \cup {"none"}
    BY <1>11, FinalStatusType DEF FinalizationWrites, BegunInv, EndInv, Over
  <2>2. CASE Overtakes(base)
    BY <1>3, <1>5, <2>1, <2>2
  <2>3. CASE ~Overtakes(base)
    <3>1. overtaken' = overtaken /\ base.status = state.status /\ state'.status = FinalStatus
      BY <1>4, <2>1, <2>3
    <3>2. base.status = "canceled" => FinalStatus \in {"canceled", "failed"}
      BY DEF FinalStatus, Canceled
    <3> QED  BY <1>2, <2>1, <3>1, <3>2
             DEF Ends, Status, Terminal, Read!Next, Read!Finish, Read!Cancel, Read!Open
  <2> QED  BY <2>2, <2>3
<1>12. CASE MarkRecommendedAction
  <2>1. state.status # "none"
    BY <1>12 DEF MarkRecommendedAction, BegunInv
  <2>2. CASE Overtakes(base)
    BY <1>3, <1>5, <1>12, <2>1, <2>2 DEF MarkRecommendedAction
  <2>3. CASE ~Overtakes(base)
    BY <1>4, <1>12, <2>3 DEF MarkRecommendedAction, Read!vars, States
  <2> QED  BY <2>2, <2>3
<1> QED  BY <1>1, <1>6, <1>7, <1>8, <1>9, <1>10, <1>11, <1>12 DEF StateWrites

\* What readers rely on holds in every behaviour.
LEMMA ReadInvariance ==
  Spec => [](ExecutionTypeOK /\ WorkInv /\ BegunInv /\ EndInv)
<1> DEFINE Inv == ExecutionTypeOK /\ WorkInv /\ BegunInv /\ EndInv
<1>1. ExecutionInit => Inv
  BY InitialTypes, WorkInitially, BegunInitially
<1>2. Inv /\ [Next]_vars => Inv'
  BY TypesStay, WorkStays, BegunStays, EndStays
<1> QED  BY <1>1, <1>2, PTL DEF Spec

\* Seen by its readers the state file is the control state of ControlStatus, from
\* which RunJob takes every move of its own: with any commands, guardrails, fallbacks
\* and dying processes, and whoever overtakes whom.
THEOREM ServesReaders == Spec => ReadersAreServed
<1>1. ExecutionInit => Read!Init
  BY InitialTypes DEF ExecutionInit, ExecutionTypeOK, TypeOK, Init, NoState, Read!Init
<1>2. ExecutionTypeOK /\ WorkInv /\ BegunInv /\ EndInv /\ [Next]_vars => [Read!Next]_(Read!vars)
  BY ReadStep
<1> QED  BY <1>1, <1>2, ReadInvariance, PTL DEF Spec, ReadersAreServed, Read!Spec

\* Nobody but the finalization of the child makes a run completed or failed, however
\* late the writes of commands and supervisors come.
THEOREM OnlyTheChildEnds == Spec => OnlyChildEnds
<1>1. ExecutionTypeOK /\ EndInv /\ [Next]_vars
        => [state'.status \in Ends /\ state'.status # state.status
              => child = "finalize" /\ child' = "publish"]_vars
  BY FinalizationEnds DEF FinalizationWrites
<1> QED  BY <1>1, ReadInvariance, PTL DEF Spec, OnlyChildEnds, Ends
=============================================================================
