---------------------------- MODULE RunExecution ----------------------------
(***************************************************************************)
(* One run as its child process executes it: the start command, the        *)
(* harness loop of StepHarness, the supervisor of each provider process    *)
(* and the finalization, against the operators of RunControl.              *)
(*                                                                         *)
(* The engine's writes of the state file take the run's lock; those of the *)
(* supervisor and of the finalization do not.                              *)
(***************************************************************************)
EXTENDS RunControl, StepHarness

CONSTANTS
  StartCommand,   \* the command with which the child starts the run
  Fallbacks,      \* the route's fallback candidates
  FallbackOn,     \* the outcomes the policy's retry list names
  Denials         \* those whose output may tell of a permission the policy repairs

\* "rejected" by the policy's validators; "blocked" before any provider is spawned.
Outcomes == {"passed", "rejected", "failed", "blocked", "timeout", "budget", "interrupted"}

ASSUME StartIsGiven == StartCommand \in Commands /\ Action[StartCommand] = "start"
ASSUME FallbackIsGiven == Fallbacks \in Nat /\ FallbackOn \subseteq Outcomes \ {"passed"}
ASSUME DenialsAreGiven == Denials \subseteq Outcomes

VARIABLES
  child,        \* where the child process is
  base,         \* the state it has read
  outcome,      \* of the adapter's invocation
  candidate,    \* the route candidate invoked
  threw,        \* history: did the execution end in an exception?
  sup,          \* the supervisor process
  write,        \* its write of provider_step_status, under way
  flags,        \* interrupted, timedOut and sessionBudgetExceeded
  alarms,       \* its armed kill timers
  provider,     \* the provider process: none, running, or its exit
  late          \* history: providers spawned after a cancel

childVars == <<child, base, outcome, candidate, threw>>
supVars   == <<sup, write, flags, alarms, provider, late>>
vars      == <<controlVars, harnessVars, childVars, supVars>>

NoWrite == [stage |-> "none"]
Effects == {"spawn", "none", "interrupt", "kill", "exceed", "finish"}
Writes  ==
  [stage : {"again", "commit"}, status : Provider, effect : Effects, doc : States, seen : States]

ExecutionTypeOK ==
  /\ TypeOK /\ HarnessTypeOK
  /\ child \in {"boot", "execute", "supervise", "mark", "advise", "settle", "record",
                "reject", "finalize", "publish", "done", "dead"}
  /\ base \in States
  /\ outcome \in Outcomes \cup {"none"}
  /\ candidate \in Nat /\ threw \in BOOLEAN
  /\ sup \in {"none", "starting", "watching", "closing", "ended", "killed"}
  /\ write \in Writes \cup {NoWrite}
  /\ flags \subseteq {"interrupted", "timedOut", "exceeded"}
  /\ alarms \subseteq {"interrupt", "exceed"}
  /\ provider \in {"none", "running", "ok", "bad"}
  /\ late \in Nat

ExecutionInit ==
  /\ Init /\ HarnessInit
  /\ child = "boot" /\ base = NoState /\ outcome = "none" /\ candidate = 0 /\ threw = FALSE
  /\ sup = "none" /\ write = NoWrite /\ flags = {} /\ alarms = {}
  /\ provider = "none" /\ late = 0

\* providerCancellationRequested: what every reader takes for a cancel.
Canceled(document) == document.status = "canceled" \/ document.provider = "interrupted"

-----------------------------------------------------------------------------
(* The child: run start up to the supervisor.                              *)

\* The start command is answered: a blocked one executes nothing.
ChildStarts ==
  /\ child = "boot" /\ pc[StartCommand] = "done"
  /\ child' = IF records[StartCommand].applied THEN "execute" ELSE "done"
  /\ UNCHANGED <<controlVars, harnessVars, base, outcome, candidate, threw, supVars>>

\* A new supervisor is spawned, with nothing left of the last one.
NewSupervisor ==
  /\ sup' = "starting" /\ write' = NoWrite /\ flags' = {} /\ alarms' = {}
  /\ provider' = "none" /\ UNCHANGED late

\* The engine records the provider as running and invokes the first candidate.
EngineStarts ==
  /\ child = "execute" /\ Attempt /\ StateLockFree
  /\ state' = [state EXCEPT !.provider = "running"]
  /\ candidate' = 0
  /\ NewSupervisor
  /\ child' = "supervise"
  /\ UNCHANGED <<audit, records, published, verdicts, commandVars, historyVars,
                 base, outcome, threw>>

\* Nothing is invoked: the delivery plan is not ready.
EngineRejects ==
  /\ child = "execute" /\ Attempt
  /\ child' = "reject" /\ outcome' = "blocked" /\ candidate' = 0
  /\ UNCHANGED <<controlVars, base, threw, supVars>>

AttemptRejected ==
  /\ child = "reject" /\ AttemptEnds
  /\ child' = "execute"
  /\ UNCHANGED <<controlVars, base, outcome, candidate, threw, supVars>>

-----------------------------------------------------------------------------
(* The supervisor: writeProviderStepStatus, its timers and the provider.    *)

\* The supervisor begins a write: it reads the state it will write back.
BeginWrite(status, effect) ==
  write' = [stage |-> "again", status |-> status, effect |-> effect, doc |-> state, seen |-> state]

\* Mutant: the state is not looked at again.
Merged_Blind(latest) == [write.doc EXCEPT !.provider = write.status]

\* What is written when the second look finds latest: a cancel is kept, and an
\* operator's interruption too.
Merged(latest) ==
  [(IF latest.status = "canceled" THEN latest ELSE write.doc)
     EXCEPT !.provider = IF latest.provider = "interrupted" THEN "interrupted" ELSE write.status]

LookAgain ==
  /\ write.stage = "again"
  /\ write' = [write EXCEPT !.stage = "commit", !.doc = Merged(state), !.seen = state]
  /\ UNCHANGED <<controlVars, harnessVars, childVars, sup, flags, alarms, provider, late>>

\* The state file is replaced; then the supervisor spawns or signals the provider,
\* or emits its result.
Commit ==
  /\ write.stage = "commit"
  /\ Put(write.doc, write.seen)
  /\ write' = NoWrite
  /\ sup' = CASE write.effect = "spawn" -> "watching"
              [] write.effect = "finish" -> "ended"
              [] OTHER -> sup
  /\ provider' = CASE write.effect = "spawn" -> "running"
                   [] write.effect = "kill" /\ provider = "running" -> "bad"
                   [] OTHER -> provider
  /\ alarms' = IF write.effect \in {"interrupt", "exceed"} THEN alarms \cup {write.effect} ELSE alarms
  /\ late' = IF write.effect = "spawn" /\ Canceled(write.doc) THEN late + 1 ELSE late
  /\ UNCHANGED <<audit, records, published, verdicts, commandVars, faults,
                 harnessVars, childVars, flags>>

SupervisorBegins ==
  /\ sup = "starting" /\ write = NoWrite
  /\ BeginWrite("running", "spawn")
  /\ UNCHANGED <<controlVars, harnessVars, childVars, sup, flags, alarms, provider, late>>

\* The supervisor handles an event while the provider runs.
Watching == sup = "watching" /\ write = NoWrite /\ provider = "running"

\* Output arrives, or a heartbeat is due.
Progress ==
  /\ Watching
  /\ BeginWrite("running", "none")
  /\ UNCHANGED <<controlVars, harnessVars, childVars, sup, flags, alarms, provider, late>>

\* A heartbeat sees the cancel.
HeartbeatInterrupts ==
  /\ Watching /\ Canceled(state) /\ "interrupted" \notin flags
  /\ flags' = flags \cup {"interrupted"}
  /\ BeginWrite("interrupted", "interrupt")
  /\ UNCHANGED <<controlVars, harnessVars, childVars, sup, alarms, provider, late>>

TimeoutFires ==
  /\ Watching /\ flags = {}
  /\ flags' = {"timedOut"}
  /\ BeginWrite("running", "kill")
  /\ UNCHANGED <<controlVars, harnessVars, childVars, sup, alarms, provider, late>>

BudgetExceeded ==
  /\ Watching /\ flags = {}
  /\ flags' = {"exceeded"}
  /\ BeginWrite("failed", "exceed")
  /\ UNCHANGED <<controlVars, harnessVars, childVars, sup, alarms, provider, late>>

\* Mutant: the tree is left to SIGTERM.
InterruptKills_Spares ==
  /\ Watching /\ "interrupt" \in alarms
  /\ alarms' = alarms \ {"interrupt"}
  /\ UNCHANGED <<controlVars, harnessVars, childVars, sup, write, flags, provider, late>>

\* A second after SIGTERM the tree is killed.
InterruptKills ==
  /\ Watching /\ "interrupt" \in alarms
  /\ alarms' = alarms \ {"interrupt"}
  /\ provider' = "bad"
  /\ UNCHANGED <<controlVars, harnessVars, childVars, sup, write, flags, late>>

\* Mutant: the end of the grace period is only reported.
BudgetKills_OnlyReports ==
  /\ Watching /\ "exceed" \in alarms
  /\ alarms' = alarms \ {"exceed"}
  /\ BeginWrite("failed", "none")
  /\ UNCHANGED <<controlVars, harnessVars, childVars, sup, flags, provider, late>>

\* The grace period of an exceeded budget is over.
BudgetKills ==
  /\ Watching /\ "exceed" \in alarms
  /\ alarms' = alarms \ {"exceed"}
  /\ BeginWrite("failed", "kill")
  /\ UNCHANGED <<controlVars, harnessVars, childVars, sup, flags, provider, late>>

\* The provider ends on its own account, or obeys SIGTERM; its exit code counts
\* only if nothing has stopped it.
ProviderExits ==
  /\ provider = "running"
  /\ provider' \in IF flags = {} THEN {"ok", "bad"} ELSE {"bad"}
  /\ UNCHANGED <<controlVars, harnessVars, childVars, sup, write, flags, alarms, late>>

\* The provider could not be spawned, which the supervisor learns at once or later:
\* its last write.
SpawnFails ==
  /\ Watching /\ flags = {}
  /\ sup' = "closing" /\ provider' = "bad"
  /\ BeginWrite("failed", "finish")
  /\ UNCHANGED <<controlVars, harnessVars, childVars, flags, alarms, late>>

\* The provider's streams are closed: the last write of the supervisor.
ProviderCloses ==
  LET seen == IF Canceled(state) THEN flags \cup {"interrupted"} ELSE flags
  IN /\ sup = "watching" /\ write = NoWrite /\ provider \in {"ok", "bad"}
     /\ sup' = "closing" /\ alarms' = {} /\ flags' = seen
     /\ BeginWrite(IF "interrupted" \in seen THEN "interrupted"
                   ELSE IF provider = "ok" /\ seen = {} THEN "completed" ELSE "failed", "finish")
     /\ UNCHANGED <<controlVars, harnessVars, childVars, provider, late>>

\* timeout + 5 s: the child kills the supervisor.  Only a provider whose budget is
\* exceeded, and whose own timeout was cleared, lives that long; it goes on
\* alone, and is not followed any further.
OuterTimeout ==
  /\ child = "supervise" /\ sup = "watching" /\ provider = "running"
  /\ "exceeded" \in flags
  /\ sup' = "killed" /\ write' = NoWrite /\ alarms' = {} /\ provider' = "none"
  /\ UNCHANGED <<controlVars, harnessVars, childVars, flags, late>>

SupervisorStep ==
  \/ LookAgain \/ Commit \/ SupervisorBegins \/ Progress \/ HeartbeatInterrupts \/ TimeoutFires
  \/ BudgetExceeded \/ InterruptKills \/ BudgetKills \/ ProviderExits \/ SpawnFails
  \/ ProviderCloses

-----------------------------------------------------------------------------
(* The child: from the invocation's result to the verdict.                 *)

\* The adapter does not come to spawn the supervisor.
NoSupervisor ==
  /\ child = "supervise" /\ sup = "starting" /\ write = NoWrite
  /\ sup' = "none" /\ outcome' = "blocked"
  /\ UNCHANGED <<controlVars, harnessVars, candidate, threw, write, flags, alarms, provider, late>>

\* The candidate's work packet exceeds its context budget.
CandidateBlocked ==
  /\ NoSupervisor
  /\ child' = "settle" /\ UNCHANGED base

\* The policy's validators, or the candidate's adapter, are unusable: the route is
\* given up, and the engine reads the state at once.
RouteBlocked ==
  /\ NoSupervisor
  /\ child' = "record" /\ base' = state

\* What the adapter makes of the supervisor's result; a provider that somebody
\* else has killed counts as timed out.
Results ==
  IF (sup = "ended" /\ "interrupted" \in flags) \/ Canceled(state) THEN {"interrupted"}
  ELSE IF sup = "killed" \/ "timedOut" \in flags THEN {"timeout"}
  ELSE IF "exceeded" \in flags THEN {"budget"}
  ELSE IF provider = "ok" THEN {"passed", "rejected", "failed"}
  ELSE {"failed", "timeout"}

\* Was the provider stopped, or is its exit code not 0?
InvocationFailed == sup = "killed" \/ flags # {} \/ provider = "bad"

\* The result is read, and the state once more; an interruption is marked in it, and
\* so is advice if a failed provider's output shows a malformed tool call.
AdapterReturns ==
  /\ child = "supervise" /\ sup \in {"ended", "killed"}
  /\ outcome' \in Results
  /\ \/ outcome' = "interrupted" /\ child' = "mark" /\ base' = state
     \/ outcome' # "interrupted" /\ child' = "settle" /\ UNCHANGED base
     \/ outcome' # "interrupted" /\ InvocationFailed /\ child' = "advise" /\ base' = state
  /\ sup' = "none" /\ flags' = {} /\ provider' = "none"
  /\ UNCHANGED <<controlVars, harnessVars, candidate, threw, write, alarms, late>>

\* The advice, if there is any, comes after the interruption, from the state read
\* once more; whether the provider had failed is not remembered.
MarkInterrupted ==
  /\ child = "mark"
  /\ Put([base EXCEPT !.provider = "interrupted"], base)
  /\ \/ child' = "settle" /\ base' = NoState
     \/ child' = "advise" /\ base' = state'
  /\ UNCHANGED <<audit, records, published, verdicts, commandVars, faults,
                 harnessVars, outcome, candidate, threw, supVars>>

MarkRecommendedAction ==
  /\ child = "advise"
  /\ Put([base EXCEPT !.provider = IF base.provider = "none" THEN "failed" ELSE base.provider], base)
  /\ child' = "settle" /\ base' = NoState
  /\ UNCHANGED <<audit, records, published, verdicts, commandVars, faults,
                 harnessVars, outcome, candidate, threw, supVars>>

\* Mutant: the policy's retry list is not looked at.
Fallback_Always ==
  /\ child = "settle" /\ outcome # "passed" /\ candidate < Fallbacks
  /\ candidate' = candidate + 1
  /\ NewSupervisor
  /\ child' = "supervise"
  /\ UNCHANGED <<controlVars, harnessVars, base, outcome, threw>>

\* The next candidate of the route is invoked.
Fallback ==
  /\ child = "settle" /\ outcome \in FallbackOn /\ candidate < Fallbacks
  /\ candidate' = candidate + 1
  /\ NewSupervisor
  /\ child' = "supervise"
  /\ UNCHANGED <<controlVars, harnessVars, base, outcome, threw>>

\* The engine reads the state for the provider's last status ...
EngineReads ==
  /\ child = "settle" /\ ~(outcome \in FallbackOn /\ candidate < Fallbacks)
  /\ child' = "record" /\ base' = state
  /\ UNCHANGED <<controlVars, harnessVars, outcome, candidate, threw, supVars>>

\* ... and records it under the lock: the attempt has its step result.
EngineRecords ==
  /\ child = "record" /\ StateLockFree
  /\ state' = [state EXCEPT !.provider =
                 IF outcome = "interrupted" \/ Canceled(base) THEN "interrupted"
                 ELSE IF outcome = "passed" THEN "completed" ELSE "failed"]
  /\ AttemptEnds
  /\ child' = "execute" /\ base' = NoState
  /\ UNCHANGED <<audit, records, published, verdicts, commandVars, historyVars,
                 outcome, candidate, threw, supVars>>

\* The decisions of classifyRuntimeStepOutcome, each of which the failure policy
\* may turn into a stop.  An exhausted fallback blocks, unless it was rejected.
Decisions ==
  {"stop"} \cup (IF outcome \in Denials THEN {"repair"} ELSE {}) \cup
    CASE outcome = "passed" -> {"pass", "repair"}
      [] outcome = "rejected" -> {"repair"}
      [] outcome = "timeout" /\ candidate = 0 -> {"retry"}
      [] outcome = "failed" /\ candidate = 0 -> {"repair"}
      [] OTHER -> {}

HarnessDecides ==
  /\ child = "execute"
  /\ \E d \in Decisions : Decide(d)
  /\ outcome' = "none" /\ candidate' = 0
  /\ UNCHANGED <<controlVars, child, base, threw, supVars>>

\* The execution is over, or throws: the state is read.
FinalizationReads ==
  /\ child = "execute"
  /\ child' = "finalize" /\ base' = state
  /\ outcome' = "none" /\ candidate' = 0
  /\ threw' = (turn # "over")
  /\ UNCHANGED <<controlVars, harnessVars, supVars>>

\* Mutant: the verdict of the step decides alone.
FinalStatus_OfStep == IF verdict = "passed" THEN "completed" ELSE "failed"

\* Mutant: the step's own status is written.
FinalStatus_Unmapped ==
  IF threw THEN "failed" ELSE IF Canceled(base) THEN "canceled" ELSE verdict

FinalStatus ==
  IF threw THEN "failed"
  ELSE IF Canceled(base) THEN "canceled"
  ELSE IF verdict = "passed" THEN "completed" ELSE "failed"

\* The state is written with the revision of the start command's result.
FinalizationWrites ==
  /\ child = "finalize"
  /\ Put([status |-> FinalStatus, seq |-> records[StartCommand].seq, provider |-> base.provider], base)
  /\ child' = "publish"
  /\ UNCHANGED <<audit, records, published, verdicts, commandVars, faults,
                 harnessVars, base, outcome, candidate, threw, supVars>>

ChildPublishes ==
  /\ child = "publish"
  /\ verdicts' = Append(verdicts, FinalStatus)
  /\ child' = "done" /\ base' = NoState
  /\ UNCHANGED <<state, audit, records, published, commandVars, historyVars,
                 harnessVars, outcome, candidate, threw, supVars>>

\* The child dies: a supervisor it has started goes on.
ChildDies ==
  /\ child \notin {"boot", "done", "dead"} /\ faults < MaxFaults
  /\ faults' = faults + 1
  /\ child' = "dead" /\ base' = NoState /\ outcome' = "none" /\ candidate' = 0
  /\ HarnessForgotten
  /\ UNCHANGED <<fileVars, commandVars, overtaken, rolledBack, threw, supVars>>

ChildStep ==
  \/ ChildStarts \/ EngineStarts \/ EngineRejects \/ AttemptRejected
  \/ CandidateBlocked \/ RouteBlocked \/ AdapterReturns \/ MarkInterrupted
  \/ MarkRecommendedAction \/ Fallback \/ EngineReads \/ EngineRecords
  \/ HarnessDecides \/ FinalizationReads \/ FinalizationWrites \/ ChildPublishes

-----------------------------------------------------------------------------
(* The composition.                                                        *)

\* The start command belongs to the child: it dies with it.
OperatorStep(c) ==
  /\ \/ Begin(c) /\ (c = StartCommand => child = "boot")
     \/ CommandStep(c)
     \/ Die(c) /\ c # StartCommand
  /\ UNCHANGED <<harnessVars, childVars, supVars>>

StartDies ==
  /\ child = "boot" /\ Die(StartCommand) /\ child' = "dead"
  /\ UNCHANGED <<harnessVars, base, outcome, candidate, threw, supVars>>

Next ==
  \/ \E c \in Commands : OperatorStep(c)
  \/ StartDies \/ SupervisorStep \/ OuterTimeout \/ ChildStep \/ ChildDies

\* Programs go on; timers that are due fire between the supervisor's other events.
\* Nothing makes a provider end, an operator act or a process die.
Fairness ==
  /\ WF_vars(\E c \in Commands : CommandStep(c) /\ UNCHANGED <<harnessVars, childVars, supVars>>)
  /\ WF_vars(ChildStep)
  /\ WF_vars(LookAgain \/ Commit \/ SupervisorBegins \/ ProviderCloses)
  /\ SF_vars(HeartbeatInterrupts \/ InterruptKills \/ TimeoutFires \/ BudgetKills)

Spec == ExecutionInit /\ [][Next]_vars /\ Fairness
-----------------------------------------------------------------------------
(* What a run promises.  A writer without the lock that replaces a state it   *)
(* has not seen (overtaken) or an exception (threw) voids some promises.      *)

Cancels == {c \in Commands : Action[c] = "cancel" /\ records[c].applied}

\* Whatever heartbeats, engine writes and finalization are under way, a run whose
\* cancel was accepted is and stays canceled.
CancelSticks == Cancels # {} /\ ~overtaken /\ ~threw => state.status = "canceled"

\* The terminal events of a run, those of the cancel and of the child, say what
\* the state file says.
VerdictsAgree ==
  ~overtaken /\ ~threw => \A i \in DOMAIN verdicts : verdicts[i] = state.status

\* Every recorded command of a started run keeps its own audit file, interrupted
\* and repeated commands included, until a writer turns the revision back.
AuditsAreKept ==
  ~rolledBack =>
    \A c \in Commands : records[c].applied \/ records[c].seq > 1 => <<records[c].seq, c>> \in audit

\* After a cancel one more provider is spawned at most: the one whose supervisor
\* finds the cancel.  Neither a fallback nor the harness begins another, unless the
\* policy itself has a route fall back on an interruption, or repairs the permissions
\* an interrupted provider was denied.
OneLateProvider ==
  "interrupted" \notin Denials \cup FallbackOn /\ ~overtaken => late <= 1

\* A cancel stops the provider, whatever it makes of SIGTERM.
CancelStopsProvider ==
  []<>(Cancels # {} => provider # "running" \/ overtaken)

\* A started run gets its verdict, unless its process dies: every provider ends,
\* and the harness gives up.
RunSettles == <>[](child \in {"boot", "done", "dead"})

\* To those who read it, the state file is the status of ControlStatus: until a
\* writer overtakes another a cancel is not taken back, and nothing makes a started
\* run look as if it had never begun.
Read == INSTANCE ControlStatus WITH control <- state.status
ReadersAreServed == Read!Spec

\* Whichever commands and supervisors write late what they saw before, only the
\* finalization makes a run completed or failed.
OnlyChildEnds ==
  [][state'.status \in {"completed", "failed"} /\ state'.status # state.status
       => child = "finalize" /\ child' = "publish"]_vars
=============================================================================
