# A TLA+ model of the orchestrator's run machinery

This directory specifies how the orchestrator executes runs: the durable job of a run and the
processes that own it one after the other, the run itself from its start command to its verdict with
the operator's commands, the harness loop and the supervised provider, the parent run that schedules
child runs over an execution plan, the journal of live events and its streams, and the file lock every
state file relies on. The modules are checked with TLC on small
instances; the most important results are proved with TLAPS for every value of the constants.

Paths below are relative to `src/`; `core/` stands for `packages/orchestrator-core/src/`.

## The system

There is no server that owns the state. Every command of the CLI, every HTTP request and every
background worker is a process that reads and writes JSON files in a shared runtime directory. What
keeps them consistent is a directory lock around each file, a revision (and in places a fencing token)
compared before a write, and atomic replacement by rename. Nearly all decisions are taken on a file
that was read *outside* the lock, so the interesting behaviours are stale reads, writes that arrive
late, and processes that die between two files or two calls.

| Component | State | Operations | Talks to | Hard part |
| --- | --- | --- | --- | --- |
| Run job (`core/run-job*.mjs`) | `run-job-*.json`: status, revision, worker claim with fencing token and lease | reserve, claim, spawn, monitor tick, exit, failure, cancel, resume after input | CLI child by signals, run control by its file, parent by call | late writers, takeover, cancel against exit, pause by signal |
| Run control (`core/run-control.mjs`, `core/control-plane/run-control.mjs`) | `run-control-state-*.json`: status, revision, provider step status; audit files, command records | start, pause, resume, steer, cancel; finalize at the end of the child | read by the job's worker every 250 ms, written by the engine and the supervisor | four of its writers take no lock |
| Parent run (`core/parent-run-scheduler.mjs`) | `parent-run-*.json`: units, attempts, budget, command ids, blocker | start, schedule, acknowledge, complete, control, retry | starts run jobs, called back by their workers | chains of transactions with calls in between |
| Integration (`core/integration-service.mjs`) | integration report, effect on the parent | build report, apply, request repair | parent file | status set without a look at the old one |
| File transaction (`packages/observability/src/file-transaction.mjs`) | lock directory, `owner.json` | acquire, release, update | every component | two-call acquisition and release, stealing |
| Live events (`packages/observability/src/live-run-events.mjs`, `core/control-plane/http/http-stream-handlers.mjs`, `apps/web/src/live-run-stream.js`) | journal, cursor, request records, write-ahead transaction | append, reconcile, stream, reconnect | every component | crash at each boundary, replay against tail |
| Attempt store (`core/attempt-store.mjs`) | attempt ledger with lease and fencing token | reserve, renew, complete | step engine | none while no caller repeats a request key |
| Interaction answers (`core/control-plane/interaction-answer.mjs`) | `requested_interaction` of the step result, audit files, journal events | answer, resume | run job, step result | two answers at once, an answer against the child's exit, no lock |
| Operator requests (`core/operator-request*.mjs`) | request and transaction files | submit, apply, replay | control plane | two files, one effect |
| DAG planner (`core/execution-dag-planner.mjs`) | none | ready order, critical path, cycles | parent run | graph algorithm |
| Step engine, harness (`core/step-execution-engine.mjs`, `core/step-adapter-invocation.mjs`) | step results, attempt ledger, counters | execute, fall back, retry, repair | adapters, run control | bounded repair loop, cancel between two attempts |
| Adapter SDK (`packages/adapter-sdk`) | provider processes, session budget | spawn, supervise, stop | step engine, run-control state | cancel against heartbeat, time-outs, SIGTERM ignored |
| Workspace registry (`core/control-plane/workspace-registry-store.mjs`) | `registry.json`, its own lock | update | HTTP, CLI | weaker lock |
| Everything else (intent, task plans, delivery, reviews, projections, console, contracts, routing, policies) | documents | one process, in sequence | | document validation |

`PROJECT.json` lists every component with its files and what is left out of it, and under "hazards" the
places where this code can go wrong in ways a test would hardly reach, each with the properties that
watch over it.

## The modules

| Module | What it is | Used by |
| --- | --- | --- |
| `RunJob` | the job file, accepting processes, workers, CLI children, run-control status | `MCRunJob`, `RunJobProofs` |
| `Interaction` | `RunJob` composed with the question a step asks and the answers to it | run `interaction`, `InteractionProofs` |
| `ParentRun` | the parent file, schedulers, operators, children and their workers | `MCParentRun`, `ParentRunProofs` |
| `FileLock` | the directory lock and one transaction, one file-system call at a time | `MCFileLock`, `FileLockProofs` |
| `SerialFile` | what a locked file promises: transactions one after the other | `FileLock` (refinement) |
| `RunControl` | the operator's commands on one run, their files and events | `RunExecution` |
| `StepHarness` | the retry and repair loop of a step with its budgets | `RunExecution` |
| `RunExecution` | `RunControl` and `StepHarness` composed with the child process, the supervisor and the provider | `MCRunExecution`, `RunExecutionProofs` |
| `EventLog` | the journal of a run, one durable write at a time | `EventStream`, `EventLogProofs` |
| `EventJournal` | what the journal promises to its writers: each call's event at most once, every repetition answered | `EventLog` (refinement) |
| `EventStream` | `EventLog` composed with a stream and a client that comes back | `MCEventStream`, `EventStreamProofs` |
| `Job` | what a job promises to its parent, to the operator who cancels it and to the one who answers it | `RunJob` (refinement), `ParentRun` (its children) |
| `ControlStatus` | the status of a run's control file, as the processes beside the run see it | `RunJob` (its moves), `RunExecution` (refinement) |
| `UnitSchedule` | what the parent promises about its plan: order, exclusions, ceiling, budget | `ParentRun` (refinement) |

`FileLock` justifies the granularity of the others: there an update under the lock is one step.
It refines `SerialFile` up to the moment a lock is taken from a living process. `RunJob` shows a run as its
supervising worker sees it, `RunExecution` opens the child process that the worker only signals; the
events that `RunExecution` publishes in one step are the keyed appends that `EventLog` opens.

Two small modules are the seams between the large ones, so that what one assumes of another is what is
proved of it:

- `Job` lies between `RunJob` and `ParentRun`. `RunJob` implements it (`KeepsPromises`), `Interaction` does
  so too, and a child of `ParentRun` does nothing that it excludes (`ChildrenAreJobs`). It has two steps that
  a reader may not expect, because the code has them: a worker that starts writes over a cancel recorded
  since it read the job (`Forget`, `core/run-job-worker.mjs:66`), and once a question was answered a process of the
  time before it may pass the fencing check and write over what the job ended with (`Rewrite`).
- `ControlStatus` lies between `RunExecution` and `RunJob`. The worker of `RunJob` reads the run-control file
  that the child and the commands write; every move of `control` there is an action of `ControlStatus`, and
  `RunExecution` implements the same module (`ReadersAreServed`). `Overwrite` is the writer without a lock
  that puts back what it read before a command was recorded; `RunJob` takes it as `ControlOverwritten`.

### RunJob

A member of `Workers` is one *claim*: the accepting process that wrote it, the worker process it spawns
and the worker's CLI child. The random `claim_token` is the member itself. A revision grows with every
write, so "expected revision = current revision" means that nobody wrote since the read; the variable
`fresh` holds the readers for whom that is still true, and no revision number is needed.

| Code | Action |
| --- | --- |
| `reserveRunJob`, `claimRunJobWorker` | `Reserve`, `Claim` |
| `startRunJobInitialized`, `spawnRunJobWorker` | `Spawn`, `SpawnFails`, `AccepterExits`, `AccepterCrashes` |
| `persistUnexpectedExit` | `WatchRead` (unlocked read), `WatchCommit` (update) |
| worker start | `Boot`, `StartRun`, `SpawnChild` |
| monitor interval | `TickRead` (reads, signals), `TickCommit` (update, conflict swallowed) |
| child's exit | `ExitRead`, `ExitCommit`; `Verdict` is `classifyRunJobTerminalStatus` |
| `recordWorkerFailure` | `Raise` (its read), `RecordFailure` |
| the child, `aor run start` | `ChildBegins`, `ChildFinishes`, `ChildKilled` |
| operators | `Pause`, `Resume`, `CancelControl`, `RequestCancel`, `ResumeAfterInput` |
| a late writer of the run-control file | `ControlOverwritten` |
| time, crashes | `LeaseExpires`, `WorkerCrashes`, `AccepterCrashes` |

Several promises hold within an *epoch*, the time between two accepted answers, because an answer resets
the worker record and the fencing tokens with it (`core/run-job.mjs:282`): tokens start at 1 again, so two
claims of different epochs may hold the same one. `epoch[w]` and `resumes` say so in the properties.

### Interaction

`submitInteractionAnswer` holds no lock over its writes, so each is a step of its own and any other answer,
the child's exit or a crash may fall in between. `ResumeAfterInput` of `RunJob`, one step there, is
`ReadJob` and `Requeue` here; `knows` is `fresh` for the answers.

| Code | Action |
| --- | --- |
| the step result of the child asks; what the child prints | `ChildAsks`, `ChildExits` |
| finding the unresolved question | `Find` |
| audit file, step result | `WriteAudit`, `Record` |
| events; a permission request stays blocked | `StaysBlocked` |
| `resumeRunJobAfterInput`: its read, its update, its conflict | `ReadJob`, `Requeue`, `Conflict` |
| the process dies or throws | `AnswerFails` |
| everything else of the job | `JobStep`, the actions of `RunJob` |

The worker learns of a question only from the JSON its child prints. `Shown` says whether that output
carries it. The classifier and its tests accept an output that does, and so `RunJob` has the exit `"ask"`;
the output of today's `aor run start` does not (`core/operator-cli/cli-output.mjs:623-638`). What is said
about a job that waits is therefore about the code as written and tested, and the run `interaction`, with
`Shown = {FALSE}`, is about what the commands do together. An answer writes the step result back from the
copy it has read, so the reference of an answer in between is lost (`Record` sets `refs` to its own); its
audit file stays.

### ParentRun

A child run is a unit and an attempt number, from which the code derives its run id. `updateParent` is
one step; `scheduleParentRun` is `Reserve`, then for each reservation `LaunchChild`, `Acknowledge` or
`LaunchFailed`; `advanceParentForChildRun` is the read in `ChildEnds`, then `AdvanceComplete` and
`AdvanceSchedule`, the last two compared with the revision they know (`fresh` again).
`controlParentRun` is `Issue` (with `Pause`, `Resume`, `Cancel`), one `Propagate` per child and
`FinishControl`. `Retry`, `ApplyIntegration` and `RequestRepair` are one step each; a report is made
from output files that the operator names, so it may pass whatever the units are. Calls fail and
processes die (`SchedulerCrashes`, `WorkerCrashes`, `ControlCrashes`) up to `MaxFaults` times. A child's
job is abstracted to active, canceling or ended, which is what `RunJob` shows of it to the parent;
`ChildForgets` is the cancel that the child's starting worker writes over. `UnitSchedule` shows the units and
the budget alone: a unit is pending, active or ended, and what is active is taken in the order and within
the limits of the plan. Who schedules, how a launch is acknowledged and what a command marks is out of its
sight.

### FileLock

A process makes one acquisition; its `lock_id` is the process. `mkdir`, the exclusive write of
`owner.json`, the waiter's two looks at the owner, the rename of a stale directory, the read and write of
the document, the release's look at the owner, its removal of `owner.json` and of the directory are actions
of their own. A directory that has an owner again when the release comes to remove it is emptied once more
or makes the release throw, as a recursive removal does. `expired` stands
for both expiry rules, that of `expires_at` and that of the directory's age; with `Stalls` a living
holder may outlive it. The history variable `stolen` records that a lock was renamed away from a living
process: the code cannot prevent that for a stalled holder, so the promises hold until it happens.

### RunControl, StepHarness, RunExecution

`applyRunControlAction` of the control plane holds `run-control-events.lock` over the whole command, so
one command is under way at a time (`holder`), and `step` is its next durable write.

| Code | Action |
| --- | --- |
| command lookup, revision check, audit file | `Begin` |
| state file, with the transition and the guardrails; command file; keyed events | `WriteState`, `WriteRecord`, `Publish` |
| the command's process dies; it is repeated under its id | `Die`, `Begin` |
| `aor run start` in the child | `ChildStarts`, `FinalizationReads`, `FinalizationWrites`, `ChildPublishes` |
| `executeRuntimeHarnessControlledStep` | `Attempt`, `AttemptEnds`, `Decide` (with `RepeatStep`, `Exhausted`, `Rerun`) |
| `executeRoutedStep` around the invocation | `EngineStarts`, `EngineRejects`, `EngineReads`, `EngineRecords` |
| `invokeStepAdapterForStep` | `Fallback`; `RouteBlocked` (validators or adapter unusable) |
| the adapter: blocked request, result, marks in the state | `CandidateBlocked`, `AdapterReturns`, `MarkInterrupted`, `MarkRecommendedAction` |
| supervisor: `writeProviderStepStatus` | `BeginWrite` (first read), `LookAgain` (second read), `Commit` (rename) |
| supervisor: spawn, output and heartbeats, cancel, timeout, close | `SupervisorBegins`, `Progress`, `HeartbeatInterrupts`, `InterruptKills`, `TimeoutFires`, `SpawnFails`, `ProviderCloses` |
| session budget | `BudgetExceeded`, `BudgetKills` |
| `runSupervisedProcessSync` gives up | `OuterTimeout` |

The state file has six writers. The commands and the engine's `updateRunControlProviderStepStatus` hold
the run's lock; the supervisor, `markProviderRunControlInterrupted`, `markProviderRunControlRecommendedAction`
and the finalization do not, and each replaces the whole document. What protects a cancel from them is that they look (again) before they write
and keep what they saw. Between that look and the rename nothing protects it, so the history variable
`overtaken` records that a writer replaced a state whose status or revision it had not seen, and the
promises hold until it happens. `docs/contracts/state-transaction.md:22-24` and the comment at
`core/run-control.mjs:608-612` claim more than that: a heartbeat can roll back a pause or a resume, since
only a cancel is looked for. `rolledBack` records that a revision decreased: the finalization writes the
revision of the start command, so that a later blocked command reuses the number, and the audit file, of a
command that was accepted meanwhile (`docs/ops/run-control-lifecycle.md:93` calls the audit durable).
`threw` records that the execution ended in an exception, whose finalization writes `failed` over a
cancel too.

Behaviours of the code that a reader may not expect and that the model keeps: a policy's budget is found
only for the action that came first, the other one has budget 1 (`core/step-execution-engine.mjs:697-708`);
a pass that is the twentieth decision is discarded; a blocked command counts as a revision; a command that
died between its state and its record is repeated as a new one, is blocked, and publishes no terminal
event. A supervisor that is killed after a budget was exceeded leaves its provider running
(`OuterTimeout`), which the model does not follow further.

A step whose provider was interrupted is blocked, with two exceptions, which policies may ask for. The
provider's partial output may tell of a denied permission that the policy repairs: `Denials` holds the
outcomes for which that may happen. And the policy's retry list may name the class of an interruption, for
it holds free strings (`core/step-adapter-invocation.mjs:138`, `:257`), though no documented failure class
is an interruption's: `FallbackOn` is any set of outcomes that are not a success. `OneLateProvider` is
promised for policies that do neither; the other theorems about `RunExecution` hold for all of them. A run may be started with a step of class `repair`, which has one attempt and no budget (`kind`
is `"sole"`). A response that the policy's validators reject (`"rejected"`) is repaired even if it came from
a fallback candidate, because that is tested before the exhausted route
(`core/runtime-harness-report.mjs:452`, `:469`).

### EventLog, EventStream

| Code | Action |
| --- | --- |
| entering the lock of the journal, finding a transaction | `Enter` |
| request record found | `Replay` (answer, or `event-request-conflict`) |
| transaction, journal, cursor, request record, removal | `WriteTransaction`, `WriteJournal`, `WriteCursor`, `WriteRequest`, `Finish` |
| `reconcileAppendTransaction` | the last four with `recovering` set |
| a crash or an exception at a boundary; the operator's repetition | `Interrupt`, `Retry` |
| `openLiveRunEventStream`: size, then tail | `Connect`, `ReadTail` |
| poll and HTTP handler | `Poll`: ends the response at a terminal event or a full transport |
| client | `Receive`, `Reconnect`, `Drop` |

A call with a key is repeated under it; the events without a key belong to a run that is not repeated. The
client of `EventStream` asks for a replay window (`MaxReplay`), as the API allows; the console's own client
asks for none (`apps/web/src/live-run-stream.js:16`) and so misses what is appended while it is away, which
is the case `MaxReplay = 0`, in which `overrun` is set by every such event. Events that a poll reads after a
terminal one are written to a response that has ended and only reach a client that comes back. The last
event of a canceled run is `evidence.linked`, so a stream opened later is not ended by the server.

## What TLC checks

| Run | Instance | Shows |
| --- | --- | --- |
| `runjob` | 2 claims (symmetric), up to 2 answers, 1 crash, stalls | types; tokens identify claims; a claim that was taken over writes nothing; the job keeps the promises of `Job`; no verdict before the exit; a paused job has a stopped child; one question requeues the job once |
| `runjob_live` | 2 claims, 1 answer, no crash, no stall, fairness | a cancel ends the child; a resumed child continues; a claimed job settles |
| `runjob_one_worker` | 2 claims | **violated**: a paused job's lease runs out and a second worker starts |
| `interaction` | 1 claim, 1 answer | **violated**: the output of `run start` never shows its question, and the job succeeds over it |
| `parent_plan` | 3 units, one dependency, one shared key, 2 slots, 1 command, 1 report | conflicts exclude, dependencies first, refinement of `UnitSchedule` |
| `parent_attempts` | 2 units, 2 attempts, 1 slot, budget 2, 2 commands, 1 fault | ceiling, budget, tracking of children, verdicts of the right attempt, a canceled parent is quiet |
| `parent_cancel` | 1 unit, 1 command | **violated**: a cancel that overtakes a launch leaves a running child under a canceled parent |
| `parent_completion` | 2 units | **violated**: a completion that meets another transaction is dropped |
| `filelock` | 3 processes (symmetric), 1 crash, stalls | exclusive until stolen, no lost update, safe release, refinement of `SerialFile` |
| `filelock_steal` | 3 processes, 1 crash, no stall | **violated**: a freshly acquired lock is renamed away |
| `eventlog` | 4 calls (a cancel's two events, a reuse of its key, a call without key), 1 fault, window of 2, 1 broken connection, fairness | the journal is exact, its files agree, it implements `EventJournal`; the client gets every event, in order and once |
| `runexecution` | a start, a pause with an expected revision, a cancel; 1 repair, 1 fallback, 1 death; fairness | types, budgets, a cancel sticks, verdicts and audits agree, one late provider at most; a cancel stops the provider, a run settles |

The violated runs state what a document or a comment of the repository says; `PROJECT.json` quotes it
with the lines of code behind the counterexample.

Some formulas are checked on the instance of a run and stand in no cfg, because the run would only repeat
what a theorem says: `ChildrenAreJobs`, and `PlanIsKept` with attempts and faults (on `parent_attempts`),
`ReadersAreServed`, `OnlyChildEnds` and the invariants `BegunInv` and `EndInv` (on `runexecution`).

**Bounds.** Two claims are the least in which a takeover, a late writer and a repeated token exist; what
a third claim could add are pairs of these, and the invariants are proved for every number. Two answers
are let through (`MaxResumes`), of which the job accepts one, which gives two epochs; one crash lets each process die at each step once. In `ParentRun` two attempts give
retry, late completion and refund; two commands let one overtake another; three units are the least plan
in which a dependency, a conflict and a free slot meet. Three processes on the lock give an owner and two
competing waiters. Bounds that cap an unbounded counter of the code are constants: `MaxResumes`,
`MaxCrashes`, `MaxAttempts`, `MaxFaults`, `MaxIntegrations`, `MaxDrops`, and the sets `Workers`, `Commands`
and `Calls`. `Overwrites` of `RunJob` says whether late writers of the run-control file are about: they are
in `runjob`, and the three other runs leave them out to keep their state spaces small. The liveness of
`runjob_live` holds with them as well (510,077 states).

In `EventStream` one fault interrupts an append at any write, and a window of 2 against 4 events lets a
client be away for too long and for just not too long. In `RunExecution` one repair and one fallback give
three invocations or more, which is what a cancel can fall between; a pause with an expected revision
gives blocked, refused and accepted commands; `LoopLimit` is 2 instead of the 20 of the code, so that the
loop reaches it; `Mortal` confines deaths to the commands whose repetition matters, the start and the cancel.

**Deadlock** is not checked: a job whose claims are used up, a parent whose units have ended and a lock
whose processes have finished all stop, as the program does.

**Fairness.** `FairSpec` of `RunJob` is weak fairness of a worker's next step (its monitor is an interval
timer and its handlers run to completion), of the spawn after a claim, of the accepting process's exit
handler, of a child that starts, finishes (the provider is bounded by its session budget) or was
signalled. Claims, operators, expiry and crashes owe nothing. In `RunExecution` a command that has begun
and the child go on (weak fairness of each program's next step), so do the supervisor's writes and its
close handler; its timers fire between other events (strong fairness, since each write under way disables
them for a moment). Nothing makes a provider end by itself: `RunSettles` rests on the timeout and the
budget's grace period alone. In `EventStream` the poll, the transport and the client's retry timer are
weakly fair; no append is. No run with a liveness property has
symmetry, which would not be sound for it.

## What is proved

`RunJobProofs`, for any set of claims and any bounds, from the assumptions of `RunJob` (`NoWorker` is not
a claim, bounds are naturals):

- `TypeCorrect`: the type invariant. It needs `PendingInv`: what a tick or an exit handler is about to
  write, since the statuses are written one step after they are chosen.
- `TokenUnique` and `TakenOverWritesNothing`. `TokenInv` is the inductive core: tokens of the current
  epoch never exceed the record's, and only the owner holds that one. A worker that was taken over
  therefore fails the comparison in `updateRunJobFile`, however fresh its revision is.
- `ImplementsJob`: every step of `RunJob` is a step of `Job` or none. `FinalInv` is behind its `End`: who
  finishes the job is the owner, which leaves; the watcher's outstanding write then carries an outdated
  revision. The revision check is what is needed here, the token would not do. `KnowInv` is behind the rest:
  a worker that still knows the revision of a canceling job is about to record `canceled` if anything, so that
  nobody but a starting worker undoes a cancel and a canceled job does not succeed. `Rewrite` cannot be left out:
  with two claims TLC finds an answered job rewritten after it failed, with three after other verdicts too.
- `VerdictIsFinal`, for jobs that were not answered, follows from the steps `ImplementsJob` allows.
- `VerdictFollowsExit`, from `VerdictInv`: an exit handler exists only after the exit.
- `RequeuedAtMostOnce`, from `AskInv`: a job waits for input only after a child that asked has exited in
  the current epoch. A run asks once, since its step result ends it and the run of a later claim is
  blocked, so the second answer finds nothing to requeue although no answer excludes another.
- `PausedIsStopped`, from `PausedInv`: a tick signals before it records, and a tick that is about to
  record `running` over a pause no longer knows the revision.

`InteractionProofs`, for any claims and answers and whatever the child's output shows:

- `AnswersKeepPromises`: the composition implements `Job`, so what a parent relies on holds for a child
  that asks questions.
- `ImplementsRunJob`: a step of `Interaction` is a step of `RunJob` or leaves the job alone. The case that
  needs an invariant is `Requeue`: an answer that still knows the revision sees a job that still waits
  (`KnowsInv`). The theorems about `RunJob` hold for the composition by it.
- `AuditComesFirst`: what the step result refers to was written, and a requeued job has an answer to show.
- `WaitingJobIsAnswerable`: a job that waits still has an open question, or an answer that has got past
  the question. The four places an answer may then be in are those the code can strand a job in: before
  the resume, during it, too early for it, or failed.

The two invariants behind the last theorems have no run in this directory: the composition has 15 million
states with two claims, two answers and a crash, more than a routine check affords. They were model-checked
on that instance and are proved for every one.

`FileLockProofs`, for any finite set of processes and any number of crashes:

- `MutualExclusion`, `ReleaseIsSafe`, from `LockInv`: until a lock is stolen, whoever believes that the
  directory is its own made it, and `owner.json` names nobody else.
- `RevisionCountsUpdates` and `TransactionsAreSerial`, from `FileInv` as well: a transaction that has
  read and not written knows the latest revision. The latter is the refinement of `SerialFile`.

`ParentRunProofs`, for any plan (dependencies, conflict keys), ceiling, budget, number of attempts,
commands and faults, from the assumptions of `ParentRun` (units are numbers and finitely many,
dependencies are units, bounds are naturals): every safety property the two passing runs check.

- The inductive invariant is `TypeOK /\ ChildInv /\ UnitInv`. `ChildInv` dates a child: it does not
  exist before its attempt, does not run before its launch, and is reported on after its end. `UnitInv`
  ties a unit to its child: the unit is active exactly while `active` names an attempt, that attempt's
  entry is `launching` or `queued`, and conversely a `queued` entry is named.
- `ChildrenStayTracked`, from `EntryInv` as well: no child lives that no unit waits for, unless its launch was
  recorded as failed. `CancelLeavesFailedLaunches` follows: what the run `parent_cancel` shows, a child that
  runs on under a canceled parent, can only be a launch that was overtaken and given up. Every other job has
  ended by then, whatever crashed in between.
- Three lemmas then say what a step can do to the units (`UnitEffect`), the status (`StatusEffect`) and
  the attempt entries (`EntryEffect`); each is proved once over all actions. `VerdictIsOfActiveChild`,
  `SuccessIsFinal`, `DependenciesComeFirst`, `ConflictsAreExcluded` and `CanceledStaysQuiet` follow from
  their few cases instead of from all actions.
- `CeilingHolds` and `BudgetIsKept` need `SelectionFits`: what one pass takes is no more than the free
  slots and the remaining starts. The pass compares only the units before each one, so the lemma looks at
  the last unit taken (`LastElement`, by well-foundedness of the tails of a finite set). That the budget
  *equals* the attempts needs the children a pass starts to be new, which is `ChildInv`.
- `KeepsPlan`: the parent run implements `UnitSchedule`. `UnitEffect` says for each step what it does to the
  units and to the budget at once, which ties every refund to one unit given back; `TakenFit` and
  `TakenDoNotConflict` are the pass as a whole; and that a refund never meets an empty budget, where the code
  would cap it at zero, is `BudgetCountsAttempts` (`ActiveCosts`).
- `ChildrenKeepPromises`: what the scheduler's model lets a child do is what `Job` allows.

`EventLogProofs`, for any finite set of calls with any keys and payloads and any number of faults (calls
without a key have distinct payloads):

- `JournalAlwaysExact`, `FilesAlwaysAgree`, from an invariant that says for each value of `step` how far
  the files have got with the event of the transaction. It must hold with the lock free as well, since an
  interrupted append leaves any prefix of its writes behind and the next call finds them.
- `ImplementsJournal`: the append that reaches the journal file is `Publish`; every other write is a
  stutter, until the call is answered.

`EventStreamProofs`, for any calls, replay window, number of faults and of broken connections:

- `StreamTypeCorrect`, `ReceivesInOrder` and `ReceivesEveryEvent`, from `StreamInv` on top of the invariant of
  `EventLogProofs`. What the client has received, what is in the transport, what the poll has still to read
  and what the tail of a connection holds are windows of the journal that follow each other without a gap;
  only `overrun`, an absence longer than the replay window, lets one open. The lemmas about `Later`,
  the events of the tail that come after the client's position, are proved from its recursion by looking at
  the least index at which it would fail, so no induction theorem is needed; a gapless journal is what makes
  them a suffix.

`RunExecutionProofs`, for any commands, expected revisions, guardrails, policy, fallbacks and bounds:

- `BudgetsAreKept`, from `AttemptsInv` (where in the loop the counters stand) and `CountersInv`.
- `CancelIsFinal` and `VerdictsAlwaysAgree` need `CancelInv`: whatever a process remembers of a cancel (the
  state a command has read, the document a supervisor is about to write, the base of a finalization, the
  interrupted flag, the outcome) implies that the state file is canceled. The converse direction, that no
  outstanding write forgets it, is what the second look is for.
- `AuditsAlwaysKept`, from `AuditInv`: while no revision was turned back, the audit files below the current
  revision are never overwritten.
- `ServesReaders`: whoever overtakes whom, the run-control file moves as `ControlStatus` says, which is all
  that `RunJob` assumes of it. `BegunInv` says that no state that is read or about to be written back looks
  like a run that was never started, `EndInv` that a run which completed or failed is written again only by
  a command that knows its latest state, since the child and its supervisors are gone.
- `OnlyTheChildEnds`: only the finalization of the child gives the run a verdict; a command, a heartbeat or
  an engine update never does.
- `OneLateProviderAtMost`, from `LateInv`: after a provider that was spawned late, nothing can lead to
  another spawn, because its result is an interruption, which such a policy neither falls back on nor
  repairs.

All these rest on `WorkInv`, which says who can be at work together: a supervisor's write is outstanding
only while the supervisor lives, a child that waits has no writes of its own, and so on.

Every invariant and every safety property of an action that a passing run checks is stated by one of these
theorems. What is only model-checked is liveness under fairness, for which the prover has no rule
(`CaughtUp`, `CancelReachesChild`, `ResumeContinuesChild`, `ClaimedJobSettles`, `CancelStopsProvider`,
`RunSettles`), and the five violated properties, which are false.

## What is not modelled

Contents of documents, evidence references, timestamps and wording; contract validation (the shapes it
enforces are the type invariants); quarantine of corrupt files; what a provider does and the processes
below it; a journal line or a marked state that is written in part (`appendLineDurable` and
the two marks of the adapter write without a rename); several runs in one journal or under one
operation lock; the reinvocation after a permission request; Windows, where the monitor sends no stop signal. A signal is delivered when it is sent, except that the
wake-up of a cancel only reaches a worker that has started its run. A crash loses a process and none of
its completed file writes.

## Plan

What the project would add next, in this order:

1. `ParentRun` composed with one `RunJob` per child in place of its child variable: `Job` shows the seam,
   the composition would show what the parent does while a child is taken over.
2. `DagPlanner`: ready order and cycle check against a reference definition over small graphs.
3. The registry's lock, weaker than `FileLock` (a directory without `owner.json` counts as stale, the
   release is unconditional), as a variant of it; the operator request transaction.
4. `AttemptStore` (reserve, renew, complete, a fencing theorem like `TokenUnique`) once a caller passes a
   request key. Today none does: every execution reserves an attempt of its own, so neither its lease nor
   its fencing token is ever contended and a start that is repeated executes again.
5. The reinvocation after a permission request, which `Interaction` ends at `StaysBlocked`.
