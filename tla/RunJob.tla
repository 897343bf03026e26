------------------------------- MODULE RunJob -------------------------------
(***************************************************************************)
(* One durable run job: the job file, the accepting processes that claim   *)
(* it, the worker processes that own it one after the other, the CLI child *)
(* each worker supervises, and the run-control state the child, the        *)
(* operator and the worker share.                                          *)
(*                                                                         *)
(* A member of Workers is one claim: the accepting process that wrote the  *)
(* claim, the worker process it spawns and the worker's CLI child.  The    *)
(* claim's random claim_token is the member itself.                        *)
(*                                                                         *)
(* Every update of the job file runs under the file lock and is one step.  *)
(* Most updates carry the revision of an earlier unlocked read.  A         *)
(* revision grows by one with every write and never shrinks, so "expected  *)
(* revision = current revision" holds exactly when nobody has written      *)
(* since the read: fresh is the set of readers for whom it still holds.    *)
(***************************************************************************)
EXTENDS Naturals, FiniteSets

CONSTANTS
  Workers,      \* the claims the run may go through
  NoWorker,     \* worker: null
  MaxResumes,   \* bound on accepted interaction answers
  MaxCrashes,   \* bound on processes that die between two steps
  Stalls,       \* may a worker that keeps renewing be held up past its lease?
  Overwrites    \* may a writer replace a run-control state it has not seen?

ASSUME NoWorkerIsNoWorker == NoWorker \notin Workers
ASSUME BoundsAreNaturals ==
  MaxResumes \in Nat /\ MaxCrashes \in Nat /\ Stalls \in BOOLEAN /\ Overwrites \in BOOLEAN

VARIABLES
  \* the job file
  status,       \* "absent" before the reservation
  owner,        \* whose claim_token the record holds, or NoWorker
  fencing,      \* worker.fencing_token, 0 while worker is null
  lease,        \* is lease_expires_at in the future?
  pidKnown,     \* has the owner recorded its pid?
  resumes,      \* input_resume_count
  fresh,        \* the readers whose revision is still the file's
  \* the run-control state file
  control,
  \* the processes of each claim
  phase,        \* where the worker process is
  token,        \* the fencing token its claim received
  epoch,        \* history: the value of resumes when it claimed
  watch,        \* the accepting process's wait for the worker's exit
  pending,      \* the status the worker is about to write
  child,        \* the CLI child and, once it exited, how
  stopped,      \* did the worker send SIGSTOP last?
  killing,      \* did the worker start terminating the child?
  crashes

fileVars    == <<status, owner, fencing, lease, pidKnown, resumes, fresh>>
processVars == <<phase, token, epoch, watch, pending>>
childVars   == <<child, stopped, killing>>
vars        == <<fileVars, control, processVars, childVars, crashes>>

Terminal == {"succeeded", "failed", "canceled"}
Statuses == {"queued", "running", "paused", "waiting-input", "canceling"} \cup Terminal
ControlStatuses == {"none", "running", "paused", "canceled", "completed", "failed"}
\* All that the job's processes rely on in the run-control state.
Control == INSTANCE ControlStatus WITH overtaken <- Overwrites

Phases == {"free", "claimed", "spawned", "booted", "started", "supervising",
           "tick", "exiting", "failing", "gone"}
Alive  == {"spawned", "booted", "started", "supervising", "tick", "exiting", "failing"}
Exited == {"ok", "fail", "ask", "signal"}
LiveChild == {"started", "executing"}

AsWorker(w)  == <<"worker", w>>
AsWatcher(w) == <<"watcher", w>>
Readers == {"worker", "watcher"} \X Workers

TypeOK ==
  /\ status \in Statuses \cup {"absent"}
  /\ owner \in Workers \cup {NoWorker}
  /\ fencing \in Nat
  /\ lease \in BOOLEAN
  /\ pidKnown \in BOOLEAN
  /\ resumes \in Nat
  /\ fresh \in SUBSET Readers
  /\ control \in ControlStatuses
  /\ phase \in [Workers -> Phases]
  /\ token \in [Workers -> Nat]
  /\ epoch \in [Workers -> Nat]
  /\ watch \in [Workers -> {"off", "on", "read"}]
  /\ pending \in [Workers -> Statuses \cup {"none"}]
  /\ child \in [Workers -> {"none"} \cup LiveChild \cup Exited]
  /\ stopped \in [Workers -> BOOLEAN]
  /\ killing \in [Workers -> BOOLEAN]
  /\ crashes \in Nat

Init ==
  /\ status = "absent" /\ owner = NoWorker /\ fencing = 0
  /\ lease = FALSE /\ pidKnown = FALSE /\ resumes = 0 /\ fresh = {}
  /\ control = "none"
  /\ phase = [w \in Workers |-> "free"]
  /\ token = [w \in Workers |-> 0]
  /\ epoch = [w \in Workers |-> 0]
  /\ watch = [w \in Workers |-> "off"]
  /\ pending = [w \in Workers |-> "none"]
  /\ child = [w \in Workers |-> "none"]
  /\ stopped = [w \in Workers |-> FALSE]
  /\ killing = [w \in Workers |-> FALSE]
  /\ crashes = 0

-----------------------------------------------------------------------------
(* The compare-and-set of updateRunJobFile.                                *)

\* Mutant: the fencing token is not compared.
Admitted_RevisionOnly(r, w) == r \in fresh /\ owner # NoWorker

\* An update by reader r on behalf of claim w is let through.
Admitted(r, w) == r \in fresh /\ owner # NoWorker /\ fencing = token[w]

\* The update writes status s and leaves the worker record alone.
WriteStatus(s) ==
  /\ status' = s
  /\ fresh' = {}
  /\ UNCHANGED <<owner, fencing, lease, pidKnown, resumes>>

\* The update writes status s and renews the lease.
WriteAndRenew(s) ==
  /\ status' = s
  /\ lease' = TRUE
  /\ fresh' = {}
  /\ UNCHANGED <<owner, fencing, pidKnown, resumes>>

\* A read that remembers the revision.
Remember(r) ==
  /\ fresh' = fresh \cup {r}
  /\ UNCHANGED <<status, owner, fencing, lease, pidKnown, resumes>>

-----------------------------------------------------------------------------
(* The accepting process.                                                  *)

\* Reserving the job a second time returns the existing record.
Reserve ==
  /\ status = "absent"
  /\ status' = "queued"
  /\ fresh' = {}
  /\ UNCHANGED <<owner, fencing, lease, pidKnown, resumes, control,
                 processVars, childVars, crashes>>

\* Mutant: taking over an expired lease keeps the old token.
Claim_KeepsToken(w) ==
  /\ phase[w] = "free"
  /\ status \notin Terminal \cup {"absent", "waiting-input"}
  /\ owner = NoWorker \/ ~lease
  /\ owner' = w
  /\ fencing' = IF owner = NoWorker THEN 1 ELSE fencing
  /\ lease' = TRUE
  /\ pidKnown' = FALSE
  /\ fresh' = {}
  /\ phase' = [phase EXCEPT ![w] = "claimed"]
  /\ token' = [token EXCEPT ![w] = IF owner = NoWorker THEN 1 ELSE fencing]
  /\ epoch' = [epoch EXCEPT ![w] = resumes]
  /\ watch' = [watch EXCEPT ![w] = "on"]
  /\ UNCHANGED <<status, resumes, control, pending, childVars, crashes>>

\* An accepted start, first or repeated, takes the job over when no lease is
\* active.  The status stays what it is.
Claim(w) ==
  /\ phase[w] = "free"
  /\ status \notin Terminal \cup {"absent", "waiting-input"}
  /\ owner = NoWorker \/ ~lease
  /\ owner' = w
  /\ fencing' = fencing + 1
  /\ lease' = TRUE
  /\ pidKnown' = FALSE
  /\ fresh' = {}
  /\ phase' = [phase EXCEPT ![w] = "claimed"]
  /\ token' = [token EXCEPT ![w] = fencing + 1]
  /\ epoch' = [epoch EXCEPT ![w] = resumes]
  /\ watch' = [watch EXCEPT ![w] = "on"]
  /\ UNCHANGED <<status, resumes, control, pending, childVars, crashes>>

Spawn(w) ==
  /\ phase[w] = "claimed"
  /\ phase' = [phase EXCEPT ![w] = "spawned"]
  /\ UNCHANGED <<fileVars, control, token, epoch, watch, pending, childVars, crashes>>

\* spawn throws, or reports its failure by an error event.
SpawnFails(w) ==
  /\ phase[w] = "claimed"
  /\ phase' = [phase EXCEPT ![w] = "gone"]
  /\ watch' = [watch EXCEPT ![w] = "read"]
  /\ Remember(AsWatcher(w))
  /\ UNCHANGED <<control, token, epoch, pending, childVars, crashes>>

\* Mutant: the exit of the worker counts as a failure whatever the job says.
WatchRead_Unchecked(w) ==
  /\ watch[w] = "on" /\ phase[w] = "gone"
  /\ watch' = [watch EXCEPT ![w] = "read"]
  /\ Remember(AsWatcher(w))
  /\ UNCHANGED <<control, phase, token, epoch, pending, childVars, crashes>>

\* The accepting process learns that the worker exited and reads the job.
WatchRead(w) ==
  /\ watch[w] = "on" /\ phase[w] = "gone"
  /\ IF status \in Terminal \cup {"waiting-input"}
       THEN /\ watch' = [watch EXCEPT ![w] = "off"]
            /\ UNCHANGED fileVars
       ELSE /\ watch' = [watch EXCEPT ![w] = "read"]
            /\ Remember(AsWatcher(w))
  /\ UNCHANGED <<control, phase, token, epoch, pending, childVars, crashes>>

\* It records the failure; a conflict is swallowed.
WatchCommit(w) ==
  /\ watch[w] = "read"
  /\ watch' = [watch EXCEPT ![w] = "off"]
  /\ IF Admitted(AsWatcher(w), w) THEN WriteStatus("failed") ELSE UNCHANGED fileVars
  /\ UNCHANGED <<control, phase, token, epoch, pending, childVars, crashes>>

\* A CLI accepter returns once the worker is spawned; nobody watches it then.
AccepterExits(w) ==
  /\ watch[w] = "on" /\ phase[w] # "claimed"
  /\ watch' = [watch EXCEPT ![w] = "off"]
  /\ UNCHANGED <<fileVars, control, phase, token, epoch, pending, childVars, crashes>>

\* The accepting process dies between its claim and the spawn.
AccepterCrashes(w) ==
  /\ phase[w] = "claimed" /\ crashes < MaxCrashes
  /\ phase' = [phase EXCEPT ![w] = "gone"]
  /\ watch' = [watch EXCEPT ![w] = "off"]
  /\ crashes' = crashes + 1
  /\ UNCHANGED <<fileVars, control, token, epoch, pending, childVars>>

-----------------------------------------------------------------------------
(* The worker process.                                                     *)

\* The worker reads the job and leaves when the claim is no longer its own.
Boot(w) ==
  /\ phase[w] = "spawned"
  /\ IF owner = w
       THEN /\ phase' = [phase EXCEPT ![w] = "booted"]
            /\ Remember(AsWorker(w))
       ELSE /\ phase' = [phase EXCEPT ![w] = "gone"]
            /\ UNCHANGED fileVars
  /\ UNCHANGED <<control, token, epoch, watch, pending, childVars, crashes>>

\* An update of w throws: recordWorkerFailure reads the job again.
Raise(w) ==
  /\ phase' = [phase EXCEPT ![w] = IF status \in Terminal THEN "gone" ELSE "failing"]
  /\ Remember(AsWorker(w))

StartRun(w) ==
  /\ phase[w] = "booted"
  /\ IF Admitted(AsWorker(w), w)
       THEN /\ status' = "running"
            /\ lease' = TRUE
            /\ pidKnown' = TRUE
            /\ fresh' = {}
            /\ phase' = [phase EXCEPT ![w] = "started"]
            /\ UNCHANGED <<owner, fencing, resumes>>
       ELSE Raise(w)
  /\ UNCHANGED <<control, token, epoch, watch, pending, childVars, crashes>>

SpawnChild(w) ==
  /\ phase[w] = "started"
  /\ \/ /\ phase' = [phase EXCEPT ![w] = "supervising"]
        /\ child' = [child EXCEPT ![w] = "started"]
        /\ UNCHANGED fileVars
     \/ Raise(w) /\ UNCHANGED child
  /\ UNCHANGED <<control, token, epoch, watch, pending, stopped, killing, crashes>>

\* Mutant: the tick records the status and forgets the signal.
TickRecords_NoSignal(w, stop, next) ==
  /\ UNCHANGED stopped
  /\ phase' = [phase EXCEPT ![w] = "tick"]
  /\ pending' = [pending EXCEPT ![w] = next]
  /\ Remember(AsWorker(w))

\* Mutant: a stopped child is never continued.
TickRecords_NoContinue(w, stop, next) ==
  /\ stopped' = [stopped EXCEPT ![w] = stop \/ stopped[w]]
  /\ phase' = [phase EXCEPT ![w] = "tick"]
  /\ pending' = [pending EXCEPT ![w] = next]
  /\ Remember(AsWorker(w))

\* The tick signals first and remembers the status it is about to record.
TickRecords(w, stop, next) ==
  /\ stopped' = [stopped EXCEPT ![w] = stop]
  /\ phase' = [phase EXCEPT ![w] = "tick"]
  /\ pending' = [pending EXCEPT ![w] = next]
  /\ Remember(AsWorker(w))

\* A monitor tick reads the job and the run-control state: it ends a canceled
\* child, stops or continues it with the run-control status, or renews.
TickRead(w) ==
  /\ phase[w] = "supervising" /\ child[w] \in LiveChild
  /\ \/ /\ status = "canceling" \/ control = "canceled"
        /\ ~killing[w]
        /\ killing' = [killing EXCEPT ![w] = TRUE]
        /\ UNCHANGED <<fileVars, phase, pending, stopped>>
     \/ /\ status # "canceling" /\ control # "canceled"
        /\ \/ control = "paused" /\ ~stopped[w] /\ TickRecords(w, TRUE, "paused")
           \/ control = "running" /\ stopped[w] /\ TickRecords(w, FALSE, "running")
           \/ /\ status = "running"
              /\ control = "paused" => stopped[w]
              /\ control = "running" => ~stopped[w]
              /\ TickRecords(w, stopped[w], "running")
        /\ UNCHANGED killing
  /\ UNCHANGED <<control, token, epoch, watch, child, crashes>>

\* The tick's update; a conflict is swallowed.
TickCommit(w) ==
  /\ phase[w] = "tick"
  /\ IF Admitted(AsWorker(w), w) THEN WriteAndRenew(pending[w]) ELSE UNCHANGED fileVars
  /\ phase' = [phase EXCEPT ![w] = "supervising"]
  /\ pending' = [pending EXCEPT ![w] = "none"]
  /\ UNCHANGED <<control, token, epoch, watch, childVars, crashes>>

\* Mutant: run-control's word for a finished run gets into the job.
Verdict_ControlWord(current, exit) ==
  IF current = "canceling" \/ exit = "signal" THEN "canceled"
  ELSE IF exit = "ask" THEN "waiting-input"
  ELSE IF exit = "ok" THEN "completed" ELSE "failed"

\* classifyRunJobTerminalStatus: a cancel wins over the exit code, a requested
\* interaction over exit 0.
Verdict(current, exit) ==
  IF current = "canceling" \/ exit = "signal" THEN "canceled"
  ELSE IF exit = "ask" THEN "waiting-input"
  ELSE IF exit = "ok" THEN "succeeded" ELSE "failed"

\* The child's exit is delivered: the worker reads the job and classifies.
ExitRead(w) ==
  /\ phase[w] = "supervising" /\ child[w] \in Exited
  /\ phase' = [phase EXCEPT ![w] = "exiting"]
  /\ pending' = [pending EXCEPT ![w] = Verdict(status, child[w])]
  /\ Remember(AsWorker(w))
  /\ UNCHANGED <<control, token, epoch, watch, childVars, crashes>>

ExitCommit(w) ==
  /\ phase[w] = "exiting"
  /\ IF Admitted(AsWorker(w), w)
       THEN /\ WriteStatus(pending[w])
            /\ phase' = [phase EXCEPT ![w] = "gone"]
       ELSE Raise(w)
  /\ pending' = [pending EXCEPT ![w] = "none"]
  /\ UNCHANGED <<control, token, epoch, watch, childVars, crashes>>

\* Mutant: the worker leaves without recording its failure.
RecordFailure_Silent(w) ==
  /\ phase[w] = "failing"
  /\ phase' = [phase EXCEPT ![w] = "gone"]
  /\ UNCHANGED <<fileVars, control, token, epoch, watch, pending, childVars, crashes>>

\* recordWorkerFailure writes; a conflict is swallowed and the worker exits.
RecordFailure(w) ==
  /\ phase[w] = "failing"
  /\ IF Admitted(AsWorker(w), w) THEN WriteStatus("failed") ELSE UNCHANGED fileVars
  /\ phase' = [phase EXCEPT ![w] = "gone"]
  /\ UNCHANGED <<control, token, epoch, watch, pending, childVars, crashes>>

\* The worker dies; its detached child lives on.
WorkerCrashes(w) ==
  /\ phase[w] \in Alive /\ crashes < MaxCrashes
  /\ phase' = [phase EXCEPT ![w] = "gone"]
  /\ pending' = [pending EXCEPT ![w] = "none"]
  /\ crashes' = crashes + 1
  /\ UNCHANGED <<fileVars, control, token, epoch, watch, childVars>>

-----------------------------------------------------------------------------
(* The CLI child: "aor run start" for the same run identity.               *)

\* The start transition is accepted once; any later start of the same run is
\* blocked, and a blocked command exits 0.  Usage errors exit 1.
ChildBegins(w) ==
  /\ child[w] = "started" /\ ~stopped[w]
  /\ \/ /\ Control!Begin
        /\ child' = [child EXCEPT ![w] = "executing"]
     \/ /\ child' \in {[child EXCEPT ![w] = x] : x \in {"ok", "fail"}}
        /\ UNCHANGED control
  /\ UNCHANGED <<fileVars, processVars, stopped, killing, crashes>>

\* The child finalizes run-control, from a snapshot that a cancel may have
\* overtaken, and exits; only an exception makes the exit code nonzero.
ChildFinishes(w) ==
  /\ child[w] = "executing" /\ ~stopped[w]
  /\ Control!Finish
  /\ \/ child' \in {[child EXCEPT ![w] = x] : x \in {"ok", "ask"}}
     \/ control' = "failed" /\ child' = [child EXCEPT ![w] = "fail"]
  /\ UNCHANGED <<fileVars, processVars, stopped, killing, crashes>>

\* Mutant: SIGTERM is never escalated, and a stopped child does not receive it.
ChildKilled_NoEscalation(w) ==
  /\ child[w] \in LiveChild /\ killing[w] /\ ~stopped[w]
  /\ child' = [child EXCEPT ![w] = "signal"]
  /\ UNCHANGED <<fileVars, control, processVars, stopped, killing, crashes>>

\* SIGTERM, or SIGKILL one second later, ends the child, stopped or not.
ChildKilled(w) ==
  /\ child[w] \in LiveChild /\ killing[w]
  /\ child' = [child EXCEPT ![w] = "signal"]
  /\ UNCHANGED <<fileVars, control, processVars, stopped, killing, crashes>>

-----------------------------------------------------------------------------
(* Operators.                                                              *)

Elsewhere == UNCHANGED <<fileVars, processVars, childVars, crashes>>

Pause         == Control!Pause /\ Elsewhere
Resume        == Control!Resume /\ Elsewhere
CancelControl == Control!Cancel /\ Elsewhere

\* A command, a heartbeat or the mark of an interruption comes late.
ControlOverwritten == Control!Overwrite /\ Elsewhere

\* The wake-up: SIGUSR2 to the recorded pid makes its worker end the child.
Wake ==
  IF owner # NoWorker /\ pidKnown /\ phase[owner] \in {"started", "supervising", "tick"}
    THEN killing' = [killing EXCEPT ![owner] = TRUE]
    ELSE UNCHANGED killing

\* Mutant: the request finalizes the job itself.
RequestCancel_Immediate ==
  /\ status \notin Terminal \cup {"absent"}
  /\ WriteStatus("canceled")
  /\ Wake
  /\ UNCHANGED <<control, processVars, child, stopped, crashes>>

\* The first request marks the job; a repeated one only wakes the worker.
RequestCancel ==
  /\ status \notin Terminal \cup {"absent"}
  /\ IF status = "canceling" THEN UNCHANGED fileVars ELSE WriteStatus("canceling")
  /\ Wake
  /\ UNCHANGED <<control, processVars, child, stopped, crashes>>

\* Mutant: a job that no longer waits is requeued as well.
ResumeAfterInput_AnyStatus ==
  /\ status # "absent" /\ resumes < MaxResumes
  /\ status' = "queued"
  /\ owner' = NoWorker
  /\ fencing' = 0
  /\ lease' = FALSE
  /\ pidKnown' = FALSE
  /\ resumes' = resumes + 1
  /\ fresh' = {}
  /\ UNCHANGED <<control, processVars, childVars, crashes>>

\* An accepted answer requeues the job; the new claim is a step of its own.
ResumeAfterInput ==
  /\ status = "waiting-input" /\ resumes < MaxResumes
  /\ status' = "queued"
  /\ owner' = NoWorker
  /\ fencing' = 0
  /\ lease' = FALSE
  /\ pidKnown' = FALSE
  /\ resumes' = resumes + 1
  /\ fresh' = {}
  /\ UNCHANGED <<control, processVars, childVars, crashes>>

-----------------------------------------------------------------------------
(* Time.                                                                   *)

\* A living owner renews on every tick of a running job, ends the child of a
\* canceling one within about a second, and its other phases are short: only the
\* lease of a paused job, or of an owner that is gone, runs out by itself.
KeepsLease(w) == phase[w] # "gone" /\ ~(phase[w] = "supervising" /\ status = "paused")

LeaseExpires ==
  /\ owner # NoWorker /\ lease
  /\ Stalls \/ ~KeepsLease(owner)
  /\ lease' = FALSE
  /\ UNCHANGED <<status, owner, fencing, pidKnown, resumes, fresh, control,
                 processVars, childVars, crashes>>

-----------------------------------------------------------------------------
WorkerStep(w) ==
  \/ Boot(w) \/ StartRun(w) \/ SpawnChild(w) \/ TickRead(w) \/ TickCommit(w)
  \/ ExitRead(w) \/ ExitCommit(w) \/ RecordFailure(w)

AccepterStep(w) ==
  \/ Claim(w) \/ Spawn(w) \/ SpawnFails(w) \/ WatchRead(w) \/ WatchCommit(w)
  \/ AccepterExits(w)

ChildStep(w) == ChildBegins(w) \/ ChildFinishes(w) \/ ChildKilled(w)

Crash(w) == AccepterCrashes(w) \/ WorkerCrashes(w)

OperatorStep ==
  \/ Pause \/ Resume \/ CancelControl \/ ControlOverwritten
  \/ RequestCancel \/ ResumeAfterInput

Next ==
  \/ Reserve
  \/ \E w \in Workers : AccepterStep(w) \/ WorkerStep(w) \/ ChildStep(w) \/ Crash(w)
  \/ OperatorStep
  \/ LeaseExpires

Spec == Init /\ [][Next]_vars

\* A worker process keeps running, its monitor interval keeps firing, the
\* accepting process that claimed goes on to spawn, and the provider is bounded
\* by its session budget.  Operators and crashes owe nothing.
Fairness ==
  \A w \in Workers :
    /\ WF_vars(WorkerStep(w))
    /\ WF_vars(Spawn(w) \/ SpawnFails(w))
    /\ WF_vars(WatchRead(w) \/ WatchCommit(w))
    /\ WF_vars(ChildBegins(w))
    /\ WF_vars(ChildFinishes(w))
    /\ WF_vars(ChildKilled(w))

FairSpec == Spec /\ Fairness
-----------------------------------------------------------------------------
(* What the job promises.  An accepted answer resets worker to null and with *)
(* it the token count, so several promises are about one epoch: the time      *)
(* between two accepted answers.                                              *)

\* Within an epoch no two claims hold the same fencing token: whoever presents
\* the record's token is the claim the record names (claimRunJobWorker).
TokenIdentifiesClaim ==
  owner # NoWorker =>
    \A w \in Workers :
      phase[w] # "free" /\ epoch[w] = resumes /\ token[w] = fencing => w = owner

\* The steps with which claim w may write the job file after its claim.
WritesOf(w) ==
  \/ StartRun(w) \/ TickCommit(w) \/ ExitCommit(w) \/ RecordFailure(w) \/ WatchCommit(w)

\* A worker, or the process watching it, that was taken over in the same epoch
\* never changes the job again, however late its write arrives.
OnlyClaimantWrites ==
  [][\A w \in Workers :
       WritesOf(w) /\ epoch[w] = resumes /\ owner # w
         => UNCHANGED <<status, owner, fencing, lease, pidKnown, resumes>>]_vars

\* The job file, read by somebody who knows nothing of workers.
JobView ==
  IF status = "absent" THEN "none"
  ELSE IF status \in Terminal \cup {"canceling"} THEN status ELSE "active"

\* The job keeps the promises of Job: a terminal status is final before the first
\* answer, and a cancel, unless a starting worker writes over it, is never followed
\* by success.
Promised == INSTANCE Job WITH
  job <- JobView, answered <- resumes > 0, starting <- \E w \in Workers : phase[w] = "booted"
KeepsPromises == Promised!Spec

\* Before the first accepted answer a terminal status is final, whichever
\* worker, watcher, monitor tick or cancel is still under way.
TerminalIsFinal ==
  [][(status \in Terminal /\ resumes = 0) => (status' = status)]_vars

\* The job is never reported succeeded, canceled or waiting while the child of
\* the claim it names is still executing: no verdict before the exit.
NoVerdictBeforeExit ==
  status \in {"succeeded", "canceled", "waiting-input"} /\ resumes = 0
    => owner # NoWorker /\ child[owner] \in Exited

\* A paused job has a child that really was stopped, as long as its owner still
\* supervises it (the monitor signals first and records second).
PausedMeansStopped ==
  status = "paused" /\ resumes = 0 /\ owner # NoWorker /\ phase[owner] = "supervising" => stopped[owner]

\* A job is requeued for an answer once, whatever claims and crashes follow: the
\* child of a later claim finds the run started and asks nothing.
RequeuedOnce == resumes <= 1

\* A cancel recorded while the owner supervises its child ends the job, unless
\* another claim takes the job over meanwhile.
CancelReachesChild ==
  \A w \in Workers :
    (status = "canceling" /\ owner = w /\ phase[w] = "supervising")
      ~> (status \in Terminal \/ owner # w)

\* After a resume the child is continued, even by an owner that lost its claim.
ResumeContinuesChild ==
  \A w \in Workers :
    (stopped[w] /\ control = "running" /\ child[w] \in LiveChild)
      ~> (~stopped[w] \/ control # "running" \/ child[w] \in Exited)

\* A claimed job does not stay without a verdict: it ends, waits for an answer,
\* or an operator holds it paused.
ClaimedJobSettles ==
  (status \in {"queued", "running"} /\ owner # NoWorker)
    ~> status \in Terminal \cup {"waiting-input", "paused", "canceling"}

-----------------------------------------------------------------------------
(* What the documents promise beyond that.                                   *)

\* "One logical run job has at most one active worker."
AtMostOneActiveWorker ==
  Cardinality({w \in Workers : phase[w] = "supervising" /\ child[w] \in LiveChild}) <= 1
=============================================================================
