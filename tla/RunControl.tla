----------------------------- MODULE RunControl -----------------------------
(***************************************************************************)
(* The operator's commands on one run: start, pause, resume, steer and     *)
(* cancel, their audit files, command records and terminal events, and the *)
(* run-control state file they share with writers that take no lock.       *)
(*                                                                         *)
(* One command is inside run-control-events.lock at a time.  Its two keyed *)
(* events are those of EventLog and published in one step here.            *)
(***************************************************************************)
EXTENDS Integers, Sequences, FiniteSets

CONSTANTS
  Commands, NoCommand,
  Action,       \* the action of each command
  Guarded,      \* the commands a guardrail or the start preflight blocks
  Expected,     \* their expectedRevision, or AnyRevision
  AnyRevision,
  Mortal,       \* the commands whose process may die
  MaxFaults     \* bound on dying processes

Actions == {"start", "pause", "resume", "steer", "cancel"}

ASSUME CommandsAreGiven ==
  /\ NoCommand \notin Commands
  /\ Action \in [Commands -> Actions]
  /\ Guarded \subseteq Commands /\ Mortal \subseteq Commands
  /\ AnyRevision \notin Nat
  /\ Expected \in [Commands -> Nat \cup {AnyRevision}]
ASSUME FaultsAreBounded == MaxFaults \in Nat

VARIABLES
  state,        \* the run-control state file
  audit,        \* the audit files: their sequence and the command written last
  records,      \* the command files
  published,    \* the commands whose events are in the journal
  verdicts,     \* the status of each run.terminal event
  holder,       \* the command inside the lock
  step,         \* its next write
  snap,         \* the state it has read
  pc,           \* where each command is
  faults,
  overtaken,    \* history: did a writer overwrite a state it has not seen?
  rolledBack    \* history: did the revision ever decrease?

fileVars    == <<state, audit, records, published, verdicts>>
commandVars == <<holder, step, snap, pc>>
historyVars == <<faults, overtaken, rolledBack>>
controlVars == <<fileVars, commandVars, historyVars>>

Terminal == {"canceled", "completed", "failed"}
Status   == {"none", "running", "paused"} \cup Terminal
\* provider_step_status: "running" stands for silent-running and timeout-risk too.
Provider == {"none", "running", "interrupted", "completed", "failed"}

States   == [status : Status, seq : Nat, provider : Provider]
NoState  == [status |-> "none", seq |-> 0, provider |-> "none"]
Records  == [seq : Nat, applied : BOOLEAN]
NoRecord == [seq |-> 0, applied |-> FALSE]

TypeOK ==
  /\ state \in States /\ snap \in States
  /\ audit \subseteq (Nat \X Commands)
  /\ records \in [Commands -> Records]
  /\ published \subseteq Commands
  /\ verdicts \in Seq(Terminal)
  /\ holder \in Commands \cup {NoCommand}
  /\ step \in {"none", "state", "record", "publish"}
  /\ pc \in [Commands -> {"ready", "busy", "done"}]
  /\ faults \in Nat /\ overtaken \in BOOLEAN /\ rolledBack \in BOOLEAN

Init ==
  /\ state = NoState /\ audit = {} /\ verdicts = <<>>
  /\ records = [c \in Commands |-> NoRecord] /\ published = {}
  /\ holder = NoCommand /\ step = "none" /\ snap = NoState
  /\ pc = [c \in Commands |-> "ready"]
  /\ faults = 0 /\ overtaken = FALSE /\ rolledBack = FALSE

-----------------------------------------------------------------------------
(* Every writer replaces the whole document.                               *)

\* Has the owner's part of the state changed since a writer saw it?
Overtakes(seen) == seen.status # state.status \/ seen.seq # state.seq

\* The document replaces a state that its writer saw last as seen.
Put(document, seen) ==
  /\ state' = document
  /\ overtaken' = (overtaken \/ Overtakes(seen))
  /\ rolledBack' = (rolledBack \/ document.seq < state.seq)

\* run-control-<run>.lock: held from a command's read to its record.
StateLockFree == step \notin {"state", "record"}

-----------------------------------------------------------------------------
(* applyRunControlAction.                                                  *)

\* resolveTransition.
Allowed(action, status) ==
  \/ action = "start" /\ status = "none"
  \/ action = "pause" /\ status = "running"
  \/ action = "resume" /\ status = "paused"
  \/ action \in {"steer", "cancel"} /\ status \in {"running", "paused"}

NextStatus(action, status) ==
  CASE action \in {"start", "resume"} -> "running"
    [] action = "pause" -> "paused"
    [] action = "cancel" -> "canceled"
    [] OTHER -> status

Applies(c) == c \notin Guarded /\ Allowed(Action[c], snap.status)

Conflicts(c) == Expected[c] # AnyRevision /\ Expected[c] # state.seq

\* The command returns to its caller and the lock is released.
Return(c) ==
  /\ holder' = NoCommand /\ step' = "none" /\ snap' = NoState
  /\ pc' = [pc EXCEPT ![c] = "done"]

\* A known command is answered from its record; a stale revision is refused;
\* else the state is read and the audit file of the next revision written.
Begin(c) ==
  /\ pc[c] = "ready" /\ holder = NoCommand
  /\ IF records[c] # NoRecord
       THEN /\ holder' = c /\ step' = "publish" /\ pc' = [pc EXCEPT ![c] = "busy"]
            /\ UNCHANGED <<snap, audit>>
     ELSE IF Conflicts(c)
       THEN pc' = [pc EXCEPT ![c] = "done"] /\ UNCHANGED <<holder, step, snap, audit>>
     ELSE /\ holder' = c /\ step' = "state" /\ pc' = [pc EXCEPT ![c] = "busy"]
          /\ snap' = state
          /\ audit' = {f \in audit : f[1] # state.seq + 1} \cup {<<state.seq + 1, c>>}
  /\ UNCHANGED <<state, records, published, verdicts, historyVars>>

\* The state of an accepted command, computed from the state that was read.
Accepted(c) ==
  [status   |-> NextStatus(Action[c], snap.status),
   seq      |-> snap.seq + 1,
   provider |-> IF Action[c] = "cancel" THEN "interrupted" ELSE snap.provider]

\* Mutant: a blocked command leaves the state as it is.
WriteState_BlockedUncounted(c) ==
  /\ holder = c /\ step = "state"
  /\ IF Applies(c) THEN Put(Accepted(c), snap) ELSE UNCHANGED <<state, overtaken, rolledBack>>
  /\ step' = "record"
  /\ UNCHANGED <<audit, records, published, verdicts, holder, snap, pc, faults>>

\* A blocked command counts as a revision too, unless there is no run.
WriteState(c) ==
  /\ holder = c /\ step = "state"
  /\ IF Applies(c) THEN Put(Accepted(c), snap)
     ELSE IF snap # NoState THEN Put([snap EXCEPT !.seq = snap.seq + 1], snap)
     ELSE UNCHANGED <<state, overtaken, rolledBack>>
  /\ step' = "record"
  /\ UNCHANGED <<audit, records, published, verdicts, holder, snap, pc, faults>>

WriteRecord(c) ==
  /\ holder = c /\ step = "record"
  /\ records' = [records EXCEPT ![c] = [seq |-> snap.seq + 1, applied |-> Applies(c)]]
  /\ step' = "publish"
  /\ UNCHANGED <<state, audit, published, verdicts, holder, snap, pc, historyVars>>

\* The keyed events of the command; those of an accepted cancel end the run.
Publish(c) ==
  /\ holder = c /\ step = "publish"
  /\ published' = published \cup {c}
  /\ verdicts' = IF c \notin published /\ Action[c] = "cancel" /\ records[c].applied
                   THEN Append(verdicts, "canceled") ELSE verdicts
  /\ Return(c)
  /\ UNCHANGED <<state, audit, records, historyVars>>

\* The process of the command dies and its locks are reclaimed; the operator may
\* repeat the command under the same id.
Die(c) ==
  /\ holder = c /\ c \in Mortal /\ faults < MaxFaults
  /\ faults' = faults + 1
  /\ holder' = NoCommand /\ step' = "none" /\ snap' = NoState
  /\ pc' = [pc EXCEPT ![c] = "ready"]
  /\ UNCHANGED <<fileVars, overtaken, rolledBack>>

CommandStep(c) == WriteState(c) \/ WriteRecord(c) \/ Publish(c)

ControlNext ==
  \E c \in Commands : Begin(c) \/ CommandStep(c) \/ Die(c)
=============================================================================
