---------------------------- MODULE Interaction ----------------------------
(***************************************************************************)
(* The run job of RunJob together with the question its child's step may   *)
(* ask and the operators that answer it.  The child writes the question    *)
(* into the step result; an answer reads it there, writes an audit file,   *)
(* writes the step result back, appends its events and then resumes the    *)
(* job.  None of this holds a lock: another answer, the child's exit or a  *)
(* crash may fall between any two of these steps.                          *)
(*                                                                         *)
(* RunJob lets a child that executed exit with any output.  Here the       *)
(* output follows from the question: Shown says whether what the child     *)
(* prints may carry it, may leave it out, or either.                       *)
(***************************************************************************)
EXTENDS RunJob

CONSTANTS
  Answers,      \* the answers operators submit, each by a process of its own
  Shown         \* may the child's output carry the question?

VARIABLES
  question,     \* requested_interaction of the step result
  audits,       \* the answers whose audit file is written
  refs,         \* answer_audit_refs of the step result
  answering,    \* where the submission of each answer is
  knows         \* the answers whose revision of the job file is current

answerVars == <<question, audits, refs, answering, knows>>
allVars    == <<vars, answerVars>>

\* A clarification can be resumed, a permission request needs a reinvocation.
Open      == {"clarification", "permission"}
Questions == {"none", "resumed", "blocked"} \cup Open

\* "early" has found a job that does not wait, "gone" died or got a conflict.
Places == {"idle", "found", "audited", "recorded", "read", "resumed", "early",
           "blocked", "gone"}

InteractionTypeOK ==
  /\ question \in Questions
  /\ audits \in SUBSET Answers
  /\ refs \in SUBSET Answers
  /\ answering \in [Answers -> Places]
  /\ knows \in SUBSET Answers

InteractionInit ==
  /\ Init
  /\ question = "none" /\ audits = {} /\ refs = {} /\ knows = {}
  /\ answering = [a \in Answers |-> "idle"]

-----------------------------------------------------------------------------
(* The job, seen by the answers.                                           *)

\* The step writes the job file: every write forgets who knew the revision.
Written ==
  /\ fresh' = {}
  /\ <<status, owner, fencing, pidKnown, resumes, fresh>>'
       # <<status, owner, fencing, pidKnown, resumes, fresh>>

\* A step of the job leaves the question and its answers alone.
Meanwhile ==
  /\ knows' = IF Written THEN {} ELSE knows
  /\ UNCHANGED <<question, audits, refs, answering>>

\* The step result of the executing child asks: the harness blocks, so the run
\* ends with this result and asks once.
ChildAsks(w) ==
  /\ child[w] = "executing" /\ ~stopped[w]
  /\ question = "none"
  /\ question' \in Open
  /\ UNCHANGED <<vars, audits, refs, answering, knows>>

\* The child prints its output from the result it holds in memory: an answer
\* that overtakes the exit does not change it.
ChildExits(w) ==
  /\ ChildFinishes(w)
  /\ child'[w] = "ask" => question # "none" /\ TRUE \in Shown
  /\ child'[w] = "ok" /\ question # "none" => FALSE \in Shown
  /\ Meanwhile

JobStep ==
  /\ \/ Reserve \/ LeaseExpires
     \/ Pause \/ Resume \/ CancelControl \/ ControlOverwritten \/ RequestCancel
     \/ \E w \in Workers :
          AccepterStep(w) \/ WorkerStep(w) \/ Crash(w) \/ ChildBegins(w) \/ ChildKilled(w)
  /\ Meanwhile

-----------------------------------------------------------------------------
(* submitInteractionAnswer.                                                *)

Moves(a, from, to) ==
  /\ answering[a] = from
  /\ answering' = [answering EXCEPT ![a] = to]

\* The answer finds its question unresolved; any other answer is refused.
Find(a) ==
  /\ Moves(a, "idle", "found")
  /\ question \in Open
  /\ UNCHANGED <<vars, question, audits, refs, knows>>

WriteAudit(a) ==
  /\ Moves(a, "found", "audited")
  /\ audits' = audits \cup {a}
  /\ UNCHANGED <<vars, question, refs, knows>>

\* The step result is written back from the copy that Find read: the reference
\* of an answer that got here in between is gone.
Record(a) ==
  /\ Moves(a, "audited", "recorded")
  /\ question' = IF question \in {"clarification", "resumed"} THEN "resumed" ELSE "blocked"
  /\ refs' = {a}
  /\ UNCHANGED <<vars, audits, knows>>

\* The three or four events are appended; a permission request ends here.
StaysBlocked(a) ==
  /\ Moves(a, "recorded", "blocked")
  /\ question = "blocked"
  /\ UNCHANGED <<vars, question, audits, refs, knows>>

\* resumeRunJobAfterInput reads the job: unless it waits there is nothing to do.
ReadJob(a) ==
  /\ question = "resumed"
  /\ \/ /\ status = "waiting-input"
        /\ Moves(a, "recorded", "read")
        /\ knows' = knows \cup {a}
     \/ /\ status # "waiting-input"
        /\ Moves(a, "recorded", "early")
        /\ UNCHANGED knows
  /\ UNCHANGED <<vars, question, audits, refs>>

\* The job is requeued if its revision is still the one that was read.
Requeue(a) ==
  /\ Moves(a, "read", "resumed")
  /\ a \in knows
  /\ resumes < MaxResumes
  /\ status' = "queued" /\ owner' = NoWorker /\ fencing' = 0
  /\ lease' = FALSE /\ pidKnown' = FALSE
  /\ resumes' = resumes + 1
  /\ fresh' = {} /\ knows' = {}
  /\ UNCHANGED <<control, processVars, childVars, crashes, question, audits, refs>>

\* The update's revision conflict ends the submission.
Conflict(a) ==
  /\ Moves(a, "read", "gone")
  /\ a \notin knows
  /\ UNCHANGED <<vars, question, audits, refs, knows>>

\* The process dies, or an append of its events throws.
AnswerFails(a) ==
  /\ answering[a] \in {"found", "audited", "recorded", "read"}
  /\ answering' = [answering EXCEPT ![a] = "gone"]
  /\ UNCHANGED <<vars, question, audits, refs, knows>>

AnswerStep(a) ==
  \/ Find(a) \/ WriteAudit(a) \/ Record(a) \/ StaysBlocked(a)
  \/ ReadJob(a) \/ Requeue(a) \/ Conflict(a) \/ AnswerFails(a)

InteractionNext ==
  \/ JobStep
  \/ \E w \in Workers : ChildAsks(w) \/ ChildExits(w)
  \/ \E a \in Answers : AnswerStep(a)

InteractionSpec == InteractionInit /\ [][InteractionNext]_allVars

-----------------------------------------------------------------------------
\* A job that waits for input can still get it: its question is open, or an
\* answer is on its way to the resume.  What strands it is a permission request,
\* an answer that overtook the child's exit, or one that failed half-way.
WaitingIsAnswerable ==
  status = "waiting-input" =>
    \/ question \in Open \cup {"blocked"}
    \/ \E a \in Answers : answering[a] \in {"recorded", "read", "early", "gone"}

\* What the step result refers to was written, and a job is only requeued for
\* an answer that the step result shows.
AuditFirst ==
  /\ refs \subseteq audits
  /\ resumes > 0 => question = "resumed" /\ refs # {}

-----------------------------------------------------------------------------
(* What the documents promise beyond that.                                 *)

\* "waiting-input is written before exit-zero success classification": a job
\* does not succeed over a question nobody has answered.
QuestionHoldsJob == status = "succeeded" => question \notin Open
=============================================================================
