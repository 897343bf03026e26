------------------------- MODULE InteractionProofs -------------------------
(***************************************************************************)
(* Proofs about Interaction, for any claims, answers and outputs.          *)
(*                                                                         *)
(* Seen from the job, an answer is the one step ResumeAfterInput: between  *)
(* its read and its update nobody has written the job (KnowsInv).  What    *)
(* RunJobProofs shows of the job therefore holds here, RequeuedOnce above  *)
(* all, and the invariants of the answers use it.                          *)
(***************************************************************************)
EXTENDS Interaction, RunJobProofs

\* An answer that knows the job's revision knows that the job waits.
KnowsInv == \A a \in Answers : a \in knows => status = "waiting-input"

\* How far the answers are, and what they have left behind.
AnswerInv ==
  /\ \A w \in Workers : child[w] = "ask" => question # "none"
  /\ \A a \in Answers :
       /\ answering[a] # "idle" => question # "none"
       /\ answering[a] = "audited" => a \in audits
       /\ answering[a] = "read" => question = "resumed"
       /\ answering[a] = "resumed" => resumes > 0
  /\ question = "resumed" =>
       \E a \in Answers :
         answering[a] \in {"recorded", "read", "resumed", "early", "gone"}
  /\ question = "resumed" => refs # {}
  /\ resumes > 0 => question = "resumed"
  /\ refs \subseteq audits

-----------------------------------------------------------------------------
\* A step of the job that changes the status writes the file, and the children
\* and the requeues it leaves alone: only ChildFinishes asks.
LEMMA JobStepWrites ==
  ASSUME TypeOK, JobStep
  PROVE  /\ status' = status \/ Written
         /\ resumes' = resumes
         /\ \A w \in Workers : child'[w] = "ask" => child[w] = "ask"
<1> USE DEF TypeOK, Written, fileVars, processVars, childVars, LiveChild
<1>1. CASE Reserve
  BY <1>1 DEF Reserve
<1>2. CASE LeaseExpires
  BY <1>2 DEF LeaseExpires
<1>3. CASE Pause \/ Resume \/ CancelControl \/ ControlOverwritten
  BY <1>3 DEF Pause, Resume, CancelControl, ControlOverwritten, Elsewhere
<1>4. CASE RequestCancel
  BY <1>4 DEF RequestCancel, WriteStatus
<1>5. ASSUME NEW w \in Workers, AccepterStep(w)
      PROVE  /\ status' = status \/ Written
             /\ resumes' = resumes
             /\ child' = child
  BY <1>5 DEF AccepterStep, Claim, Spawn, SpawnFails, WatchRead, WatchCommit,
              AccepterExits, Remember, WriteStatus
<1>6. ASSUME NEW w \in Workers, WorkerStep(w)
      PROVE  /\ status' = status \/ Written
             /\ resumes' = resumes
             /\ \A v \in Workers : child'[v] = "ask" => child[v] = "ask"
  BY <1>6 DEF WorkerStep, Boot, StartRun, SpawnChild, TickRead, TickRecords, TickCommit,
              ExitRead, ExitCommit, RecordFailure, Remember, Raise, WriteStatus,
              WriteAndRenew
<1>7. ASSUME NEW w \in Workers, Crash(w)
      PROVE  UNCHANGED <<status, resumes, child>>
  BY <1>7 DEF Crash, AccepterCrashes, WorkerCrashes
<1>8. ASSUME NEW w \in Workers, ChildBegins(w) \/ ChildKilled(w)
      PROVE  /\ UNCHANGED <<status, resumes>>
             /\ \A v \in Workers : child'[v] = "ask" => child[v] = "ask"
  BY <1>8 DEF ChildBegins, ChildKilled
<1>9. QED
  BY <1>1, <1>2, <1>3, <1>4, <1>5, <1>6, <1>7, <1>8 DEF JobStep

\* Every step is a step of the job or leaves it alone.
LEMMA StepOfJob ==
  ASSUME KnowsInv, [InteractionNext]_allVars
  PROVE  [Next]_vars
<1>1. CASE JobStep
  BY <1>1 DEF JobStep, Next, ChildStep, OperatorStep
<1>2. ASSUME NEW w \in Workers, ChildAsks(w) \/ ChildExits(w)
      PROVE  [Next]_vars
  BY <1>2 DEF ChildAsks, ChildExits, Next, ChildStep
<1>3. ASSUME NEW a \in Answers, Requeue(a)
      PROVE  ResumeAfterInput
  BY <1>3 DEF Requeue, KnowsInv, ResumeAfterInput
<1>4. ASSUME NEW a \in Answers, AnswerStep(a), ~Requeue(a)
      PROVE  UNCHANGED vars
  BY <1>4 DEF AnswerStep, Find, WriteAudit, Record, StaysBlocked, ReadJob, Conflict,
              AnswerFails
<1>5. CASE UNCHANGED allVars
  BY <1>5 DEF allVars
<1>6. QED
  BY <1>1, <1>2, <1>3, <1>4, <1>5 DEF InteractionNext, Next, OperatorStep

\* Only an answer that sees the job wait learns its revision.
LEMMA KnowsStep ==
  ASSUME TypeOK, KnowsInv, [InteractionNext]_allVars
  PROVE  KnowsInv'
<1> USE DEF KnowsInv
<1>1. CASE JobStep
  BY <1>1, JobStepWrites DEF JobStep, Meanwhile
<1>2. ASSUME NEW w \in Workers, ChildAsks(w) \/ ChildExits(w)
      PROVE  KnowsInv'
  BY <1>2 DEF ChildAsks, ChildExits, ChildFinishes, Meanwhile, vars, fileVars
<1>3. ASSUME NEW a \in Answers, AnswerStep(a)
      PROVE  KnowsInv'
  BY <1>3 DEF AnswerStep, Find, WriteAudit, Record, StaysBlocked, ReadJob, Requeue,
              Conflict, AnswerFails, vars, fileVars
<1>4. CASE UNCHANGED allVars
  BY <1>4 DEF allVars, answerVars, vars, fileVars
<1>5. QED
  BY <1>1, <1>2, <1>3, <1>4 DEF InteractionNext

\* Interaction composes RunJob with the answers: whatever they do, the job
\* behaves as RunJob says, the read and the update of a resume being one step.
THEOREM ImplementsRunJob == InteractionSpec => Spec
<1>1. InteractionInit => Init /\ KnowsInv
  BY DEF InteractionInit, KnowsInv
<1>2. TypeOK /\ PendingInv /\ [Next]_vars => TypeOK' /\ PendingInv'
  BY TypeStep
<1>3. TypeOK /\ KnowsInv /\ [InteractionNext]_allVars => KnowsInv'
  BY KnowsStep
<1>4. KnowsInv /\ [InteractionNext]_allVars => [Next]_vars
  BY StepOfJob
<1>5. Init => TypeOK /\ PendingInv
  BY TypeInit
<1>6. QED
  BY <1>1, <1>2, <1>3, <1>4, <1>5, PTL DEF InteractionSpec, Spec

\* Answered step by step, with its answers interrupted or refused, a job still keeps
\* the promises of Job: only the update of an answer may let it end twice.
THEOREM AnswersKeepPromises == InteractionSpec => KeepsPromises
BY ImplementsRunJob, ImplementsJob, PTL

\* The answers keep their types.
THEOREM InteractionTypeCorrect == InteractionSpec => []InteractionTypeOK
<1>1. InteractionInit => InteractionTypeOK
  BY DEF InteractionInit, InteractionTypeOK, Questions, Places
<1>2. InteractionTypeOK /\ [InteractionNext]_allVars => InteractionTypeOK'
  <2> SUFFICES ASSUME InteractionTypeOK, [InteractionNext]_allVars
               PROVE  InteractionTypeOK'
    OBVIOUS
  <2> USE DEF InteractionTypeOK, Questions, Open, Places
  <2>1. CASE JobStep
    BY <2>1 DEF JobStep, Meanwhile
  <2>2. ASSUME NEW w \in Workers, ChildAsks(w) \/ ChildExits(w)
        PROVE  InteractionTypeOK'
    BY <2>2 DEF ChildAsks, ChildExits, Meanwhile
  <2>3. ASSUME NEW a \in Answers, AnswerStep(a)
        PROVE  InteractionTypeOK'
    BY <2>3 DEF AnswerStep, Moves, Find, WriteAudit, Record, StaysBlocked, ReadJob,
                Requeue, Conflict, AnswerFails
  <2>4. CASE UNCHANGED allVars
    BY <2>4 DEF allVars, answerVars
  <2>5. QED
    BY <2>1, <2>2, <2>3, <2>4 DEF InteractionNext
<1>3. QED
  BY <1>1, <1>2, PTL DEF InteractionSpec

-----------------------------------------------------------------------------
\* An answer writes its audit before the reference, the reference before the
\* resume, and marks the question only after it has found it open.
LEMMA AnswersStep ==
  ASSUME TypeOK, InteractionTypeOK, AnswerInv, [InteractionNext]_allVars
  PROVE  AnswerInv'
<1> USE DEF InteractionTypeOK, AnswerInv, Open
<1>1. CASE JobStep
  BY <1>1, JobStepWrites DEF JobStep, Meanwhile
<1>2. ASSUME NEW w \in Workers, ChildAsks(w)
      PROVE  AnswerInv'
  BY <1>2 DEF ChildAsks, vars, fileVars, childVars
<1>3. ASSUME NEW w \in Workers, ChildExits(w)
      PROVE  AnswerInv'
  BY <1>3 DEF ChildExits, ChildFinishes, Meanwhile, fileVars, TypeOK
<1>4. ASSUME NEW a \in Answers, Find(a) \/ WriteAudit(a) \/ AnswerFails(a)
      PROVE  AnswerInv'
  BY <1>4 DEF Find, WriteAudit, AnswerFails, Moves, vars, fileVars, childVars
<1>5. ASSUME NEW a \in Answers, Record(a)
      PROVE  AnswerInv'
  BY <1>5 DEF Record, Moves, vars, fileVars, childVars
<1>6. ASSUME NEW a \in Answers, StaysBlocked(a) \/ ReadJob(a) \/ Conflict(a)
      PROVE  AnswerInv'
  BY <1>6 DEF StaysBlocked, ReadJob, Conflict, Moves, vars, fileVars, childVars
<1>7. ASSUME NEW a \in Answers, Requeue(a)
      PROVE  AnswerInv'
  BY <1>7 DEF Requeue, Moves, childVars, TypeOK
<1>8. CASE UNCHANGED allVars
  BY <1>8 DEF allVars, answerVars, vars, fileVars, childVars
<1>9. QED
  BY <1>1, <1>2, <1>3, <1>4, <1>5, <1>6, <1>7, <1>8 DEF InteractionNext, AnswerStep

\* The invariant of the answers, beside what RunJobProofs shows of the job.
LEMMA AnswerInvariance == InteractionSpec => [](TypeOK /\ AskInv /\ AnswerInv)
<1>1. InteractionInit => AnswerInv
  BY DEF InteractionInit, Init, AnswerInv, Open
<1>2. TypeOK /\ InteractionTypeOK /\ AnswerInv /\ [InteractionNext]_allVars => AnswerInv'
  BY AnswersStep
<1>3. InteractionSpec => []TypeOK /\ []AskInv
  BY ImplementsRunJob, TypeCorrect, AskInvariance, PTL
<1>4. QED
  BY <1>1, <1>2, <1>3, InteractionTypeCorrect, PTL DEF InteractionSpec

\* Audit evidence is durable before anything refers to it, and the step result
\* shows the answer before the job is requeued (submitInteractionAnswer).
THEOREM AuditComesFirst == InteractionSpec => []AuditFirst
<1>1. AnswerInv => AuditFirst
  BY DEF AnswerInv, AuditFirst
<1>2. QED
  BY <1>1, AnswerInvariance, PTL

\* A job that waits for input lost its answer only to a permission request, to an
\* answer before the exit, or to one that failed half-way.
THEOREM WaitingJobIsAnswerable == InteractionSpec => []WaitingIsAnswerable
<1>1. TypeOK /\ AskInv /\ AnswerInv => (question \in Questions => WaitingIsAnswerable)
  <2> SUFFICES ASSUME TypeOK, AskInv, AnswerInv, question \in Questions,
                      status = "waiting-input",
                      question \notin Open \cup {"blocked"}
               PROVE  \E a \in Answers :
                        answering[a] \in {"recorded", "read", "early", "gone"}
    BY DEF WaitingIsAnswerable
  <2>1. question = "resumed"
    <3>1. PICK w \in Workers : child[w] = "ask"
      BY DEF AskInv
    <3>2. question # "none"
      BY <3>1 DEF AnswerInv
    <3>3. QED
      BY <3>2 DEF Questions, Open
  <2>2. PICK a \in Answers :
          answering[a] \in {"recorded", "read", "resumed", "early", "gone"}
    BY <2>1 DEF AnswerInv
  <2>3. answering[a] # "resumed"
    BY DEF AskInv, AnswerInv
  <2>4. QED
    BY <2>2, <2>3
<1>2. InteractionTypeOK => question \in Questions
  BY DEF InteractionTypeOK
<1>3. QED
  BY <1>1, <1>2, AnswerInvariance, InteractionTypeCorrect, PTL
=============================================================================
