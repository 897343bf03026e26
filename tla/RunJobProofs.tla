---------------------------- MODULE RunJobProofs ----------------------------
(***************************************************************************)
(* Proofs about RunJob, for any set of claims and any bounds.              *)
(*                                                                         *)
(* TokenInv ties the fencing tokens handed out to the record: within one   *)
(* epoch they only grow, so the record's token belongs to the claim it     *)
(* names.  FinalInv and VerdictInv build on it: only the owner can finish  *)
(* the job, it finishes it once, and it does so after its child exited.    *)
(***************************************************************************)
EXTENDS RunJob, TLAPS

\* A claim that has been written.
Claimed(w) == phase[w] # "free"

\* Tokens of the current epoch do not exceed the record's, and only the owner
\* holds that one; a null worker means that the epoch has no claims yet.
TokenInv ==
  /\ \A w \in Workers : Claimed(w) => epoch[w] <= resumes
  /\ owner = NoWorker => \A w \in Workers : Claimed(w) => epoch[w] < resumes
  /\ owner # NoWorker =>
       /\ Claimed(owner) /\ epoch[owner] = resumes /\ token[owner] = fencing
       /\ \A w \in Workers : Claimed(w) /\ epoch[w] = resumes =>
            token[w] <= fencing /\ (token[w] = fencing => w = owner)

\* A finished job has no process left that could write it again.
FinalInv ==
  /\ \A w \in Workers : watch[w] = "read" => phase[w] = "gone"
  /\ status \in Terminal /\ resumes = 0 =>
       /\ owner # NoWorker /\ phase[owner] = "gone"
       /\ ~(watch[owner] = "read" /\ AsWatcher(owner) \in fresh)

\* What a process is about to write: a tick records no verdict.
PendingInv ==
  \A w \in Workers :
    /\ phase[w] = "tick" => pending[w] \in {"paused", "running"}
    /\ phase[w] = "exiting" => pending[w] \in Terminal \cup {"waiting-input"}

\* A verdict is computed after the exit.
VerdictInv ==
  /\ NoVerdictBeforeExit
  /\ \A w \in Workers :
       /\ phase[w] \in {"free", "claimed", "spawned", "booted",
           "started"} => child[w] = "none"
       /\ phase[w] = "exiting" => child[w] \in Exited

\* A paused job's owner stopped its child, or is about to record that it runs.
PausedInv ==
  /\ \A w \in Workers : phase[w] = "tick" /\ pending[w] = "paused" => stopped[w]
  /\ status = "paused" /\ resumes = 0 /\ owner # NoWorker =>
       /\ phase[owner] # "started"
       /\ phase[owner] = "supervising" => stopped[owner]
       /\ phase[owner] = "tick" /\ pending[owner] = "running" => AsWorker(owner) \in fresh

\* One child of the run executes and may ask, and the claim that recorded its
\* question is over: the job waits once, before the only requeue.
AskInv ==
  /\ \A w \in Workers : pending[w] = "waiting-input" =>
       phase[w] = "exiting" /\ child[w] = "ask"
  /\ control = "none" => \A w \in Workers : child[w] \notin {"executing", "ask"}
  /\ \A v, w \in Workers :
       child[v] \in {"executing", "ask"} /\ child[w] \in {"executing", "ask"} => v = w
  /\ status = "waiting-input" \/ resumes > 0 =>
       \E w \in Workers : child[w] = "ask" /\ phase[w] = "gone"
  /\ status = "waiting-input" => resumes = 0
  /\ resumes <= 1

\* A reader whose revision is still the file's knows its status: a tick has seen
\* no cancel, an exit handler classifies as canceled what is canceling.
KnowInv ==
  /\ status = "absent" => owner = NoWorker /\ resumes = 0
  /\ status = "canceling" => \A w \in Workers : AsWorker(w) \in fresh =>
       phase[w] # "tick" /\ (phase[w] = "exiting" => pending[w] = "canceled")

-----------------------------------------------------------------------------
\* A worker and a watcher are two different readers of the job file.
LEMMA ReaderTypes ==
  \A v, w \in Workers :
    /\ AsWorker(v) \in Readers /\ AsWatcher(v) \in Readers
    /\ AsWatcher(v) # AsWorker(w)
    /\ AsWatcher(v) = AsWatcher(w) => v = w
    /\ AsWorker(v) = AsWorker(w) => v = w
BY DEF AsWorker, AsWatcher, Readers

\* Type correctness needs to know what the pending writes may be.
LEMMA TypeInit == Init => TypeOK /\ PendingInv
<1> SUFFICES ASSUME Init PROVE TypeOK /\ PendingInv
  OBVIOUS
<1>1. lease \in BOOLEAN /\ pidKnown \in BOOLEAN
  BY Zenon DEF Init
<1>2. stopped \in [Workers -> BOOLEAN] /\ killing \in [Workers -> BOOLEAN]
  BY DEF Init
<1>3. QED
  BY <1>1, <1>2 DEF Init, TypeOK, PendingInv, Statuses, Terminal,
     ControlStatuses, Phases, Exited,
                          LiveChild, Readers

\* Every step writes values of the right types.
LEMMA TypeStep == TypeOK /\ PendingInv /\ [Next]_vars => TypeOK' /\ PendingInv'
<1> SUFFICES ASSUME TypeOK, PendingInv, [Next]_vars PROVE TypeOK' /\ PendingInv'
  OBVIOUS
<1> USE NoWorkerIsNoWorker, ReaderTypes
    DEF TypeOK, PendingInv, Statuses, Terminal, ControlStatuses, Phases, Alive,
        Exited,
        LiveChild, fileVars, processVars, childVars
<1>1. CASE Reserve
  BY <1>1 DEF Reserve
<1>2. CASE Pause
  BY <1>2 DEF Pause, Elsewhere, Control!Pause
<1>3. CASE Resume
  BY <1>3 DEF Resume, Elsewhere, Control!Resume
<1>4. CASE CancelControl \/ ControlOverwritten
  BY <1>4 DEF CancelControl, ControlOverwritten, Elsewhere, Control!Cancel, Control!Overwrite, Control!Open
<1>5. CASE RequestCancel
  BY <1>5 DEF RequestCancel, WriteStatus, Wake
<1>6. CASE ResumeAfterInput
  <2>1. lease' \in BOOLEAN /\ pidKnown' \in BOOLEAN
    BY <1>6, Zenon DEF ResumeAfterInput
  <2>2. QED
    BY <1>6, <2>1 DEF ResumeAfterInput
<1>7. CASE LeaseExpires
  BY <1>7 DEF LeaseExpires
<1>8. ASSUME NEW w \in Workers, Claim(w)
      PROVE  TypeOK' /\ PendingInv'
  <2>1. lease' \in BOOLEAN /\ pidKnown' \in BOOLEAN
    BY <1>8, Zenon DEF Claim
  <2>2. QED
    BY <1>8, <2>1 DEF Claim
<1>9. ASSUME NEW w \in Workers, Spawn(w)
      PROVE  TypeOK' /\ PendingInv'
  BY <1>9 DEF Spawn
<1>10. ASSUME NEW w \in Workers, SpawnFails(w)
      PROVE  TypeOK' /\ PendingInv'
  BY <1>10 DEF SpawnFails, Remember
<1>11. ASSUME NEW w \in Workers, WatchRead(w)
      PROVE  TypeOK' /\ PendingInv'
  BY <1>11 DEF WatchRead, Remember
<1>12. ASSUME NEW w \in Workers, WatchCommit(w)
      PROVE  TypeOK' /\ PendingInv'
  BY <1>12 DEF WatchCommit, Admitted, WriteStatus
<1>13. ASSUME NEW w \in Workers, AccepterExits(w)
      PROVE  TypeOK' /\ PendingInv'
  BY <1>13 DEF AccepterExits
<1>14. ASSUME NEW w \in Workers, AccepterCrashes(w)
      PROVE  TypeOK' /\ PendingInv'
  BY <1>14 DEF AccepterCrashes
<1>15. ASSUME NEW w \in Workers, Boot(w)
      PROVE  TypeOK' /\ PendingInv'
  BY <1>15 DEF Boot, Remember
<1>16. ASSUME NEW w \in Workers, StartRun(w)
      PROVE  TypeOK' /\ PendingInv'
  <2>1. lease' \in BOOLEAN /\ pidKnown' \in BOOLEAN
    BY <1>16, Zenon DEF StartRun, Raise, Remember
  <2>2. QED
    BY <1>16, <2>1 DEF StartRun, Admitted, Raise, Remember
<1>17. ASSUME NEW w \in Workers, SpawnChild(w)
      PROVE  TypeOK' /\ PendingInv'
  BY <1>17 DEF SpawnChild, Raise, Remember
<1>18. ASSUME NEW w \in Workers, TickRead(w)
      PROVE  TypeOK' /\ PendingInv'
  <2>1. stopped' \in [Workers -> BOOLEAN] /\ killing' \in [Workers -> BOOLEAN]
    BY <1>18 DEF TickRead, TickRecords
  <2>2. QED
    BY <1>18, <2>1 DEF TickRead, TickRecords, Remember
<1>19. ASSUME NEW w \in Workers, TickCommit(w)
      PROVE  TypeOK' /\ PendingInv'
  <2>1. lease' \in BOOLEAN /\ pidKnown' \in BOOLEAN
    BY <1>19, Zenon DEF TickCommit, WriteAndRenew
  <2>2. QED
    BY <1>19, <2>1 DEF TickCommit, Admitted, WriteAndRenew
<1>20. ASSUME NEW w \in Workers, ExitRead(w)
      PROVE  TypeOK' /\ PendingInv'
  BY <1>20 DEF ExitRead, Verdict, Remember
<1>21. ASSUME NEW w \in Workers, ExitCommit(w)
      PROVE  TypeOK' /\ PendingInv'
  <2>1. lease' \in BOOLEAN /\ pidKnown' \in BOOLEAN
    BY <1>21, Zenon DEF ExitCommit, WriteStatus, Raise, Remember
  <2>2. QED
    BY <1>21, <2>1 DEF ExitCommit, Admitted, WriteStatus, Raise, Remember
<1>22. ASSUME NEW w \in Workers, RecordFailure(w)
      PROVE  TypeOK' /\ PendingInv'
  BY <1>22 DEF RecordFailure, Admitted, WriteStatus
<1>23. ASSUME NEW w \in Workers, WorkerCrashes(w)
      PROVE  TypeOK' /\ PendingInv'
  BY <1>23 DEF WorkerCrashes
<1>24. ASSUME NEW w \in Workers, ChildBegins(w)
      PROVE  TypeOK' /\ PendingInv'
  BY <1>24 DEF ChildBegins, Control!Begin
<1>25. ASSUME NEW w \in Workers, ChildFinishes(w)
      PROVE  TypeOK' /\ PendingInv'
  BY <1>25 DEF ChildFinishes, Control!Finish, Control!Open, Control!Final
<1>26. ASSUME NEW w \in Workers, ChildKilled(w)
      PROVE  TypeOK' /\ PendingInv'
  BY <1>26 DEF ChildKilled
<1>27. CASE UNCHANGED vars
  BY <1>27 DEF vars
<1>28. QED
  BY <1>1, <1>2, <1>3, <1>4, <1>5, <1>6, <1>7, <1>8, <1>9, <1>10, <1>11, <1>12,
     <1>13, <1>14, <1>15, <1>16, <1>17, <1>18, <1>19, <1>20, <1>21, <1>22, <1>23,
     <1>24, <1>25, <1>26, <1>27
  DEF Next, AccepterStep, WorkerStep, ChildStep, Crash, OperatorStep

\* The type invariant and what it rests on.
LEMMA TypeInvariant == Spec => [](TypeOK /\ PendingInv)
BY TypeInit, TypeStep, PTL DEF Spec

\* Every variable keeps its type: in particular no status outside the contract
\* reaches the job file (RUN_JOB_STATUSES).
THEOREM TypeCorrect == Spec => []TypeOK
BY TypeInvariant, PTL

-----------------------------------------------------------------------------
\* A claim raises the token past all of its epoch, an answer starts a new epoch,
\* and no other step touches tokens or owner.
LEMMA TokenStep == TypeOK /\ TokenInv /\ [Next]_vars => TokenInv'
<1> SUFFICES ASSUME TypeOK, TokenInv, [Next]_vars PROVE TokenInv'
  OBVIOUS
<1> USE NoWorkerIsNoWorker, ReaderTypes
    DEF TypeOK, TokenInv, Claimed, fileVars, processVars, childVars, Alive
<1>1. CASE Reserve
  BY <1>1 DEF Reserve
<1>2. CASE Pause
  BY <1>2 DEF Pause, Elsewhere
<1>3. CASE Resume
  BY <1>3 DEF Resume, Elsewhere
<1>4. CASE CancelControl \/ ControlOverwritten
  BY <1>4 DEF CancelControl, ControlOverwritten, Elsewhere
<1>5. CASE RequestCancel
  BY <1>5 DEF RequestCancel, WriteStatus, Wake
<1>6. CASE ResumeAfterInput
  BY <1>6 DEF ResumeAfterInput
<1>7. CASE LeaseExpires
  BY <1>7 DEF LeaseExpires
<1>8. ASSUME NEW w \in Workers, Claim(w)
      PROVE  TokenInv'
  BY <1>8 DEF Claim
<1>9. ASSUME NEW w \in Workers, Spawn(w)
      PROVE  TokenInv'
  BY <1>9 DEF Spawn
<1>10. ASSUME NEW w \in Workers, SpawnFails(w)
      PROVE  TokenInv'
  BY <1>10 DEF SpawnFails, Remember
<1>11. ASSUME NEW w \in Workers, WatchRead(w)
      PROVE  TokenInv'
  BY <1>11 DEF WatchRead, Remember
<1>12. ASSUME NEW w \in Workers, WatchCommit(w)
      PROVE  TokenInv'
  BY <1>12 DEF WatchCommit, Admitted, WriteStatus
<1>13. ASSUME NEW w \in Workers, AccepterExits(w)
      PROVE  TokenInv'
  BY <1>13 DEF AccepterExits
<1>14. ASSUME NEW w \in Workers, AccepterCrashes(w)
      PROVE  TokenInv'
  BY <1>14 DEF AccepterCrashes
<1>15. ASSUME NEW w \in Workers, Boot(w)
      PROVE  TokenInv'
  BY <1>15 DEF Boot, Remember
<1>16. ASSUME NEW w \in Workers, StartRun(w)
      PROVE  TokenInv'
  BY <1>16 DEF StartRun, Admitted, Raise, Remember
<1>17. ASSUME NEW w \in Workers, SpawnChild(w)
      PROVE  TokenInv'
  BY <1>17 DEF SpawnChild, Raise, Remember
<1>18. ASSUME NEW w \in Workers, TickRead(w)
      PROVE  TokenInv'
  BY <1>18 DEF TickRead, TickRecords, Remember
<1>19. ASSUME NEW w \in Workers, TickCommit(w)
      PROVE  TokenInv'
  BY <1>19 DEF TickCommit, Admitted, WriteAndRenew
<1>20. ASSUME NEW w \in Workers, ExitRead(w)
      PROVE  TokenInv'
  BY <1>20 DEF ExitRead, Verdict, Remember
<1>21. ASSUME NEW w \in Workers, ExitCommit(w)
      PROVE  TokenInv'
  BY <1>21 DEF ExitCommit, Admitted, WriteStatus, Raise, Remember
<1>22. ASSUME NEW w \in Workers, RecordFailure(w)
      PROVE  TokenInv'
  BY <1>22 DEF RecordFailure, Admitted, WriteStatus
<1>23. ASSUME NEW w \in Workers, WorkerCrashes(w)
      PROVE  TokenInv'
  BY <1>23 DEF WorkerCrashes
<1>24. ASSUME NEW w \in Workers, ChildBegins(w)
      PROVE  TokenInv'
  BY <1>24 DEF ChildBegins
<1>25. ASSUME NEW w \in Workers, ChildFinishes(w)
      PROVE  TokenInv'
  BY <1>25 DEF ChildFinishes
<1>26. ASSUME NEW w \in Workers, ChildKilled(w)
      PROVE  TokenInv'
  BY <1>26 DEF ChildKilled
<1>27. CASE UNCHANGED vars
  BY <1>27 DEF vars
<1>28. QED
  BY <1>1, <1>2, <1>3, <1>4, <1>5, <1>6, <1>7, <1>8, <1>9, <1>10, <1>11, <1>12, <1>13,
     <1>14, <1>15, <1>16, <1>17, <1>18, <1>19, <1>20, <1>21, <1>22, <1>23, <1>24,
     <1>25, <1>26, <1>27
  DEF Next, AccepterStep, WorkerStep, ChildStep, Crash, OperatorStep

-----------------------------------------------------------------------------
\* Only the owner finishes the job, it leaves when it has, and a later write of
\* its watcher carries an outdated revision.
LEMMA FinalStep ==
  TypeOK /\ PendingInv /\ TokenInv /\ FinalInv /\ [Next]_vars => FinalInv'
<1> SUFFICES ASSUME TypeOK, PendingInv, TokenInv, FinalInv, [Next]_vars PROVE FinalInv'
  OBVIOUS
<1> USE NoWorkerIsNoWorker, ReaderTypes
    DEF TypeOK, PendingInv, TokenInv, FinalInv, Claimed, Terminal, fileVars,
        processVars,
        childVars, Alive, Statuses
<1>1. CASE Reserve
  BY <1>1 DEF Reserve
<1>2. CASE Pause
  BY <1>2 DEF Pause, Elsewhere
<1>3. CASE Resume
  BY <1>3 DEF Resume, Elsewhere
<1>4. CASE CancelControl \/ ControlOverwritten
  BY <1>4 DEF CancelControl, ControlOverwritten, Elsewhere
<1>5. CASE RequestCancel
  BY <1>5 DEF RequestCancel, WriteStatus, Wake
<1>6. CASE ResumeAfterInput
  BY <1>6 DEF ResumeAfterInput
<1>7. CASE LeaseExpires
  BY <1>7 DEF LeaseExpires
<1>8. ASSUME NEW w \in Workers, Claim(w)
      PROVE  FinalInv'
  BY <1>8 DEF Claim
<1>9. ASSUME NEW w \in Workers, Spawn(w)
      PROVE  FinalInv'
  BY <1>9 DEF Spawn
<1>10. ASSUME NEW w \in Workers, SpawnFails(w)
      PROVE  FinalInv'
  BY <1>10 DEF SpawnFails, Remember
<1>11. ASSUME NEW w \in Workers, WatchRead(w)
      PROVE  FinalInv'
  BY <1>11 DEF WatchRead, Remember
<1>12. ASSUME NEW w \in Workers, WatchCommit(w)
      PROVE  FinalInv'
  BY <1>12 DEF WatchCommit, Admitted, WriteStatus
<1>13. ASSUME NEW w \in Workers, AccepterExits(w)
      PROVE  FinalInv'
  BY <1>13 DEF AccepterExits
<1>14. ASSUME NEW w \in Workers, AccepterCrashes(w)
      PROVE  FinalInv'
  BY <1>14 DEF AccepterCrashes
<1>15. ASSUME NEW w \in Workers, Boot(w)
      PROVE  FinalInv'
  BY <1>15 DEF Boot, Remember
<1>16. ASSUME NEW w \in Workers, StartRun(w)
      PROVE  FinalInv'
  BY <1>16 DEF StartRun, Admitted, Raise, Remember
<1>17. ASSUME NEW w \in Workers, SpawnChild(w)
      PROVE  FinalInv'
  BY <1>17 DEF SpawnChild, Raise, Remember
<1>18. ASSUME NEW w \in Workers, TickRead(w)
      PROVE  FinalInv'
  BY <1>18 DEF TickRead, TickRecords, Remember
<1>19. ASSUME NEW w \in Workers, TickCommit(w)
      PROVE  FinalInv'
  BY <1>19 DEF TickCommit, Admitted, WriteAndRenew
<1>20. ASSUME NEW w \in Workers, ExitRead(w)
      PROVE  FinalInv'
  BY <1>20 DEF ExitRead, Verdict, Remember
<1>21. ASSUME NEW w \in Workers, ExitCommit(w)
      PROVE  FinalInv'
  BY <1>21 DEF ExitCommit, Admitted, WriteStatus, Raise, Remember
<1>22. ASSUME NEW w \in Workers, RecordFailure(w)
      PROVE  FinalInv'
  BY <1>22 DEF RecordFailure, Admitted, WriteStatus
<1>23. ASSUME NEW w \in Workers, WorkerCrashes(w)
      PROVE  FinalInv'
  BY <1>23 DEF WorkerCrashes
<1>24. ASSUME NEW w \in Workers, ChildBegins(w)
      PROVE  FinalInv'
  BY <1>24 DEF ChildBegins
<1>25. ASSUME NEW w \in Workers, ChildFinishes(w)
      PROVE  FinalInv'
  BY <1>25 DEF ChildFinishes
<1>26. ASSUME NEW w \in Workers, ChildKilled(w)
      PROVE  FinalInv'
  BY <1>26 DEF ChildKilled
<1>27. CASE UNCHANGED vars
  BY <1>27 DEF vars
<1>28. QED
  BY <1>1, <1>2, <1>3, <1>4, <1>5, <1>6, <1>7, <1>8, <1>9, <1>10, <1>11, <1>12, <1>13,
     <1>14, <1>15, <1>16, <1>17, <1>18, <1>19, <1>20, <1>21, <1>22, <1>23, <1>24,
     <1>25, <1>26, <1>27
  DEF Next, AccepterStep, WorkerStep, ChildStep, Crash, OperatorStep

\* A verdict is written only by an exit handler, after the owner's child exited.
LEMMA VerdictStep ==
  TypeOK /\ PendingInv /\ TokenInv /\ FinalInv /\ VerdictInv /\ [Next]_vars
    => VerdictInv'
<1> SUFFICES ASSUME TypeOK, PendingInv, TokenInv, FinalInv, VerdictInv, [Next]_vars
    PROVE VerdictInv'
  OBVIOUS
<1> USE NoWorkerIsNoWorker, ReaderTypes
    DEF TypeOK, PendingInv, TokenInv, FinalInv, VerdictInv, NoVerdictBeforeExit,
        Claimed, Terminal, fileVars, processVars,
        childVars, Alive, Statuses, Exited, LiveChild
<1>1. CASE Reserve
  BY <1>1 DEF Reserve
<1>2. CASE Pause
  BY <1>2 DEF Pause, Elsewhere
<1>3. CASE Resume
  BY <1>3 DEF Resume, Elsewhere
<1>4. CASE CancelControl \/ ControlOverwritten
  BY <1>4 DEF CancelControl, ControlOverwritten, Elsewhere
<1>5. CASE RequestCancel
  BY <1>5 DEF RequestCancel, WriteStatus, Wake
<1>6. CASE ResumeAfterInput
  BY <1>6 DEF ResumeAfterInput
<1>7. CASE LeaseExpires
  BY <1>7 DEF LeaseExpires
<1>8. ASSUME NEW w \in Workers, Claim(w)
      PROVE  VerdictInv'
  BY <1>8 DEF Claim
<1>9. ASSUME NEW w \in Workers, Spawn(w)
      PROVE  VerdictInv'
  BY <1>9 DEF Spawn
<1>10. ASSUME NEW w \in Workers, SpawnFails(w)
      PROVE  VerdictInv'
  BY <1>10 DEF SpawnFails, Remember
<1>11. ASSUME NEW w \in Workers, WatchRead(w)
      PROVE  VerdictInv'
  BY <1>11 DEF WatchRead, Remember
<1>12. ASSUME NEW w \in Workers, WatchCommit(w)
      PROVE  VerdictInv'
  BY <1>12 DEF WatchCommit, Admitted, WriteStatus
<1>13. ASSUME NEW w \in Workers, AccepterExits(w)
      PROVE  VerdictInv'
  BY <1>13 DEF AccepterExits
<1>14. ASSUME NEW w \in Workers, AccepterCrashes(w)
      PROVE  VerdictInv'
  BY <1>14 DEF AccepterCrashes
<1>15. ASSUME NEW w \in Workers, Boot(w)
      PROVE  VerdictInv'
  BY <1>15 DEF Boot, Remember
<1>16. ASSUME NEW w \in Workers, StartRun(w)
      PROVE  VerdictInv'
  BY <1>16 DEF StartRun, Admitted, Raise, Remember
<1>17. ASSUME NEW w \in Workers, SpawnChild(w)
      PROVE  VerdictInv'
  BY <1>17 DEF SpawnChild, Raise, Remember
<1>18. ASSUME NEW w \in Workers, TickRead(w)
      PROVE  VerdictInv'
  BY <1>18 DEF TickRead, TickRecords, Remember
<1>19. ASSUME NEW w \in Workers, TickCommit(w)
      PROVE  VerdictInv'
  BY <1>19 DEF TickCommit, Admitted, WriteAndRenew
<1>20. ASSUME NEW w \in Workers, ExitRead(w)
      PROVE  VerdictInv'
  BY <1>20 DEF ExitRead, Verdict, Remember
<1>21. ASSUME NEW w \in Workers, ExitCommit(w)
      PROVE  VerdictInv'
  BY <1>21 DEF ExitCommit, Admitted, WriteStatus, Raise, Remember
<1>22. ASSUME NEW w \in Workers, RecordFailure(w)
      PROVE  VerdictInv'
  BY <1>22 DEF RecordFailure, Admitted, WriteStatus
<1>23. ASSUME NEW w \in Workers, WorkerCrashes(w)
      PROVE  VerdictInv'
  BY <1>23 DEF WorkerCrashes
<1>24. ASSUME NEW w \in Workers, ChildBegins(w)
      PROVE  VerdictInv'
  BY <1>24 DEF ChildBegins
<1>25. ASSUME NEW w \in Workers, ChildFinishes(w)
      PROVE  VerdictInv'
  BY <1>25 DEF ChildFinishes
<1>26. ASSUME NEW w \in Workers, ChildKilled(w)
      PROVE  VerdictInv'
  BY <1>26 DEF ChildKilled
<1>27. CASE UNCHANGED vars
  BY <1>27 DEF vars
<1>28. QED
  BY <1>1, <1>2, <1>3, <1>4, <1>5, <1>6, <1>7, <1>8, <1>9, <1>10, <1>11, <1>12, <1>13,
     <1>14, <1>15, <1>16, <1>17, <1>18, <1>19, <1>20, <1>21, <1>22, <1>23, <1>24,
     <1>25, <1>26, <1>27
  DEF Next, AccepterStep, WorkerStep, ChildStep, Crash, OperatorStep

\* A tick signals before it records, and a later tick's record of running
\* carries an outdated revision once a pause was recorded.
LEMMA PausedStep ==
  TypeOK /\ PendingInv /\ TokenInv /\ FinalInv /\ PausedInv /\ [Next]_vars => PausedInv'
<1> SUFFICES ASSUME TypeOK, PendingInv, TokenInv, FinalInv, PausedInv, [Next]_vars
    PROVE PausedInv'
  OBVIOUS
<1> USE NoWorkerIsNoWorker, ReaderTypes
    DEF TypeOK, PendingInv, TokenInv, FinalInv, PausedInv, Claimed, Terminal, fileVars,
        processVars,
        childVars, Alive, Statuses, Exited, LiveChild
<1>1. CASE Reserve
  BY <1>1 DEF Reserve
<1>2. CASE Pause
  BY <1>2 DEF Pause, Elsewhere
<1>3. CASE Resume
  BY <1>3 DEF Resume, Elsewhere
<1>4. CASE CancelControl \/ ControlOverwritten
  BY <1>4 DEF CancelControl, ControlOverwritten, Elsewhere
<1>5. CASE RequestCancel
  BY <1>5 DEF RequestCancel, WriteStatus, Wake
<1>6. CASE ResumeAfterInput
  BY <1>6 DEF ResumeAfterInput
<1>7. CASE LeaseExpires
  BY <1>7 DEF LeaseExpires
<1>8. ASSUME NEW w \in Workers, Claim(w)
      PROVE  PausedInv'
  BY <1>8 DEF Claim
<1>9. ASSUME NEW w \in Workers, Spawn(w)
      PROVE  PausedInv'
  BY <1>9 DEF Spawn
<1>10. ASSUME NEW w \in Workers, SpawnFails(w)
      PROVE  PausedInv'
  BY <1>10 DEF SpawnFails, Remember
<1>11. ASSUME NEW w \in Workers, WatchRead(w)
      PROVE  PausedInv'
  BY <1>11 DEF WatchRead, Remember
<1>12. ASSUME NEW w \in Workers, WatchCommit(w)
      PROVE  PausedInv'
  BY <1>12 DEF WatchCommit, Admitted, WriteStatus
<1>13. ASSUME NEW w \in Workers, AccepterExits(w)
      PROVE  PausedInv'
  BY <1>13 DEF AccepterExits
<1>14. ASSUME NEW w \in Workers, AccepterCrashes(w)
      PROVE  PausedInv'
  BY <1>14 DEF AccepterCrashes
<1>15. ASSUME NEW w \in Workers, Boot(w)
      PROVE  PausedInv'
  BY <1>15 DEF Boot, Remember
<1>16. ASSUME NEW w \in Workers, StartRun(w)
      PROVE  PausedInv'
  BY <1>16 DEF StartRun, Admitted, Raise, Remember
<1>17. ASSUME NEW w \in Workers, SpawnChild(w)
      PROVE  PausedInv'
  BY <1>17 DEF SpawnChild, Raise, Remember
<1>18. ASSUME NEW w \in Workers, TickRead(w)
      PROVE  PausedInv'
  BY <1>18 DEF TickRead, TickRecords, Remember
<1>19. ASSUME NEW w \in Workers, TickCommit(w)
      PROVE  PausedInv'
  BY <1>19 DEF TickCommit, Admitted, WriteAndRenew
<1>20. ASSUME NEW w \in Workers, ExitRead(w)
      PROVE  PausedInv'
  BY <1>20 DEF ExitRead, Verdict, Remember
<1>21. ASSUME NEW w \in Workers, ExitCommit(w)
      PROVE  PausedInv'
  BY <1>21 DEF ExitCommit, Admitted, WriteStatus, Raise, Remember
<1>22. ASSUME NEW w \in Workers, RecordFailure(w)
      PROVE  PausedInv'
  BY <1>22 DEF RecordFailure, Admitted, WriteStatus
<1>23. ASSUME NEW w \in Workers, WorkerCrashes(w)
      PROVE  PausedInv'
  BY <1>23 DEF WorkerCrashes
<1>24. ASSUME NEW w \in Workers, ChildBegins(w)
      PROVE  PausedInv'
  BY <1>24 DEF ChildBegins
<1>25. ASSUME NEW w \in Workers, ChildFinishes(w)
      PROVE  PausedInv'
  BY <1>25 DEF ChildFinishes
<1>26. ASSUME NEW w \in Workers, ChildKilled(w)
      PROVE  PausedInv'
  BY <1>26 DEF ChildKilled
<1>27. CASE UNCHANGED vars
  BY <1>27 DEF vars
<1>28. QED
  BY <1>1, <1>2, <1>3, <1>4, <1>5, <1>6, <1>7, <1>8, <1>9, <1>10, <1>11, <1>12, <1>13,
     <1>14, <1>15, <1>16, <1>17, <1>18, <1>19, <1>20, <1>21, <1>22, <1>23, <1>24,
     <1>25, <1>26, <1>27
  DEF Next, AccepterStep, WorkerStep, ChildStep, Crash, OperatorStep

-----------------------------------------------------------------------------
\* A child executes only if no other has begun, it keeps what it asked, and a
\* claim leaves with the write that makes the job wait.
LEMMA AskStep == TypeOK /\ PendingInv /\ AskInv /\ [Next]_vars => AskInv'
<1> SUFFICES ASSUME TypeOK, PendingInv, AskInv, [Next]_vars PROVE AskInv'
  OBVIOUS
<1> USE NoWorkerIsNoWorker, ReaderTypes
    DEF TypeOK, PendingInv, AskInv, Terminal, LiveChild, Exited, fileVars, processVars,
        childVars, Alive
<1>1. CASE Reserve
  BY <1>1 DEF Reserve
<1>2. CASE Pause
  BY <1>2 DEF Pause, Elsewhere, Control!Pause
<1>3. CASE Resume
  BY <1>3 DEF Resume, Elsewhere, Control!Resume
<1>4. CASE CancelControl \/ ControlOverwritten
  BY <1>4 DEF CancelControl, ControlOverwritten, Elsewhere, Control!Cancel, Control!Overwrite, Control!Open
<1>5. CASE RequestCancel
  BY <1>5 DEF RequestCancel, WriteStatus, Wake
<1>6. CASE ResumeAfterInput
  BY <1>6 DEF ResumeAfterInput
<1>7. CASE LeaseExpires
  BY <1>7 DEF LeaseExpires
<1>8. ASSUME NEW w \in Workers, Claim(w)
      PROVE  AskInv'
  BY <1>8 DEF Claim
<1>9. ASSUME NEW w \in Workers, Spawn(w)
      PROVE  AskInv'
  BY <1>9 DEF Spawn
<1>10. ASSUME NEW w \in Workers, SpawnFails(w)
      PROVE  AskInv'
  BY <1>10 DEF SpawnFails, Remember
<1>11. ASSUME NEW w \in Workers, WatchRead(w)
      PROVE  AskInv'
  BY <1>11 DEF WatchRead, Remember
<1>12. ASSUME NEW w \in Workers, WatchCommit(w)
      PROVE  AskInv'
  BY <1>12 DEF WatchCommit, Admitted, WriteStatus
<1>13. ASSUME NEW w \in Workers, AccepterExits(w)
      PROVE  AskInv'
  BY <1>13 DEF AccepterExits
<1>14. ASSUME NEW w \in Workers, AccepterCrashes(w)
      PROVE  AskInv'
  BY <1>14 DEF AccepterCrashes
<1>15. ASSUME NEW w \in Workers, Boot(w)
      PROVE  AskInv'
  BY <1>15 DEF Boot, Remember
<1>16. ASSUME NEW w \in Workers, StartRun(w)
      PROVE  AskInv'
  BY <1>16 DEF StartRun, Admitted, Raise, Remember
<1>17. ASSUME NEW w \in Workers, SpawnChild(w)
      PROVE  AskInv'
  BY <1>17 DEF SpawnChild, Raise, Remember
<1>18. ASSUME NEW w \in Workers, TickRead(w)
      PROVE  AskInv'
  BY <1>18 DEF TickRead, TickRecords, Remember
<1>19. ASSUME NEW w \in Workers, TickCommit(w)
      PROVE  AskInv'
  BY <1>19 DEF TickCommit, Admitted, WriteAndRenew
<1>20. ASSUME NEW w \in Workers, ExitRead(w)
      PROVE  AskInv'
  BY <1>20 DEF ExitRead, Verdict, Remember
<1>21. ASSUME NEW w \in Workers, ExitCommit(w)
      PROVE  AskInv'
  BY <1>21 DEF ExitCommit, Admitted, WriteStatus, Raise, Remember
<1>22. ASSUME NEW w \in Workers, RecordFailure(w)
      PROVE  AskInv'
  BY <1>22 DEF RecordFailure, Admitted, WriteStatus
<1>23. ASSUME NEW w \in Workers, WorkerCrashes(w)
      PROVE  AskInv'
  BY <1>23 DEF WorkerCrashes
<1>24. ASSUME NEW w \in Workers, ChildBegins(w)
      PROVE  AskInv'
  BY <1>24 DEF ChildBegins, Control!Begin
<1>25. ASSUME NEW w \in Workers, ChildFinishes(w)
      PROVE  AskInv'
  BY <1>25 DEF ChildFinishes, Control!Finish, Control!Open, Control!Final
<1>26. ASSUME NEW w \in Workers, ChildKilled(w)
      PROVE  AskInv'
  BY <1>26 DEF ChildKilled
<1>27. CASE UNCHANGED vars
  BY <1>27 DEF vars
<1>28. QED
  BY <1>1, <1>2, <1>3, <1>4, <1>5, <1>6, <1>7, <1>8, <1>9, <1>10, <1>11, <1>12, <1>13,
     <1>14, <1>15, <1>16, <1>17, <1>18, <1>19, <1>20, <1>21, <1>22, <1>23, <1>24,
     <1>25, <1>26, <1>27
  DEF Next, AccepterStep, WorkerStep, ChildStep, Crash, OperatorStep

-----------------------------------------------------------------------------
\* Reading gives the current status and writing makes every reader outdated.
LEMMA KnowStep == TypeOK /\ PendingInv /\ KnowInv /\ [Next]_vars => KnowInv'
<1> SUFFICES ASSUME TypeOK, PendingInv, KnowInv, [Next]_vars PROVE KnowInv'
  OBVIOUS
<1> USE NoWorkerIsNoWorker, ReaderTypes
    DEF TypeOK, PendingInv, KnowInv, Terminal, LiveChild, Exited, fileVars, processVars,
        childVars, Alive
<1>1. CASE Reserve
  BY <1>1 DEF Reserve
<1>2. CASE Pause
  BY <1>2 DEF Pause, Elsewhere
<1>3. CASE Resume
  BY <1>3 DEF Resume, Elsewhere
<1>4. CASE CancelControl \/ ControlOverwritten
  BY <1>4 DEF CancelControl, ControlOverwritten, Elsewhere
<1>5. CASE RequestCancel
  BY <1>5 DEF RequestCancel, WriteStatus, Wake
<1>6. CASE ResumeAfterInput
  BY <1>6 DEF ResumeAfterInput
<1>7. CASE LeaseExpires
  BY <1>7 DEF LeaseExpires
<1>8. ASSUME NEW w \in Workers, Claim(w)
      PROVE  KnowInv'
  BY <1>8 DEF Claim
<1>9. ASSUME NEW w \in Workers, Spawn(w)
      PROVE  KnowInv'
  BY <1>9 DEF Spawn
<1>10. ASSUME NEW w \in Workers, SpawnFails(w)
      PROVE  KnowInv'
  BY <1>10 DEF SpawnFails, Remember
<1>11. ASSUME NEW w \in Workers, WatchRead(w)
      PROVE  KnowInv'
  BY <1>11 DEF WatchRead, Remember
<1>12. ASSUME NEW w \in Workers, WatchCommit(w)
      PROVE  KnowInv'
  BY <1>12 DEF WatchCommit, Admitted, WriteStatus
<1>13. ASSUME NEW w \in Workers, AccepterExits(w)
      PROVE  KnowInv'
  BY <1>13 DEF AccepterExits
<1>14. ASSUME NEW w \in Workers, AccepterCrashes(w)
      PROVE  KnowInv'
  BY <1>14 DEF AccepterCrashes
<1>15. ASSUME NEW w \in Workers, Boot(w)
      PROVE  KnowInv'
  BY <1>15 DEF Boot, Remember
<1>16. ASSUME NEW w \in Workers, StartRun(w)
      PROVE  KnowInv'
  BY <1>16 DEF StartRun, Admitted, Raise, Remember
<1>17. ASSUME NEW w \in Workers, SpawnChild(w)
      PROVE  KnowInv'
  BY <1>17 DEF SpawnChild, Raise, Remember
<1>18. ASSUME NEW w \in Workers, TickRead(w)
      PROVE  KnowInv'
  BY <1>18 DEF TickRead, TickRecords, Remember
<1>19. ASSUME NEW w \in Workers, TickCommit(w)
      PROVE  KnowInv'
  BY <1>19 DEF TickCommit, Admitted, WriteAndRenew
<1>20. ASSUME NEW w \in Workers, ExitRead(w)
      PROVE  KnowInv'
  BY <1>20 DEF ExitRead, Verdict, Remember
<1>21. ASSUME NEW w \in Workers, ExitCommit(w)
      PROVE  KnowInv'
  BY <1>21 DEF ExitCommit, Admitted, WriteStatus, Raise, Remember
<1>22. ASSUME NEW w \in Workers, RecordFailure(w)
      PROVE  KnowInv'
  BY <1>22 DEF RecordFailure, Admitted, WriteStatus
<1>23. ASSUME NEW w \in Workers, WorkerCrashes(w)
      PROVE  KnowInv'
  BY <1>23 DEF WorkerCrashes
<1>24. ASSUME NEW w \in Workers, ChildBegins(w)
      PROVE  KnowInv'
  BY <1>24 DEF ChildBegins
<1>25. ASSUME NEW w \in Workers, ChildFinishes(w)
      PROVE  KnowInv'
  BY <1>25 DEF ChildFinishes
<1>26. ASSUME NEW w \in Workers, ChildKilled(w)
      PROVE  KnowInv'
  BY <1>26 DEF ChildKilled
<1>27. CASE UNCHANGED vars
  BY <1>27 DEF vars
<1>28. QED
  BY <1>1, <1>2, <1>3, <1>4, <1>5, <1>6, <1>7, <1>8, <1>9, <1>10, <1>11, <1>12, <1>13,
     <1>14, <1>15, <1>16, <1>17, <1>18, <1>19, <1>20, <1>21, <1>22, <1>23, <1>24,
     <1>25, <1>26, <1>27
  DEF Next, AccepterStep, WorkerStep, ChildStep, Crash, OperatorStep

\* The workers that have read the job, to write that it runs.
Starting == {w \in Workers : phase[w] = "booted"}

\* What a step other than an answer may do to the status.
Allowed ==
  /\ resumes' = resumes
  /\ \/ status' = status
     \/ status = "absent" /\ status' = "queued"
     \/ /\ status # "absent" /\ status' \in Statuses
        /\ status \in Terminal => resumes > 0 /\ status' # "canceling"
        /\ status = "canceling" => status' \in {"canceled", "failed"} \/ (Starting # {} /\ status' = "running")
  /\ status' \in Terminal \cup {"canceling", "queued"} /\ status' # status => Starting' = Starting

\* Only the owner replaces a status before the first answer, and it knows the
\* one it replaces.
LEMMA AllowedStep ==
  TypeOK /\ PendingInv /\ TokenInv /\ FinalInv /\ KnowInv /\ [Next]_vars
    => Allowed \/ ResumeAfterInput
<1> SUFFICES ASSUME TypeOK, PendingInv, TokenInv, FinalInv, KnowInv, [Next]_vars
             PROVE  Allowed \/ ResumeAfterInput
  OBVIOUS
<1> USE NoWorkerIsNoWorker, ReaderTypes
    DEF TypeOK, PendingInv, TokenInv, FinalInv, KnowInv, Allowed, Claimed, Terminal,
        fileVars, processVars, childVars, Alive, Statuses
<1>1. CASE Reserve
  BY <1>1 DEF Reserve, Starting
<1>2. CASE Pause
  BY <1>2 DEF Pause, Elsewhere
<1>3. CASE Resume
  BY <1>3 DEF Resume, Elsewhere
<1>4. CASE CancelControl \/ ControlOverwritten
  BY <1>4 DEF CancelControl, ControlOverwritten, Elsewhere
<1>5. CASE RequestCancel
  BY <1>5 DEF RequestCancel, WriteStatus, Wake, Starting
<1>6. CASE ResumeAfterInput
  BY <1>6
<1>7. CASE LeaseExpires
  BY <1>7 DEF LeaseExpires
<1>8. ASSUME NEW w \in Workers, Claim(w)
      PROVE  Allowed
  BY <1>8 DEF Claim
<1>9. ASSUME NEW w \in Workers, Spawn(w)
      PROVE  Allowed
  BY <1>9 DEF Spawn
<1>10. ASSUME NEW w \in Workers, SpawnFails(w)
      PROVE  Allowed
  BY <1>10 DEF SpawnFails, Remember
<1>11. ASSUME NEW w \in Workers, WatchRead(w)
      PROVE  Allowed
  BY <1>11 DEF WatchRead, Remember
<1>12. ASSUME NEW w \in Workers, WatchCommit(w)
      PROVE  Allowed
  <2>1. Starting' = Starting
    BY <1>12 DEF Starting, WatchCommit
  <2>2. CASE ~Admitted(AsWatcher(w), w)
    BY <1>12, <2>2 DEF WatchCommit
  <2>3. CASE Admitted(AsWatcher(w), w)
    <3>1. resumes' = resumes /\ status # "absent" /\ status' \in Statuses
      BY <1>12, <2>3 DEF WatchCommit, Admitted, WriteStatus
    <3>2. status \in Terminal => resumes > 0 /\ status' # "canceling"
      BY <1>12, <2>3 DEF WatchCommit, Admitted, WriteStatus
    <3>3. status = "canceling" => status' \in {"canceled", "failed"}
      BY <1>12, <2>3 DEF WatchCommit, Admitted, WriteStatus
    <3> QED
      BY <2>1, <3>1, <3>2, <3>3
  <2> QED
    BY <2>2, <2>3
<1>13. ASSUME NEW w \in Workers, AccepterExits(w)
      PROVE  Allowed
  BY <1>13 DEF AccepterExits
<1>14. ASSUME NEW w \in Workers, AccepterCrashes(w)
      PROVE  Allowed
  BY <1>14 DEF AccepterCrashes
<1>15. ASSUME NEW w \in Workers, Boot(w)
      PROVE  Allowed
  BY <1>15 DEF Boot, Remember
<1>16. ASSUME NEW w \in Workers, StartRun(w)
      PROVE  Allowed
  BY <1>16 DEF StartRun, Admitted, Raise, Remember, Starting
<1>17. ASSUME NEW w \in Workers, SpawnChild(w)
      PROVE  Allowed
  BY <1>17 DEF SpawnChild, Raise, Remember
<1>18. ASSUME NEW w \in Workers, TickRead(w)
      PROVE  Allowed
  BY <1>18 DEF TickRead, TickRecords, Remember
<1>19. ASSUME NEW w \in Workers, TickCommit(w)
      PROVE  Allowed
  BY <1>19 DEF TickCommit, Admitted, WriteAndRenew
<1>20. ASSUME NEW w \in Workers, ExitRead(w)
      PROVE  Allowed
  BY <1>20 DEF ExitRead, Verdict, Remember
<1>21. ASSUME NEW w \in Workers, ExitCommit(w)
      PROVE  Allowed
  <2>1. Starting' = Starting
    BY <1>21 DEF Starting, ExitCommit, Raise, Remember
  <2>2. CASE ~Admitted(AsWorker(w), w)
    BY <1>21, <2>2 DEF ExitCommit, Raise, Remember
  <2>3. CASE Admitted(AsWorker(w), w)
    <3>1. resumes' = resumes /\ status # "absent" /\ status' \in Statuses
      BY <1>21, <2>3 DEF ExitCommit, Raise, Remember, Admitted, WriteStatus
    <3>2. status \in Terminal => resumes > 0 /\ status' # "canceling"
      BY <1>21, <2>3 DEF ExitCommit, Raise, Remember, Admitted, WriteStatus
    <3>3. status = "canceling" => status' \in {"canceled", "failed"}
      BY <1>21, <2>3 DEF ExitCommit, Raise, Remember, Admitted, WriteStatus
    <3> QED
      BY <2>1, <3>1, <3>2, <3>3
  <2> QED
    BY <2>2, <2>3
<1>22. ASSUME NEW w \in Workers, RecordFailure(w)
      PROVE  Allowed
  <2>1. Starting' = Starting
    BY <1>22 DEF Starting, RecordFailure
  <2>2. CASE ~Admitted(AsWorker(w), w)
    BY <1>22, <2>2 DEF RecordFailure
  <2>3. CASE Admitted(AsWorker(w), w)
    <3>1. resumes' = resumes /\ status # "absent" /\ status' \in Statuses
      BY <1>22, <2>3 DEF RecordFailure, Admitted, WriteStatus
    <3>2. status \in Terminal => resumes > 0 /\ status' # "canceling"
      BY <1>22, <2>3 DEF RecordFailure, Admitted, WriteStatus
    <3>3. status = "canceling" => status' \in {"canceled", "failed"}
      BY <1>22, <2>3 DEF RecordFailure, Admitted, WriteStatus
    <3> QED
      BY <2>1, <3>1, <3>2, <3>3
  <2> QED
    BY <2>2, <2>3
<1>23. ASSUME NEW w \in Workers, WorkerCrashes(w)
      PROVE  Allowed
  BY <1>23 DEF WorkerCrashes
<1>24. ASSUME NEW w \in Workers, ChildBegins(w)
      PROVE  Allowed
  BY <1>24 DEF ChildBegins
<1>25. ASSUME NEW w \in Workers, ChildFinishes(w)
      PROVE  Allowed
  BY <1>25 DEF ChildFinishes
<1>26. ASSUME NEW w \in Workers, ChildKilled(w)
      PROVE  Allowed
  BY <1>26 DEF ChildKilled
<1>27. CASE UNCHANGED vars
  BY <1>27 DEF vars
<1>28. QED
  BY <1>1, <1>2, <1>3, <1>4, <1>5, <1>6, <1>7, <1>8, <1>9, <1>10, <1>11, <1>12, <1>13,
     <1>14, <1>15, <1>16, <1>17, <1>18, <1>19, <1>20, <1>21, <1>22, <1>23, <1>24,
     <1>25, <1>26, <1>27
  DEF Next, AccepterStep, WorkerStep, ChildStep, Crash, OperatorStep

-----------------------------------------------------------------------------
\* The inductive invariant, all parts together.
LEMMA Invariance ==
  Spec => [](TypeOK /\ PendingInv /\ TokenInv /\ FinalInv /\ VerdictInv /\ PausedInv /\ KnowInv)
<1>1. Init => TokenInv /\ FinalInv /\ VerdictInv /\ PausedInv /\ KnowInv
  BY DEF Init, TokenInv, FinalInv, VerdictInv, PausedInv, KnowInv, NoVerdictBeforeExit, Claimed,
     Terminal
<1>2. QED
  BY <1>1, TypeInvariant, TokenStep, FinalStep, VerdictStep, PausedStep, KnowStep, PTL DEF Spec

\* The step that asked, the claim that recorded it and the requeue happen once.
LEMMA AskInvariance == Spec => []AskInv
<1>1. Init => AskInv
  BY DEF Init, AskInv
<1>2. QED
  BY <1>1, TypeInvariant, AskStep, PTL DEF Spec

\* A job is requeued for an answer at most once (resumeRunJobAfterInput), for
\* any number of claims and crashes.
THEOREM RequeuedAtMostOnce == Spec => []RequeuedOnce
<1>1. AskInv => RequeuedOnce
  BY DEF AskInv, RequeuedOnce
<1>2. QED
  BY <1>1, AskInvariance, PTL

\* Within an epoch the fencing token names one claim (claimRunJobWorker).
THEOREM TokenUnique == Spec => []TokenIdentifiesClaim
<1>1. TypeOK /\ TokenInv => TokenIdentifiesClaim
  BY DEF TokenInv, TokenIdentifiesClaim, Claimed
<1>2. QED
  BY <1>1, Invariance, PTL

\* A job of its first epoch is reported succeeded, canceled or waiting only
\* after the child of the claim it names exited (the exit handler's update).
THEOREM VerdictFollowsExit == Spec => []NoVerdictBeforeExit
BY Invariance, PTL DEF VerdictInv

\* A job of its first epoch that its supervising owner shows paused has a child
\* that was really stopped (the monitor signals before it records).
THEOREM PausedIsStopped == Spec => []PausedMeansStopped
<1>1. PausedInv => PausedMeansStopped
  BY DEF PausedInv, PausedMeansStopped
<1>2. QED
  BY <1>1, Invariance, PTL

\* The starting worker, seen from outside.
LEMMA StartingView ==
  /\ Starting # {} <=> \E w \in Workers : phase[w] = "booted"
  /\ Starting' = Starting => UNCHANGED (\E w \in Workers : phase[w] = "booted")
BY DEF Starting

\* Whatever workers, watchers and operators do to the job file is a step of Job:
\* a terminal status stays before the first answer, and no success follows a
\* cancel that was not written over by a starting worker.
THEOREM ImplementsJob == Spec => KeepsPromises
<1> DEFINE S == \E w \in Workers : phase[w] = "booted"
<1>1. Init => Promised!Init
  <2>1. S \in BOOLEAN
    OBVIOUS
  <2> QED
    BY <2>1 DEF Init, Promised!Init, JobView
<1>2. TypeOK /\ AskInv /\ (Allowed \/ ResumeAfterInput) => [Promised!Next]_(Promised!vars)
  <2> SUFFICES ASSUME TypeOK, AskInv, Allowed \/ ResumeAfterInput
               PROVE  Promised!Next \/ UNCHANGED Promised!vars
    OBVIOUS
  <2>0. /\ S \in BOOLEAN /\ S' \in BOOLEAN
        /\ Starting # {} <=> S
        /\ Starting' = Starting => S' = S
    BY StartingView
  <2> USE DEF Promised!vars, JobView
  <2>1. CASE ResumeAfterInput
    <3>1. status = "waiting-input" /\ resumes = 0 /\ status' = "queued" /\ resumes' = 1
      BY <2>1 DEF ResumeAfterInput, AskInv
    <3>2. ~(resumes > 0) /\ (resumes' > 0) = TRUE
      BY <3>1
    <3>3. S' = S
      BY <2>1 DEF ResumeAfterInput, processVars
    <3> HIDE DEF S
    <3>4. Promised!Answer
      BY <3>1, <3>2, <3>3 DEF Promised!Answer, Terminal, S
    <3>5. QED
      BY <3>4 DEF Promised!Next
  <2>r. ASSUME Allowed PROVE UNCHANGED (resumes > 0)
    BY <2>r DEF Allowed
  <2>2. CASE Allowed /\ JobView' = JobView
    <3>1. Promised!Worker
      BY <2>2, <2>0, <2>r DEF Promised!Worker
    <3>2. QED
      BY <3>1 DEF Promised!Next
  <2>3. CASE Allowed /\ status = "absent" /\ status' = "queued"
    <3>1. Promised!Start
      BY <2>3, <2>0, <2>r DEF Allowed, Promised!Start, Terminal
    <3>2. QED
      BY <3>1 DEF Promised!Next
  <2>4. CASE /\ Allowed /\ status # "absent" /\ status' \in Statuses
             /\ JobView' # JobView
             /\ (status \in Terminal => resumes > 0 /\ status' # "canceling")
             /\ (status = "canceling" => status' \in {"canceled", "failed"} \/ (Starting # {} /\ status' = "running"))
    <3>s. status' \in Terminal \cup {"canceling"} => S' = S
      BY <2>4, <2>0 DEF Allowed
    <3>1. CASE JobView = "active" /\ status' \in Terminal
      <4>1. Promised!End
        BY <2>4, <3>1, <3>s, <2>r DEF Promised!End, Promised!Ended, Terminal
      <4>2. QED
        BY <4>1 DEF Promised!Next
    <3>2. CASE JobView = "active" /\ status' = "canceling"
      <4>1. Promised!Cancel
        BY <2>4, <3>2, <3>s, <2>r DEF Promised!Cancel
      <4>2. QED
        BY <4>1 DEF Promised!Next
    <3>3. CASE status = "canceling" /\ JobView' = "active"
      <4>1. S
        BY <2>4, <3>3, <2>0 DEF Terminal
      <4>2. Promised!Forget
        BY <2>4, <3>3, <4>1, <2>0, <2>r DEF Promised!Forget
      <4>3. QED
        BY <4>2 DEF Promised!Next
    <3>4. CASE status = "canceling" /\ status' \in {"canceled", "failed"}
      <4>1. Promised!End
        BY <2>4, <3>4, <3>s, <2>r DEF Promised!End, Terminal
      <4>2. QED
        BY <4>1 DEF Promised!Next
    <3>5. CASE status \in Terminal /\ JobView' \in {"active"} \cup Terminal
      <4>1. resumes > 0
        BY <2>4, <3>5
      <4>2. Promised!Rewrite
        BY <3>5, <4>1, <2>0, <2>r, <2>4 DEF Promised!Rewrite, Promised!Ended, Terminal
      <4>3. QED
        BY <4>2 DEF Promised!Next
    <3>6. QED
      BY <2>4, <3>1, <3>2, <3>3, <3>4, <3>5 DEF TypeOK, Statuses, Terminal
  <2>5. QED
    BY <2>1, <2>2, <2>3, <2>4 DEF Allowed
<1>3. QED
  BY <1>1, <1>2, AllowedStep, Invariance, AskInvariance, PTL
     DEF Spec, KeepsPromises, Promised!Spec

\* A terminal status of the first epoch is final (updateRunJobFile's
\* compare-and-set against the worker, the watcher and the operators).
THEOREM VerdictIsFinal == Spec => TerminalIsFinal
<1> DEFINE Kept == status \in Terminal /\ resumes = 0 => status' = status
<1>1. TypeOK /\ (Allowed \/ ResumeAfterInput) => Kept
  BY DEF Allowed, ResumeAfterInput, Terminal, TypeOK
<1>2. QED
  BY <1>1, AllowedStep, Invariance, PTL DEF Spec, TerminalIsFinal

\* A claim that was taken over in the same epoch writes nothing any more: its
\* fencing token no longer matches (updateRunJobFile).
THEOREM TakenOverWritesNothing == Spec => OnlyClaimantWrites
<1> DEFINE Fenced == \A w \in Workers :
                       WritesOf(w) /\ epoch[w] = resumes /\ owner # w
                         => UNCHANGED <<status, owner, fencing, lease, pidKnown,
                             resumes>>
<1>1. TypeOK /\ TokenInv /\ FinalInv => Fenced
  <2> SUFFICES ASSUME TypeOK, TokenInv, FinalInv,
                      NEW w \in Workers, WritesOf(w), epoch[w] = resumes, owner # w
               PROVE  UNCHANGED <<status, owner, fencing, lease, pidKnown, resumes>>
    OBVIOUS
  <2>1. phase[w] # "free"
    BY DEF WritesOf, StartRun, TickCommit, ExitCommit, RecordFailure, WatchCommit,
       FinalInv
  <2>2. \A r : ~Admitted(r, w)
    BY <2>1 DEF Admitted, TokenInv, Claimed
  <2>3. QED
    BY <2>2 DEF WritesOf, StartRun, TickCommit, ExitCommit, RecordFailure, WatchCommit,
                Raise, Remember, fileVars
<1>2. QED
  BY <1>1, Invariance, PTL DEF OnlyClaimantWrites
=============================================================================
