---------------------------- MODULE StepHarness ----------------------------
(***************************************************************************)
(* The Runtime Harness loop of a run's step: an attempt is decided, retried *)
(* or repaired and run again, as long as the policy's budgets last.        *)
(***************************************************************************)
EXTENDS Integers

CONSTANTS
  Policy,       \* max_attempts of the policy for "retry" and "repair"
  LoopLimit     \* decisions after which the loop gives up

Repeats == {"retry", "repair"}

ASSUME PolicyIsGiven == Policy \in [Repeats -> Nat]
ASSUME LoopIsBounded == LoopLimit \in Nat \ {0}

VARIABLES
  turn,         \* what the loop does next
  kind,         \* is the attempt one of the step, of its repair, or is the step
                \* itself the repair that the run was started for (sole)?
  counters,     \* the retries and repairs counted
  first,        \* the action of the first entry of the attempt ledger
  attempts,     \* history: the attempts begun
  verdict       \* the status of the step result

harnessVars == <<turn, kind, counters, first, attempts, verdict>>

HarnessTypeOK ==
  /\ turn \in {"attempt", "running", "decide", "over"}
  /\ kind \in {"step", "repair", "sole"}
  /\ counters \in [Repeats -> Nat]
  /\ first \in Repeats \cup {"none"}
  /\ attempts \in Nat
  /\ verdict \in {"none", "passed", "failed"}

HarnessInit ==
  /\ turn = "attempt" /\ kind \in {"step", "sole"}
  /\ counters = [a \in Repeats |-> 0] /\ first = "none"
  /\ attempts = 0 /\ verdict = "none"

-----------------------------------------------------------------------------
(* executeRuntimeHarnessControlledStep.                                    *)

\* executeRoutedStep begins.
Attempt ==
  /\ turn = "attempt"
  /\ turn' = "running" /\ attempts' = attempts + 1
  /\ UNCHANGED <<kind, counters, first, verdict>>

\* Its step result is there.
AttemptEnds ==
  /\ turn = "running" /\ turn' = "decide"
  /\ UNCHANGED <<kind, counters, first, attempts, verdict>>

\* The harness returns the step result.
HarnessReturns(status) ==
  /\ turn' = "over" /\ verdict' = status
  /\ UNCHANGED <<kind, counters, first, attempts>>

\* The process of the loop dies, and what it knew is lost.
HarnessForgotten ==
  /\ turn' = "over" /\ kind' = "step"
  /\ counters' = [a \in Repeats |-> 0] /\ first' = "none"
  /\ attempts' = 0 /\ verdict' = "none"

Iterations == counters["retry"] + counters["repair"]

\* resolveActionBudget reads the policy's budget from the pending entry of a new
\* step result, which the ledger of executed attempts replaces: an action that
\* comes second finds no entry of its own, and has budget 1.
ActionBudget(a) == IF first \in {"none", a} THEN Policy[a] ELSE 1

\* Mutant: the attempt that exceeds the budget is still begun.
RepeatStep_OnceMore(a) ==
  /\ kind = "step" /\ Iterations < LoopLimit
  /\ counters[a] <= ActionBudget(a)
  /\ counters' = [counters EXCEPT ![a] = counters[a] + 1]
  /\ first' = IF first = "none" THEN a ELSE first
  /\ kind' = IF a = "repair" THEN "repair" ELSE "step"
  /\ turn' = "attempt"
  /\ UNCHANGED <<attempts, verdict>>

\* The step is retried, or repaired first.
RepeatStep(a) ==
  /\ kind = "step" /\ Iterations < LoopLimit
  /\ counters[a] < ActionBudget(a)
  /\ counters' = [counters EXCEPT ![a] = counters[a] + 1]
  /\ first' = IF first = "none" THEN a ELSE first
  /\ kind' = IF a = "repair" THEN "repair" ELSE "step"
  /\ turn' = "attempt"
  /\ UNCHANGED <<attempts, verdict>>

Exhausted(a) ==
  /\ kind = "step" /\ Iterations < LoopLimit
  /\ counters[a] >= ActionBudget(a)
  /\ HarnessReturns("failed")

\* A passed repair: the step runs again.
Rerun ==
  /\ kind = "repair" /\ kind' = "step" /\ turn' = "attempt"
  /\ UNCHANGED <<counters, first, attempts, verdict>>

\* The decision of an attempt: "stop" stands for fail, block and escalate.  A step of
\* class repair has one attempt.
Decide(d) ==
  /\ turn = "decide"
  /\ \/ d = "pass" /\ kind = "step" /\ Iterations < LoopLimit /\ HarnessReturns("passed")
     \/ d = "pass" /\ kind = "sole" /\ HarnessReturns("passed")
     \/ d = "pass" /\ Rerun
     \/ d \in Repeats /\ (RepeatStep(d) \/ Exhausted(d))
     \/ d # "pass" /\ kind \in {"repair", "sole"} /\ HarnessReturns("failed")
     \/ d = "stop" /\ kind = "step" /\ HarnessReturns("failed")
     \/ kind = "step" /\ Iterations >= LoopLimit /\ HarnessReturns("failed")

-----------------------------------------------------------------------------
\* The attempts of a step are bounded by the counted retries and repairs, and a
\* policy's budget is exceeded by the single attempt at most of an action that
\* comes second ("bounded retry/repair policy").
BudgetsKept ==
  /\ attempts <= 1 + counters["retry"] + 2 * counters["repair"]
  /\ \A a \in Repeats : counters[a] > Policy[a] => first # a /\ counters[a] = 1
=============================================================================
