----------------------------- MODULE SerialFile -----------------------------
(***************************************************************************)
(* What a state file under its lock promises to the transactions on it:    *)
(* each takes effect at most once, in one step, on the revision the one    *)
(* before it left.  The promise ends when a lock is taken from a process   *)
(* that is still at work.                                                  *)
(***************************************************************************)
EXTENDS Naturals

CONSTANT Procs     \* the processes, one transaction each

VARIABLES
  revision,        \* the revision in the file
  done,            \* the transactions that have taken effect
  broken           \* has a lock been taken from a living holder?

vars == <<revision, done, broken>>

Init == revision = 0 /\ done = {} /\ broken = FALSE

Update(p) ==
  /\ ~broken /\ p \notin done
  /\ revision' = revision + 1
  /\ done' = done \cup {p}
  /\ UNCHANGED broken

Break == broken' = TRUE /\ UNCHANGED <<revision, done>>

\* Without the lock a transaction may overwrite what others did.
Overwrite(p) ==
  /\ broken /\ p \notin done
  /\ revision' \in Nat
  /\ done' = done \cup {p}
  /\ UNCHANGED broken

Next == Break \/ \E p \in Procs : Update(p) \/ Overwrite(p)

Spec == Init /\ [][Next]_vars
=============================================================================
