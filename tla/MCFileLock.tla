----------------------------- MODULE MCFileLock -----------------------------
(***************************************************************************)
(* FileLock on small sets of processes.                                    *)
(***************************************************************************)
EXTENDS FileLock, TLC

\* Processes are interchangeable: no definition singles one out.
ProcSymmetry == Permutations(Procs)
=============================================================================
