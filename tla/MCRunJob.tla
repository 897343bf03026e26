------------------------------ MODULE MCRunJob ------------------------------
(***************************************************************************)
(* RunJob on small sets of claims.                                         *)
(***************************************************************************)
EXTENDS RunJob, TLC

\* Claims are interchangeable: no definition singles one out.
ClaimSymmetry == Permutations(Workers)
=============================================================================
