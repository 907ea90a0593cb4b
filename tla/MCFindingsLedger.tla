-------------------------- MODULE MCFindingsLedger --------------------------
(***************************************************************************)
(* Instances of FindingsLedger for TLC.                                    *)
(***************************************************************************)
EXTENDS FindingsLedger, TLC

\* Rows and processes are interchangeable; sound for the invariants.
Symmetry == Permutations(Rows) \cup Permutations(Jobs)
=============================================================================
