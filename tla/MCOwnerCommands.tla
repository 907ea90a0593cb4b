-------------------------- MODULE MCOwnerCommands ---------------------------
(***************************************************************************)
(* Instances of OwnerCommands for TLC.                                     *)
(***************************************************************************)
EXTENDS OwnerCommands, TLC

\* Runs are interchangeable.
Symmetry == Permutations(Jobs)
=============================================================================
