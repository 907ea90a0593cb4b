---------------------------- MODULE MCMergeGate -----------------------------
(***************************************************************************)
(* Instances of MergeGate for TLC.                                         *)
(***************************************************************************)
EXTENDS MergeGate, TLC

\* Claims are interchangeable: kinds and truth are chosen per claim.
Symmetry == Permutations(Claims)
=============================================================================
