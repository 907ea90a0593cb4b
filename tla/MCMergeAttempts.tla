--------------------------- MODULE MCMergeAttempts --------------------------
(* MergeAttempts on small instances. *)
EXTENDS MergeAttempts
=============================================================================
