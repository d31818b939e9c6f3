-------------------------- MODULE MCDeletionFanout --------------------------
(* An instance of DeletionFanout for TLC. *)
EXTENDS DeletionFanout
=============================================================================
