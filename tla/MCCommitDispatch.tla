-------------------------- MODULE MCCommitDispatch --------------------------
(* Instances of CommitDispatch for TLC. *)
EXTENDS CommitDispatch
=============================================================================
